\* Packets that hold an integer, one of them too large for the buffer; strings
\* that fit, that are cut, and that are longer than their length field can say;
\* the largest buffer that field allows.
\* The server announces no entity before the function that creates it returns.
CONSTANTS
    Kind = {"vehicle", "object"}
    MAX <- MCMAX
    NotifyFirst = {FALSE}
    CAP = 9
    RESULT = 9
    MaxUInt16 = 9
    Word = 16
    PacketSize = {0, 4, 5, 9, 10}
    Read = {"byte", "int", "float", "string"}
    Position <- MCPosition
    Length = {0, 1, 3, 7, 8, 9, 12}
    Early = FALSE
    Amount = {0, 1, 2}
    MaxCalls = 3
    Byte = 4
    Number <- MCNumber
    Reason = {0, 39, 40, 43, 44, 50}
    Part = {0, 7}
    Component = {0, 1}
    Channel = 4
    BitOr <- MCBitOr
    Place <- MCPlace
    Raw <- MCRaw
    Player = {0, 1, 2}
    Polygon <- MCPolygon
    Point <- MCPoint
    MaxPoints = 4
    Spot <- MCSpot
    Figure <- MCFigure
    Original <- MCOriginal
    Target <- MCTarget
    Replacement <- MCReplacement
    Line <- MCLine
    MaxWrites = 2
    Bit = {0, 7, 8, 9}
    Colour = {0, 1}
SPECIFICATION LibrarySpec
INVARIANTS
    NoStaleObject
    Found
    OnlyOurs
    InPacket
    StringsWhole
    InBuffer
    NothingStale
    NothingLost
    NamesLeadBack
    InsideByAnyRay
    OneDistrict
    Formatted
    NoTargetLeft
    Numeric
    HiddenAsAsked
    ArrowOfAll
    InStep
    OutermostWins
    StackKept
    RefusedByFunction
    SwitchesKept
    BodyAsAsked
PROPERTIES
    WorldCleaned
