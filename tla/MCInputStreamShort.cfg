\* A client sends three bytes and a script reads an integer.
CONSTANTS
    CAP = 9
    RESULT = 9
    MaxUInt16 = 9
    Word = 16
    PacketSize = {3}
    Read = {"int"}
    Position <- MCPosition
    Length = {}
    Early = FALSE
SPECIFICATION Spec
INVARIANTS
    InPacket
