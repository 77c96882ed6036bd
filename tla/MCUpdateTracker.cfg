\* One player, one vehicle id that is used again, and the clock.
CONSTANTS
    Player = {p1}
    Vehicle = {v1}
    Clock = Clock
    Value <- MCValue
    Byte = 256
SPECIFICATION Spec
INVARIANTS
    Chained
    NothingMissed
