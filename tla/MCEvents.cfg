\* A function that fails at every call, until the stack is empty.
CONSTANTS
    Byte = 256
    Number = {1}
    Reason = {0}
    Part = {0}
SPECIFICATION EventsSpec
INVARIANTS
    PopsHeld
