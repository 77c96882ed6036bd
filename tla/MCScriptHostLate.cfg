\* A script function goes on after the ReloadScripts it called.
CONSTANTS
    MaxVM = 3
    MaxDepth = 4
    Late = TRUE
SPECIFICATION Spec
CHECK_DEADLOCK FALSE
INVARIANTS
    TimersCurrent
