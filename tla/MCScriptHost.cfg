\* Two reloads, calls nested four deep.
CONSTANTS
    MaxVM = 3
    MaxDepth = 4
    Late = FALSE
SPECIFICATION Spec
CHECK_DEADLOCK FALSE
INVARIANTS
    LoadsUndisturbed
    PermissionReturns
    OwnScript
    TimersCurrent
PROPERTIES
    LifecycleSpec
