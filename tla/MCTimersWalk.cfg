\* Three timers: the swap with the last entry moves a timer over another one. A
\* timer waits for a frame and is called in the next, a repeat count is below Word.
CONSTANTS
    Timer = {t1, t2, t3}
    NoTimer = NoTimer
    Subject = {p1}
    Delta = {2}
    Interval = {3}
    Repeats = {0, 1}
    Word = 2
SYMMETRY Symmetry
SPECIFICATION Spec
INVARIANTS
    TypeOK
    PulsedInPlace
    NeverTwice
    WalkComplete
    DestroyDrains
PROPERTIES
    FramesSpec
