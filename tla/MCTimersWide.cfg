\* A repeat count of the width of unsigned int.
CONSTANTS
    Timer = {t1, t2}
    NoTimer = NoTimer
    Subject = {p1}
    Delta = {2}
    Interval = {1, 3}
    Repeats = {1, 2}
    Word = 2
SYMMETRY Symmetry
SPECIFICATION Spec
INVARIANTS
    RepeatsRespected
