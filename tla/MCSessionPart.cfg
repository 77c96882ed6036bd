\* onPlayerPart creates a timer with the player who leaves.
CONSTANTS
    Timer = {t1, t2}
    NoTimer = NoTimer
    Subject = {}
    Delta = {2}
    Interval = {2}
    Repeats = {0}
    Word = 1
    Player = {p1, p2}
    PartTimers = TRUE
SYMMETRY Symmetry
SPECIFICATION SessionSpec
INVARIANTS
    GonePlayersTimersDie
