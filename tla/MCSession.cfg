\* Two timers, two players; scripts keep no player who leaves. Timers hold players
\* only (MCSessionNumber.cfg has others). Every interval is longer than a frame.
CONSTANTS
    Timer = {t1, t2}
    NoTimer = NoTimer
    Subject = {}
    Delta = {2}
    Interval = {3}
    Repeats = {0}
    Word = 1
    Player = {p1, p2}
    PartTimers = FALSE
SPECIFICATION FairSessionSpec
INVARIANTS
    GonePlayersTimersDie
PROPERTIES
    OthersTimersStay
    DyingLeaves
    FrameReturns
