\* A timer holds an instance of something else that has the number of a player.
CONSTANTS
    Timer = {t1, t2}
    NoTimer = NoTimer
    Subject = {p1}
    Delta = {2}
    Interval = {3}
    Repeats = {0}
    Word = 1
    Player = {p1}
    PartTimers = FALSE
SPECIFICATION SessionSpec
PROPERTIES
    OnlyTheirTimers
