-------------------------------- MODULE Frames --------------------------------
(***************************************************************************)
(* What ProcessTimers promises about timers, whatever the scripts do while *)
(* it runs: a frame looks once at every timer that is there, those made    *)
(* during the frame included, and at no other; a timer that is dead when   *)
(* the frame reaches it leaves and is not called; a timer is called as     *)
(* often as it was made for, then leaves; and the last frame, of ~CCore,   *)
(* calls nothing and leaves nothing.  There is no vector here, no place in *)
(* it, and no order in which timers are looked at.                         *)
(***************************************************************************)
EXTENDS Naturals

CONSTANTS
    Timer,
    Count,    \* how many calls a timer may be made for, 0 for ever
    NoTimer   \* no timer is being called

VARIABLES
    there,    \* the timers there are
    dead,     \* those told to leave
    left,     \* calls each one has left
    ahead,    \* timers the frame has not looked at yet
    calling,  \* the timer whose function runs
    state     \* "idle", "event", "frame", "call", "last" or "gone"

vars == <<there, dead, left, ahead, calling, state>>

Init ==
    /\ there = {} /\ dead = {} /\ ahead = {}
    /\ left = [t \in Timer |-> 0]
    /\ calling = NoTimer
    /\ state = "idle"

\* A script function runs, called by an event or by a timer
Scripts == state \in {"event", "call"}

Create(t, n) ==
    /\ Scripts
    /\ t \notin there
    /\ there' = there \cup {t}
    /\ left' = [left EXCEPT ![t] = n]
    /\ ahead' = IF state = "call" THEN ahead \cup {t} ELSE ahead
    /\ UNCHANGED <<dead, calling, state>>

\* A timer is deleted, its player leaves, or all scripts are loaded again
Kill ==
    /\ state = "idle" \/ Scripts
    /\ dead \subseteq dead' /\ dead' \subseteq there
    /\ UNCHANGED <<there, left, ahead, calling, state>>

EventBegins ==
    /\ state = "idle" /\ state' = "event"
    /\ UNCHANGED <<there, dead, left, ahead, calling>>

EventEnds ==
    /\ state = "event" /\ state' = "idle"
    /\ UNCHANGED <<there, dead, left, ahead, calling>>

FrameBegins ==
    /\ state = "idle" /\ state' = "frame"
    /\ ahead' = there
    /\ UNCHANGED <<there, dead, left, calling>>

\* ~CCore
LastBegins ==
    /\ state = "idle" /\ state' = "last"
    /\ ahead' = there /\ dead' = there
    /\ UNCHANGED <<there, left, calling>>

Gone(t) ==
    /\ there' = there \ {t}
    /\ dead' = dead \ {t}
    /\ left' = [left EXCEPT ![t] = 0]

Leave(t) ==
    /\ state \in {"frame", "last"}
    /\ t \in ahead \cap dead
    /\ Gone(t)
    /\ ahead' = ahead \ {t}
    /\ UNCHANGED <<calling, state>>

\* It is paused, or its time has not come
Pass(t) ==
    /\ state = "frame"
    /\ t \in ahead \ dead
    /\ ahead' = ahead \ {t}
    /\ UNCHANGED <<there, dead, left, calling, state>>

Call(t) ==
    /\ state = "frame" /\ state' = "call"
    /\ t \in ahead \ dead
    /\ ahead' = ahead \ {t}
    /\ calling' = t
    /\ UNCHANGED <<there, dead, left>>

\* The call was one of those the timer has left, not the last one
Return ==
    /\ left[calling] # 1
    /\ left' = [left EXCEPT ![calling] = IF @ = 0 THEN 0 ELSE @ - 1]
    /\ UNCHANGED <<there, dead>>

\* After the last call, or one that ended in a C++ exception of unknown type
ReturnAndLeave == Gone(calling)

Returns ==
    /\ state = "call" /\ state' = "frame"
    /\ Return \/ ReturnAndLeave
    /\ calling' = NoTimer
    /\ UNCHANGED ahead

FrameEnds ==
    /\ ahead = {}
    /\ \/ state = "frame" /\ state' = "idle"
       \/ state = "last" /\ state' = "gone" /\ there = {}
    /\ UNCHANGED <<there, dead, left, ahead, calling>>

Next ==
    \/ \E t \in Timer, n \in Count : Create(t, n)
    \/ Kill
    \/ EventBegins \/ EventEnds
    \/ FrameBegins \/ LastBegins
    \/ \E t \in there : Leave(t) \/ Pass(t) \/ Call(t)
    \/ Returns
    \/ FrameEnds

Spec == Init /\ [][Next]_vars

===============================================================================
