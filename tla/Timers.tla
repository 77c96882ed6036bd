-------------------------------- MODULE Timers --------------------------------
(***************************************************************************)
(* The timers of the script host: CTimer, and the vector CCore::timers     *)
(* that ProcessTimers walks once per server frame.                         *)
(*                                                                         *)
(* ProcessTimers is re-entrant: the script function a timer calls may      *)
(* create timers (push_back on the vector being walked), delete, stop,     *)
(* start or retime any timer (the one being pulsed included), reload the   *)
(* scripts (DropAllTimers) or kick a player (CancelTimersForPlayer).  The  *)
(* walk is therefore modelled one timer at a time, and the script as an    *)
(* environment that may do any of this between the call and its return.    *)
(*                                                                         *)
(* Script references to a timer that has left the vector are not modelled: *)
(* the strong handle of a TimerEntry keeps a timer of the vector alive,    *)
(* and nothing the host reads can be reached through the others.           *)
(***************************************************************************)
EXTENDS Integers, Sequences, FiniteSets

CONSTANTS
    Timer,     \* CTimer objects (memory is reused once a timer is released)
    Subject,   \* values of the "ID" slot of instances passed as parameters
    Delta,     \* frame lengths, in ms
    Interval,  \* intervals a script may give, in ms
    Repeats,   \* repeat counts a script may give (SQInteger)
    Word,      \* 2^w, w the width of unsigned int
    NoTimer    \* no Pulse is on the stack

ASSUME TimeAssumption ==
    Delta \subseteq Nat /\ Interval \subseteq Nat /\ Repeats \subseteq Nat

ASSUME WordAssumption == Word \in Nat \ {0}

ASSUME NoTimerAssumption == NoTimer \notin Timer

VARIABLES
    timers,    \* CCore::timers, the vector of TimerEntry
    timer,     \* the fields of each CTimer
    pc,        \* what the only thread runs: see PC
    pos,       \* index of the walk
    pTimer,    \* the timer whose Pulse is on the stack
    delta,     \* deltaMs of the current walk
    closing,   \* ~CCore has begun
    \* history
    due,       \* timers of the vector when the walk began, not visited yet
    seen,      \* timers visited in this walk
    doomed,    \* timers already marked dead when the walk began
    asked,     \* repeats the script asked for
    fired      \* calls made so far (counted up to asked + 1)

code == <<timers, timer, pc, pos, pTimer, delta, closing>>
history == <<due, seen, doomed, asked, fired>>
vars == <<timers, timer, pc, pos, pTimer, delta, closing,
          due, seen, doomed, asked, fired>>

PC == {"idle",    \* between two calls of the server into the plugin
       "walk",    \* in the loop of ProcessTimers
       "pulse",   \* in the script function a timer called
       "event",   \* in a script function another server event called
       "closed"}  \* ~CCore is past ProcessTimers

Field == [elapsed  : Nat,
          interval : Nat,
          max      : 0 .. Word - 1,
          pulses   : 0 .. Word - 1,
          paused   : BOOLEAN,
          dying    : BOOLEAN,
          params   : SUBSET Subject]

\* A CTimer as NewTimer leaves it
Created(interval, max, params) ==
    [elapsed |-> 0, interval |-> interval, max |-> max, pulses |-> 0,
     paused |-> FALSE, dying |-> FALSE, params |-> params]

\* No object
Blank == Created(0, 0, {})

InVector == {timers[k] : k \in DOMAIN timers}

-------------------------------------------------------------------------------
Init ==
    /\ timers = <<>>
    /\ timer = [t \in Timer |-> Blank]
    /\ pc = "idle"
    /\ pos = 1
    /\ pTimer = NoTimer
    /\ delta = 0
    /\ closing = FALSE
    /\ due = {} /\ seen = {} /\ doomed = {}
    /\ asked = [t \in Timer |-> 0]
    /\ fired = [t \in Timer |-> 0]

(***************************************************************************)
(* What the script may do while it runs.                                   *)
(***************************************************************************)
ScriptRuns == pc \in {"pulse", "event"}

\* AddTimer
PushFront(s, t) == <<t>> \o s
PushBack(s, t) == Append(s, t)

\* NewTimer(function, interval, repeats, ...): a positive interval and a
\* repeat count that is not negative, else an error is thrown.  The repeat
\* count is narrowed to unsigned int.
NewTimer(t, interval, repeats, params) ==
    /\ ScriptRuns
    /\ t \notin InVector
    /\ interval > 0
    /\ timers' = PushBack(timers, t)
    /\ timer' = [timer EXCEPT ![t] = Created(interval, repeats % Word, params)]
    /\ seen' = seen \ {t}
    /\ doomed' = doomed \ {t}
    /\ asked' = [asked EXCEPT ![t] = repeats]
    /\ fired' = [fired EXCEPT ![t] = 0]
    /\ UNCHANGED <<pc, pos, pTimer, delta, closing, due>>

Mark(dead) ==
    timer' = [t \in Timer |-> IF t \in dead
                              THEN [timer[t] EXCEPT !.dying = TRUE]
                              ELSE timer[t]]

\* timer.Delete()
Delete(t) ==
    /\ ScriptRuns
    /\ t \in InVector
    /\ Mark({t})
    /\ UNCHANGED <<timers, pc, pos, pTimer, delta, closing, history>>

\* timer.Stop(), timer.Start(), timer.Paused = b
SetPaused(t, b) ==
    /\ ScriptRuns
    /\ t \in InVector
    /\ timer' = [timer EXCEPT ![t].paused = b]
    /\ UNCHANGED <<timers, pc, pos, pTimer, delta, closing, history>>

\* timer.Interval = x: unlike NewTimer, nothing is validated
SetInterval(t, x) ==
    /\ ScriptRuns
    /\ t \in InVector
    /\ timer' = [timer EXCEPT ![t].interval = x]
    /\ UNCHANGED <<timers, pc, pos, pTimer, delta, closing, history>>

\* The part of ReloadScripts that concerns timers
DropAllTimers ==
    /\ ScriptRuns
    /\ Mark(InVector)
    /\ UNCHANGED <<timers, pc, pos, pTimer, delta, closing, history>>

\* OnPlayerDisconnect, called by the server between two calls or from within
\* a script function that kicks the player.  Any instance whose "ID" slot
\* holds that number counts, whatever its class.
CancelTimersForPlayer(id) ==
    /\ pc = "idle" \/ ScriptRuns
    /\ Mark({t \in InVector : id \in timer[t].params})
    /\ UNCHANGED <<timers, pc, pos, pTimer, delta, closing, history>>

Script ==
    \/ \E t \in Timer, x \in Interval, n \in Repeats, ps \in SUBSET Subject :
          NewTimer(t, x, n, ps)
    \/ \E t \in Timer : Delete(t)
    \/ \E t \in Timer, b \in BOOLEAN : SetPaused(t, b)
    \/ \E t \in Timer, x \in Interval : SetInterval(t, x)
    \/ DropAllTimers

EventBegins ==
    /\ pc = "idle"
    /\ pc' = "event"
    /\ UNCHANGED <<timers, timer, pos, pTimer, delta, closing, history>>

EventEnds ==
    /\ pc = "event"
    /\ pc' = "idle"
    /\ UNCHANGED <<timers, timer, pos, pTimer, delta, closing, history>>

(***************************************************************************)
(* ProcessTimers.                                                          *)
(***************************************************************************)
StartWalk(d, dead) ==
    /\ pc = "idle"
    /\ pc' = "walk"
    /\ pos' = 1
    /\ delta' = d
    /\ due' = InVector
    /\ seen' = {}
    /\ doomed' = dead
    /\ UNCHANGED <<timers, pTimer, asked, fired>>

OnFrame(d) ==
    /\ StartWalk(d, {t \in InVector : timer[t].dying})
    /\ UNCHANGED <<timer, closing>>

DestroyUnmarked ==
    /\ StartWalk(0, InVector)
    /\ closing' = TRUE
    /\ UNCHANGED timer

\* ~CCore: DropAllTimers(); ProcessTimers(0.0f);
Destroy ==
    /\ StartWalk(0, InVector)
    /\ Mark(InVector)
    /\ closing' = TRUE

AtTimer == pc = "walk" /\ pos <= Len(timers)

Visit(t) ==
    /\ due' = due \ {t}
    /\ seen' = seen \cup {t}
    /\ UNCHANGED <<doomed, asked>>

\* ++i
DoNotAdvance == pos' = pos
Advance == pos' = pos + 1

PopLast(s, p) == SubSeq(s, 1, Len(s) - 1)
KeepEntry(s, p) == s
\* timers[i] = std::move(timers[lastIndex]); timers.pop_back();
SwapRemove(s, p) ==
    [k \in 1 .. Len(s) - 1 |-> IF k = p THEN s[Len(s)] ELSE s[k]]

\* The entry leaves, and with its handle the last reference to the timer: its
\* memory may be that of the next timer.
Release(t) ==
    /\ timers' = SwapRemove(timers, pos)
    /\ timer' = [timer EXCEPT ![t] = Blank]
    /\ asked' = [asked EXCEPT ![t] = 0]
    /\ fired' = [fired EXCEPT ![t] = 0]

DeadAndRunning(t) == timer[t].dying /\ ~timer[t].paused
Dead(t) == timer[t].dying

\* A dead timer leaves whether it is paused or not; the last one takes its
\* place and is visited next.
Reap ==
    /\ AtTimer
    /\ Dead(timers[pos])
    /\ due' = due \ {timers[pos]}
    /\ seen' = seen \cup {timers[pos]}
    /\ Release(timers[pos])
    /\ UNCHANGED <<pc, pos, pTimer, delta, closing, doomed>>

\* A paused timer keeps its elapsed time
SkipPaused ==
    /\ AtTimer
    /\ ~Dead(timers[pos])
    /\ timer[timers[pos]].paused
    /\ Visit(timers[pos])
    /\ Advance
    /\ UNCHANGED <<timers, timer, pc, pTimer, delta, closing, fired>>

Running(t) == ~Dead(t) /\ ~timer[t].paused

Accumulate ==
    /\ AtTimer
    /\ LET t == timers[pos]
           elapsed == timer[t].elapsed + delta
       IN /\ Running(t)
          /\ elapsed < timer[t].interval
          /\ timer' = [timer EXCEPT ![t].elapsed = elapsed]
          /\ Visit(t)
    /\ Advance
    /\ UNCHANGED <<timers, pc, pTimer, delta, closing, fired>>

\* Pulse up to sq_call.  The remainder of the elapsed time is dropped.
Fire ==
    /\ AtTimer
    /\ LET t == timers[pos]
       IN /\ Running(t)
          /\ timer[t].elapsed + delta >= timer[t].interval
          /\ timer' = [timer EXCEPT ![t].elapsed = 0]
          /\ pTimer' = t
          /\ Visit(t)
          /\ fired' = [fired EXCEPT ![t] = IF @ <= asked[t] THEN @ + 1 ELSE @]
    /\ pc' = "pulse"
    /\ UNCHANGED <<timers, pos, delta, closing>>

\* committingSeppuku set by the script during the call is not looked at
NextPulseUnbounded == timer[pTimer].pulses + 1
NextPulse == (timer[pTimer].pulses + 1) % Word
ExhaustedLate == timer[pTimer].max > 0 /\ NextPulse > timer[pTimer].max
Exhausted == timer[pTimer].max > 0 /\ NextPulse >= timer[pTimer].max

PulseContinues ==
    /\ pc = "pulse"
    /\ ~Exhausted
    /\ timer' = [timer EXCEPT ![pTimer].pulses = NextPulse]
    /\ pc' = "walk"
    /\ Advance
    /\ pTimer' = NoTimer
    /\ UNCHANGED <<timers, delta, closing, history>>

\* The timer made its last call, or (catch (...)) its call threw what is
\* neither a Sqrat exception nor a std::exception: Pulse returns true.  After a
\* script error the call counts like any other.
PulseDies ==
    /\ pc = "pulse"
    /\ Release(timers[pos])
    /\ pc' = "walk"
    /\ pTimer' = NoTimer
    /\ UNCHANGED <<pos, delta, closing, due, seen, doomed>>

PulseReturns == PulseContinues \/ PulseDies

WalkEnds ==
    /\ pc = "walk"
    /\ pos > Len(timers)
    /\ pc' = IF closing THEN "closed" ELSE "idle"
    /\ pos' = 1
    /\ delta' = 0
    /\ due' = {} /\ seen' = {} /\ doomed' = {}
    /\ UNCHANGED <<timers, timer, pTimer, closing, asked, fired>>

\* The plugin is unloaded
Terminated ==
    /\ pc = "closed"
    /\ UNCHANGED vars

Walk == Reap \/ SkipPaused \/ Accumulate \/ Fire \/ WalkEnds

Next ==
    \/ Script
    \/ \E id \in Subject : CancelTimersForPlayer(id)
    \/ EventBegins \/ EventEnds
    \/ \E d \in Delta : OnFrame(d)
    \/ Destroy
    \/ Walk
    \/ PulseReturns
    \/ Terminated

Spec == Init /\ [][Next]_vars

-------------------------------------------------------------------------------
TypeOK ==
    /\ timers \in Seq(Timer)
    /\ timer \in [Timer -> Field]
    /\ pc \in PC
    /\ pos \in Nat \ {0}
    /\ pTimer \in Timer \cup {NoTimer}
    /\ delta \in Nat
    /\ closing \in BOOLEAN
    /\ due \in SUBSET Timer /\ seen \in SUBSET Timer /\ doomed \in SUBSET Timer
    /\ asked \in [Timer -> Nat]
    /\ fired \in [Timer -> Nat]

\* While a script function runs, whatever it does to the timers, the entry the
\* walk stands on is still that of the timer that called it: when Pulse returns
\* true the entry ProcessTimers removes, and the timer whose last handle goes
\* with it, is the one that died, and `this` was alive until then.
PulsedInPlace ==
    pc = "pulse" => pos \in DOMAIN timers /\ timers[pos] = pTimer

\* The swap with the last entry and the timers a script adds on the way never
\* bring ProcessTimers back to a timer it has visited in the same frame.
NeverTwice ==
    AtTimer => timers[pos] \notin seen

\* When ProcessTimers returns, it has passed every timer that was in the vector
\* when it began (none is skipped by a removal) and every timer now in it, and
\* no timer that was dead before the frame is left.
WalkComplete ==
    pc = "walk" /\ pos > Len(timers) =>
        /\ due = {}
        /\ InVector \subseteq seen
        /\ doomed \cap InVector = {}

\* A timer created with a positive repeat count is called at most that often,
\* over any number of frames and whatever scripts do with it in between.
RepeatsRespected ==
    \A t \in InVector : asked[t] > 0 => fired[t] <= asked[t]

\* ~CCore runs no script function while it empties the vector, and every timer
\* handle is gone before it closes the virtual machine.
DestroyDrains ==
    /\ closing => pc \in {"walk", "closed"}
    /\ pc = "closed" => timers = <<>>

-------------------------------------------------------------------------------
(* Timers implements Frames: the vector and the index of the walk stand for *)
(* the set of timers and for those of them still ahead.                     *)

InWalk == pc \in {"walk", "pulse"}

\* Entry k is ahead of the walk: its script function has not been called either
Ahead(k) == pos < k \/ (pos = k /\ pc = "walk")

TimersAhead == {timers[k] : k \in {j \in DOMAIN timers : InWalk /\ Ahead(j)}}

DeadTimers == {t \in InVector : timer[t].dying}

\* Calls each timer has left, 0 for ever
CallsLeft ==
    [t \in Timer |-> IF t \in InVector /\ timer[t].max > 0
                     THEN timer[t].max - timer[t].pulses
                     ELSE 0]

FrameState ==
    CASE pc = "walk"   -> IF closing THEN "last" ELSE "frame"
      [] pc = "pulse"  -> "call"
      [] pc = "closed" -> "gone"
      [] OTHER         -> pc

F == INSTANCE Frames WITH
        Count   <- Repeats,
        there   <- InVector,
        dead    <- DeadTimers,
        left    <- CallsLeft,
        ahead   <- TimersAhead,
        calling <- pTimer,
        state   <- FrameState

\* Whatever a script does to the vector while ProcessTimers walks it, a frame
\* looks once at every timer, the new ones included, calls none that is dead
\* when its turn comes and none more often than it was made for, and removes
\* no timer but one that is dead or was just called.
FramesSpec == F!Spec

===============================================================================
