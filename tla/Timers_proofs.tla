---------------------------- MODULE Timers_proofs ----------------------------
(***************************************************************************)
(* Proofs about Timers, for any number of timers, any intervals, frame     *)
(* lengths and repeat counts, and any script.                              *)
(***************************************************************************)
EXTENDS Timers, TLAPS

USE DEF code, history

-------------------------------------------------------------------------------
(* The vector *)

\* Appending a timer keeps the entries before it.
LEMMA PushBackFacts ==
    ASSUME NEW s \in Seq(Timer), NEW t \in Timer
    PROVE  /\ PushBack(s, t) \in Seq(Timer)
           /\ Len(PushBack(s, t)) = Len(s) + 1
           /\ \A k \in 1 .. Len(s) : PushBack(s, t)[k] = s[k]
           /\ PushBack(s, t)[Len(s) + 1] = t
BY DEF PushBack

\* Removing an entry moves the last one into its place and no other.
LEMMA SwapRemoveFacts ==
    ASSUME NEW s \in Seq(Timer), NEW p \in 1 .. Len(s)
    PROVE  /\ SwapRemove(s, p) \in Seq(Timer)
           /\ Len(SwapRemove(s, p)) = Len(s) - 1
           /\ \A k \in 1 .. Len(s) - 1 :
                SwapRemove(s, p)[k] = IF k = p THEN s[Len(s)] ELSE s[k]
<1>1. Len(s) \in Nat /\ Len(s) - 1 \in Nat
    OBVIOUS
<1>2. \A k \in 1 .. Len(s) - 1 : s[k] \in Timer /\ s[Len(s)] \in Timer
    OBVIOUS
<1> DEFINE r == [k \in 1 .. Len(s) - 1 |-> IF k = p THEN s[Len(s)] ELSE s[k]]
<1>3. r \in [1 .. Len(s) - 1 -> Timer]
    BY <1>2
<1>4. r \in Seq(Timer) /\ Len(r) = Len(s) - 1
    BY <1>1, <1>3
<1>5. SwapRemove(s, p) = r
    BY DEF SwapRemove
<1>6. \A k \in 1 .. Len(s) - 1 : r[k] = IF k = p THEN s[Len(s)] ELSE s[k]
    OBVIOUS
<1> HIDE DEF r
<1>7. QED
    BY <1>4, <1>5, <1>6

\* What is left of the vector was in it, elsewhere than at the entry removed.
LEMMA SwapRemoveKeeps ==
    ASSUME NEW s \in Seq(Timer), NEW p \in 1 .. Len(s)
    PROVE  \A k \in DOMAIN SwapRemove(s, p) :
              \E j \in DOMAIN s : j # p /\ SwapRemove(s, p)[k] = s[j]
<1> SUFFICES ASSUME NEW k \in DOMAIN SwapRemove(s, p)
             PROVE  \E j \in DOMAIN s : j # p /\ SwapRemove(s, p)[k] = s[j]
  OBVIOUS
<1>1. k \in 1 .. Len(s) - 1 /\ Len(s) \in Nat
  BY SwapRemoveFacts
<1>2. SwapRemove(s, p)[k] = IF k = p THEN s[Len(s)] ELSE s[k]
  BY <1>1, SwapRemoveFacts
<1>3. CASE k = p
  BY <1>1, <1>2, <1>3
<1>4. CASE k # p
  BY <1>1, <1>2, <1>4
<1>5. QED
  BY <1>3, <1>4

\* A remainder fits the word.
LEMMA ModFacts ==
    ASSUME NEW n \in Nat
    PROVE  /\ n % Word \in 0 .. Word - 1
           /\ n < Word => n % Word = n
BY WordAssumption

-------------------------------------------------------------------------------
(* Types *)

LEMMA BlankType == Blank \in Field
BY WordAssumption DEF Blank, Created, Field

\* Every write the code makes to a field of a timer fits the field.
LEMMA FieldWrites ==
    ASSUME NEW f \in Field
    PROVE  /\ \A n \in Nat : [f EXCEPT !.elapsed = n] \in Field
           /\ \A n \in Nat : [f EXCEPT !.interval = n] \in Field
           /\ \A n \in 0 .. Word - 1 : [f EXCEPT !.pulses = n] \in Field
           /\ \A b \in BOOLEAN : [f EXCEPT !.paused = b] \in Field
BY DEF Field

LEMMA FieldTypes ==
    ASSUME NEW f \in Field
    PROVE  /\ f.elapsed \in Nat /\ f.interval \in Nat
           /\ f.max \in 0 .. Word - 1 /\ f.pulses \in 0 .. Word - 1
           /\ f.paused \in BOOLEAN /\ f.dying \in BOOLEAN
           /\ f.params \in SUBSET Subject
BY DEF Field

\* What NewTimer stores.
LEMMA NewFields ==
    ASSUME NEW x \in Nat, NEW m \in 0 .. Word - 1, NEW ps \in SUBSET Subject
    PROVE  /\ Created(x, m, ps) \in Field
           /\ Created(x, m, ps).max = m
           /\ Created(x, m, ps).pulses = 0
           /\ Created(x, m, ps).dying = FALSE
BY WordAssumption DEF Created, Field

\* Marking timers dead only writes their flag.
LEMMA MarkFacts ==
    ASSUME TypeOK, NEW dead, Mark(dead)
    PROVE  /\ timer' \in [Timer -> Field]
           /\ \A t \in Timer :
                /\ timer'[t].dying = (t \in dead \/ timer[t].dying)
                /\ timer'[t].max = timer[t].max
                /\ timer'[t].pulses = timer[t].pulses
                /\ timer'[t].paused = timer[t].paused
<1>1. timer \in [Timer -> Field]
    BY DEF TypeOK
<1>2. ASSUME NEW t \in Timer
      PROVE  LET m == [timer[t] EXCEPT !.dying = TRUE]
             IN  m \in Field /\ m.dying = TRUE /\ m.max = timer[t].max
                 /\ m.pulses = timer[t].pulses /\ m.paused = timer[t].paused
    BY <1>1 DEF Field
<1>3. QED
    BY <1>1, <1>2 DEF Mark, Field

LEMMA InitType == Init => TypeOK
<1> SUFFICES ASSUME Init PROVE TypeOK
  OBVIOUS
<1>1. timers \in Seq(Timer)
  BY DEF Init
<1>2. timer \in [Timer -> Field]
  BY BlankType DEF Init
<1>3. asked \in [Timer -> Nat] /\ fired \in [Timer -> Nat]
  BY DEF Init
<1>4. pc \in PC /\ pos \in Nat \ {0} /\ closing \in BOOLEAN
  <2>1. pc \in PC
      BY DEF Init, PC
  <2>2. pos \in Nat \ {0}
      BY DEF Init
  <2>3. closing \in BOOLEAN
      BY DEF Init
  <2>4. QED
      BY <2>1, <2>2, <2>3
<1>5. pTimer \in Timer \cup {NoTimer} /\ delta \in Nat
  BY DEF Init
<1>6. due \in SUBSET Timer /\ seen \in SUBSET Timer /\ doomed \in SUBSET Timer
  BY DEF Init
<1>7. QED
  BY <1>1, <1>2, <1>3, <1>4, <1>5, <1>6 DEF TypeOK

\* Pulse writes the fields of a timer and lets go of an entry, so the types
\* depend on the entry being there.
LEMMA TypeStep == TypeOK /\ PulsedInPlace /\ [Next]_vars => TypeOK'
<1> SUFFICES ASSUME TypeOK, PulsedInPlace, [Next]_vars PROVE TypeOK'
  OBVIOUS
<1> USE TimeAssumption, WordAssumption
<1>1. ASSUME NEW t \in Timer, NEW x \in Interval, NEW n \in Repeats,
             NEW ps \in SUBSET Subject, NewTimer(t, x, n, ps)
      PROVE  TypeOK'
  <2>1. n % Word \in 0 .. Word - 1 /\ x \in Nat /\ n \in Nat
      BY ModFacts
  <2>2. Created(x, n % Word, ps) \in Field
      BY <2>1, NewFields
  <2>3. timers' \in Seq(Timer)
      BY <1>1, PushBackFacts DEF NewTimer, TypeOK
  <2>4. QED
      BY <1>1, <2>1, <2>2, <2>3 DEF NewTimer, TypeOK
<1>2. ASSUME NEW t \in Timer, Delete(t) PROVE TypeOK'
  BY <1>2, MarkFacts DEF Delete, TypeOK
<1>3. ASSUME NEW t \in Timer, NEW b \in BOOLEAN, SetPaused(t, b) PROVE TypeOK'
  <2>1. [timer[t] EXCEPT !.paused = b] \in Field
      BY FieldWrites DEF TypeOK
  <2>2. QED
      BY <1>3, <2>1 DEF SetPaused, TypeOK
<1>4. ASSUME NEW t \in Timer, NEW x \in Interval, SetInterval(t, x) PROVE TypeOK'
  <2>1. [timer[t] EXCEPT !.interval = x] \in Field
      BY FieldWrites DEF TypeOK
  <2>2. QED
      BY <1>4, <2>1 DEF SetInterval, TypeOK
<1>5. CASE DropAllTimers
  BY <1>5, MarkFacts DEF DropAllTimers, TypeOK
<1>6. ASSUME NEW id \in Subject, CancelTimersForPlayer(id) PROVE TypeOK'
  <2>1. timer' \in [Timer -> Field]
      BY <1>6, MarkFacts DEF CancelTimersForPlayer
  <2>2. QED
      BY <1>6, <2>1 DEF CancelTimersForPlayer, TypeOK
<1>7. CASE EventBegins
  BY <1>7 DEF EventBegins, TypeOK, PC
<1>8. CASE EventEnds
  BY <1>8 DEF EventEnds, TypeOK, PC
<1>9. ASSUME NEW d \in Delta, OnFrame(d) PROVE TypeOK'
  BY <1>9 DEF OnFrame, StartWalk, InVector, TypeOK, PC
<1>10. CASE Destroy
  <2>1. timer' \in [Timer -> Field]
      BY <1>10, MarkFacts DEF Destroy
  <2>2. QED
      BY <1>10, <2>1 DEF Destroy, StartWalk, InVector, TypeOK, PC
<1>11. CASE Reap
  <2>1. pos \in 1 .. Len(timers)
      BY <1>11 DEF Reap, AtTimer, TypeOK
  <2>2. timers' \in Seq(Timer)
      BY <1>11, <2>1, SwapRemoveFacts DEF Reap, Release, TypeOK
  <2>3. QED
      BY <1>11, <2>1, <2>2, BlankType DEF Reap, Release, TypeOK
<1>12. CASE SkipPaused
  BY <1>12 DEF SkipPaused, AtTimer, Visit, Advance, TypeOK
<1>13. CASE Accumulate
  <2> DEFINE t == timers[pos]
  <2>1. t \in Timer
      BY <1>13 DEF Accumulate, AtTimer, TypeOK
  <2>2. [timer[t] EXCEPT !.elapsed = timer[t].elapsed + delta] \in Field
    <3>1. timer[t] \in Field /\ delta \in Nat
      BY <2>1 DEF TypeOK
    <3>2. QED
      <4>1. timer[t].elapsed + delta \in Nat
          BY <3>1, FieldTypes
      <4>2. QED
          BY <3>1, <4>1, FieldWrites
  <2>3. timer' \in [Timer -> Field]
      BY <1>13, <2>1, <2>2 DEF Accumulate, TypeOK
  <2>4. QED
      BY <1>13, <2>1, <2>3 DEF Accumulate, AtTimer, Visit, Advance, TypeOK
<1>14. CASE Fire
  <2> DEFINE t == timers[pos]
  <2>1. t \in Timer
      BY <1>14 DEF Fire, AtTimer, TypeOK
  <2>2. [timer[t] EXCEPT !.elapsed = 0] \in Field
      BY <2>1, FieldWrites DEF TypeOK
  <2>3. timer' \in [Timer -> Field]
      BY <1>14, <2>1, <2>2 DEF Fire, TypeOK
  <2>4. QED
      BY <1>14, <2>1, <2>3 DEF Fire, AtTimer, Visit, TypeOK, PC
<1>15. CASE PulseContinues
  <2>1. timer' \in [Timer -> Field]
    <3>1. ASSUME pTimer \in Timer
          PROVE  [timer[pTimer] EXCEPT !.pulses = NextPulse] \in Field
      <4>1. timer[pTimer] \in Field
          BY <3>1 DEF TypeOK
      <4>2. timer[pTimer].pulses + 1 \in Nat
          BY <4>1, FieldTypes
      <4>3. NextPulse \in 0 .. Word - 1
          BY <4>2, ModFacts DEF NextPulse
      <4>4. QED
          BY <4>1, <4>3, FieldWrites
    <3>2. QED
      BY <1>15, <3>1, NoTimerAssumption DEF PulseContinues, TypeOK
  <2>2. QED
      BY <1>15, <2>1 DEF PulseContinues, Advance, TypeOK, PC
<1>16. CASE PulseDies
  <2>1. pos \in 1 .. Len(timers)
      BY <1>16 DEF PulseDies, PulsedInPlace, TypeOK
  <2>2. timers' \in Seq(Timer)
      BY <1>16, <2>1, SwapRemoveFacts DEF PulseDies, Release, TypeOK
  <2>3. QED
      BY <1>16, <2>1, <2>2, BlankType DEF PulseDies, Release, TypeOK, PC
<1>17. CASE WalkEnds
  BY <1>17 DEF WalkEnds, TypeOK, PC
<1>18. CASE Terminated
  BY <1>18 DEF Terminated, vars, TypeOK
<1>19. CASE UNCHANGED vars
  BY <1>19 DEF vars, TypeOK
<1>20. QED
  BY <1>1, <1>2, <1>3, <1>4, <1>5, <1>6, <1>7, <1>8, <1>9, <1>10, <1>11,
     <1>12, <1>13, <1>14, <1>15, <1>16, <1>17, <1>18, <1>19
     DEF Next, Script, Walk, PulseReturns

\* A script function only appends to the vector it was called from.
LEMMA PulsedStep == TypeOK /\ PulsedInPlace /\ [Next]_vars => PulsedInPlace'
<1> SUFFICES ASSUME TypeOK, PulsedInPlace, [Next]_vars PROVE PulsedInPlace'
  OBVIOUS
<1>1. ASSUME NEW t \in Timer, NEW x \in Interval, NEW n \in Repeats,
             NEW ps \in SUBSET Subject, NewTimer(t, x, n, ps)
      PROVE  PulsedInPlace'
  <2>1. timers' = PushBack(timers, t) /\ pc' = pc /\ pos' = pos /\ pTimer' = pTimer
    BY <1>1 DEF NewTimer
  <2>2. /\ timers \in Seq(Timer) /\ timers' \in Seq(Timer)
        /\ Len(timers') = Len(timers) + 1
        /\ \A k \in 1 .. Len(timers) : timers'[k] = timers[k]
    BY <2>1, PushBackFacts DEF TypeOK
  <2>3. QED
    BY <2>1, <2>2 DEF PulsedInPlace
<1>2. ASSUME timers' = timers, pc' = pc, pos' = pos, pTimer' = pTimer
      PROVE  PulsedInPlace'
  BY <1>2 DEF PulsedInPlace
<1>3. ASSUME NEW t \in Timer, Delete(t) PROVE PulsedInPlace'
  BY <1>2, <1>3 DEF Delete
<1>4. ASSUME NEW t \in Timer, NEW b \in BOOLEAN, SetPaused(t, b)
      PROVE  PulsedInPlace'
  BY <1>2, <1>4 DEF SetPaused
<1>5. ASSUME NEW t \in Timer, NEW x \in Interval, SetInterval(t, x)
      PROVE  PulsedInPlace'
  BY <1>2, <1>5 DEF SetInterval
<1>6. CASE DropAllTimers
  BY <1>2, <1>6 DEF DropAllTimers
<1>7. ASSUME NEW id \in Subject, CancelTimersForPlayer(id) PROVE PulsedInPlace'
  BY <1>2, <1>7 DEF CancelTimersForPlayer
<1>8. CASE Fire
  BY <1>8 DEF Fire, AtTimer, PulsedInPlace, TypeOK
<1>9. ASSUME pc' # "pulse" PROVE PulsedInPlace'
  BY <1>9 DEF PulsedInPlace
<1>10. CASE EventBegins \/ EventEnds \/ Destroy \/ \E d \in Delta : OnFrame(d)
  BY <1>9, <1>10 DEF EventBegins, EventEnds, Destroy, OnFrame, StartWalk
<1>11. CASE Reap \/ SkipPaused \/ Accumulate \/ WalkEnds
  BY <1>9, <1>11 DEF Reap, SkipPaused, Accumulate, WalkEnds, AtTimer
<1>12. CASE PulseReturns
  BY <1>9, <1>12 DEF PulseReturns, PulseContinues, PulseDies
<1>13. CASE Terminated \/ UNCHANGED vars
  BY <1>2, <1>13 DEF Terminated, vars
<1>14. QED
  BY <1>1, <1>3, <1>4, <1>5, <1>6, <1>7, <1>8, <1>10, <1>11, <1>12, <1>13
     DEF Next, Script, Walk

LEMMA InitPulsed == Init => PulsedInPlace
BY DEF Init, PulsedInPlace

LEMMA Basic == Spec => [](TypeOK /\ PulsedInPlace)
<1>1. Init => TypeOK /\ PulsedInPlace
  BY InitType, InitPulsed
<1>2. TypeOK /\ PulsedInPlace /\ [Next]_vars => (TypeOK /\ PulsedInPlace)'
  BY TypeStep, PulsedStep
<1>3. QED
  BY <1>1, <1>2, PTL DEF Spec

\* The vector, the fields of the timers and the variables of the walk keep
\* their types, whatever a script does in the middle of a walk.
THEOREM TypeCorrect == Spec => []TypeOK
BY Basic, PTL

\* When Pulse returns, the walk still stands on the timer it pulsed: the entry
\* it removes is that timer's.
THEOREM PulsedInPlaceCorrect == Spec => []PulsedInPlace
BY Basic, PTL

-------------------------------------------------------------------------------
(* The walk *)

\* The walk is past entry k, or the script it called from entry k is running
Passed(k) == k < pos \/ (pc = "pulse" /\ k = pos)

NoDuplicates ==
    \A j, k \in DOMAIN timers : timers[j] = timers[k] => j = k

\* The entries behind the walk are the timers of the vector it has seen
SeenBehind ==
    pc \in {"walk", "pulse"} =>
        \A k \in DOMAIN timers : timers[k] \in seen <=> Passed(k)

\* The timers it still owes a visit are entries ahead of it
DueAhead ==
    pc \in {"walk", "pulse"} =>
        \A t \in due : \E k \in DOMAIN timers : timers[k] = t /\ ~Passed(k)

\* So are those that were dead when it began, and they still are dead
DoomedAhead ==
    pc \in {"walk", "pulse"} =>
        \A k \in DOMAIN timers :
            timers[k] \in doomed => ~Passed(k) /\ timer[timers[k]].dying

Order == NoDuplicates /\ SeenBehind /\ DueAhead /\ DoomedAhead

WalkInv == TypeOK /\ PulsedInPlace /\ Order

\* A step that leaves the vector and the walk alone and revives no timer.
LEMMA OrderKept ==
    ASSUME WalkInv,
           timers' = timers, pc' = pc, pos' = pos,
           due' = due, seen' = seen, doomed' = doomed,
           \A t \in Timer : timer[t].dying => timer'[t].dying
    PROVE  Order'
<1>1. \A k : Passed(k)' = Passed(k)
  BY DEF Passed
<1>2. \A k \in DOMAIN timers : timers[k] \in Timer
  BY DEF WalkInv, TypeOK
<1>3. NoDuplicates' /\ SeenBehind' /\ DueAhead'
  BY <1>1 DEF WalkInv, Order, NoDuplicates, SeenBehind, DueAhead
<1>4. DoomedAhead'
  BY <1>1, <1>2 DEF WalkInv, Order, DoomedAhead
<1>5. QED
  BY <1>3, <1>4 DEF Order

\* A new timer goes to the end of the vector, ahead of the walk.
LEMMA OrderNewTimer ==
    ASSUME WalkInv, NEW t \in Timer, NEW x \in Interval, NEW n \in Repeats,
           NEW ps \in SUBSET Subject, NewTimer(t, x, n, ps)
    PROVE  Order'
<1> DEFINE last == Len(timers) + 1
<1>1. /\ t \notin InVector /\ pc' = pc /\ pos' = pos /\ due' = due
      /\ seen' = seen \ {t} /\ doomed' = doomed \ {t}
      /\ \A u \in Timer : u # t => timer'[u] = timer[u]
  BY DEF NewTimer, WalkInv, TypeOK
<1>2. timers' = PushBack(timers, t) /\ timers \in Seq(Timer)
  BY DEF NewTimer, WalkInv, TypeOK
<1>3. /\ timers' \in Seq(Timer) /\ Len(timers') = last
      /\ \A k \in 1 .. Len(timers) : timers'[k] = timers[k]
      /\ timers'[last] = t
  BY <1>2, PushBackFacts
<1>4. /\ DOMAIN timers = 1 .. Len(timers) /\ Len(timers) \in Nat
      /\ DOMAIN timers' = 1 .. last
  BY <1>2, <1>3
<1>5. \A k \in DOMAIN timers : timers[k] # t /\ timers[k] \in Timer
  BY <1>1, <1>2 DEF InVector
<1>6. \A k \in DOMAIN timers' : (k \in DOMAIN timers /\ timers'[k] = timers[k])
                                 \/ (k = last /\ timers'[k] = t)
  BY <1>3, <1>4
<1>7. pc \in {"walk", "pulse"} => pc = "pulse"
  BY DEF NewTimer, ScriptRuns
<1>8. pc = "pulse" => pos \in 1 .. Len(timers)
  BY <1>2 DEF WalkInv, PulsedInPlace
<1>9. \A k : Passed(k)' = Passed(k)
  BY <1>1 DEF Passed
<1>10. pc = "pulse" => ~Passed(last)
  BY <1>4, <1>8 DEF Passed
<1>11. NoDuplicates'
  BY <1>5, <1>6 DEF WalkInv, Order, NoDuplicates
<1>12. SeenBehind'
  BY <1>1, <1>5, <1>6, <1>7, <1>9, <1>10 DEF WalkInv, Order, SeenBehind
<1>13. DueAhead'
  BY <1>1, <1>3, <1>4, <1>9 DEF WalkInv, Order, DueAhead
<1>14. DoomedAhead'
  BY <1>1, <1>5, <1>6, <1>7, <1>9, <1>10 DEF WalkInv, Order, DoomedAhead
<1>15. QED
  BY <1>11, <1>12, <1>13, <1>14 DEF Order

\* A walk begins with everything ahead of it.
LEMMA OrderStartWalk ==
    ASSUME WalkInv, NEW d, NEW dead, StartWalk(d, dead),
           dead \subseteq {t \in InVector : timer'[t].dying}
    PROVE  Order'
<1>1. timers \in Seq(Timer) /\ DOMAIN timers = 1 .. Len(timers)
  BY DEF WalkInv, TypeOK
<1>2. timers' = timers /\ pc' = "walk" /\ pos' = 1 /\ due' = InVector
      /\ seen' = {} /\ doomed' = dead
  BY DEF StartWalk
<1>3. \A k \in DOMAIN timers : ~Passed(k)'
  BY <1>1, <1>2 DEF Passed
<1>4. NoDuplicates'
  BY <1>2 DEF WalkInv, Order, NoDuplicates
<1>5. SeenBehind' /\ DueAhead' /\ DoomedAhead'
  BY <1>2, <1>3 DEF SeenBehind, DueAhead, DoomedAhead, InVector
<1>6. QED
  BY <1>4, <1>5 DEF Order

\* The walk looks at the timer it stands on, and passes it or calls it.
LEMMA OrderVisit ==
    ASSUME WalkInv, AtTimer, ~timer[timers[pos]].dying, Visit(timers[pos]),
           timers' = timers,
           \/ pc' = "walk" /\ pos' = pos + 1
           \/ pc' = "pulse" /\ pos' = pos,
           \A t \in Timer : timer'[t].dying = timer[t].dying
    PROVE  Order'
<1> DEFINE here == timers[pos]
<1>1. /\ timers \in Seq(Timer) /\ DOMAIN timers = 1 .. Len(timers)
      /\ pos \in DOMAIN timers /\ pc = "walk" /\ here \in Timer
      /\ \A k \in DOMAIN timers : timers[k] \in Timer /\ k \in Int
      /\ pos \in Int
  BY DEF WalkInv, TypeOK, AtTimer
<1>2. due' = due \ {here} /\ seen' = seen \cup {here} /\ doomed' = doomed
  BY DEF Visit
<1>3. \A k \in DOMAIN timers : Passed(k)' <=> (Passed(k) \/ k = pos)
  BY <1>1 DEF Passed
<1>4. ~Passed(pos)
  BY <1>1 DEF Passed
<1>5. \A k \in DOMAIN timers : timers[k] = here <=> k = pos
  BY <1>1 DEF WalkInv, Order, NoDuplicates
<1>6. NoDuplicates'
  BY DEF WalkInv, Order, NoDuplicates
<1>7. SeenBehind'
  BY <1>1, <1>2, <1>3, <1>5 DEF WalkInv, Order, SeenBehind
<1>8. DueAhead'
  BY <1>1, <1>2, <1>3, <1>5 DEF WalkInv, Order, DueAhead
<1>9. DoomedAhead'
  BY <1>1, <1>2, <1>3, <1>5 DEF WalkInv, Order, DoomedAhead
<1>10. QED
  BY <1>6, <1>7, <1>8, <1>9 DEF Order

\* The entry the walk stands on goes, and the last one, ahead of the walk until
\* now, takes its place, still ahead of it.
LEMMA OrderRelease ==
    ASSUME WalkInv, pos \in DOMAIN timers, pc \in {"walk", "pulse"},
           Release(timers[pos]), pc' = "walk", pos' = pos, doomed' = doomed,
           due' = due \ {timers[pos]}, seen' = seen \cup {timers[pos]}
    PROVE  Order'
<1> DEFINE here == timers[pos]
           n == Len(timers)
<1>1. /\ timers \in Seq(Timer) /\ DOMAIN timers = 1 .. n /\ n \in Nat
      /\ pos \in 1 .. n /\ here \in Timer
  BY DEF WalkInv, TypeOK
<1>2. timers' = SwapRemove(timers, pos)
      /\ (\A t \in Timer : t # here => timer'[t] = timer[t])
  BY <1>1 DEF Release, WalkInv, TypeOK
<1>3. /\ DOMAIN timers' = 1 .. n - 1
      /\ \A k \in 1 .. n - 1 : timers'[k] = IF k = pos THEN timers[n] ELSE timers[k]
  BY <1>1, <1>2, SwapRemoveFacts
<1>4. \A k \in DOMAIN timers : timers[k] = here <=> k = pos
  BY <1>1 DEF WalkInv, Order, NoDuplicates
<1> DEFINE from(k) == IF k = pos THEN n ELSE k
<1>5. \A k \in DOMAIN timers' : from(k) \in DOMAIN timers /\ from(k) # pos
                                 /\ timers'[k] = timers[from(k)]
  BY <1>1, <1>3
<1>6. \A j, k \in DOMAIN timers' : from(j) = from(k) => j = k
  BY <1>1, <1>3
<1>7. \A k \in DOMAIN timers' : Passed(k)' <=> Passed(from(k))
  BY <1>1, <1>3 DEF Passed
<1>8. \A k \in DOMAIN timers : k # pos => \E j \in DOMAIN timers' : from(j) = k
  <2> SUFFICES ASSUME NEW k \in DOMAIN timers, k # pos
               PROVE  \E j \in DOMAIN timers' : from(j) = k
    OBVIOUS
  <2>1. CASE k = n
    BY <1>1, <1>3, <2>1
  <2>2. CASE k # n
    BY <1>1, <1>3, <2>2
  <2>3. QED
    BY <2>1, <2>2
<1> HIDE DEF from
<1>9. NoDuplicates'
  BY <1>5, <1>6 DEF WalkInv, Order, NoDuplicates
<1>10. SeenBehind'
  BY <1>4, <1>5, <1>7 DEF WalkInv, Order, SeenBehind
<1>11. DueAhead'
  BY <1>4, <1>5, <1>7, <1>8 DEF WalkInv, Order, DueAhead
<1>12. DoomedAhead'
  <2>1. \A k \in DOMAIN timers : k # pos => timer'[timers[k]] = timer[timers[k]]
    BY <1>1, <1>2, <1>4
  <2>2. QED
    BY <1>5, <1>7, <2>1 DEF WalkInv, Order, DoomedAhead
<1>13. QED
  BY <1>9, <1>10, <1>11, <1>12 DEF Order

\* The call is over: the walk leaves the timer it called behind, or lets it go.
LEMMA OrderPulseReturns ==
    ASSUME WalkInv, PulseReturns
    PROVE  Order'
<1>1. /\ timers \in Seq(Timer) /\ DOMAIN timers = 1 .. Len(timers)
      /\ pc = "pulse" /\ pos \in DOMAIN timers /\ timers[pos] = pTimer
      /\ \A k \in DOMAIN timers : timers[k] \in Timer /\ k \in Int
      /\ pos \in Int
  BY DEF PulseReturns, PulseContinues, PulseDies, WalkInv, PulsedInPlace, TypeOK
<1>2. CASE PulseContinues
  <2>1. /\ timers' = timers /\ pc' = "walk" /\ pos' = pos + 1
        /\ due' = due /\ seen' = seen /\ doomed' = doomed
    BY <1>2 DEF PulseContinues, Advance
  <2>2. \A k \in DOMAIN timers : Passed(k)' <=> Passed(k)
    BY <1>1, <2>1 DEF Passed
  <2>3. \A t \in Timer : timer'[t].dying = timer[t].dying
    BY <1>1, <1>2 DEF PulseContinues, WalkInv, TypeOK, Field
  <2>4. NoDuplicates' /\ SeenBehind'
    BY <1>1, <2>1, <2>2 DEF WalkInv, Order, NoDuplicates, SeenBehind
  <2>5. DueAhead'
    BY <1>1, <2>1, <2>2 DEF WalkInv, Order, DueAhead
  <2>6. DoomedAhead'
    BY <1>1, <2>1, <2>2, <2>3 DEF WalkInv, Order, DoomedAhead
  <2>7. QED
    BY <2>4, <2>5, <2>6 DEF Order
<1>3. CASE PulseDies
  <2>1. Passed(pos)
    BY <1>1 DEF Passed
  <2>2. timers[pos] \in seen
    BY <1>1, <2>1 DEF WalkInv, Order, SeenBehind
  <2>3. timers[pos] \notin due
    BY <1>1, <2>1 DEF WalkInv, Order, DueAhead, NoDuplicates
  <2>4. /\ Release(timers[pos]) /\ pc' = "walk" /\ pos' = pos /\ doomed' = doomed
        /\ due' = due \ {timers[pos]} /\ seen' = seen \cup {timers[pos]}
    BY <1>3, <2>2, <2>3 DEF PulseDies
  <2>5. QED
    BY <1>1, <2>4, OrderRelease
<1>4. QED
  BY <1>2, <1>3 DEF PulseReturns

LEMMA WalkStep == WalkInv /\ [Next]_vars => WalkInv'
<1> SUFFICES ASSUME WalkInv, [Next]_vars PROVE WalkInv'
  OBVIOUS
<1>1. TypeOK' /\ PulsedInPlace'
  BY TypeStep, PulsedStep DEF WalkInv
<1> SUFFICES Order'
  BY <1>1 DEF WalkInv
<1>2. ASSUME NEW t \in Timer, NEW x \in Interval, NEW n \in Repeats,
             NEW ps \in SUBSET Subject, NewTimer(t, x, n, ps)
      PROVE  Order'
  BY <1>2, OrderNewTimer
<1>3. ASSUME NEW dead, Mark(dead)
      PROVE  \A t \in Timer : timer[t].dying => timer'[t].dying
  BY <1>3, MarkFacts DEF WalkInv
<1>4. ASSUME NEW t \in Timer, Delete(t) PROVE Order'
  BY <1>3, <1>4, OrderKept DEF Delete
<1>5. ASSUME NEW t \in Timer, NEW b \in BOOLEAN, SetPaused(t, b) PROVE Order'
  <2>1. \A u \in Timer : timer'[u].dying = timer[u].dying
    BY <1>5 DEF SetPaused, WalkInv, TypeOK, Field
  <2>2. QED
    BY <1>5, <2>1, OrderKept DEF SetPaused
<1>6. ASSUME NEW t \in Timer, NEW x \in Interval, SetInterval(t, x) PROVE Order'
  <2>1. \A u \in Timer : timer'[u].dying = timer[u].dying
    BY <1>6 DEF SetInterval, WalkInv, TypeOK, Field
  <2>2. QED
    BY <1>6, <2>1, OrderKept DEF SetInterval
<1>7. CASE DropAllTimers
  BY <1>3, <1>7, OrderKept DEF DropAllTimers
<1>8. ASSUME NEW id \in Subject, CancelTimersForPlayer(id) PROVE Order'
  BY <1>3, <1>8, OrderKept DEF CancelTimersForPlayer
<1>9. ASSUME timers' = timers, pc' \notin {"walk", "pulse"} PROVE Order'
  BY <1>9 DEF WalkInv, Order, NoDuplicates, SeenBehind, DueAhead, DoomedAhead
<1>10. CASE EventBegins \/ EventEnds \/ WalkEnds
  BY <1>9, <1>10 DEF EventBegins, EventEnds, WalkEnds
<1>11. ASSUME NEW d \in Delta, OnFrame(d) PROVE Order'
  BY <1>11, OrderStartWalk DEF OnFrame
<1>12. CASE Destroy
  <2>1. \A t \in InVector : t \in Timer /\ timer'[t].dying
    <3>1. \A t \in InVector : t \in Timer
      BY DEF WalkInv, TypeOK, InVector
    <3>2. Mark(InVector) /\ TypeOK
      BY <1>12 DEF Destroy, WalkInv
    <3>3. \A t \in Timer : timer'[t].dying = (t \in InVector \/ timer[t].dying)
      BY <3>2, MarkFacts
    <3>4. QED
      BY <3>1, <3>3
  <2>2. QED
    BY <1>12, <2>1, OrderStartWalk DEF Destroy
<1>13. CASE Reap
  BY <1>13, OrderRelease DEF Reap, AtTimer, WalkInv, TypeOK
<1>14. CASE SkipPaused
  BY <1>14, OrderVisit DEF SkipPaused, AtTimer, Advance, Dead
<1>15. CASE Accumulate
  <2>1. \A u \in Timer : timer'[u].dying = timer[u].dying
    BY <1>15 DEF Accumulate, WalkInv, TypeOK, Field
  <2>2. QED
    BY <1>15, <2>1, OrderVisit DEF Accumulate, AtTimer, Advance, Running, Dead
<1>16. CASE Fire
  <2>1. \A u \in Timer : timer'[u].dying = timer[u].dying
    BY <1>16 DEF Fire, WalkInv, TypeOK, Field
  <2>2. QED
    BY <1>16, <2>1, OrderVisit DEF Fire, AtTimer, Running, Dead
<1>17. CASE PulseReturns
  BY <1>17, OrderPulseReturns
<1>18. CASE Terminated \/ UNCHANGED vars
  BY <1>18, OrderKept DEF Terminated, vars
<1>19. QED
  BY <1>2, <1>4, <1>5, <1>6, <1>7, <1>8, <1>10, <1>11, <1>12, <1>13, <1>14,
     <1>15, <1>16, <1>17, <1>18 DEF Next, Script, Walk

LEMMA WalkInvariant == Spec => []WalkInv
<1>1. Init => WalkInv
  BY InitType, InitPulsed
     DEF Init, WalkInv, Order, NoDuplicates, SeenBehind, DueAhead, DoomedAhead
<1>2. QED
  BY <1>1, WalkStep, PTL DEF Spec

\* However scripts change the vector during a walk, the walk visits no timer
\* twice in a frame.
THEOREM NeverTwiceCorrect == Spec => []NeverTwice
<1>1. WalkInv => NeverTwice
  BY DEF WalkInv, Order, SeenBehind, NeverTwice, AtTimer, Passed, TypeOK
<1>2. QED
  BY <1>1, WalkInvariant, PTL

\* It skips none either, and leaves no timer that was dead before the frame.
THEOREM WalkCompleteCorrect == Spec => []WalkComplete
<1>1. WalkInv => WalkComplete
  <2> SUFFICES ASSUME WalkInv, pc = "walk", pos > Len(timers)
               PROVE  due = {} /\ InVector \subseteq seen /\ doomed \cap InVector = {}
    BY DEF WalkComplete
  <2>1. \A k \in DOMAIN timers : Passed(k)
    BY DEF Passed, WalkInv, TypeOK
  <2>2. QED
    BY <2>1 DEF WalkInv, Order, SeenBehind, DueAhead, DoomedAhead, InVector
<1>2. QED
  BY <1>1, WalkInvariant, PTL

-------------------------------------------------------------------------------
(* Destruction *)

\* In ~CCore every timer of the vector is dead, so none is called.
Draining ==
    closing => \/ pc = "walk" /\ InVector \subseteq doomed
               \/ pc = "closed" /\ timers = <<>>

LEMMA DrainStep == WalkInv /\ Draining /\ [Next]_vars => Draining'
<1> SUFFICES ASSUME WalkInv, Draining, [Next]_vars PROVE Draining'
  OBVIOUS
<1>1. CASE ~closing
  <2>1. CASE Destroy
    BY <2>1 DEF Destroy, StartWalk, Draining, InVector
  <2>2. CASE ~Destroy
    <3>1. ~closing'
      BY <1>1, <2>2 DEF Next, Script, NewTimer, Delete, SetPaused, SetInterval,
         DropAllTimers, CancelTimersForPlayer, EventBegins, EventEnds, OnFrame,
         Walk, Reap, SkipPaused, Accumulate, Fire, WalkEnds, PulseReturns,
         PulseContinues, PulseDies, Terminated, vars
    <3>2. QED
      BY <3>1 DEF Draining
  <2>3. QED
    BY <2>1, <2>2
<1>2. CASE closing /\ pc = "closed"
  <2>1. UNCHANGED vars
    BY <1>2 DEF Next, Script, NewTimer, Delete, SetPaused, SetInterval,
       DropAllTimers, CancelTimersForPlayer, EventBegins, EventEnds, OnFrame,
       Destroy, StartWalk, Walk, Reap, SkipPaused, Accumulate, Fire, WalkEnds,
       AtTimer, PulseReturns, PulseContinues, PulseDies, Terminated, ScriptRuns
  <2>2. QED
    BY <2>1 DEF Draining, InVector, vars
<1>3. CASE closing /\ pc = "walk"
  <2>1. InVector \subseteq doomed
    BY <1>3 DEF Draining
  <2>2. AtTimer => timer[timers[pos]].dying
    BY <2>1 DEF AtTimer, InVector, WalkInv, Order, DoomedAhead, TypeOK
  <2>3. Reap \/ WalkEnds \/ UNCHANGED vars
    BY <1>3, <2>2 DEF Next, Script, NewTimer, Delete, SetPaused, SetInterval,
       DropAllTimers, CancelTimersForPlayer, EventBegins, EventEnds, OnFrame,
       Destroy, StartWalk, Walk, SkipPaused, Accumulate, Fire, Running, Dead,
       PulseReturns, PulseContinues, PulseDies, Terminated, ScriptRuns
  <2>4. CASE Reap
    <3>1. timers \in Seq(Timer) /\ pos \in 1 .. Len(timers)
      BY <2>4 DEF Reap, AtTimer, WalkInv, TypeOK
    <3>2. timers' = SwapRemove(timers, pos) /\ pc' = pc /\ doomed' = doomed
      BY <2>4 DEF Reap, Release
    <3>3. InVector' \subseteq InVector
      BY <3>1, <3>2, SwapRemoveKeeps DEF InVector
    <3>4. QED
      BY <1>3, <2>1, <3>2, <3>3 DEF Draining
  <2>5. CASE WalkEnds
    <3>1. \A k \in DOMAIN timers : Passed(k) /\ timers[k] \in InVector
      BY <1>3, <2>5 DEF WalkEnds, Passed, InVector, WalkInv, TypeOK
    <3>2. DOMAIN timers = {}
      BY <1>3, <2>1, <3>1 DEF WalkInv, Order, DoomedAhead
    <3>3. timers = <<>>
      BY <3>2 DEF WalkInv, TypeOK
    <3>4. QED
      BY <1>3, <2>5, <3>3 DEF WalkEnds, Draining
  <2>6. CASE UNCHANGED vars
    BY <2>6 DEF Draining, InVector, vars
  <2>7. QED
    BY <2>3, <2>4, <2>5, <2>6
<1>4. QED
  BY <1>1, <1>2, <1>3 DEF Draining

\* ~CCore runs no script function and leaves no timer handle behind when it
\* closes the virtual machine.
THEOREM DestroyDrainsCorrect == Spec => []DestroyDrains
<1>1. Init => Draining
  BY DEF Init, Draining
<1>2. Spec => []Draining
  BY <1>1, DrainStep, WalkInvariant, PTL DEF Spec
<1>3. Draining /\ WalkInv => (closing => pc \in {"walk", "closed"})
  BY DEF Draining
<1>4. Spec => [](pc = "closed" => closing)
  <2>1. Init => (pc = "closed" => closing)
    BY DEF Init
  <2>2. (pc = "closed" => closing) /\ [Next]_vars => (pc = "closed" => closing)'
    BY DEF Next, Script, NewTimer, Delete, SetPaused, SetInterval,
       DropAllTimers, CancelTimersForPlayer, EventBegins, EventEnds, OnFrame,
       Destroy, StartWalk, Walk, Reap, SkipPaused, Accumulate, Fire, WalkEnds,
       PulseReturns, PulseContinues, PulseDies, Terminated, vars
  <2>3. QED
    BY <2>1, <2>2, PTL DEF Spec
<1>5. Draining /\ (pc = "closed" => closing) => DestroyDrains
  BY DEF Draining, DestroyDrains
<1>6. QED
  BY <1>2, <1>4, <1>5, PTL

-------------------------------------------------------------------------------
(* Repeat counts *)

\* The pulses a timer still in the vector has counted are the calls it made,
\* the one on the stack not counted yet, and are fewer than its maximum.
Tally(t) ==
    asked[t] > 0 =>
        /\ timer[t].max = asked[t]
        /\ timer[t].pulses < timer[t].max
        /\ fired[t] = timer[t].pulses + (IF pTimer = t THEN 1 ELSE 0)

Counted ==
    /\ \A t \in InVector : Tally(t)
    /\ pc # "pulse" => pTimer = NoTimer

\* A step that touches no count.
LEMMA CountKept ==
    ASSUME WalkInv, Counted, InVector' \subseteq InVector,
           pc' = pc \/ pc # "pulse", pTimer' = pTimer,
           asked' = asked, fired' = fired,
           \A t \in Timer : /\ timer'[t].max = timer[t].max
                            /\ timer'[t].pulses = timer[t].pulses
    PROVE  Counted'
<1>1. InVector \subseteq Timer
  BY DEF InVector, WalkInv, TypeOK
<1>2. QED
  BY <1>1 DEF Counted, Tally

\* A timer leaves with its counts.
LEMMA CountRelease ==
    ASSUME WalkInv, Counted, pos \in DOMAIN timers, Release(timers[pos]),
           pTimer \in {NoTimer, timers[pos]}, pTimer' = NoTimer
    PROVE  Counted'
<1> DEFINE here == timers[pos]
<1>1. /\ timers \in Seq(Timer) /\ pos \in 1 .. Len(timers) /\ here \in Timer
      /\ DOMAIN timers = 1 .. Len(timers)
  BY DEF WalkInv, TypeOK
<1>2. /\ timers' = SwapRemove(timers, pos)
      /\ \A u \in Timer : u # here => /\ timer'[u] = timer[u] /\ asked'[u] = asked[u]
                                      /\ fired'[u] = fired[u]
  BY <1>1 DEF Release, WalkInv, TypeOK
<1>3. \A u \in InVector' : u \in InVector /\ u # here
  BY <1>1, <1>2, SwapRemoveKeeps DEF InVector, WalkInv, Order, NoDuplicates
<1>4. InVector \subseteq Timer /\ NoTimer \notin Timer
  BY NoTimerAssumption DEF InVector, WalkInv, TypeOK
<1>5. QED
  BY <1>2, <1>3, <1>4 DEF Counted, Tally

LEMMA CountStep ==
    ASSUME Repeats \subseteq 0 .. Word - 1
    PROVE  WalkInv /\ Counted /\ [Next]_vars => Counted'
<1> SUFFICES ASSUME WalkInv, Counted, [Next]_vars PROVE Counted'
  OBVIOUS
<1>1. ASSUME NEW t \in Timer, NEW x \in Interval, NEW n \in Repeats,
             NEW ps \in SUBSET Subject, NewTimer(t, x, n, ps)
      PROVE  Counted'
  <2>1. n \in Nat /\ x \in Nat /\ n % Word = n /\ n \in 0 .. Word - 1
    BY ModFacts, TimeAssumption, WordAssumption
  <2>2. /\ timers \in Seq(Timer) /\ timers' = PushBack(timers, t)
        /\ timer' = [timer EXCEPT ![t] = Created(x, n, ps)]
        /\ asked' = [asked EXCEPT ![t] = n] /\ fired' = [fired EXCEPT ![t] = 0]
        /\ pc' = pc /\ pTimer' = pTimer /\ t \notin InVector
    BY <1>1, <2>1 DEF NewTimer, WalkInv, TypeOK
  <2>3. InVector' \subseteq InVector \cup {t}
    <3>1. /\ timers' \in Seq(Timer) /\ Len(timers') = Len(timers) + 1
          /\ \A k \in 1 .. Len(timers) : timers'[k] = timers[k]
          /\ timers'[Len(timers) + 1] = t
      BY <2>2, PushBackFacts
    <3>2. \A k \in DOMAIN timers' : k \in 1 .. Len(timers) \/ k = Len(timers) + 1
      BY <2>2, <3>1
    <3>3. QED
      BY <2>2, <3>1, <3>2 DEF InVector
  <2>4. \A u \in Timer : u # t => /\ timer'[u] = timer[u] /\ asked'[u] = asked[u]
                                  /\ fired'[u] = fired[u]
    BY <2>2 DEF WalkInv, TypeOK
  <2>5. /\ timer'[t].max = n /\ timer'[t].pulses = 0
        /\ asked'[t] = n /\ fired'[t] = 0
    <3>1. timer'[t] = Created(x, n, ps) /\ asked'[t] = n /\ fired'[t] = 0
      BY <2>2 DEF WalkInv, TypeOK
    <3>2. Created(x, n, ps).max = n /\ Created(x, n, ps).pulses = 0
      BY <2>1, NewFields
    <3>3. QED
      BY <3>1, <3>2
  <2>6. pTimer # t
    BY <2>2, NoTimerAssumption DEF Counted, WalkInv, PulsedInPlace, InVector
  <2>7. InVector \subseteq Timer
    BY DEF InVector, WalkInv, TypeOK
  <2>8. QED
    BY <2>1, <2>2, <2>3, <2>4, <2>5, <2>6, <2>7 DEF Counted, Tally
<1>2. ASSUME NEW dead, Mark(dead)
      PROVE  \A t \in Timer : /\ timer'[t].max = timer[t].max
                              /\ timer'[t].pulses = timer[t].pulses
  BY <1>2, MarkFacts DEF WalkInv
<1>3. timers' = timers => InVector' \subseteq InVector
  BY DEF InVector
<1>4. ASSUME NEW t \in Timer, Delete(t) PROVE Counted'
  BY <1>2, <1>3, <1>4, CountKept DEF Delete
<1>5. ASSUME NEW t \in Timer, NEW b \in BOOLEAN, SetPaused(t, b) PROVE Counted'
  <2>1. \A u \in Timer : /\ timer'[u].max = timer[u].max
                         /\ timer'[u].pulses = timer[u].pulses
    BY <1>5 DEF SetPaused, WalkInv, TypeOK, Field
  <2>2. QED
    BY <1>3, <1>5, <2>1, CountKept DEF SetPaused
<1>6. ASSUME NEW t \in Timer, NEW x \in Interval, SetInterval(t, x) PROVE Counted'
  <2>1. \A u \in Timer : /\ timer'[u].max = timer[u].max
                         /\ timer'[u].pulses = timer[u].pulses
    BY <1>6 DEF SetInterval, WalkInv, TypeOK, Field
  <2>2. QED
    BY <1>3, <1>6, <2>1, CountKept DEF SetInterval
<1>7. CASE DropAllTimers
  BY <1>2, <1>3, <1>7, CountKept DEF DropAllTimers
<1>8. ASSUME NEW id \in Subject, CancelTimersForPlayer(id) PROVE Counted'
  BY <1>2, <1>3, <1>8, CountKept DEF CancelTimersForPlayer
<1>9. CASE EventBegins \/ EventEnds \/ WalkEnds \/ Terminated \/ UNCHANGED vars
  BY <1>3, <1>9, CountKept DEF EventBegins, EventEnds, WalkEnds, Terminated, vars
<1>10. ASSUME NEW d \in Delta, OnFrame(d) PROVE Counted'
  BY <1>3, <1>10, CountKept DEF OnFrame, StartWalk
<1>11. CASE Destroy
  BY <1>2, <1>3, <1>11, CountKept DEF Destroy, StartWalk
<1>12. CASE Reap
  BY <1>12, CountRelease DEF Reap, AtTimer, Counted, WalkInv, TypeOK
<1>13. CASE SkipPaused
  BY <1>3, <1>13, CountKept DEF SkipPaused, AtTimer, Visit
<1>14. CASE Accumulate
  <2>1. \A u \in Timer : /\ timer'[u].max = timer[u].max
                         /\ timer'[u].pulses = timer[u].pulses
    BY <1>14 DEF Accumulate, WalkInv, TypeOK, Field
  <2>2. QED
    BY <1>3, <1>14, <2>1, CountKept DEF Accumulate, AtTimer, Visit
<1>15. CASE Fire
  <2> DEFINE t == timers[pos]
  <2>1. \A u \in Timer : /\ timer'[u].max = timer[u].max
                         /\ timer'[u].pulses = timer[u].pulses
    BY <1>15 DEF Fire, WalkInv, TypeOK, Field
  <2>2. /\ t \in InVector /\ t \in Timer /\ pTimer = NoTimer /\ NoTimer \notin Timer
        /\ InVector \subseteq Timer
    BY <1>15, NoTimerAssumption DEF Fire, AtTimer, Counted, InVector, WalkInv, TypeOK
  <2>3. /\ pc' = "pulse" /\ pTimer' = t /\ asked' = asked /\ timers' = timers
        /\ fired' = [fired EXCEPT ![t] = IF @ <= asked[t] THEN @ + 1 ELSE @]
    BY <1>15 DEF Fire, Visit
  <2>4. Tally(t) /\ timer[t] \in Field /\ asked[t] \in Nat /\ fired[t] \in Nat
    BY <2>2 DEF Counted, WalkInv, TypeOK
  <2>5. timer[t].max \in Nat /\ timer[t].pulses \in Nat
    BY <2>4, FieldTypes, WordAssumption
  <2>6. ASSUME NEW u \in InVector, u = t PROVE Tally(u)'
    <3>1. /\ u \in Timer /\ u # pTimer /\ u = pTimer' /\ asked'[u] = asked[u]
          /\ fired'[u] = IF fired[u] <= asked[u] THEN fired[u] + 1 ELSE fired[u]
      BY <2>2, <2>3, <2>6 DEF WalkInv, TypeOK
    <3>2. QED
      BY <2>1, <2>4, <2>5, <2>6, <3>1 DEF Tally
  <2>7. \A u \in InVector : u # t => Tally(u)'
    BY <2>1, <2>2, <2>3 DEF Counted, Tally, WalkInv, TypeOK
  <2>8. QED
    BY <2>3, <2>6, <2>7 DEF Counted, InVector
<1>16. CASE PulseContinues
  <2>1. /\ pTimer \in InVector /\ InVector \subseteq Timer /\ pTimer \in Timer
        /\ NoTimer \notin Timer
    BY <1>16, NoTimerAssumption
       DEF PulseContinues, InVector, WalkInv, PulsedInPlace, TypeOK
  <2>2. /\ pTimer' = NoTimer /\ asked' = asked /\ fired' = fired
        /\ timers' = timers
        /\ timer' = [timer EXCEPT ![pTimer].pulses = NextPulse]
    BY <1>16 DEF PulseContinues
  <2>3. Tally(pTimer) /\ timer[pTimer] \in Field /\ asked[pTimer] \in Nat
    BY <2>1 DEF Counted, WalkInv, TypeOK
  <2>4. /\ timer[pTimer].max \in 0 .. Word - 1 /\ timer[pTimer].pulses \in 0 .. Word - 1
    BY <2>3, FieldTypes
  <2>5. asked[pTimer] > 0 => NextPulse = timer[pTimer].pulses + 1
    BY <2>3, <2>4, ModFacts, WordAssumption DEF Tally, NextPulse
  <2>6. asked[pTimer] > 0 => NextPulse < timer[pTimer].max
    BY <1>16, <2>3, <2>4, <2>5, WordAssumption DEF PulseContinues, Exhausted, Tally
  <2>7. timer'[pTimer].max = timer[pTimer].max /\ timer'[pTimer].pulses = NextPulse
    BY <2>1, <2>2, <2>3 DEF WalkInv, TypeOK, Field
  <2>8. ASSUME NEW u \in InVector PROVE Tally(u)'
    <3>1. u \in Timer /\ u # pTimer'
      BY <2>1, <2>2
    <3>2. CASE u = pTimer
      BY <2>2, <2>3, <2>4, <2>5, <2>6, <2>7, <3>1, <3>2 DEF Tally
    <3>3. CASE u # pTimer
      BY <2>2, <3>1, <3>3 DEF Counted, Tally, WalkInv, TypeOK
    <3>4. QED
      BY <3>2, <3>3
  <2>9. QED
    BY <2>2, <2>8 DEF Counted, InVector
<1>17. CASE PulseDies
  BY <1>17, CountRelease DEF PulseDies, WalkInv, PulsedInPlace
<1>18. QED
  BY <1>1, <1>4, <1>5, <1>6, <1>7, <1>8, <1>9, <1>10, <1>11, <1>12, <1>13,
     <1>14, <1>15, <1>16, <1>17 DEF Next, Script, Walk, PulseReturns

\* If every repeat count a script gives fits unsigned int, no timer is called
\* more often than it was created for.
THEOREM RepeatsRespectedCorrect ==
    ASSUME Repeats \subseteq 0 .. Word - 1
    PROVE  Spec => []RepeatsRespected
<1>1. Init => Counted
  BY DEF Init, Counted, InVector
<1>2. WalkInv /\ Counted /\ [Next]_vars => Counted'
  BY CountStep
<1>3. WalkInv /\ Counted => RepeatsRespected
  <2> SUFFICES ASSUME WalkInv, Counted, NEW t \in InVector, asked[t] > 0
               PROVE  fired[t] <= asked[t]
    BY DEF RepeatsRespected
  <2>1. t \in Timer
    BY DEF InVector, WalkInv, TypeOK
  <2>2. timer[t].max \in Nat /\ timer[t].pulses \in Nat
    BY <2>1, FieldTypes, WordAssumption DEF WalkInv, TypeOK
  <2>3. QED
    BY <2>2 DEF Counted, Tally
<1>4. QED
  BY <1>1, <1>2, <1>3, WalkInvariant, PTL DEF Spec

-------------------------------------------------------------------------------
(* Timers implements Frames. *)

\* A timer of the vector has a call left, if its calls are counted.
Unspent ==
    /\ \A t \in InVector : timer[t].max > 0 => timer[t].pulses < timer[t].max
    /\ pc # "pulse" => pTimer = NoTimer

FramesInv == WalkInv /\ Draining /\ Unspent

\* A new timer is added to those of the vector.
LEMMA PushBackRange ==
    ASSUME timers \in Seq(Timer), NEW t \in Timer, timers' = PushBack(timers, t)
    PROVE  InVector' = InVector \cup {t}
<1>1. /\ timers' \in Seq(Timer)
      /\ Len(timers') = Len(timers) + 1
      /\ \A k \in 1 .. Len(timers) : timers'[k] = timers[k]
      /\ timers'[Len(timers) + 1] = t
  BY PushBackFacts
<1>2. Len(timers) \in Nat /\ DOMAIN timers = 1 .. Len(timers)
      /\ DOMAIN timers' = 1 .. Len(timers) + 1
  BY <1>1
<1>3. \A k \in DOMAIN timers' : k \in DOMAIN timers \/ k = Len(timers) + 1
  BY <1>2
<1>4. DOMAIN timers \subseteq DOMAIN timers' /\ Len(timers) + 1 \in DOMAIN timers'
  BY <1>2
<1>5. \A k \in DOMAIN timers : timers'[k] = timers[k]
  BY <1>1, <1>2
<1>6. QED
  BY <1>1, <1>3, <1>4, <1>5 DEF InVector

\* The timer of the entry that is removed leaves, and no other.
LEMMA ReleaseRange ==
    ASSUME WalkInv, pos \in DOMAIN timers, Release(timers[pos])
    PROVE  /\ InVector' = InVector \ {timers[pos]}
           /\ timers[pos] \in InVector
           /\ \A t \in Timer : t # timers[pos] => timer'[t] = timer[t]
<1> DEFINE n == Len(timers)
<1>1. /\ timers \in Seq(Timer) /\ DOMAIN timers = 1 .. n /\ n \in Nat
      /\ pos \in 1 .. n /\ timers[pos] \in Timer
  BY DEF WalkInv, TypeOK
<1>2. timers' = SwapRemove(timers, pos)
      /\ (\A t \in Timer : t # timers[pos] => timer'[t] = timer[t])
  BY <1>1 DEF Release, WalkInv, TypeOK
<1>3. /\ DOMAIN timers' = 1 .. n - 1
      /\ \A k \in 1 .. n - 1 : timers'[k] = IF k = pos THEN timers[n] ELSE timers[k]
  BY <1>1, <1>2, SwapRemoveFacts
<1>4. \A k \in DOMAIN timers : timers[k] = timers[pos] => k = pos
  BY <1>1 DEF WalkInv, Order, NoDuplicates
<1>5. \A u \in InVector' : u \in InVector /\ u # timers[pos]
  BY <1>1, <1>2, <1>4, SwapRemoveKeeps DEF InVector
<1>6. ASSUME NEW u \in InVector, u # timers[pos] PROVE u \in InVector'
  <2>1. PICK k \in DOMAIN timers : u = timers[k]
    BY DEF InVector
  <2>2. k # pos /\ k \in 1 .. n
    BY <1>1, <1>6, <2>1
  <2>3. CASE k = n
    <3>1. pos \in DOMAIN timers' /\ timers'[pos] = u
      BY <1>1, <1>3, <2>1, <2>2, <2>3
    <3>2. QED
      BY <3>1 DEF InVector
  <2>4. CASE k # n
    <3>1. k \in DOMAIN timers' /\ timers'[k] = u
      BY <1>1, <1>3, <2>1, <2>2, <2>4
    <3>2. QED
      BY <3>1 DEF InVector
  <2>5. QED
    BY <2>3, <2>4
<1>7. timers[pos] \in InVector
  BY DEF InVector
<1>8. QED
  BY <1>2, <1>5, <1>6, <1>7

\* What is ahead of the walk is what it has not seen.
LEMMA AheadUnseen ==
    WalkInv => TimersAhead = IF InWalk THEN InVector \ seen ELSE {}
<1> SUFFICES ASSUME WalkInv
             PROVE  TimersAhead = IF InWalk THEN InVector \ seen ELSE {}
  OBVIOUS
<1>1. CASE ~InWalk
  BY <1>1 DEF TimersAhead
<1>2. CASE InWalk
  <2>1. \A k \in DOMAIN timers : k \in Int /\ pos \in Int
    BY DEF WalkInv, TypeOK
  <2>2. \A k \in DOMAIN timers : Ahead(k) <=> ~Passed(k)
    BY <1>2, <2>1 DEF Ahead, Passed, InWalk
  <2>3. \A k \in DOMAIN timers : timers[k] \in seen <=> Passed(k)
    BY <1>2 DEF WalkInv, Order, SeenBehind, InWalk
  <2>4. QED
    BY <1>2, <2>2, <2>3 DEF TimersAhead, InVector
<1>3. QED
  BY <1>1, <1>2

LEMMA AheadUnseenNext ==
    (WalkInv => TimersAhead = IF InWalk THEN InVector \ seen ELSE {})'
BY AheadUnseen, PTL

\* Timers whose counts are left alone have as many calls left as before.
LEMMA CallsLeftSame ==
    ASSUME WalkInv, InVector' = InVector,
           \A t \in InVector : /\ timer'[t].max = timer[t].max
                               /\ timer'[t].pulses = timer[t].pulses
    PROVE  CallsLeft' = CallsLeft
BY DEF CallsLeft

\* So far every step that touches no timer's counts, no entry and no flag that
\* Frames knows leaves it in peace.
LEMMA FrameStays ==
    ASSUME FramesInv, WalkInv',
           timers' = timers, pc' = pc, pTimer' = pTimer, closing' = closing, seen' = seen,
           \A t \in Timer : /\ timer'[t].max = timer[t].max
                            /\ timer'[t].pulses = timer[t].pulses
                            /\ timer'[t].dying = timer[t].dying
    PROVE  Unspent' /\ UNCHANGED F!vars
<1>1. InVector' = InVector /\ InVector \subseteq Timer
  BY DEF InVector, FramesInv, WalkInv, TypeOK
<1>2. CallsLeft' = CallsLeft
  BY <1>1, CallsLeftSame DEF FramesInv
<1>3. DeadTimers' = DeadTimers
  BY <1>1 DEF DeadTimers
<1>4. TimersAhead' = TimersAhead
  BY <1>1, AheadUnseen, AheadUnseenNext DEF FramesInv, InWalk
<1>5. FrameState' = FrameState
  BY DEF FrameState
<1>6. Unspent'
  BY <1>1 DEF FramesInv, Unspent
<1>7. QED
  BY <1>1, <1>2, <1>3, <1>4, <1>5, <1>6 DEF F!vars

\* A script creates a timer: with the calls it was asked for, and ahead of the
\* walk that called the script.
LEMMA FrameCreates ==
    ASSUME Repeats \subseteq 0 .. Word - 1, FramesInv, WalkInv',
           NEW t \in Timer, NEW x \in Interval, NEW n \in Repeats,
           NEW ps \in SUBSET Subject, NewTimer(t, x, n, ps)
    PROVE  Unspent' /\ F!Create(t, n)
<1>1. n \in Nat /\ x \in Nat /\ n % Word = n /\ n \in 0 .. Word - 1
  BY ModFacts, TimeAssumption, WordAssumption
<1>2. /\ timer' = [timer EXCEPT ![t] = Created(x, n, ps)]
      /\ timers \in Seq(Timer) /\ timers' = PushBack(timers, t)
      /\ pc' = pc /\ pos' = pos /\ pTimer' = pTimer /\ closing' = closing
      /\ t \notin InVector /\ seen' = seen \ {t} /\ pc \in {"pulse", "event"}
      /\ timer \in [Timer -> Field]
  BY <1>1 DEF NewTimer, ScriptRuns, FramesInv, WalkInv, TypeOK
<1>3. InVector' = InVector \cup {t} /\ InVector \subseteq Timer
  <2>1. InVector' = InVector \cup {t}
    BY <1>2, PushBackRange
  <2>2. InVector \subseteq Timer
    BY <1>2 DEF InVector
  <2>3. QED
    BY <2>1, <2>2
<1>4. /\ timer'[t].max = n /\ timer'[t].pulses = 0 /\ timer'[t].dying = FALSE
      /\ \A u \in InVector : timer'[u] = timer[u]
  <2>1. timer'[t] = Created(x, n, ps) /\ \A u \in InVector : timer'[u] = timer[u]
    BY <1>2, <1>3
  <2>2. n % Word \in 0 .. Word - 1
    BY <1>1
  <2>3. /\ Created(x, n, ps).max = n /\ Created(x, n, ps).pulses = 0
        /\ Created(x, n, ps).dying = FALSE
    BY <1>1, NewFields
  <2>4. QED
    BY <2>1, <2>3
<1>5. Unspent'
  BY <1>1, <1>2, <1>3, <1>4 DEF FramesInv, Unspent
<1>6. DeadTimers' = DeadTimers
  BY <1>2, <1>3, <1>4 DEF DeadTimers
<1>7. CallsLeft' = [CallsLeft EXCEPT ![t] = n]
  <2>1. \A u \in Timer : CallsLeft'[u] = [CallsLeft EXCEPT ![t] = n][u]
    BY <1>1, <1>2, <1>3, <1>4 DEF CallsLeft
  <2>2. QED
    BY <2>1 DEF CallsLeft
<1>8. TimersAhead' = IF pc = "pulse" THEN TimersAhead \cup {t} ELSE TimersAhead
  <2>1. TimersAhead' = IF InWalk' THEN InVector' \ seen' ELSE {}
    BY AheadUnseenNext
  <2>2. TimersAhead = IF InWalk THEN InVector \ seen ELSE {}
    BY AheadUnseen DEF FramesInv
  <2>3. QED
    BY <1>2, <1>3, <2>1, <2>2 DEF InWalk
<1>9. FrameState' = FrameState /\ FrameState = IF pc = "pulse" THEN "call" ELSE "event"
  BY <1>2 DEF FrameState
<1>10. F!Create(t, n)
  BY <1>2, <1>3, <1>6, <1>7, <1>8, <1>9 DEF F!Create, F!Scripts
<1>11. QED
  BY <1>5, <1>10

\* Timers are marked dead.
LEMMA FrameKills ==
    ASSUME FramesInv, WalkInv', NEW some, Mark(some), pc \in {"idle", "pulse", "event"},
           timers' = timers, pc' = pc, pTimer' = pTimer, closing' = closing, seen' = seen
    PROVE  Unspent' /\ F!Kill
<1>1. InVector' = InVector /\ InVector \subseteq Timer
  BY DEF InVector, FramesInv, WalkInv, TypeOK
<1>2. \A t \in Timer : /\ timer'[t].max = timer[t].max
                       /\ timer'[t].pulses = timer[t].pulses
                       /\ timer[t].dying => timer'[t].dying
  BY MarkFacts DEF FramesInv, WalkInv
<1>3. CallsLeft' = CallsLeft
  BY <1>1, <1>2, CallsLeftSame DEF FramesInv
<1>4. DeadTimers \subseteq DeadTimers' /\ DeadTimers' \subseteq InVector
  BY <1>1, <1>2 DEF DeadTimers
<1>5. TimersAhead' = TimersAhead
  BY <1>1, AheadUnseen, AheadUnseenNext DEF FramesInv, InWalk
<1>6. FrameState' = FrameState /\ FrameState \in {"idle", "call", "event"}
  BY DEF FrameState
<1>7. Unspent'
  BY <1>1, <1>2 DEF FramesInv, Unspent
<1>8. QED
  BY <1>1, <1>3, <1>4, <1>5, <1>6, <1>7 DEF F!Kill, F!Scripts

\* An event begins or ends, and so does a walk.
LEMMA FrameTurns ==
    ASSUME FramesInv, WalkInv', timers' = timers, timer' = timer, pTimer' = pTimer,
           "pulse" \notin {pc, pc'}
    PROVE  /\ Unspent'
           /\ InVector' = InVector /\ DeadTimers' = DeadTimers /\ CallsLeft' = CallsLeft
           /\ TimersAhead = (IF pc = "walk" THEN InVector \ seen ELSE {})
           /\ TimersAhead' = IF pc' = "walk" THEN InVector \ seen' ELSE {}
<1>1. InVector' = InVector
  BY DEF InVector
<1>2. TimersAhead = IF InWalk THEN InVector \ seen ELSE {}
  BY AheadUnseen DEF FramesInv
<1>3. TimersAhead' = IF InWalk' THEN InVector' \ seen' ELSE {}
  BY AheadUnseenNext
<1>4. InWalk = (pc = "walk") /\ InWalk' = (pc' = "walk")
  BY DEF InWalk
<1>5. QED
  BY <1>1, <1>2, <1>3, <1>4 DEF DeadTimers, CallsLeft, FramesInv, Unspent

\* The walk finds the timer it stands on ahead.
LEMMA HereAhead ==
    ASSUME FramesInv, AtTimer
    PROVE  /\ timers[pos] \in InVector /\ timers[pos] \in Timer
           /\ timers[pos] \in TimersAhead
           /\ TimersAhead = InVector \ seen
           /\ timers[pos] \in DeadTimers <=> timer[timers[pos]].dying
<1>1. pc = "walk" /\ pos \in DOMAIN timers /\ timers \in Seq(Timer)
  BY DEF AtTimer, FramesInv, WalkInv, TypeOK
<1>2. TimersAhead = InVector \ seen
  BY <1>1, AheadUnseen DEF FramesInv, InWalk
<1>3. timers[pos] \in TimersAhead
  BY <1>1 DEF TimersAhead, InWalk, Ahead
<1>4. timers[pos] \in InVector /\ timers[pos] \in Timer
  BY <1>1 DEF InVector
<1>5. QED
  BY <1>2, <1>3, <1>4 DEF DeadTimers

\* The last frame finds dead timers only.
LEMMA LastFrame ==
    ASSUME FramesInv, AtTimer, ~timer[timers[pos]].dying
    PROVE  FrameState = "frame"
<1>1. pc = "walk" /\ pos \in DOMAIN timers /\ timers[pos] \in InVector
  BY HereAhead DEF AtTimer, FramesInv, WalkInv, TypeOK
<1>2. timers[pos] \notin doomed
  BY <1>1 DEF FramesInv, WalkInv, Order, DoomedAhead
<1>3. ~closing
  BY <1>1, <1>2 DEF FramesInv, Draining
<1>4. QED
  BY <1>1, <1>3 DEF FrameState

\* A timer that is paused, or whose time has not come, is passed by.
LEMMA FramePasses ==
    ASSUME FramesInv, WalkInv', AtTimer, ~timer[timers[pos]].dying,
           timers' = timers, pc' = pc, pTimer' = pTimer, closing' = closing,
           seen' = seen \cup {timers[pos]},
           \A t \in Timer : /\ timer'[t].max = timer[t].max
                            /\ timer'[t].pulses = timer[t].pulses
                            /\ timer'[t].dying = timer[t].dying
    PROVE  Unspent' /\ F!Pass(timers[pos])
<1>1. /\ timers[pos] \in InVector /\ timers[pos] \in TimersAhead
      /\ TimersAhead = InVector \ seen /\ timers[pos] \notin DeadTimers
  BY HereAhead
<1>2. InVector' = InVector /\ InVector \subseteq Timer
  BY DEF InVector, FramesInv, WalkInv, TypeOK
<1>3. CallsLeft' = CallsLeft
  BY <1>2, CallsLeftSame DEF FramesInv
<1>4. DeadTimers' = DeadTimers
  BY <1>2 DEF DeadTimers
<1>5. TimersAhead' = InVector' \ seen'
  BY AheadUnseenNext DEF AtTimer, InWalk
<1>6. TimersAhead' = TimersAhead \ {timers[pos]}
  BY <1>1, <1>2, <1>5
<1>7. FrameState' = FrameState /\ FrameState = "frame"
  BY LastFrame DEF FrameState
<1>8. Unspent'
  BY <1>2 DEF FramesInv, Unspent
<1>9. QED
  BY <1>1, <1>2, <1>3, <1>4, <1>6, <1>7, <1>8 DEF F!Pass

\* A timer is called; the calls it has left are counted when it returns.
LEMMA FrameCalls ==
    ASSUME FramesInv, WalkInv', Fire
    PROVE  Unspent' /\ F!Call(timers[pos])
<1> DEFINE here == timers[pos]
<1>1. /\ AtTimer /\ ~timer[here].dying /\ pc = "walk" /\ pc' = "pulse" /\ pTimer' = here
      /\ timers' = timers /\ seen' = seen \cup {here} /\ closing' = closing
      /\ timer' = [timer EXCEPT ![here].elapsed = 0]
  BY DEF Fire, Running, Dead, AtTimer, Visit
<1>2. /\ here \in InVector /\ here \in TimersAhead /\ here \in Timer
      /\ TimersAhead = InVector \ seen /\ here \notin DeadTimers
  BY <1>1, HereAhead
<1>3. InVector' = InVector /\ InVector \subseteq Timer
  BY <1>1 DEF InVector, FramesInv, WalkInv, TypeOK
<1>4. \A t \in Timer : /\ timer'[t].max = timer[t].max
                       /\ timer'[t].pulses = timer[t].pulses
                       /\ timer'[t].dying = timer[t].dying
  BY DEF Fire, FramesInv, WalkInv, TypeOK, Field
<1>5. CallsLeft' = CallsLeft
  BY <1>3, <1>4, CallsLeftSame DEF FramesInv
<1>6. DeadTimers' = DeadTimers
  BY <1>3, <1>4 DEF DeadTimers
<1>7. TimersAhead' = InVector' \ seen'
  BY <1>1, AheadUnseenNext DEF InWalk
<1>8. TimersAhead' = TimersAhead \ {here}
  BY <1>1, <1>2, <1>3, <1>7
<1>9. FrameState' = "call" /\ FrameState = "frame"
  BY <1>1, LastFrame DEF FrameState
<1>10. Unspent'
  BY <1>1, <1>3, <1>4 DEF FramesInv, Unspent
<1>11. QED
  BY <1>1, <1>2, <1>3, <1>5, <1>6, <1>8, <1>9, <1>10 DEF F!Call

\* An entry leaves, and what Frames knows of its timer.
LEMMA FrameLoses ==
    ASSUME FramesInv, pos \in DOMAIN timers, Release(timers[pos]), pc' = "walk",
           pTimer' = NoTimer
    PROVE  Unspent' /\ F!Gone(timers[pos]) /\ timers[pos] \in InVector
<1> DEFINE here == timers[pos]
<1>1. /\ InVector' = InVector \ {here} /\ here \in InVector
      /\ \A t \in Timer : t # here => timer'[t] = timer[t]
  BY ReleaseRange DEF FramesInv
<1>2. InVector \subseteq Timer
  BY DEF InVector, FramesInv, WalkInv, TypeOK
<1>3. DeadTimers' = DeadTimers \ {here}
  BY <1>1, <1>2 DEF DeadTimers
<1>4. CallsLeft' = [CallsLeft EXCEPT ![here] = 0]
  <2>1. \A u \in Timer : CallsLeft'[u] = [CallsLeft EXCEPT ![here] = 0][u]
    BY <1>1, <1>2 DEF CallsLeft
  <2>2. QED
    BY <2>1 DEF CallsLeft
<1>5. Unspent'
  BY <1>1, <1>2 DEF FramesInv, Unspent
<1>6. QED
  BY <1>1, <1>3, <1>4, <1>5 DEF F!Gone

\* A dead timer leaves when the walk comes to it.
LEMMA FrameLeaves ==
    ASSUME FramesInv, WalkInv', Reap
    PROVE  Unspent' /\ F!Leave(timers[pos])
<1> DEFINE here == timers[pos]
<1>1. /\ AtTimer /\ timer[here].dying /\ pc = "walk" /\ pc' = "walk" /\ pTimer' = pTimer
      /\ seen' = seen \cup {here} /\ closing' = closing /\ Release(here)
  BY DEF Reap, Dead, AtTimer
<1>2. /\ here \in InVector /\ here \in TimersAhead /\ here \in DeadTimers
      /\ TimersAhead = InVector \ seen
  BY <1>1, HereAhead
<1>3. pos \in DOMAIN timers /\ pTimer = NoTimer
  BY <1>1 DEF AtTimer, FramesInv, Unspent, WalkInv, TypeOK
<1>4. Unspent' /\ F!Gone(here)
  BY <1>1, <1>3, FrameLoses
<1>5. InVector' = InVector \ {here}
  BY <1>4 DEF F!Gone
<1>6. TimersAhead' = InVector' \ seen'
  BY <1>1, AheadUnseenNext DEF InWalk
<1>7. TimersAhead' = TimersAhead \ {here}
  BY <1>1, <1>2, <1>5, <1>6
<1>8. FrameState' = FrameState /\ FrameState \in {"frame", "last"}
  BY <1>1 DEF FrameState
<1>9. QED
  BY <1>1, <1>2, <1>4, <1>7, <1>8 DEF F!Leave

\* A call that was not the last one leaves one call less, and any call may end
\* with the timer removed.
LEMMA FrameReturned ==
    ASSUME FramesInv, WalkInv', PulseReturns
    PROVE  Unspent' /\ F!Returns
<1> DEFINE here == timers[pos]
<1>1. /\ pc = "pulse" /\ pc' = "walk" /\ pTimer' = NoTimer /\ closing' = closing
      /\ seen' = seen /\ pos \in DOMAIN timers /\ here = pTimer
  BY DEF PulseReturns, PulseContinues, PulseDies, FramesInv, WalkInv, PulsedInPlace
<1>2. here \in InVector /\ InVector \subseteq Timer /\ here \in Timer
  BY <1>1 DEF InVector, FramesInv, WalkInv, TypeOK
<1>3. here \in seen
  BY <1>1 DEF FramesInv, WalkInv, Order, SeenBehind, Passed
<1>4. FrameState = "call" /\ FrameState' = "frame"
  BY <1>1 DEF FrameState, FramesInv, Draining
<1>5. TimersAhead = InVector \ seen /\ TimersAhead' = InVector' \ seen
  BY <1>1, AheadUnseen, AheadUnseenNext DEF FramesInv, InWalk
<1>6. CASE PulseContinues
  <2>1. /\ timers' = timers /\ ~Exhausted
        /\ timer' = [timer EXCEPT ![here].pulses = NextPulse]
    BY <1>1, <1>6 DEF PulseContinues
  <2>2. timer[here] \in Field /\ timer \in [Timer -> Field]
    BY <1>2 DEF FramesInv, WalkInv, TypeOK
  <2>3. timer[here].max \in 0 .. Word - 1 /\ timer[here].pulses \in 0 .. Word - 1
    BY <2>2, FieldTypes
  <2>4. timer[here].max > 0 => timer[here].pulses < timer[here].max
    BY <1>2 DEF FramesInv, Unspent
  <2>5. timer[here].max > 0 => NextPulse = timer[here].pulses + 1
    BY <1>1, <2>3, <2>4, ModFacts, WordAssumption DEF NextPulse
  <2>6. timer[here].max > 0 => NextPulse < timer[here].max
    BY <1>1, <2>1, <2>3, <2>5, WordAssumption DEF Exhausted
  <2>7. /\ timer'[here].max = timer[here].max /\ timer'[here].pulses = NextPulse
        /\ \A t \in Timer : t # here => timer'[t] = timer[t]
        /\ \A t \in Timer : timer'[t].dying = timer[t].dying
    BY <1>2, <2>1, <2>2 DEF Field
  <2>8. InVector' = InVector /\ DeadTimers' = DeadTimers
    BY <1>2, <2>1, <2>7 DEF InVector, DeadTimers
  <2>9. Unspent'
    BY <1>1, <1>2, <2>6, <2>7, <2>8 DEF FramesInv, Unspent
  <2>10. CallsLeft[here] # 1
    BY <1>2, <2>3, <2>4, <2>5, <2>6, WordAssumption DEF CallsLeft
  <2>11. CallsLeft' = [CallsLeft EXCEPT ![here] = IF @ = 0 THEN 0 ELSE @ - 1]
    <3>1. CallsLeft'[here] = IF CallsLeft[here] = 0 THEN 0 ELSE CallsLeft[here] - 1
      BY <1>2, <2>3, <2>4, <2>5, <2>6, <2>7, <2>8, WordAssumption DEF CallsLeft
    <3>2. \A u \in Timer : u # here => CallsLeft'[u] = CallsLeft[u]
      BY <1>2, <2>7, <2>8 DEF CallsLeft
    <3>3. QED
      BY <1>2, <3>1, <3>2 DEF CallsLeft
  <2>12. F!Return
    BY <1>1, <2>8, <2>10, <2>11 DEF F!Return
  <2>13. QED
    BY <1>1, <1>4, <1>5, <2>8, <2>9, <2>12 DEF F!Returns
<1>7. CASE PulseDies
  <2>1. Release(here)
    BY <1>7 DEF PulseDies
  <2>2. Unspent' /\ F!Gone(here)
    BY <1>1, <2>1, FrameLoses
  <2>3. InVector' = InVector \ {here}
    BY <2>2 DEF F!Gone
  <2>4. TimersAhead' = TimersAhead
    BY <1>3, <1>5, <2>3
  <2>5. QED
    BY <1>1, <1>4, <2>2, <2>4 DEF F!Returns, F!ReturnAndLeave
<1>8. QED
  BY <1>6, <1>7 DEF PulseReturns

\* A frame begins with every timer ahead; it ends with none, and the last one
\* with no timer at all.
LEMMA FrameBegun ==
    ASSUME FramesInv, WalkInv', NEW d \in Delta, OnFrame(d)
    PROVE  Unspent' /\ F!FrameBegins
<1>1. /\ timers' = timers /\ timer' = timer /\ pTimer' = pTimer /\ pc = "idle"
      /\ pc' = "walk" /\ seen' = {} /\ closing' = closing
  BY DEF OnFrame, StartWalk
<1>2. /\ Unspent' /\ InVector' = InVector /\ DeadTimers' = DeadTimers
      /\ CallsLeft' = CallsLeft /\ TimersAhead' = InVector \ seen'
  BY <1>1, FrameTurns
<1>3. FrameState = "idle" /\ FrameState' = "frame"
  BY <1>1 DEF FrameState, FramesInv, Draining
<1>4. TimersAhead' = InVector
  BY <1>1, <1>2
<1>5. QED
  BY <1>1, <1>2, <1>3, <1>4 DEF F!FrameBegins

LEMMA FrameLast ==
    ASSUME FramesInv, WalkInv', Destroy
    PROVE  Unspent' /\ F!LastBegins
<1>1. /\ timers' = timers /\ pTimer' = pTimer /\ pc = "idle" /\ pc' = "walk"
      /\ seen' = {} /\ closing' = TRUE /\ Mark(InVector)
  BY DEF Destroy, StartWalk
<1>2. InVector' = InVector /\ InVector \subseteq Timer
  BY <1>1 DEF InVector, FramesInv, WalkInv, TypeOK
<1>3. \A t \in Timer : /\ timer'[t].max = timer[t].max
                       /\ timer'[t].pulses = timer[t].pulses
                       /\ timer'[t].dying = (t \in InVector \/ timer[t].dying)
  BY <1>1, MarkFacts DEF FramesInv, WalkInv
<1>4. CallsLeft' = CallsLeft
  BY <1>2, <1>3, CallsLeftSame DEF FramesInv
<1>5. DeadTimers' = InVector
  BY <1>2, <1>3 DEF DeadTimers
<1>6. TimersAhead' = InVector' \ seen'
  BY <1>1, AheadUnseenNext DEF InWalk
<1>7. TimersAhead' = InVector
  BY <1>1, <1>2, <1>6
<1>8. FrameState = "idle" /\ FrameState' = "last"
  BY <1>1 DEF FrameState
<1>9. Unspent'
  BY <1>1, <1>2, <1>3 DEF FramesInv, Unspent
<1>10. QED
  BY <1>1, <1>2, <1>4, <1>5, <1>7, <1>8, <1>9 DEF F!LastBegins

LEMMA FrameEnded ==
    ASSUME FramesInv, WalkInv', Draining', WalkEnds
    PROVE  Unspent' /\ F!FrameEnds
<1>1. /\ timers' = timers /\ timer' = timer /\ pTimer' = pTimer /\ pc = "walk"
      /\ pc' = (IF closing THEN "closed" ELSE "idle") /\ closing' = closing
      /\ pos > Len(timers)
  BY DEF WalkEnds
<1>2. /\ Unspent' /\ InVector' = InVector /\ DeadTimers' = DeadTimers
      /\ CallsLeft' = CallsLeft /\ TimersAhead' = {}
  BY <1>1, FrameTurns
<1>3. TimersAhead = {}
  <2>1. /\ DOMAIN timers = 1 .. Len(timers) /\ Len(timers) \in Nat /\ pos \in Nat
    BY DEF FramesInv, WalkInv, TypeOK
  <2>2. \A k \in DOMAIN timers : ~Ahead(k)
    BY <1>1, <2>1 DEF Ahead
  <2>3. QED
    BY <2>2 DEF TimersAhead
<1>4. CASE closing
  <2>1. FrameState = "last" /\ FrameState' = "gone"
    BY <1>1, <1>4 DEF FrameState
  <2>2. timers = <<>>
    BY <1>1, <1>4 DEF Draining
  <2>3. InVector = {}
    BY <2>2 DEF InVector
  <2>4. QED
    BY <1>1, <1>2, <1>3, <2>1, <2>3 DEF F!FrameEnds
<1>5. CASE ~closing
  <2>1. FrameState = "frame" /\ FrameState' = "idle"
    BY <1>1, <1>5 DEF FrameState
  <2>2. QED
    BY <1>1, <1>2, <1>3, <2>1 DEF F!FrameEnds
<1>6. QED
  BY <1>4, <1>5

\* An event begins or ends.
LEMMA FrameEvents ==
    ASSUME FramesInv, WalkInv', EventBegins \/ EventEnds
    PROVE  Unspent' /\ (F!EventBegins \/ F!EventEnds)
<1>1. /\ timers' = timers /\ timer' = timer /\ pTimer' = pTimer
      /\ {pc, pc'} = {"idle", "event"}
  BY DEF EventBegins, EventEnds
<1>2. /\ Unspent' /\ InVector' = InVector /\ DeadTimers' = DeadTimers
      /\ CallsLeft' = CallsLeft /\ TimersAhead' = {} /\ TimersAhead = {}
  BY <1>1, FrameTurns
<1>3. CASE EventBegins
  <2>1. FrameState = "idle" /\ FrameState' = "event"
    BY <1>3 DEF EventBegins, FrameState
  <2>2. QED
    BY <1>1, <1>2, <2>1 DEF F!EventBegins
<1>4. CASE EventEnds
  <2>1. FrameState = "event" /\ FrameState' = "idle"
    BY <1>4 DEF EventEnds, FrameState
  <2>2. QED
    BY <1>1, <1>2, <2>1 DEF F!EventEnds
<1>5. QED
  BY <1>3, <1>4

\* Every step of the timers is one of Frames, or none.
LEMMA FramesStep ==
    ASSUME Repeats \subseteq 0 .. Word - 1
    PROVE  FramesInv /\ [Next]_vars => FramesInv' /\ [F!Next]_(F!vars)
<1> SUFFICES ASSUME FramesInv, [Next]_vars
             PROVE  Unspent' /\ [F!Next]_(F!vars)
  BY WalkStep, DrainStep DEF FramesInv
<1>1. WalkInv' /\ Draining'
  BY WalkStep, DrainStep DEF FramesInv
<1>2. ASSUME NEW t \in Timer, NEW x \in Interval, NEW n \in Repeats,
             NEW ps \in SUBSET Subject, NewTimer(t, x, n, ps)
      PROVE  Unspent' /\ F!Next
  BY <1>1, <1>2, FrameCreates DEF F!Next
<1>3. ASSUME NEW t \in Timer, Delete(t) PROVE Unspent' /\ F!Next
  <2>1. Unspent' /\ F!Kill
    BY <1>1, <1>3, FrameKills DEF Delete, ScriptRuns
  <2>2. QED
    BY <2>1 DEF F!Next
<1>4. CASE DropAllTimers
  <2>1. Unspent' /\ F!Kill
    BY <1>1, <1>4, FrameKills DEF DropAllTimers, ScriptRuns
  <2>2. QED
    BY <2>1 DEF F!Next
<1>5. ASSUME NEW id \in Subject, CancelTimersForPlayer(id) PROVE Unspent' /\ F!Next
  <2>1. Unspent' /\ F!Kill
    BY <1>1, <1>5, FrameKills DEF CancelTimersForPlayer, ScriptRuns
  <2>2. QED
    BY <2>1 DEF F!Next
<1>6. ASSUME NEW t \in Timer, NEW b \in BOOLEAN, SetPaused(t, b)
      PROVE  Unspent' /\ UNCHANGED F!vars
  <2>1. \A u \in Timer : /\ timer'[u].max = timer[u].max
                         /\ timer'[u].pulses = timer[u].pulses
                         /\ timer'[u].dying = timer[u].dying
    BY <1>6 DEF SetPaused, FramesInv, WalkInv, TypeOK, Field
  <2>2. QED
    BY <1>1, <1>6, <2>1, FrameStays DEF SetPaused
<1>7. ASSUME NEW t \in Timer, NEW x \in Interval, SetInterval(t, x)
      PROVE  Unspent' /\ UNCHANGED F!vars
  <2>1. \A u \in Timer : /\ timer'[u].max = timer[u].max
                         /\ timer'[u].pulses = timer[u].pulses
                         /\ timer'[u].dying = timer[u].dying
    BY <1>7 DEF SetInterval, FramesInv, WalkInv, TypeOK, Field
  <2>2. QED
    BY <1>1, <1>7, <2>1, FrameStays DEF SetInterval
<1>8. CASE EventBegins \/ EventEnds
  BY <1>1, <1>8, FrameEvents DEF F!Next
<1>9. ASSUME NEW d \in Delta, OnFrame(d) PROVE Unspent' /\ F!Next
  BY <1>1, <1>9, FrameBegun DEF F!Next
<1>10. CASE Destroy
  BY <1>1, <1>10, FrameLast DEF F!Next
<1>11. CASE Reap
  <2>1. timers[pos] \in InVector
    BY <1>11, HereAhead DEF Reap
  <2>2. QED
    BY <1>1, <1>11, <2>1, FrameLeaves DEF F!Next
<1>12. CASE SkipPaused \/ Accumulate
  <2>1. timers[pos] \in InVector
    BY <1>12, HereAhead DEF SkipPaused, Accumulate
  <2>2. \A u \in Timer : /\ timer'[u].max = timer[u].max
                         /\ timer'[u].pulses = timer[u].pulses
                         /\ timer'[u].dying = timer[u].dying
    <3>1. CASE SkipPaused
      BY <3>1 DEF SkipPaused
    <3>2. CASE Accumulate
      BY <3>2 DEF Accumulate, FramesInv, WalkInv, TypeOK, Field
    <3>3. QED
      BY <1>12, <3>1, <3>2
  <2>3. /\ AtTimer /\ ~timer[timers[pos]].dying /\ timers' = timers /\ pc' = pc
        /\ pTimer' = pTimer /\ closing' = closing /\ seen' = seen \cup {timers[pos]}
    BY <1>12 DEF SkipPaused, Accumulate, Dead, Running, Visit, AtTimer
  <2>4. Unspent' /\ F!Pass(timers[pos])
    BY <1>1, <2>2, <2>3, FramePasses
  <2>5. QED
    BY <2>1, <2>4 DEF F!Next
<1>13. CASE Fire
  <2>1. timers[pos] \in InVector
    BY <1>13, HereAhead DEF Fire
  <2>2. QED
    BY <1>1, <1>13, <2>1, FrameCalls DEF F!Next
<1>14. CASE WalkEnds
  BY <1>1, <1>14, FrameEnded DEF F!Next
<1>15. CASE PulseReturns
  BY <1>1, <1>15, FrameReturned DEF F!Next
<1>16. CASE Terminated \/ UNCHANGED vars
  BY <1>1, <1>16, FrameStays DEF Terminated, vars
<1>17. QED
  BY <1>2, <1>3, <1>4, <1>5, <1>6, <1>7, <1>8, <1>9, <1>10, <1>11, <1>12,
     <1>13, <1>14, <1>15, <1>16 DEF Next, Script, Walk

LEMMA FramesInit == Init => FramesInv /\ F!Init
<1> SUFFICES ASSUME Init PROVE FramesInv /\ F!Init
  OBVIOUS
<1>1. WalkInv
  BY InitType, InitPulsed
     DEF Init, WalkInv, Order, NoDuplicates, SeenBehind, DueAhead, DoomedAhead
<1>2. InVector = {} /\ TimersAhead = {} /\ DeadTimers = {}
  BY DEF Init, InVector, TimersAhead, DeadTimers, InWalk
<1>3. Draining /\ Unspent
  BY <1>2 DEF Init, Draining, Unspent
<1>4. CallsLeft = [t \in Timer |-> 0]
  BY <1>2 DEF CallsLeft
<1>5. FrameState = "idle" /\ pTimer = NoTimer
  BY DEF Init, FrameState
<1>6. QED
  BY <1>1, <1>2, <1>3, <1>4, <1>5 DEF FramesInv, F!Init

\* If every repeat count a script gives fits unsigned int, the vector and the
\* walk over it do what Frames says, whatever scripts do meanwhile.
THEOREM FramesCorrect ==
    ASSUME Repeats \subseteq 0 .. Word - 1
    PROVE  Spec => FramesSpec
<1>1. FramesInv /\ [Next]_vars => FramesInv' /\ [F!Next]_(F!vars)
  BY FramesStep
<1>2. QED
  BY <1>1, FramesInit, PTL DEF Spec, FramesSpec, F!Spec

==============================================================================
