----------------------------- MODULE Session_proofs -----------------------------
(***************************************************************************)
(* Proofs about Session, for any number of players and timers.  The        *)
(* invariant of the walk is that of Timers_proofs.                         *)
(***************************************************************************)
EXTENDS Session, Timers_proofs, SequenceTheorems

\* The timers that hold a player whose CPlayer was deleted are of the vector,
\* and marked
Marked == \A t \in dangling : t \in InVector /\ timer[t].dying

\* So are those that hold a player whose onPlayerPart runs
Promised ==
    \A t \in InVector : \A p \in Leaving : p \in holds[t] => timer[t].dying

SessionInv == WalkInv /\ SessionTypeOK /\ Marked /\ Promised

\* A timer that stays in the vector stays dead, whatever the host does.
LEMMA DyingStays ==
    ASSUME WalkInv, Next, NEW t \in InVector, t \in InVector', timer[t].dying
    PROVE  timer'[t].dying
<1>1. /\ t \in Timer /\ timer \in [Timer -> Field] /\ timers \in Seq(Timer)
      /\ DOMAIN timers = 1 .. Len(timers) /\ TypeOK
  BY DEF WalkInv, TypeOK, InVector
<1>2. ASSUME NEW dead, Mark(dead) PROVE timer'[t].dying
  BY <1>1, <1>2, MarkFacts
<1>3. ASSUME timer' = timer PROVE timer'[t].dying
  BY <1>3
<1>4. ASSUME pos \in DOMAIN timers, Release(timers[pos]) PROVE timer'[t].dying
  <2>1. timers' = SwapRemove(timers, pos) /\ pos \in 1 .. Len(timers)
    BY <1>1, <1>4 DEF Release
  <2>2. PICK k \in DOMAIN timers' : t = timers'[k]
    BY DEF InVector
  <2>3. PICK j \in DOMAIN timers : j # pos /\ t = timers[j]
    BY <1>1, <2>1, <2>2, SwapRemoveKeeps
  <2>4. t # timers[pos]
    BY <1>4, <2>3 DEF WalkInv, Order, NoDuplicates
  <2>5. QED
    BY <1>1, <1>4, <2>4 DEF Release
<1>5. ASSUME NEW u \in Timer, NEW x \in Interval, NEW n \in Repeats,
             NEW ps \in SUBSET Subject, NewTimer(u, x, n, ps)
      PROVE  timer'[t].dying
  BY <1>1, <1>5 DEF NewTimer
<1>6. ASSUME NEW u \in Timer, Delete(u) PROVE timer'[t].dying
  BY <1>2, <1>6 DEF Delete
<1>7. ASSUME NEW u \in Timer, NEW b \in BOOLEAN, SetPaused(u, b)
      PROVE  timer'[t].dying
  BY <1>1, <1>7 DEF SetPaused, Field
<1>8. ASSUME NEW u \in Timer, NEW x \in Interval, SetInterval(u, x)
      PROVE  timer'[t].dying
  BY <1>1, <1>8 DEF SetInterval, Field
<1>9. CASE DropAllTimers \/ (\E id \in Subject : CancelTimersForPlayer(id))
  BY <1>2, <1>9 DEF DropAllTimers, CancelTimersForPlayer
<1>10. CASE EventBegins \/ EventEnds \/ (\E d \in Delta : OnFrame(d))
  BY <1>3, <1>10 DEF EventBegins, EventEnds, OnFrame
<1>11. CASE Destroy
  BY <1>2, <1>11 DEF Destroy
<1>12. CASE Reap
  <2>1. pos \in DOMAIN timers
    BY <1>1, <1>12 DEF Reap, AtTimer, TypeOK
  <2>2. QED
    BY <1>4, <1>12, <2>1 DEF Reap
<1>13. CASE SkipPaused \/ WalkEnds \/ Terminated
  BY <1>3, <1>13 DEF SkipPaused, WalkEnds, Terminated, vars
<1>14. CASE Accumulate
  BY <1>1, <1>14 DEF Accumulate, Field
<1>15. CASE Fire
  BY <1>1, <1>15 DEF Fire, Field
<1>16. CASE PulseContinues
  BY <1>1, <1>16 DEF PulseContinues, Field
<1>17. CASE PulseDies
  BY <1>4, <1>17 DEF PulseDies, WalkInv, PulsedInPlace
<1>18. QED
  BY <1>5, <1>6, <1>7, <1>8, <1>9, <1>10, <1>11, <1>12, <1>13, <1>14, <1>15,
     <1>16, <1>17 DEF Next, Script, Walk, PulseReturns

-------------------------------------------------------------------------------
(* One lemma per action. *)

\* A step of the timers that concerns no player.
LEMMA PlayersKept ==
    ASSUME SessionInv, Next, InVector' = InVector, UNCHANGED players
    PROVE  SessionInv'
<1>1. WalkInv'
  BY WalkStep DEF SessionInv
<1>2. SessionTypeOK'
  BY DEF SessionInv, SessionTypeOK, players
<1>3. \A t \in InVector : timer[t].dying => timer'[t].dying
  BY DyingStays DEF SessionInv
<1>4. Marked'
  BY <1>3 DEF SessionInv, Marked, players
<1>5. Promised'
  BY <1>3 DEF SessionInv, Promised, players, Leaving
<1>6. QED
  BY <1>1, <1>2, <1>4, <1>5 DEF SessionInv

\* A player joins.
LEMMA SessionConnect ==
    ASSUME SessionInv, NEW p \in Player, OnPlayerConnect(p)
    PROVE  SessionInv'
<1>1. EventBegins /\ Next
  BY DEF OnPlayerConnect, Next
<1>2. WalkInv'
  BY <1>1, WalkStep DEF SessionInv
<1>3. timer' = timer /\ InVector' = InVector
  BY <1>1 DEF EventBegins, InVector
<1>4. SessionTypeOK' /\ Marked' /\ Promised'
  BY <1>3 DEF OnPlayerConnect, SessionInv, SessionTypeOK, Marked, Promised, Leaving
<1>5. QED
  BY <1>2, <1>4 DEF SessionInv

\* Marking timers, from whatever is read of the players they hold, keeps the
\* walk in order.
LEMMA MarkKeepsWalk ==
    ASSUME WalkInv, NEW dead, Mark(dead),
           UNCHANGED <<timers, pc, pos, pTimer, delta, closing, history>>
    PROVE  /\ WalkInv'
           /\ InVector' = InVector
           /\ \A t \in InVector :
                /\ t \in Timer
                /\ timer'[t].dying = (t \in dead \/ timer[t].dying)
<1>1. /\ timer' \in [Timer -> Field]
      /\ \A t \in Timer : timer'[t].dying = (t \in dead \/ timer[t].dying)
  BY MarkFacts DEF WalkInv
<1>2. TypeOK'
  BY <1>1 DEF WalkInv, TypeOK, history
<1>3. PulsedInPlace'
  BY DEF WalkInv, PulsedInPlace
<1>4. Order'
  BY <1>1, OrderKept DEF history
<1>5. QED
  BY <1>1, <1>2, <1>3, <1>4 DEF WalkInv, InVector, TypeOK

\* A player leaves: his timers are marked before anything else.
LEMMA SessionLeave ==
    ASSUME SessionInv, NEW p \in Player, Leave(p)
    PROVE  SessionInv'
<1> DEFINE call == [id |-> p, nested |-> ScriptRuns]
<1>1. PICK gone \in SUBSET Strange, misread \in SUBSET InVector :
        /\ misread \subseteq gone \cup dangling
        /\ Mark(Cancelled(p, gone) \cup misread)
  BY DEF Leave
<1>2. /\ leaving' = Append(leaving, call)
      /\ UNCHANGED <<timers, pc, pos, pTimer, delta, closing, history>>
      /\ playerMap' = playerMap /\ holds' = holds /\ dangling' = dangling
  BY DEF Leave
<1>3. /\ WalkInv' /\ InVector' = InVector
      /\ \A t \in InVector :
            timer'[t].dying = (t \in Cancelled(p, gone) \cup misread \/ timer[t].dying)
  BY <1>1, <1>2, MarkKeepsWalk DEF SessionInv
<1>4. leaving \in Seq([id : Player, nested : BOOLEAN]) /\ call.id = p
  BY DEF SessionInv, SessionTypeOK
<1>5. call \in [id : Player, nested : BOOLEAN]
  BY DEF ScriptRuns
<1> HIDE DEF call
<1>6. leaving' \in Seq([id : Player, nested : BOOLEAN])
  BY <1>2, <1>4, <1>5
<1>7. \A i \in DOMAIN leaving' : (i \in DOMAIN leaving /\ leaving'[i] = leaving[i])
                                  \/ leaving'[i] = call
  BY <1>2, <1>4, <1>5
<1>8. Leaving' \subseteq Leaving \cup {p}
  BY <1>4, <1>7 DEF Leaving
<1>9. SessionTypeOK'
  BY <1>2, <1>6 DEF SessionInv, SessionTypeOK
<1>10. Marked'
  BY <1>2, <1>3 DEF SessionInv, Marked
<1>11. Promised'
  BY <1>2, <1>3, <1>8 DEF SessionInv, Promised, Cancelled
<1>12. QED
  BY <1>3, <1>9, <1>10, <1>11 DEF SessionInv

\* onPlayerPart has returned: the CPlayer is deleted, and the timers that hold
\* it are marked.
LEMMA SessionPartReturns ==
    ASSUME SessionInv, PartReturns
    PROVE  SessionInv'
<1> DEFINE calls == [id : Player, nested : BOOLEAN]
<1>1. leaving \in Seq(calls) /\ leaving # <<>>
  BY DEF PartReturns, SessionInv, SessionTypeOK
<1>2. Len(leaving) \in DOMAIN leaving /\ Len(leaving) \in Nat /\ Last \in calls
  <2> HIDE DEF calls
  <2>1. Len(leaving) \in Nat /\ DOMAIN leaving = 1 .. Len(leaving) /\ Len(leaving) # 0
    BY <1>1, EmptySeq
  <2>2. QED
    BY <1>1, <2>1 DEF Last
<1>3. /\ leaving' = SubSeq(leaving, 1, Len(leaving) - 1)
      /\ playerMap' = playerMap \ {Last.id}
      /\ dangling' = dangling \cup {t \in InVector : Last.id \in holds[t]}
      /\ holds' = [t \in Timer |-> holds[t] \ {Last.id}]
  BY DEF PartReturns, Dereference
<1>4. /\ WalkInv' /\ timer' = timer /\ InVector' = InVector
  <2>1. CASE EventEnds
    BY <2>1, WalkStep DEF SessionInv, EventEnds, InVector, Next
  <2>2. CASE UNCHANGED vars
    BY <2>2, WalkStep DEF SessionInv, vars, InVector
  <2>3. QED
    BY <2>1, <2>2 DEF PartReturns
<1> HIDE DEF calls
<1>5. /\ leaving' \in Seq(calls)
      /\ \A i \in DOMAIN leaving' : i \in DOMAIN leaving /\ leaving'[i] = leaving[i]
  BY <1>1, <1>2, <1>3
<1>6. Leaving' \subseteq Leaving /\ Last.id \in Leaving
  BY <1>2, <1>5 DEF Leaving, Last
<1>7. /\ holds \in [Timer -> SUBSET Player] /\ InVector \subseteq Timer
  BY DEF SessionInv, SessionTypeOK, WalkInv, TypeOK, InVector
<1>8. SessionTypeOK'
  BY <1>3, <1>5, <1>7 DEF SessionInv, SessionTypeOK, calls
<1>9. Marked'
  BY <1>3, <1>4, <1>6, <1>7 DEF SessionInv, Marked, Promised
<1>10. Promised'
  BY <1>3, <1>4, <1>6, <1>7 DEF SessionInv, Promised
<1>11. QED
  BY <1>4, <1>8, <1>9, <1>10 DEF SessionInv

\* A new timer holds nobody who leaves.
LEMMA SessionCreates ==
    ASSUME SessionInv, ~PartTimers, NEW t \in Timer, NEW hs \in SUBSET Player,
           SessionNewTimer(t, hs)
    PROVE  SessionInv'
<1>1. PICK x \in Interval, n \in Repeats, ps \in SUBSET Subject : NewTimer(t, x, n, ps)
  BY DEF SessionNewTimer
<1>2. Next
  BY <1>1 DEF Next, Script
<1>3. WalkInv'
  BY <1>2, WalkStep DEF SessionInv
<1>4. /\ hs \cap Leaving = {} /\ holds' = [holds EXCEPT ![t] = hs]
      /\ playerMap' = playerMap /\ leaving' = leaving /\ dangling' = dangling
  BY DEF SessionNewTimer
<1>5. t \notin InVector /\ timers' = PushBack(timers, t)
  BY <1>1 DEF NewTimer
<1>6. InVector' = InVector \cup {t}
  <2>1. /\ timers \in Seq(Timer) /\ timers' \in Seq(Timer)
        /\ Len(timers') = Len(timers) + 1
        /\ \A k \in 1 .. Len(timers) : timers'[k] = timers[k]
        /\ timers'[Len(timers) + 1] = t
    BY <1>5, PushBackFacts DEF SessionInv, WalkInv, TypeOK
  <2>2. Len(timers) \in Nat /\ DOMAIN timers = 1 .. Len(timers)
        /\ DOMAIN timers' = 1 .. Len(timers) + 1
    BY <2>1
  <2>3. \A k \in DOMAIN timers' : k \in DOMAIN timers \/ k = Len(timers) + 1
    BY <2>2
  <2>4. DOMAIN timers \subseteq DOMAIN timers' /\ Len(timers) + 1 \in DOMAIN timers'
    BY <2>2
  <2>5. \A k \in DOMAIN timers : timers'[k] = timers[k]
    BY <2>1, <2>2
  <2>6. QED
    BY <2>1, <2>3, <2>4, <2>5 DEF InVector
<1>7. \A u \in InVector : timer[u].dying => timer'[u].dying
  BY <1>2, <1>6, DyingStays DEF SessionInv
<1>8. holds \in [Timer -> SUBSET Player] /\ InVector \subseteq Timer
  BY DEF SessionInv, SessionTypeOK, WalkInv, TypeOK, InVector
<1>9. SessionTypeOK'
  BY <1>4, <1>8 DEF SessionInv, SessionTypeOK
<1>10. Marked'
  BY <1>4, <1>6, <1>7 DEF SessionInv, Marked
<1>11. Promised'
  BY <1>4, <1>5, <1>6, <1>7, <1>8 DEF SessionInv, Promised, Leaving
<1>12. QED
  BY <1>3, <1>9, <1>10, <1>11 DEF SessionInv

\* Nobody is leaving when the server calls, and an entry that goes takes what
\* it holds with it.
LEMMA SessionServer ==
    ASSUME SessionInv, Server
    PROVE  SessionInv'
<1>1. Next
  BY DEF Server, Next
<1>2. WalkInv'
  BY <1>1, WalkStep DEF SessionInv
<1>3. /\ leaving = <<>> /\ leaving' = <<>> /\ playerMap' = playerMap
      /\ holds' = [t \in Timer |-> IF t \in InVector' THEN holds[t] ELSE {}]
      /\ dangling' = dangling \cap InVector'
  BY DEF Server
<1>4. SessionTypeOK'
  BY <1>3 DEF SessionInv, SessionTypeOK
<1>5. Marked'
  BY <1>1, <1>3, DyingStays DEF SessionInv, Marked
<1>6. Promised'
  BY <1>3 DEF Promised, Leaving
<1>7. QED
  BY <1>2, <1>4, <1>5, <1>6 DEF SessionInv

LEMMA SessionStep == ~PartTimers /\ SessionInv /\ [SessionNext]_sessionVars => SessionInv'
<1> SUFFICES ASSUME ~PartTimers, SessionInv, [SessionNext]_sessionVars
             PROVE  SessionInv'
  OBVIOUS
<1>1. CASE PartBegins
  BY <1>1, PlayersKept DEF PartBegins, EventBegins, InVector, Next
<1>2. CASE SessionScript
  <2>1. Next /\ timers' = timers /\ UNCHANGED players
    BY <1>2 DEF SessionScript, Script, Next, Delete, SetPaused, SetInterval, DropAllTimers
  <2>2. QED
    BY <2>1, PlayersKept DEF InVector
<1>3. CASE SessionTerminated
  BY <1>3, PlayersKept DEF SessionTerminated, Terminated, vars, InVector, Next
<1>4. CASE UNCHANGED sessionVars
  <2>1. UNCHANGED vars /\ UNCHANGED players
    BY <1>4 DEF sessionVars
  <2>2. WalkInv'
    BY <2>1, WalkStep DEF SessionInv
  <2>3. QED
    BY <2>1, <2>2 DEF SessionInv, SessionTypeOK, Marked, Promised, Leaving,
       InVector, vars, players
<1>5. QED
  BY <1>1, <1>2, <1>3, <1>4, SessionConnect, SessionLeave, SessionPartReturns,
     SessionCreates, SessionServer DEF SessionNext

LEMMA SessionInvariant ==
    ASSUME ~PartTimers
    PROVE  SessionSpec => []SessionInv
<1>1. SessionInit => SessionInv
  <2> SUFFICES ASSUME SessionInit PROVE SessionInv
    OBVIOUS
  <2>1. WalkInv
    BY InitType, InitPulsed
       DEF SessionInit, Init, WalkInv, Order, NoDuplicates, SeenBehind, DueAhead, DoomedAhead
  <2>2. SessionTypeOK /\ Marked /\ Promised
    BY DEF SessionInit, SessionTypeOK, Marked, Promised, Leaving
  <2>3. QED
    BY <2>1, <2>2 DEF SessionInv
<1>2. SessionInv /\ [SessionNext]_sessionVars => SessionInv'
  BY SessionStep
<1>3. QED
  BY <1>1, <1>2, PTL DEF SessionSpec

-------------------------------------------------------------------------------
\* If onPlayerPart makes no timers with the player who leaves, no timer that
\* holds a player who has left is ever called again.
THEOREM GonePlayersTimersDieCorrect ==
    ASSUME ~PartTimers
    PROVE  SessionSpec => []GonePlayersTimersDie
<1>1. SessionInv => GonePlayersTimersDie
  BY DEF SessionInv, Marked, GonePlayersTimersDie
<1>2. QED
  BY <1>1, SessionInvariant, PTL

\* Under the same condition, and whatever else timers hold: a timer that holds only
\* other players goes on when a player leaves.
THEOREM OthersTimersStayCorrect ==
    ASSUME ~PartTimers
    PROVE  SessionSpec => OthersTimersStay
<1> DEFINE Stay ==
      \A p \in Player : Leave(p) =>
          \A t \in InVector \ Strange :
              p \notin holds[t] /\ ~timer[t].dying => ~timer'[t].dying
<1>1. SessionInv => Stay
  <2> SUFFICES ASSUME SessionInv, NEW p \in Player, Leave(p), NEW t \in InVector \ Strange,
                      p \notin holds[t], ~timer[t].dying
               PROVE  ~timer'[t].dying
    OBVIOUS
  <2>1. PICK gone \in SUBSET Strange, misread \in SUBSET InVector :
          /\ misread \subseteq gone \cup dangling
          /\ Mark(Cancelled(p, gone) \cup misread)
    BY DEF Leave
  <2>2. timer'[t].dying = (t \in Cancelled(p, gone) \cup misread \/ timer[t].dying)
    BY <2>1, MarkKeepsWalk DEF Leave, SessionInv
  <2>3. t \notin Cancelled(p, gone)
    BY DEF Cancelled, Strange
  <2>4. t \notin dangling /\ t \notin gone
    BY <2>1 DEF SessionInv, Marked
  <2>5. QED
    BY <2>1, <2>2, <2>3, <2>4
<1>2. SessionInv /\ [SessionNext]_sessionVars => [Stay]_sessionVars
  BY <1>1
<1> HIDE DEF Stay
<1>3. SessionSpec => [][Stay]_sessionVars
  BY <1>2, SessionInvariant, PTL DEF SessionSpec
<1>4. QED
  BY <1>3 DEF OthersTimersStay, Stay

-------------------------------------------------------------------------------
(* Players come and go, and the timers still do what Frames says. *)

\* A player who leaves only tells timers to leave, whatever
\* CancelTimersForPlayer reads of deleted objects.
LEMMA FrameLosesPlayer ==
    ASSUME FramesInv, NEW p \in Player, Leave(p)
    PROVE  FramesInv' /\ F!Kill
<1>1. PICK gone \in SUBSET Strange, misread \in SUBSET InVector :
        /\ misread \subseteq gone \cup dangling
        /\ Mark(Cancelled(p, gone) \cup misread)
  BY DEF Leave
<1>2. /\ UNCHANGED <<timers, pc, pos, pTimer, delta, closing, history>>
      /\ pc \in {"idle", "pulse", "event"}
  BY DEF Leave, ScriptRuns
<1>3. WalkInv'
  BY <1>1, <1>2, MarkKeepsWalk DEF FramesInv
<1>4. Draining'
  BY <1>2 DEF FramesInv, Draining
<1>5. Unspent' /\ F!Kill
  BY <1>1, <1>2, <1>3, FrameKills DEF history
<1>6. QED
  BY <1>3, <1>4, <1>5 DEF FramesInv

\* What else the server and scripts do to the timers, Timers allows.
LEMMA SessionTimers ==
    ASSUME [SessionNext]_sessionVars, ~ \E p \in Player : Leave(p)
    PROVE  [Next]_vars
<1>1. ASSUME NEW t \in Timer, NEW hs \in SUBSET Player, SessionNewTimer(t, hs)
      PROVE  Next
  BY <1>1 DEF SessionNewTimer, Next, Script
<1>2. CASE PartReturns
  BY <1>2 DEF PartReturns, Next
<1>3. CASE PartBegins \/ \E p \in Player : OnPlayerConnect(p)
  BY <1>3 DEF PartBegins, OnPlayerConnect, Next
<1>4. CASE SessionScript
  BY <1>4 DEF SessionScript, Next, Script
<1>5. CASE Server
  BY <1>5 DEF Server, Next
<1>6. CASE SessionTerminated \/ UNCHANGED sessionVars
  BY <1>6 DEF SessionTerminated, sessionVars, Next
<1>7. QED
  BY <1>1, <1>2, <1>3, <1>4, <1>5, <1>6 DEF SessionNext

\* With players who join, leave and are kicked within any script function, even
\* those whose onPlayerPart creates timers with them, the timers still do what
\* Frames says, if every repeat count fits unsigned int.
THEOREM SessionFramesCorrect ==
    ASSUME Repeats \subseteq 0 .. Word - 1
    PROVE  SessionSpec => FramesSpec
<1>1. FramesInv /\ [SessionNext]_sessionVars => FramesInv' /\ [F!Next]_(F!vars)
  <2> SUFFICES ASSUME FramesInv, [SessionNext]_sessionVars
               PROVE  FramesInv' /\ [F!Next]_(F!vars)
    OBVIOUS
  <2>1. CASE \E p \in Player : Leave(p)
    BY <2>1, FrameLosesPlayer DEF F!Next
  <2>2. CASE ~ \E p \in Player : Leave(p)
    BY <2>2, SessionTimers, FramesStep
  <2>3. QED
    BY <2>1, <2>2
<1>2. SessionInit => FramesInv /\ F!Init
  BY FramesInit DEF SessionInit
<1>3. QED
  BY <1>1, <1>2, PTL DEF SessionSpec, FramesSpec, F!Spec

===============================================================================
