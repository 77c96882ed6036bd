---------------------------- MODULE Callbacks_proofs ----------------------------
(***************************************************************************)
(* Proofs about what happens around the call of a script function: about   *)
(* Purse, for any amounts and for calls of SetMoney nested as deep as they *)
(* come, and about Events, for any answers of the functions and any        *)
(* sequence of events.                                                     *)
(***************************************************************************)
EXTENDS Purse, Events, SequenceTheorems, TLAPS

(* Purse *)

Call == [oldCash : Amount, money : Amount]

PurseTypeOK ==
    /\ money \in Amount /\ meant \in Amount
    /\ setting \in Seq(Call)
    /\ given \in BOOLEAN

\* While calls are in progress, the outermost one is the one that was meant, and
\* no change counts.
Outermost == setting # <<>> => setting[1].money = meant /\ ~given

PurseInv ==
    /\ PurseTypeOK
    /\ Outermost
    /\ OutermostWins

LEMMA PurseInitInv == PurseInit => PurseInv
<1> SUFFICES ASSUME PurseInit PROVE PurseInv
  OBVIOUS
<1>1. money \in Amount /\ meant = money /\ setting = <<>> /\ given = FALSE
  BY DEF PurseInit
<1>2. <<>> \in Seq(Call)
  OBVIOUS
<1>3. QED
  BY <1>1, <1>2 DEF PurseInv, PurseTypeOK, Outermost, OutermostWins

LEMMA SetMoneyKeeps ==
    ASSUME PurseInv, NEW x \in Amount, SetMoney(x)
    PROVE  PurseInv'
<1> DEFINE call == [oldCash |-> money, money |-> x]
<1>1. /\ setting \in Seq(Call) /\ call \in Call
      /\ setting' = Append(setting, call)
      /\ money' = money /\ money \in Amount /\ meant \in Amount /\ given \in BOOLEAN
  BY DEF SetMoney, PurseInv, PurseTypeOK, Call
<1>2. setting' \in Seq(Call) /\ setting' # <<>>
  BY <1>1
<1>3. PurseTypeOK'
  BY <1>1, <1>2 DEF PurseTypeOK, SetMoney, Sets
<1>4. Outermost'
  <2>1. CASE setting = <<>>
    <3>1. meant' = x /\ given' = FALSE
      BY <2>1 DEF SetMoney, Sets
    <3>2. setting'[1] = call
      BY <1>1, <2>1
    <3>3. QED
      BY <3>1, <3>2 DEF Outermost
  <2>2. CASE setting # <<>>
    <3>1. meant' = meant /\ given' = given
      BY <2>2 DEF SetMoney, Sets
    <3>2. setting'[1] = setting[1]
      BY <1>1, <2>2
    <3>3. setting[1].money = meant /\ ~given
      BY <2>2 DEF PurseInv, Outermost
    <3>4. QED
      BY <3>1, <3>2, <3>3 DEF Outermost
  <2>3. QED
    BY <2>1, <2>2
<1>5. OutermostWins'
  BY <1>2 DEF OutermostWins
<1>6. QED
  BY <1>3, <1>4, <1>5 DEF PurseInv

LEMMA SetMoneyUntoldKeeps ==
    ASSUME PurseInv, NEW x \in Amount, SetMoneyUntold(x)
    PROVE  PurseInv'
<1>1. setting' = setting /\ setting = <<>> /\ money' = x /\ meant' = x /\ given' = FALSE
  BY DEF SetMoneyUntold, Sets
<1>2. QED
  BY <1>1 DEF PurseInv, PurseTypeOK, Outermost, OutermostWins

LEMMA ReturnsKeeps ==
    ASSUME PurseInv, Returns
    PROVE  PurseInv'
<1> DEFINE n == Len(setting)
<1>1. /\ setting \in Seq(Call) /\ setting # <<>>
      /\ meant \in Amount /\ given \in BOOLEAN
      /\ setting[1].money = meant /\ ~given
  BY DEF Returns, PurseInv, PurseTypeOK, Outermost
<1>2. /\ money' = setting[n].money /\ meant' = meant /\ given' = given
      /\ setting' = SubSeq(setting, 1, n - 1)
  BY DEF Returns, Set, Last, Front
<1>3. n \in Nat \ {0} /\ setting[n] \in Call
  BY <1>1
<1>4. /\ setting' \in Seq(Call) /\ Len(setting') = n - 1
      /\ \A i \in 1 .. n - 1 : setting'[i] = setting[i]
  <2>1. /\ 1 \in Int /\ n - 1 \in Int
        /\ \A i \in 1 .. n - 1 : setting[i] \in Call
    BY <1>1, <1>3
  <2> DEFINE rest == SubSeq(setting, 1, n - 1)
  <2>2. /\ rest \in Seq(Call)
        /\ Len(rest) = IF 1 <= n - 1 THEN n - 1 - 1 + 1 ELSE 0
        /\ \A i \in 1 .. n - 1 - 1 + 1 : rest[i] = setting[1 + i - 1]
    BY <2>1, SubSeqProperties
  <2>3. setting' = rest
    BY <1>2
  <2> HIDE DEF rest, n
  <2>4. Len(rest) = n - 1
    <3>1. CASE n = 1
      BY <2>2, <3>1
    <3>2. CASE n # 1
      <4>1. 1 <= n - 1 /\ n - 1 - 1 + 1 = n - 1
        BY <1>3, <3>2
      <4>2. QED
        BY <2>2, <4>1
    <3>3. QED
      BY <3>1, <3>2
  <2>5. ASSUME NEW i \in 1 .. n - 1 PROVE rest[i] = setting[i]
    <3>1. n - 1 - 1 + 1 = n - 1 /\ 1 + i - 1 = i
      BY <1>3
    <3>2. QED
      BY <2>2, <3>1
  <2>6. QED
    BY <2>2, <2>3, <2>4, <2>5
<1>5. PurseTypeOK'
  BY <1>1, <1>2, <1>3, <1>4 DEF PurseTypeOK, Call
<1>6. CASE n = 1
  \* The outermost call sets what it was to set
  <2>1. money' = meant' /\ setting' = <<>>
    BY <1>1, <1>2, <1>4, <1>6
  <2>2. QED
    BY <1>5, <2>1 DEF PurseInv, Outermost, OutermostWins
<1>7. CASE n # 1
  <2>1. setting' # <<>> /\ setting'[1] = setting[1]
    BY <1>3, <1>4, <1>7
  <2>2. QED
    BY <1>1, <1>2, <1>5, <2>1 DEF PurseInv, Outermost, OutermostWins
<1>8. QED
  BY <1>6, <1>7

LEMMA ChangesKeeps ==
    ASSUME PurseInv, NEW x \in Amount, Changes(x)
    PROVE  PurseInv'
<1>1. setting' = setting /\ meant' = meant /\ money' = x /\ given' = (given \/ setting = <<>>)
  BY DEF Changes
<1>2. given' \in BOOLEAN
  BY <1>1
<1>3. PurseTypeOK'
  BY <1>1, <1>2 DEF PurseInv, PurseTypeOK
<1>4. Outermost' /\ OutermostWins'
  BY <1>1 DEF PurseInv, Outermost, OutermostWins
<1>5. QED
  BY <1>3, <1>4 DEF PurseInv

LEMMA PurseNextInv ==
    ASSUME PurseInv, [PurseNext]_purseVars
    PROVE  PurseInv'
<1>1. CASE Returns
  BY <1>1, ReturnsKeeps
<1>2. ASSUME NEW x \in Amount, SetMoney(x) PROVE PurseInv'
  BY <1>2, SetMoneyKeeps
<1>3. ASSUME NEW x \in Amount, SetMoneyUntold(x) PROVE PurseInv'
  BY <1>3, SetMoneyUntoldKeeps
<1>4. ASSUME NEW x \in Amount, Changes(x) PROVE PurseInv'
  BY <1>4, ChangesKeeps
<1>5. CASE UNCHANGED purseVars
  BY <1>5 DEF purseVars, PurseInv, PurseTypeOK, Outermost, OutermostWins
<1>6. QED
  BY <1>1, <1>2, <1>3, <1>4, <1>5 DEF PurseNext

\* The money and every call in progress keep to the amounts scripts and the server
\* use, and while calls are in progress the outermost one is the one that was
\* meant (CPlayer::SetMoney).
THEOREM PurseInvariance == PurseSpec => []PurseInv
<1>1. PurseInit => PurseInv
  BY PurseInitInv
<1>2. PurseInv /\ [PurseNext]_purseVars => PurseInv'
  BY PurseNextInv
<1>3. QED
  BY <1>1, <1>2, PTL DEF PurseSpec

\* Whatever the script functions called on the way set and give, the player has
\* what the outermost call of SetMoney was to set when it returns.
THEOREM OutermostWinsCorrect == PurseSpec => []OutermostWins
<1>1. PurseInv => OutermostWins
  BY DEF PurseInv
<1>2. QED
  BY <1>1, PurseInvariance, PTL

-------------------------------------------------------------------------------
(* Events *)

\* What a handler does with the stack, in three steps of Sqrat
LEMMA PopsFacts ==
    ASSUME NEW outcome, stack \in Int
    PROVE  /\ Execute(outcome) => stack' = stack
           /\ Evaluate(outcome) =>
                  stack' = IF outcome.kind = "failed" THEN stack - 1 ELSE stack
  BY DEF Execute, Evaluate, LeftByCall, PopFunction, PopTwo

\* Every function that is asked has a name, and so has every function that is told
LEMMA Named ==
    /\ \A name \in DOMAIN Asking : Asking[name] # Nobody
    /\ \A name \in DOMAIN Telling : Telling[name] # Nobody
<1>1. ASSUME NEW name \in DOMAIN Asking PROVE Asking[name].function # "none"
  BY <1>1 DEF Asking, Handler
<1>2. ASSUME NEW name \in DOMAIN Telling PROVE Telling[name].function # "none"
  BY <1>2 DEF Telling, Handler, OfPlayer
<1>3. Nobody.function = "none"
  BY DEF Nobody, Handler
<1>4. QED
  BY <1>1, <1>2, <1>3

\* The stack is never higher than when the scripts were loaded, and what every
\* event leaves behind is what it should be.
EventsInv ==
    /\ stack \in Int /\ stack <= Loaded
    /\ before \in Int /\ before <= Loaded
    /\ StackKept
    /\ RefusedByFunction

LEMMA EventsInitInv == EventsInit => EventsInv
  BY Named DEF EventsInit, EventsInv, StackKept, RefusedByFunction, Loaded, NoEvent,
     NothingGiven, Accept, Asking

LEMMA GoesKeeps ==
    ASSUME EventsInv, Goes
    PROVE  EventsInv'
  BY DEF EventsInv, Goes, StackKept, RefusedByFunction, NoEvent, NothingGiven, Accept,
     Asking

LEMMA ReloadKeeps ==
    ASSUME EventsInv, LoadVM
    PROVE  EventsInv'
  BY DEF EventsInv, LoadVM, StackKept, RefusedByFunction, NoEvent, Asking, Loaded

LEMMA NotCalledKeeps ==
    ASSUME EventsInv, NEW name, NEW known, Begins(name, known), NotCalled
    PROVE  EventsInv'
  BY DEF EventsInv, Begins, NotCalled, StackKept, RefusedByFunction, NothingGiven, Accept

LEMMA AsksKeeps ==
    ASSUME EventsInv, NEW name \in DOMAIN Asking, NEW known,
           NEW global \in Global, NEW outcome \in Outcomes(global),
           Asks(name, known, global, outcome)
    PROVE  EventsInv'
<1> DEFINE handler == Asking[name]
<1>1. Begins(name, known)
  BY DEF Asks
<1>2. CASE Needs(handler) \subseteq known /\ global # "missing"
  <2>1. /\ called' = handler /\ left' = outcome
        /\ Evaluate(outcome) /\ told' = Answer(name, outcome)
    BY <1>2 DEF Asks
  <2>2. stack' = IF outcome.kind = "failed" THEN stack - 1 ELSE stack
    BY <2>1, PopsFacts DEF EventsInv
  <2>3. event'.name = name /\ before' = stack
    BY <1>1 DEF Begins
  <2>4. StackKept'
    BY <2>1, <2>2, <2>3 DEF StackKept
  <2>5. called' # Nobody
    BY <2>1, Named
  <2>6. told' = 0 => outcome.kind \in {"failed", "null"} \/ outcome.n % Byte = 0
    <3>1. SUFFICES ASSUME Answer(name, outcome) = 0, outcome.kind \notin {"failed", "null"}
                   PROVE  outcome.n % Byte = 0
      BY <2>1
    <3>2. name # "OnClientScriptData" /\ PopAsInt(outcome) % Byte = 0
      BY <3>1 DEF Answer, Accept
    <3>3. outcome.kind # "null"
      BY <3>1
    <3>4. QED
      BY <3>2, <3>3 DEF PopAsInt
  <2>7. RefusedByFunction'
    BY <2>1, <2>5, <2>6 DEF RefusedByFunction
  <2>8. stack' \in Int /\ stack' <= Loaded /\ before' \in Int /\ before' <= Loaded
    BY <2>2, <2>3 DEF EventsInv, Loaded
  <2>9. QED
    BY <2>4, <2>7, <2>8 DEF EventsInv
<1>3. CASE ~(Needs(handler) \subseteq known /\ global # "missing")
  <2>1. NotCalled
    BY <1>3 DEF Asks
  <2>2. QED
    BY <1>1, <2>1, NotCalledKeeps
<1>4. QED
  BY <1>2, <1>3

\* No event that tells is one that asks
LEMMA TellingIsNotAsking ==
    \A name \in DOMAIN Telling \cup {"OnPlayerDeath", "OnCommandMessage", "none"} :
        name \notin DOMAIN Asking
  BY DEF Telling, Asking

LEMMA ReportsKeeps ==
    ASSUME EventsInv, NEW name, name \notin DOMAIN Asking, NEW known,
           NEW handler, handler # Nobody, NEW global, NEW outcome,
           Begins(name, known), Reports(handler, global, outcome)
    PROVE  EventsInv'
<1>1. CASE global = "missing"
  <2>1. NotCalled
    BY <1>1 DEF Reports
  <2>2. QED
    BY <2>1, NotCalledKeeps
<1>2. CASE global # "missing"
  <2>1. called' = handler /\ left' = outcome /\ Execute(outcome) /\ told' = Accept
    BY <1>2 DEF Reports
  <2>2. stack' = stack
    BY <2>1, PopsFacts DEF EventsInv
  <2>3. event'.name = name /\ before' = stack
    BY DEF Begins
  <2>4. StackKept'
    BY <2>2, <2>3 DEF StackKept
  <2>5. RefusedByFunction'
    BY <2>1 DEF RefusedByFunction, Accept
  <2>6. QED
    BY <2>2, <2>3, <2>4, <2>5 DEF EventsInv
<1>3. QED
  BY <1>1, <1>2

LEMMA TellsKeeps ==
    ASSUME EventsInv, NEW name \in DOMAIN Telling, NEW known, NEW global, NEW outcome,
           Tells(name, known, global, outcome)
    PROVE  EventsInv'
<1>1. Begins(name, known)
  BY DEF Tells
<1>2. CASE Needs(Telling[name]) \subseteq known
  <2>1. Reports(Telling[name], global, outcome)
    BY <1>2 DEF Tells
  <2>2. Telling[name] # Nobody /\ name \notin DOMAIN Asking
    BY Named, TellingIsNotAsking
  <2>3. QED
    BY <1>1, <2>1, <2>2, ReportsKeeps
<1>3. CASE ~(Needs(Telling[name]) \subseteq known)
  <2>1. NotCalled
    BY <1>3 DEF Tells
  <2>2. QED
    BY <1>1, <2>1, NotCalledKeeps
<1>4. QED
  BY <1>2, <1>3

LEMMA DeathKeeps ==
    ASSUME EventsInv, NEW known, NEW connected, NEW sameTeam, NEW reason, NEW part,
           NEW global, NEW outcome,
           OnPlayerDeath(known, connected, sameTeam, reason, part, global, outcome)
    PROVE  EventsInv'
<1> DEFINE unseen == "player" \notin known \/ (connected /\ "other" \notin known)
           alone == Death("onPlayerDeath", <<"player">>, Blameless(reason, part))
           killed == Death(IF sameTeam THEN "onPlayerTeamKill" ELSE "onPlayerKill",
                           <<"other", "player">>, reason)
           handler == IF ~connected THEN alone ELSE killed
<1>1. Begins("OnPlayerDeath", known) /\ "OnPlayerDeath" \notin DOMAIN Asking
  BY TellingIsNotAsking DEF OnPlayerDeath
<1>2. CASE unseen
  <2>1. NotCalled
    BY <1>2 DEF OnPlayerDeath
  <2>2. QED
    BY <1>1, <2>1, NotCalledKeeps
<1>3. CASE ~unseen
  <2>1. Reports(handler, global, outcome)
    BY <1>3 DEF OnPlayerDeath
  <2>2. alone.function # "none" /\ killed.function # "none"
    BY DEF Death, Handler
  <2>3. handler # Nobody
    BY <2>2 DEF Nobody, Handler
  <2> HIDE DEF handler
  <2>4. QED
    BY <1>1, <2>1, <2>3, ReportsKeeps
<1>4. QED
  BY <1>2, <1>3

LEMMA CommandKeeps ==
    ASSUME EventsInv, NEW known, NEW global, NEW outcome,
           OnCommandMessage(known, global, outcome)
    PROVE  EventsInv'
<1>1. Begins("OnCommandMessage", known) /\ "OnCommandMessage" \notin DOMAIN Asking
  BY TellingIsNotAsking DEF OnCommandMessage
<1>2. stack' = stack /\ told' = Accept
  BY DEF OnCommandMessage, NotCalled
<1>3. event'.name = "OnCommandMessage" /\ before' = stack
  BY <1>1 DEF Begins
<1>4. QED
  BY <1>1, <1>2, <1>3 DEF EventsInv, StackKept, RefusedByFunction, Accept

LEMMA EventsNextInv ==
    ASSUME EventsInv, [EventsNext]_eventVars
    PROVE  EventsInv'
<1>1. CASE Goes
  BY <1>1, GoesKeeps
<1>2. CASE LoadVM
  BY <1>2, ReloadKeeps
<1>3. ASSUME NEW known \in Known, NEW global \in Global, NEW outcome \in Outcomes(global),
             NEW name \in DOMAIN Asking, Asks(name, known, global, outcome)
      PROVE  EventsInv'
  BY <1>3, AsksKeeps
<1>4. ASSUME NEW known, NEW global, NEW outcome,
             NEW name \in DOMAIN Telling, Tells(name, known, global, outcome)
      PROVE  EventsInv'
  BY <1>4, TellsKeeps
<1>5. ASSUME NEW known, NEW global, NEW outcome,
             NEW connected, NEW sameTeam, NEW reason, NEW part,
             OnPlayerDeath(known, connected, sameTeam, reason, part, global, outcome)
      PROVE  EventsInv'
  BY <1>5, DeathKeeps
<1>6. ASSUME NEW known, NEW global, NEW outcome,
             OnCommandMessage(known, global, outcome)
      PROVE  EventsInv'
  BY <1>6, CommandKeeps
<1>7. CASE UNCHANGED eventVars
  BY <1>7 DEF eventVars, EventsInv, StackKept, RefusedByFunction
<1>8. QED
  BY <1>1, <1>2, <1>3, <1>4, <1>5, <1>6, <1>7 DEF EventsNext

\* After every event the stack is at most as high as LoadVM, CompileFile and Run
\* have left it, and what the event did to it and told the server is right.
THEOREM EventsInvariance == EventsSpec => []EventsInv
<1>1. EventsInit => EventsInv
  BY EventsInitInv
<1>2. EventsInv /\ [EventsNext]_eventVars => EventsInv'
  BY EventsNextInv
<1>3. QED
  BY <1>1, <1>2, PTL DEF EventsSpec

\* A function that fails costs the stack of the virtual machine one element when
\* its event asks for an answer (Function::Evaluate), and no other event changes
\* its height.
THEOREM StackKeptCorrect == EventsSpec => []StackKept
<1>1. EventsInv => StackKept
  BY DEF EventsInv
<1>2. QED
  BY <1>1, EventsInvariance, PTL

\* However many events there were, the server refuses only what a function that
\* was called has refused, or has failed to answer.
THEOREM RefusedByFunctionCorrect == EventsSpec => []RefusedByFunction
<1>1. EventsInv => RefusedByFunction
  BY DEF EventsInv
<1>2. QED
  BY <1>1, EventsInvariance, PTL

=================================================================================
