--------------------------------- MODULE Events ---------------------------------
(***************************************************************************)
(* What the plugin makes of the server's events: it looks up the objects   *)
(* of the ids it is given and the script function of the event, calls it   *)
(* with what it found, and for some events hands its answer to the server. *)
(* Sqrat pushes the function and its arguments on the stack of the virtual *)
(* machine and pops what sq_call has left there.                           *)
(*                                                                         *)
(* The events that begin and end sessions are those of Session, those that *)
(* compare with what was saved of UpdateTracker, and those of the entity   *)
(* pools of Entities.                                                      *)
(***************************************************************************)
EXTENDS Integers

CONSTANTS
    Byte,   \* 2^w, w the width of uint8_t
    Number, \* the integers script functions return
    Reason, \* the reasons of death the server knows
    Part    \* the parts of a body

VARIABLES
    stack,  \* the elements on the stack of the virtual machine
    event,  \* the last event, and the objects its ids have
    called, \* the script function it called, and the arguments
    left,   \* what that function has left
    told,   \* what the server was told
    \* history
    before  \* the elements on the stack before it

eventVars == <<stack, event, called, left, told, before>>

\* LoadVM leaves the root table on the stack, CompileFile the script, and Run
\* the script once more
Loaded == 3

\* A function, the objects it is called with, and the reason of a death
Handler(function, args) == [function |-> function, args |-> args, reason |-> 0]
Nobody == Handler("none", <<>>)
NothingGiven == [kind |-> "null", n |-> 0]
Accept == 1
NoEvent == [name |-> "none", known |-> {}]

EventsInit ==
    /\ stack = Loaded /\ before = Loaded
    /\ event = NoEvent
    /\ called = Nobody
    /\ left = NothingGiven
    /\ told = Accept

\* The event is over
Goes ==
    /\ event # NoEvent
    /\ event' = NoEvent /\ called' = Nobody /\ left' = NothingGiven /\ told' = Accept
    /\ before' = stack
    /\ UNCHANGED stack

\* In a reload LoadVM opens another virtual machine, which is used from then on
LoadVM ==
    /\ event = NoEvent
    /\ stack' = Loaded /\ before' = Loaded
    /\ UNCHANGED <<event, called, left, told>>

-------------------------------------------------------------------------------
(* Sqrat *)

\* GetFunction yields whatever the root table has under the name; a call of what
\* is no function fails
Global == {"missing", "function", "value"}

\* What is on top of the stack then: a result, or, when sq_call has failed, what
\* was called, a number perhaps; n is the number if it is one
Outcomes(global) ==
    IF global = "value" THEN [kind : {"failed"}, n : Number \cup {0, 1}]
    ELSE {[kind |-> "failed", n |-> 0], [kind |-> "null", n |-> 0],
          [kind |-> "bool", n |-> 0], [kind |-> "bool", n |-> 1]}
         \cup [kind : {"integer"}, n : Number]

\* popAsInt of what is on top: a float counts as the integer it is cut to, and
\* what is neither a number nor a truth value, such as a function that has failed,
\* as 0
PopAsInt(outcome) == IF outcome.kind = "null" THEN 0 ELSE outcome.n

\* sq_call pops the arguments, and leaves the function and, unless it fails, a
\* result if one is wanted
LeftByCall(outcome, wanted) ==
    IF wanted /\ outcome.kind # "failed" THEN 2 ELSE 1

\* Function::Execute and Function::Evaluate with arguments do not look at what
\* sq_call returns
PopFunction == 1
Execute(outcome) == stack' = stack + LeftByCall(outcome, FALSE) - PopFunction

PopTwo == 2
EvaluateOne(outcome) == stack' = stack + LeftByCall(outcome, TRUE) - PopFunction
Evaluate(outcome) == stack' = stack + LeftByCall(outcome, TRUE) - PopTwo

-------------------------------------------------------------------------------
(* The handlers. *)

\* The function of each event and the objects it is called with
Asking ==
    [OnPlayerRequestClass |-> Handler("onPlayerRequestClass", <<"player">>),
     OnPlayerRequestSpawn |-> Handler("onPlayerRequestSpawn", <<"player">>),
     OnPlayerRequestEnter |-> Handler("onPlayerEnteringVehicle", <<"player", "vehicle">>),
     OnPickupClaimPicked  |-> Handler("onPickupClaimPicked", <<"player", "pickup">>),
     OnPublicMessage      |-> Handler("onPlayerChat", <<"player">>),
     OnPrivateMessage     |-> Handler("onPlayerPM", <<"player", "other">>),
     OnLoginAttempt       |-> Handler("onLoginAttempt", <<>>),
     OnClientScriptData   |-> Handler("onClientScriptData", <<"player">>)]

OfPlayer(f) == Handler(f, <<"player">>)

Telling ==
    [OnPlayerSpawn          |-> OfPlayer("onPlayerSpawn"),
     OnPlayerEnterVehicle   |-> Handler("onPlayerEnterVehicle", <<"player", "vehicle">>),
     OnPlayerExitVehicle    |-> Handler("onPlayerExitVehicle", <<"player", "vehicle">>),
     OnPickupPickedUp       |-> Handler("onPickupPickedUp", <<"player", "pickup">>),
     OnPickupRespawn        |-> Handler("onPickupRespawn", <<"pickup">>),
     OnVehicleExplode       |-> Handler("onVehicleExplode", <<"vehicle">>),
     OnVehicleRespawn       |-> Handler("onVehicleRespawn", <<"vehicle">>),
     OnPlayerBeginTyping    |-> OfPlayer("onPlayerBeginTyping"),
     OnPlayerEndTyping      |-> OfPlayer("onPlayerEndTyping"),
     OnObjectShot           |-> Handler("onObjectShot", <<"object", "player">>),
     OnObjectBump           |-> Handler("onObjectBump", <<"object", "player">>),
     OnKeyBindDown          |-> OfPlayer("onKeyDown"),
     OnKeyBindUp            |-> OfPlayer("onKeyUp"),
     OnPlayerAwayChange     |-> OfPlayer("onPlayerAwayChange"),
     OnPlayerSpectate       |-> Handler("onPlayerSpectate", <<"player", "other">>),
     OnPlayerCrashDump      |-> OfPlayer("onPlayerCrashDump"),
     OnPlayerModuleList     |-> OfPlayer("onPlayerModuleList"),
     OnPlayerNameChange     |-> OfPlayer("onPlayerNameChange"),
     OnPlayerActionChange   |-> OfPlayer("onPlayerActionChange"),
     OnPlayerStateChange    |-> OfPlayer("onPlayerStateChange"),
     OnPlayerOnFireChange   |-> OfPlayer("onPlayerOnFireChange"),
     OnPlayerCrouchChange   |-> OfPlayer("onPlayerCrouchChange"),
     OnPlayerGameKeysChange |-> OfPlayer("onPlayerGameKeysChange"),
     OnCheckpointEntered    |-> Handler("onCheckpointEntered", <<"player", "checkpoint">>),
     OnCheckpointExited     |-> Handler("onCheckpointExited", <<"player", "checkpoint">>)]

Needs(handler) == {handler.args[i] : i \in DOMAIN handler.args}

\* Bound: once an element too many was popped off the empty stack what happens is
\* undefined
Defined == stack >= 0

Begins(name, known) ==
    /\ event = NoEvent /\ Defined
    /\ event' = [name |-> name, known |-> known]
    /\ before' = stack

Refused ==
    called' = Nobody /\ left' = NothingGiven /\ told' = 0 /\ UNCHANGED stack

\* An object is missing, or there is no function
NotCalled ==
    called' = Nobody /\ left' = NothingGiven /\ told' = Accept /\ UNCHANGED stack

\* The answers of the handlers are unsigned chars; that of onClientScriptData is
\* thrown away
Answer(name, outcome) ==
    IF name = "OnClientScriptData" THEN Accept ELSE PopAsInt(outcome) % Byte

\* OnPlayerRequestClass .. OnLoginAttempt, OnClientScriptData
Asks(name, known, global, outcome) ==
    LET handler == Asking[name] IN
    /\ Begins(name, known)
    /\ IF Needs(handler) \subseteq known /\ global # "missing"
       THEN /\ called' = handler /\ left' = outcome
            /\ Evaluate(outcome)
            /\ told' = Answer(name, outcome)
       ELSE NotCalled

\* ExecuteCallback
Reports(handler, global, outcome) ==
    IF global = "missing" THEN NotCalled
    ELSE /\ called' = handler /\ left' = outcome
         /\ Execute(outcome)
         /\ told' = Accept

Tells(name, known, global, outcome) ==
    LET handler == Telling[name] IN
    /\ Begins(name, known)
    /\ IF Needs(handler) \subseteq known THEN Reports(handler, global, outcome) ELSE NotCalled

\* The ways to die when nobody else is to blame: drowned, in a car, of a fall
Blameless(reason, part) ==
    IF reason \in {43, 50} THEN 43
    ELSE IF reason \in {39, 40, 44} /\ ~(reason = 39 /\ part = 7) THEN 44
    ELSE reason

Death(function, args, reason) == [Handler(function, args) EXCEPT !.reason = reason]

\* When the killer is connected but has no object nobody is told
OnPlayerDeath(known, connected, sameTeam, reason, part, global, outcome) ==
    /\ Begins("OnPlayerDeath", known)
    /\ IF "player" \notin known \/ (connected /\ "other" \notin known) THEN NotCalled
       ELSE Reports(
           IF ~connected
           THEN Death("onPlayerDeath", <<"player">>, Blameless(reason, part))
           ELSE Death(IF sameTeam THEN "onPlayerTeamKill" ELSE "onPlayerKill",
                      <<"other", "player">>, reason),
           global, outcome)

\* The command is called by hand, and the stack cut back to what it was
OnCommandMessage(known, global, outcome) ==
    /\ Begins("OnCommandMessage", known)
    /\ IF "player" \notin known \/ global = "missing" THEN NotCalled
       ELSE /\ called' = Handler("onPlayerCommand", <<"player">>) /\ left' = outcome
            /\ told' = Accept
            /\ UNCHANGED stack

Object == {"player", "other", "vehicle", "pickup", "object", "checkpoint"}
\* All the objects an event may need, or all but one of them
Known == {Object} \cup {Object \ {o} : o \in Object}

EventsNext ==
    \/ Goes \/ LoadVM
    \/ \E known \in Known, global \in Global : \E outcome \in Outcomes(global) :
           \/ \E name \in DOMAIN Asking : Asks(name, known, global, outcome)
           \/ \E name \in DOMAIN Telling : Tells(name, known, global, outcome)
           \/ \E connected, sameTeam \in BOOLEAN, reason \in Reason, part \in Part :
                  OnPlayerDeath(known, connected, sameTeam, reason, part, global, outcome)
           \/ OnCommandMessage(known, global, outcome)

EventsSpec == EventsInit /\ [][EventsNext]_eventVars

-------------------------------------------------------------------------------
\* The stack is as high after an event as before it, unless the function that was
\* asked has failed: then Evaluate takes the function for its result, pops it as
\* such, and pops one element more that somebody else has pushed.
StackKept ==
    IF event.name \in DOMAIN Asking /\ left.kind = "failed" THEN stack = before - 1
    ELSE stack = before

\* The server is told to refuse only by a function that was called, and what it
\* answered is 0, no number, a multiple of 2^w, or nothing as the call has failed:
\* a player or a function that is missing means yes, whatever other events did.
RefusedByFunction ==
    told = 0 => /\ called # Nobody
                /\ left.kind \in {"failed", "null"} \/ left.n % Byte = 0

\* What the assertion of sq_pop says: no more is popped than was pushed.
PopsHeld == stack >= 0

===============================================================================
