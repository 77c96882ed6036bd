-------------------------------- MODULE Session --------------------------------
(***************************************************************************)
(* Players that come and go while timers hold them: OnPlayerConnect and    *)
(* OnPlayerDisconnect composed with the timers of the script host.         *)
(*                                                                         *)
(* A script gets a player as an instance around the CPlayer of playerMap;  *)
(* a timer created with one keeps the instance, not the CPlayer.           *)
(* OnPlayerDisconnect marks the timers that hold the player, calls         *)
(* onPlayerPart and deletes the CPlayer, and may run between two calls of  *)
(* the server or within a script function that kicks the player, itself    *)
(* one that a timer calls.  Scripts let go of a player once its            *)
(* onPlayerPart has returned.                                              *)
(*                                                                         *)
(* timer[t].params holds the IDs of the instances that are not players,    *)
(* vehicles for instance, which may be those of players; the players are   *)
(* in holds[t].                                                            *)
(***************************************************************************)
EXTENDS Timers

CONSTANTS
    Player,     \* the ids of the server's player slots
    PartTimers  \* does onPlayerPart create timers with the player who leaves?

ASSUME PartAssumption == PartTimers \in BOOLEAN

VARIABLES
    playerMap, \* the ids that have a CPlayer
    leaving,   \* the calls of OnPlayerDisconnect that have not returned
    holds,     \* the players a timer was created with whose CPlayer is there
    dangling   \* timers that hold a CPlayer that was deleted

players == <<playerMap, leaving, holds, dangling>>
sessionVars == <<vars, players>>

SessionInit ==
    /\ Init
    /\ playerMap = {}
    /\ leaving = <<>>
    /\ holds = [t \in Timer |-> {}]
    /\ dangling = {}

Leaving == {leaving[i].id : i \in DOMAIN leaving}
Last == leaving[Len(leaving)]

-------------------------------------------------------------------------------
\* OnPlayerConnect: AllocatePlayer, then onPlayerJoin runs
OnPlayerConnect(p) ==
    /\ leaving = <<>>
    /\ p \notin playerMap
    /\ EventBegins
    /\ playerMap' = playerMap \cup {p}
    /\ UNCHANGED <<leaving, holds, dangling>>

\* The timers that hold an instance of something other than a player
Strange == {t \in InVector : timer[t].params # {}}

\* The timers CancelTimersForPlayer finds: it compares the ID of every instance,
\* whatever it is an instance of.  gone are those whose other instance is of an
\* entity that was deleted, which leaves the timer alone; what is read of a
\* deleted object, a CPlayer or another one, may be any number (misread in Leave).
CancelledRunning(p, gone) ==
    {t \in InVector : /\ p \in holds[t] \/ (p \in timer[t].params /\ t \notin gone)
                      /\ ~timer[t].paused}
CancelledAny(p, gone) == {t \in InVector : holds[t] \cup timer[t].params # {}}
Cancelled(p, gone) ==
    {t \in InVector : p \in holds[t] \/ (p \in timer[t].params /\ t \notin gone)}

\* OnPlayerDisconnect up to the call of onPlayerPart
Leave(p) ==
    /\ p \in playerMap \ Leaving
    /\ ScriptRuns \/ (pc = "idle" /\ leaving = <<>>)
    /\ \E gone \in SUBSET Strange, misread \in SUBSET InVector :
          /\ misread \subseteq gone \cup dangling
          /\ Mark(Cancelled(p, gone) \cup misread)
    /\ leaving' = Append(leaving, [id |-> p, nested |-> ScriptRuns])
    /\ UNCHANGED <<timers, pc, pos, pTimer, delta, closing, history>>
    /\ UNCHANGED <<playerMap, holds, dangling>>

PartBegins ==
    /\ leaving # <<>>
    /\ EventBegins
    /\ UNCHANGED players

\* DereferencePlayer
Dereference ==
    /\ leaving' = SubSeq(leaving, 1, Len(leaving) - 1)
    /\ playerMap' = playerMap \ {Last.id}
    /\ dangling' = dangling \cup {t \in InVector : Last.id \in holds[t]}
    /\ holds' = [t \in Timer |-> holds[t] \ {Last.id}]

PartReturns ==
    /\ leaving # <<>>
    /\ \/ Last.nested /\ UNCHANGED vars
       \/ ~Last.nested /\ EventEnds
    /\ Dereference

\* A script creates a timer, with players it knows and other instances
SessionNewTimer(t, hs) ==
    /\ hs \subseteq playerMap \ (IF PartTimers THEN {} ELSE Leaving)
    /\ \E x \in Interval, n \in Repeats, ps \in SUBSET Subject : NewTimer(t, x, n, ps)
    /\ holds' = [holds EXCEPT ![t] = hs]
    /\ UNCHANGED <<playerMap, leaving, dangling>>

\* Everything else the script may do to timers
SessionScript ==
    /\ \/ \E t \in Timer : Delete(t)
       \/ \E t \in Timer, b \in BOOLEAN : SetPaused(t, b)
       \/ \E t \in Timer, x \in Interval : SetInterval(t, x)
       \/ DropAllTimers
    /\ UNCHANGED players

\* Another event, and ProcessTimers.  An entry that leaves takes what it holds
\* with it.
Server ==
    /\ leaving = <<>>
    /\ \/ EventBegins \/ EventEnds
       \/ \E d \in Delta : OnFrame(d)
       \/ Destroy
       \/ Walk \/ PulseReturns
    /\ holds' = [t \in Timer |-> IF t \in InVector' THEN holds[t] ELSE {}]
    /\ dangling' = dangling \cap InVector'
    /\ UNCHANGED <<playerMap, leaving>>

SessionTerminated ==
    /\ Terminated
    /\ UNCHANGED players

SessionNext ==
    \/ \E p \in Player : OnPlayerConnect(p) \/ Leave(p)
    \/ PartBegins \/ PartReturns
    \/ \E t \in Timer, hs \in SUBSET Player : SessionNewTimer(t, hs)
    \/ SessionScript
    \/ Server
    \/ SessionTerminated

SessionSpec == SessionInit /\ [][SessionNext]_sessionVars

\* Native code goes on, a script function returns, and the server keeps calling
\* OnFrame while the plugin is loaded, however many other events it delivers in
\* between.
SessionFairness ==
    /\ WF_sessionVars(Server /\ (Walk \/ PulseReturns \/ EventEnds))
    /\ WF_sessionVars(PartBegins \/ PartReturns)
    /\ SF_sessionVars(Server /\ \E d \in Delta : OnFrame(d))

FairSessionSpec == SessionSpec /\ SessionFairness

-------------------------------------------------------------------------------
SessionTypeOK ==
    /\ playerMap \in SUBSET Player
    /\ leaving \in Seq([id : Player, nested : BOOLEAN])
    /\ holds \in [Timer -> SUBSET Player]
    /\ dangling \in SUBSET Timer

\* No timer that holds a player who has left is ever called again: it was
\* marked before the CPlayer was deleted, whatever script function, called by
\* whatever timer, kicked the player, and though a mark made while the function
\* of the timer runs is looked at only in the next frame.
GonePlayersTimersDie ==
    \A t \in InVector : t \in dangling => timer[t].dying

\* A player who leaves takes no timer with him that holds only other players,
\* though CancelTimersForPlayer also reads the IDs of players who have left, until
\* the timers that hold them leave in the next frame.  (A timer that holds another
\* instance, of a vehicle for instance, may go with him: see OnlyTheirTimers.)
OthersTimersStay ==
    [][\A p \in Player : Leave(p) =>
          \A t \in InVector \ Strange :
              p \notin holds[t] /\ ~timer[t].dying => ~timer'[t].dying]_sessionVars

\* A player who leaves takes no timers with him but those created with him, as the
\* name of CancelTimersForPlayer says.
OnlyTheirTimers ==
    [][\A p \in Player : Leave(p) =>
          \A t \in InVector : timer'[t].dying /\ ~timer[t].dying => p \in holds[t]]_sessionVars

\* A timer that is deleted, dropped by a reload or cancelled by a disconnect
\* leaves the vector, paused or not, whatever becomes of players meanwhile.
DyingLeaves ==
    \A t \in Timer : t \in InVector /\ timer[t].dying ~> t \notin InVector

\* ProcessTimers returns, if no interval is shorter than a frame: a script
\* function that creates a timer on every call does not keep the walk going.
FrameReturns ==
    pc = "walk" ~> pc \in {"idle", "closed"}

===============================================================================
