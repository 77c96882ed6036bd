------------------------------ MODULE UpdateTracker ------------------------------
(***************************************************************************)
(* The plugin tells scripts what changed: the server says that a player or *)
(* a vehicle was updated, OnPlayerUpdate and OnVehicleUpdate compare what  *)
(* the server has with what was saved after the last report, and call a    *)
(* function such as onPlayerHealthChange with the old and the new value    *)
(* for each attribute that differs.  OnFrame does the same for the clock.  *)
(*                                                                         *)
(* Both sides are read once, before the first call; the functions called   *)
(* may change what was read, kick the player and delete the vehicle or     *)
(* create another one with its id.                                         *)
(***************************************************************************)
EXTENDS Integers, Sequences

CONSTANTS
    Player,  \* ids of players, below MAX_PLAYERS
    Vehicle, \* ids of vehicles, below MAX_VEHICLES: the last one is ignored
    Clock,   \* the server's clock
    Value,   \* the values of each attribute
    Byte     \* 2^w, w the width of unsigned char

ASSUME WhoAssumption ==
    Player \cap Vehicle = {} /\ Clock \notin Player \cup Vehicle

Attr == {"pos", "hp", "armour", "wep", "time"}
Who == Player \cup Vehicle \cup {Clock}

ASSUME ValueAssumption ==
    /\ Byte \in Nat \ {0}
    /\ Value \in [Attr -> SUBSET Nat]
    /\ Value["wep"] \subseteq 0 .. Byte - 1

VARIABLES
    current, \* what the server's functions return
    saved,   \* lastPlrInfo, lastVehInfo, lastSrvInfo
    pool,    \* the players and vehicles of the server
    map,     \* those of them that have an object
    update,  \* the handler that runs, NoUpdate between two of them
    \* history
    seen,    \* what the last handler for a player or a vehicle read
    heard    \* what scripts were told last

vars == <<current, saved, pool, map, update, seen, heard>>

Unknown == -1
Nothing == [a \in Attr |-> Unknown]
Zero == [a \in Attr |-> 0]
\* What OnPlayerConnect saves
Healthy == [Zero EXCEPT !["hp"] = 100]

\* The attributes in the order of the handler
Attrs(w) ==
    CASE w \in Player  -> <<"pos", "hp", "armour", "wep">>
      [] w \in Vehicle -> <<"hp", "pos">>
      [] w = Clock     -> <<"time">>

Compared(w) == {Attrs(w)[i] : i \in DOMAIN Attrs(w)}

\* The locals of a handler: at is the attribute it stands at, calling whether
\* the script function for it runs
NoUpdate == [who |-> Clock, at |-> 0, calling |-> FALSE, last |-> Zero, now |-> Zero]

Init ==
    /\ current = [w \in Who |-> Zero]
    /\ saved = [w \in Who |-> Zero]
    /\ pool \in SUBSET Vehicle
    /\ map = {}
    /\ update = NoUpdate
    /\ seen = [w \in Player \cup Vehicle |-> Nothing]
    /\ heard = [w \in Who |-> IF w = Clock THEN Zero ELSE Nothing]

Idle == update.at = 0
\* The server, or a script function, may do something
Free == Idle \/ update.calling

-------------------------------------------------------------------------------
(* What happens to players, vehicles and the clock. *)

\* A script function or a client changes a value
Changes(w, a, x) ==
    /\ Free
    /\ w \in pool \cup {Clock}
    /\ a \in Compared(w)
    /\ current' = [current EXCEPT ![w][a] = x]
    /\ UNCHANGED <<saved, pool, map, update, seen, heard>>

Kept(p) == saved[p]
Reset(p) == Healthy

\* A player's session begins
OnPlayerConnect(p) ==
    /\ Idle
    /\ p \notin pool
    /\ saved' = [saved EXCEPT ![p] = Reset(p)]
    /\ pool' = pool \cup {p}
    /\ map' = map \cup {p}
    /\ heard' = [heard EXCEPT ![p] = Healthy]
    /\ UNCHANGED <<current, update, seen>>

\* A player leaves or is kicked, if need be by the function that is told of him
OnPlayerDisconnect(p) ==
    /\ Free
    /\ p \in pool
    /\ saved' = [saved EXCEPT ![p] = Zero]
    /\ pool' = pool \ {p}
    /\ map' = map \ {p}
    /\ seen' = [seen EXCEPT ![p] = Nothing]
    /\ UNCHANGED <<current, update, heard>>

\* Nothing saved is reset for the vehicle that has the id from now on
VehicleCreated(w) ==
    /\ Free
    /\ w \in Vehicle \ pool
    /\ pool' = pool \cup {w}
    /\ map' = map \cup {w}
    /\ heard' = [heard EXCEPT ![w] = Nothing]
    /\ UNCHANGED <<current, saved, update, seen>>

VehicleDeleted(w) ==
    /\ Free
    /\ w \in pool \cap Vehicle
    /\ pool' = pool \ {w}
    /\ map' = map \ {w}
    /\ seen' = [seen EXCEPT ![w] = Nothing]
    /\ UNCHANGED <<current, saved, update, heard>>

\* ScanForEntities
Scan ==
    /\ Free
    /\ map # pool
    /\ map' = pool
    /\ UNCHANGED <<current, saved, pool, update, seen, heard>>

-------------------------------------------------------------------------------
(* The handlers. *)

\* OnPlayerUpdate, OnVehicleUpdate, OnFrame up to the first comparison: a player
\* without an object is ignored, a vehicle is not
Begins(w) ==
    /\ Idle
    /\ w \in map \cup (pool \cap Vehicle) \cup {Clock}
    /\ update' = [who |-> w, at |-> 1, calling |-> FALSE,
                  last |-> saved[w], now |-> current[w]]
    /\ seen' = IF w = Clock THEN seen ELSE [seen EXCEPT ![w] = current[w]]
    /\ UNCHANGED <<current, saved, pool, map, heard>>

Comparing == ~Idle /\ ~update.calling /\ update.at <= Len(Attrs(update.who))
AttrAt == Attrs(update.who)[update.at]
Differs == update.last[AttrAt] # update.now[AttrAt]
\* A player's object was looked up before, and is used whatever became of it
HasObject == update.who \notin Vehicle \/ update.who \in map

Same ==
    /\ Comparing /\ ~Differs
    /\ update' = [update EXCEPT !.at = @ + 1]
    /\ UNCHANGED <<current, saved, pool, map, seen, heard>>

\* ExecuteCallback
Called ==
    /\ Comparing /\ Differs /\ HasObject
    /\ update' = [update EXCEPT !.calling = TRUE]
    /\ UNCHANGED <<current, saved, pool, map, seen, heard>>

\* lastWep is an unsigned char
Narrowed(a, x) == IF a = "wep" THEN x % Byte ELSE x

\* What the handler read is saved, not what the function has left
ReadAgain == current[update.who][AttrAt]
Read == update.now[AttrAt]

Save ==
    /\ saved' = [saved EXCEPT ![update.who][AttrAt] = Narrowed(AttrAt, Read)]
    /\ update' = [update EXCEPT !.at = @ + 1, !.calling = FALSE]
    /\ UNCHANGED <<current, pool, map, seen>>

Unreported == Comparing /\ Differs /\ ~HasObject /\ Save /\ UNCHANGED heard

\* The function returns or fails: Sqrat ignores the failure of a function that has
\* arguments, here and in OnFrame, which has no try block
Returns ==
    /\ update.calling
    /\ heard' = [heard EXCEPT ![update.who][AttrAt] = update.now[AttrAt]]
    /\ Save

Ends ==
    /\ update.at > Len(Attrs(update.who))
    /\ update' = NoUpdate
    /\ UNCHANGED <<current, saved, pool, map, seen, heard>>

Next ==
    \/ \E w \in Who : \E a \in Attr : \E x \in Value[a] : Changes(w, a, x)
    \/ \E p \in Player : OnPlayerConnect(p) \/ OnPlayerDisconnect(p)
    \/ \E w \in Vehicle : VehicleCreated(w) \/ VehicleDeleted(w)
    \/ Scan
    \/ \E w \in Who : Begins(w)
    \/ Same \/ Called \/ Unreported \/ Returns \/ Ends

Spec == Init /\ [][Next]_vars

-------------------------------------------------------------------------------
Reading == [Attr -> Nat \cup {Unknown}]

TypeOK ==
    /\ current \in [Who -> [Attr -> Nat]]
    /\ saved \in [Who -> [Attr -> Nat]]
    /\ pool \subseteq Player \cup Vehicle /\ map \subseteq pool
    /\ update \in [who : Who, at : Nat, calling : BOOLEAN,
                   last : [Attr -> Nat], now : [Attr -> Nat]]
    /\ seen \in [Player \cup Vehicle -> Reading] /\ heard \in [Who -> Reading]

\* The reports of an attribute form a chain: the old value a function is called
\* with is the new value of the call before it in the same session of a player,
\* for the same vehicle or of the clock, and that of a healthy player in a
\* session's first.  It holds though a handler goes on to report, and to save
\* what it read, when the function it called has kicked the player.
Chained ==
    update.calling =>
        heard[update.who][AttrAt] \in {Unknown, update.last[AttrAt]}

\* Between two handlers scripts know, of every player who is there, what the
\* last update read, and nothing older of a vehicle: no change is missed.
NothingMissed ==
    Idle => \A w \in pool : \A a \in Compared(w) :
        seen[w][a] # Unknown /\ heard[w][a] # Unknown => heard[w][a] = seen[w][a]

===============================================================================
