------------------------------- MODULE Entities -------------------------------
(***************************************************************************)
(* The entity maps of CCore: for every kind of entity the server keeps a   *)
(* pool of, the table from ids to the C++ objects scripts hold pointers    *)
(* to, kept in step with the pool by OnEntityPoolChange, by the functions  *)
(* a script creates entities with, and by the loops over all ids that load *)
(* a script, clean the world on a reload and destroy the core.             *)
(*                                                                         *)
(* The pools are the server's.  Ids start at 1 for vehicles and at 0 for   *)
(* the other kinds; the loops count from 0 to MAX - 1 for every kind.      *)
(* No function here calls a script, so each runs to its end undisturbed.   *)
(***************************************************************************)
EXTENDS Integers, FiniteSets

CONSTANTS
    Kind,        \* the kinds of entities looked at
    MAX,         \* the number of entities of each kind (Constants.h)
    NotifyFirst  \* may the server call OnEntityPoolChange for an entity a script
                 \* creates before the function that creates it returns? It may
                 \* do as any member of NotifyFirst says

ASSUME KindAssumption == Kind \subseteq {"vehicle", "object", "pickup", "checkpoint"}
ASSUME MaxAssumption == MAX \in [Kind -> Nat \ {0}]
ASSUME NotifyAssumption == NotifyFirst \subseteq BOOLEAN

VARIABLES
    pool,     \* the server's pools: the ids in use
    map,      \* vehicleMap, objectMap, pickupMap, checkpointMap
    phase,    \* "boot" until the first frame, "up", "down" after ~CCore
    created   \* history: the entities scripts created that still exist

entityVars == <<pool, map, phase, created>>

\* The ids the server gives out, and the ones Allocate, Dereference and
\* Retrieve accept
Id(k) == IF k = "vehicle" THEN 1 .. MAX[k] ELSE 0 .. MAX[k] - 1

ShortRange(k) == 0 .. MAX[k] - 1
DereferenceRange(k) == Id(k)

\* The ids a loop over all entities of a kind visits
LoopedButOne(k) == 1 .. MAX[k] - 2
Looped(k) == 0 .. MAX[k] - 1

\* A map entry: no object, or an object and its isOurs
Entry == {"none", "ours", "theirs"}

EntitiesInit ==
    /\ pool \in [Kind -> UNION {SUBSET Id(k) : k \in Kind}]
    /\ \A k \in Kind : pool[k] \subseteq Id(k)
    /\ map = [k \in Kind |-> [id \in Id(k) |-> "none"]]
    /\ phase = "boot"
    /\ created = [k \in Kind |-> {}]

-------------------------------------------------------------------------------
(* The maps, one kind at a time: m is the map before, ids the pool. *)

\* AllocateX: an id whose object exists keeps it, isOurs included
Allocate(m, k, ids, owner) ==
    [id \in Id(k) |-> IF id \in ids /\ m[id] = "none" THEN owner ELSE m[id]]

AllocateOurs(m, k, id) == Allocate(m, k, {id}, "ours")
PoolCreatedOurs(m, k, id) == Allocate(m, k, {id}, "ours")
PoolCreated(m, k, id) == Allocate(m, k, {id}, "theirs")

\* DereferenceX, for each id the server reports as deleted
PoolDeleted(m, k, ids) ==
    [id \in Id(k) |-> IF id \in ids \cap DereferenceRange(k) THEN "none" ELSE m[id]]

\* ScanForEntities
Scan(m, k, ids) == Allocate(m, k, ids \cap Looped(k), "theirs")

\* What CleanWorld deletes
CleanedButLast(m, k) == {id \in 0 .. MAX[k] - 2 : id \in Id(k) /\ m[id] = "ours"}
Cleaned(m, k) == {id \in Looped(k) \cap Id(k) : m[id] = "ours"}

-------------------------------------------------------------------------------
Change(k, ids, m) ==
    /\ pool' = [pool EXCEPT ![k] = ids]
    /\ map' = [map EXCEPT ![k] = m]

\* The server, or another plugin, creates an entity
ServerCreates(k, id) ==
    /\ phase # "down"
    /\ id \in Id(k) \ pool[k]
    /\ Change(k, pool[k] \cup {id}, PoolCreated(map[k], k, id))
    /\ UNCHANGED <<phase, created>>

\* The server, another plugin, or the script function Delete, Remove of an
\* entity deletes it; a script has a pointer only to an object that exists
Deletes(k, ids) ==
    /\ phase # "down"
    /\ ids # {} /\ ids \subseteq pool[k]
    /\ Change(k, pool[k] \ ids, PoolDeleted(map[k], k, ids))
    /\ created' = [created EXCEPT ![k] = @ \ ids]
    /\ UNCHANGED phase

EntityDeleted(k, id) == Deletes(k, {id})

\* CreateVehicle, CreateObject, CreatePickup, CreateCheckpoint
ScriptCreates(k, id) ==
    /\ phase = "up"
    /\ id \in Id(k) \ pool[k]
    /\ \E first \in NotifyFirst :
          LET notified == IF first THEN PoolCreated(map[k], k, id) ELSE map[k]
          IN  Change(k, pool[k] \cup {id}, AllocateOurs(notified, k, id))
    /\ created' = [created EXCEPT ![k] = @ \cup {id}]
    /\ UNCHANGED phase

\* The first OnFrame: LoadScript begins with ScanForEntities
FirstFrame ==
    /\ phase = "boot"
    /\ phase' = "up"
    /\ map' = [k \in Kind |-> Scan(map[k], k, pool[k])]
    /\ UNCHANGED <<pool, created>>

\* ReloadScripts: CleanWorld, then LoadScript
ReloadScripts ==
    /\ phase = "up"
    /\ pool' = [k \in Kind |-> pool[k] \ Cleaned(map[k], k)]
    /\ created' = [k \in Kind |-> created[k] \ Cleaned(map[k], k)]
    /\ map' = [k \in Kind |->
                 Scan(PoolDeleted(map[k], k, Cleaned(map[k], k)), k, pool'[k])]
    /\ UNCHANGED phase

\* ~CCore deletes the objects and leaves the entities alone
Destroy ==
    /\ phase # "down"
    /\ phase' = "down"
    /\ map' = [k \in Kind |->
                 [id \in Id(k) |-> IF id \in Looped(k) THEN "none" ELSE map[k][id]]]
    /\ UNCHANGED <<pool, created>>

\* The plugin is unloaded
Unloaded == phase = "down" /\ UNCHANGED entityVars

EntitiesNext ==
    \/ \E k \in Kind : \E id \in Id(k) :
          ServerCreates(k, id) \/ EntityDeleted(k, id) \/ ScriptCreates(k, id)
    \/ FirstFrame
    \/ ReloadScripts
    \/ Destroy
    \/ Unloaded

EntitiesSpec == EntitiesInit /\ [][EntitiesNext]_entityVars

-------------------------------------------------------------------------------
EntitiesTypeOK ==
    /\ pool \in [Kind -> SUBSET Nat]
    /\ \A k \in Kind : pool[k] \subseteq Id(k)
    /\ map = [k \in Kind |-> map[k]]
    /\ \A k \in Kind : map[k] \in [Id(k) -> Entry]
    /\ phase \in {"boot", "up", "down"}
    /\ created \in [Kind -> SUBSET Nat]
    /\ \A k \in Kind : created[k] \subseteq pool[k]

\* While the plugin runs, an object in a map stands for an entity the server
\* still has: an id the server reuses never yields the object, and with it the
\* isOurs, of the entity that had it before.
NoStaleObject ==
    phase # "down" =>
        \A k \in Kind : \A id \in Id(k) : map[k][id] # "none" => id \in pool[k]

\* Once a script is loaded, FindVehicle, FindObject... find every entity the
\* server has, whoever created it and whenever.  The vehicle with the last id
\* is found if it was created after the plugin was loaded.
Found ==
    phase = "up" =>
        \A k \in Kind : \A id \in pool[k] : id < MAX[k] => map[k][id] # "none"

\* Whatever creates, deletes and reuses ids, CleanWorld deletes no entity but
\* those a script created.
OnlyOurs ==
    phase # "down" =>
        \A k \in Kind : \A id \in Id(k) : map[k][id] = "ours" => id \in created[k]

\* After a reload nothing is left of what the old scripts created; the vehicle
\* with the last id is left.  Holds if the server announces no entity before
\* the function that creates it returns (NotifyFirst = {FALSE}).
WorldCleaned ==
    [][ReloadScripts => \A k \in Kind : \A id \in created'[k] : id = MAX[k]]_entityVars

\* After a reload nothing at all is left of what the old scripts created
\* ("Clean the world up", ReloadScripts).
AllCleaned ==
    [][ReloadScripts => \A k \in Kind : created'[k] = {}]_entityVars

===============================================================================
