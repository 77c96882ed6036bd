--------------------------------- MODULE Values ---------------------------------
(***************************************************************************)
(* The vectors, quaternions and colours scripts read from entities:        *)
(* EntityVector, EntityQuaternion and EntityRGB remember the entity, its   *)
(* type and a flag for the attribute, and assigning to one component of    *)
(* such a value writes all of them to the server.                          *)
(*                                                                         *)
(* One attribute of one entity is looked at, and one value that a script   *)
(* has read from it.  Components are integers.                             *)
(***************************************************************************)
EXTENDS Integers, Sequences

CONSTANTS
    Component, \* the components of vectors and quaternions
    Channel,   \* 2^w, w the width of unsigned char
    BitOr(_, _) \* bitwise or

ASSUME ChannelAssumption == Channel \in Nat \ {0}

\* Numbers that have no bit in common are added: the one is a multiple of a power
\* of two that the other is less than
ASSUME OrAssumption ==
    \A unit \in {Channel, Channel * Channel} :
        \A high \in 0 .. Channel * Channel - 1 : \A low \in 0 .. unit - 1 :
            BitOr(high * unit, low) = high * unit + low

\* and other numbers give no less than the one and no more than their sum
ASSUME OrBounds ==
    \A a \in 0 .. 2 * Channel * Channel * Channel : \A b \in 0 .. Channel * Channel :
        BitOr(a, b) \in a .. a + b

VARIABLES
    attr,  \* the attribute
    there, \* what the server has; a colour is one number
    alive, \* the entity exists
    held,  \* the value the script has
    \* history
    same   \* nobody has changed either since the value was read or written

valueVars == <<attr, there, alive, held, same>>

-------------------------------------------------------------------------------
(* The attributes. *)

ENTITY_PLAYER == 0
ENTITY_VEHICLE == 1
ENTITY_PICKUP == 2
ENTITY_OBJECT == 3
ENTITY_CHECKPOINT == 4

Of(class, type, flags) == [class |-> class, type |-> type, flags |-> flags]

\* What the getter of each attribute makes of it
GetterOf ==
    [PlayerPosition           |-> Of("vector", ENTITY_PLAYER, 0),
     PlayerSpeed              |-> Of("vector", ENTITY_PLAYER, 1),
     PlayerColour             |-> Of("colour", ENTITY_PLAYER, 0),
     VehiclePosition          |-> Of("vector", ENTITY_VEHICLE, 0),
     VehicleSpawnPosition     |-> Of("vector", ENTITY_VEHICLE, 1),
     VehicleRotationEuler     |-> Of("vector", ENTITY_VEHICLE, 2),
     VehicleSpawnEuler        |-> Of("vector", ENTITY_VEHICLE, 3),
     VehicleSpeed             |-> Of("vector", ENTITY_VEHICLE, 4),
     VehicleRelativeSpeed     |-> Of("vector", ENTITY_VEHICLE, 5),
     VehicleTurnSpeed         |-> Of("vector", ENTITY_VEHICLE, 6),
     VehicleRelativeTurnSpeed |-> Of("vector", ENTITY_VEHICLE, 7),
     VehicleRotation          |-> Of("quaternion", ENTITY_VEHICLE, 0),
     VehicleSpawnRotation     |-> Of("quaternion", ENTITY_VEHICLE, 1),
     PickupPosition           |-> Of("vector", ENTITY_PICKUP, -1),
     ObjectPosition           |-> Of("vector", ENTITY_OBJECT, 0),
     ObjectRotationEuler      |-> Of("vector", ENTITY_OBJECT, 1),
     ObjectRotation           |-> Of("quaternion", ENTITY_OBJECT, -1),
     CheckpointPosition       |-> Of("vector", ENTITY_CHECKPOINT, -1)]

Attribute == DOMAIN GetterOf

\* What SetX .. SetB write, by the class, the type and the flag of the value
Vector(type, flags) ==
    CASE type = ENTITY_PLAYER -> <<"PlayerPosition", "PlayerSpeed">>[flags + 1]
      [] type = ENTITY_VEHICLE ->
             <<"VehiclePosition", "VehicleSpawnPosition", "VehicleRotationEuler",
               "VehicleSpawnEuler", "VehicleSpeed", "VehicleRelativeSpeed",
               "VehicleTurnSpeed", "VehicleRelativeTurnSpeed">>[flags + 1]
      [] type = ENTITY_PICKUP -> "PickupPosition"
      [] type = ENTITY_OBJECT -> <<"ObjectPosition", "ObjectRotationEuler">>[flags + 1]
      [] type = ENTITY_CHECKPOINT -> "CheckpointPosition"

Quaternion(type, flags) ==
    CASE type = ENTITY_VEHICLE -> <<"VehicleRotation", "VehicleSpawnRotation">>[flags + 1]
      [] type = ENTITY_OBJECT -> "ObjectRotation"

SwappedSetterOf(of) ==
    CASE of.class = "vector" ->
             IF of.type = ENTITY_VEHICLE /\ of.flags = 4 THEN "VehicleRelativeSpeed"
             ELSE Vector(of.type, of.flags)
      [] of.class = "quaternion" -> Quaternion(of.type, of.flags)
      [] of.class = "colour"     -> "PlayerColour"

SetterOf(of) ==
    CASE of.class = "vector"     -> Vector(of.type, of.flags)
      [] of.class = "quaternion" -> Quaternion(of.type, of.flags)
      [] of.class = "colour"     -> "PlayerColour"

-------------------------------------------------------------------------------
(* Colours *)

\* cRGB::toUInt, which does not cut its components to bytes
ToUInt(c) == <<BitOr(BitOr(c[1] * Channel * Channel, c[2] * Channel), c[3])>>

\* GetColour
Channels(n) == <<(n \div (Channel * Channel)) % Channel, (n \div Channel) % Channel, n % Channel>>

ToServer(c) == IF GetterOf[attr].class = "colour" THEN ToUInt(c) ELSE c
FromServer(x) == IF GetterOf[attr].class = "colour" THEN Channels(x[1]) ELSE x

\* Scripts assign any integer: one behind the last byte stands for all of them
RangeOf(a) == IF GetterOf[a].class = "colour" THEN 0 .. Channel ELSE Component
Arity(a) == IF GetterOf[a].class = "quaternion" THEN 4 ELSE 3

\* What the server can have
OnServer(a) ==
    IF GetterOf[a].class = "colour" THEN {<<n>> : n \in 0 .. Channel * Channel * Channel - 1}
    ELSE [1 .. Arity(a) -> Component]

Zeros(a) == [i \in 1 .. Arity(a) |-> 0]

-------------------------------------------------------------------------------
ValuesInit ==
    /\ attr \in Attribute
    /\ alive = TRUE
    /\ there = IF GetterOf[attr].class = "colour" THEN <<0>> ELSE Zeros(attr)
    /\ held = [of |-> GetterOf[attr], c |-> Zeros(attr)]
    /\ same = TRUE

\* GetPosition .. GetColour: a checkpoint looks first whether it is there
ReadsValue ==
    /\ alive \/ attr = "CheckpointPosition"
    /\ held' = [of |-> GetterOf[attr], c |-> IF alive THEN FromServer(there) ELSE Zeros(attr)]
    /\ same' = alive
    /\ UNCHANGED <<attr, there, alive>>

\* SetX .. SetB: nothing is written to an entity that is gone, and nothing else of
\* one that has its id now
WritesComponent(i, x) ==
    /\ held' = [held EXCEPT !.c[i] = x]
    /\ IF alive /\ SetterOf(held.of) = attr THEN there' = ToServer(held'.c) ELSE UNCHANGED there
    /\ same' = alive
    /\ UNCHANGED <<attr, alive>>

\* Normalize, and the operators, whose result belongs to the same attribute:
\* nothing is written
Computes(c) ==
    /\ GetterOf[attr].class # "colour"
    /\ held' = [held EXCEPT !.c = c]
    /\ same' = FALSE
    /\ UNCHANGED <<attr, there, alive>>

\* The server, a client, or a script that assigns the attribute as a whole; an
\* entity is created with the id
EntityChanges(x) ==
    /\ there' = x
    /\ alive' = TRUE
    /\ same' = FALSE
    /\ UNCHANGED <<attr, held>>

EntityGoes ==
    /\ alive
    /\ alive' = FALSE /\ same' = FALSE
    /\ UNCHANGED <<attr, there, held>>

ValuesNext ==
    \/ ReadsValue
    \/ \E i \in 1 .. Arity(attr) : \E x \in RangeOf(attr) : WritesComponent(i, x)
    \/ \E c \in [1 .. Arity(attr) -> Component] : Computes(c)
    \/ \E x \in OnServer(attr) : EntityChanges(x)
    \/ EntityGoes

ValuesSpec == ValuesInit /\ [][ValuesNext]_valueVars

-------------------------------------------------------------------------------
\* Assigning a component leaves the server with exactly what the script holds,
\* the other components too, though they may be old; reading leaves the script
\* with what the server has.  So each of the 18 attributes is written by the
\* function that belongs to the one that reads it.  A colour needs components
\* that fit in bytes: toUInt does not cut them.
InStep ==
    (\A i \in DOMAIN held.c : GetterOf[attr].class = "colour" => held.c[i] < Channel) =>
        (same => FromServer(there) = held.c)

===============================================================================
