------------------------------- MODULE Visibility -------------------------------
(***************************************************************************)
(* What a script hides from the players and shows them: objects of the map *)
(* by their position (HideMapObject, RawHideMapObject, ShowMapObject,      *)
(* ShowAllMapObjects), and the arrow over a vehicle, a flag the server     *)
(* keeps for each player (SetVehicle3DArrowEnabled and its getter).        *)
(*                                                                         *)
(* Positions are in hundredths, the server's in tenths.  One vehicle is    *)
(* looked at.  Players come and go; one who comes sees no arrow.           *)
(***************************************************************************)
EXTENDS Integers, FiniteSetsExt

CONSTANTS
    Place,  \* positions scripts pass, triples of hundredths
    Raw,    \* positions scripts pass to RawHideMapObject, triples of tenths
    Player  \* the ids of players: 0 .. MAX_PLAYERS - 1

ASSUME PlaceAssumption == Place \cup Raw \subseteq [1 .. 3 -> Int]

VARIABLES
    hidden,    \* the positions the server hides
    connected, \* the players
    arrow,     \* what SetVehicle3DArrowForPlayer told the server last
    \* history
    away,      \* the positions a script has hidden and not shown again
    arrowTold, \* what SetVehicle3DArrowEnabled was called with last
    seeing     \* the players it was called for who have not left

seenVars == <<hidden, connected, arrow, away, arrowTold, seeing>>

SeenInit ==
    /\ hidden = {} /\ away = {}
    /\ connected = {} /\ seeing = {} /\ arrowTold = FALSE
    /\ arrow = [p \in Player |-> FALSE]

-------------------------------------------------------------------------------
\* (int) of n halves
ToInt(n) == IF n >= 0 THEN n \div 2 ELSE -((-n) \div 2)

\* floor(x * 10)
Tenths(x) == x \div 10

HiddenRoundedUp(x) == ToInt(2 * Tenths(x + 5))
HiddenAt(x) == ToInt(2 * Tenths(x) + 1)
ShownAt(x) == ToInt(2 * Tenths(x))

Hide(at, place) ==
    /\ hidden' = hidden \cup {at}
    /\ away' = away \cup {place}

HideMapObject(p) == Hide([k \in 1 .. 3 |-> HiddenAt(p[k])], [k \in 1 .. 3 |-> Tenths(p[k])])

RawHideMapObject(p) == Hide(p, p)

ShowMapObject(p) ==
    /\ hidden' = hidden \ {[k \in 1 .. 3 |-> ShownAt(p[k])]}
    /\ away' = away \ {[k \in 1 .. 3 |-> Tenths(p[k])]}

ShowAllMapObjects == hidden' = {} /\ away' = {}

-------------------------------------------------------------------------------
ButLast == Player \ {Max(Player)}
Everyone == Player

\* The loop over all players, of whom the connected ones are told
SetVehicle3DArrowEnabled(enable) ==
    /\ arrow' = [p \in Player |-> IF p \in Everyone \cap connected THEN enable ELSE arrow[p]]
    /\ arrowTold' = enable
    /\ seeing' = connected
    /\ UNCHANGED connected

\* What the first player sees
GetVehicle3DArrowEnabled == connected # {} /\ arrow[Min(connected)]

Connect(p) ==
    /\ p \notin connected
    /\ connected' = connected \cup {p}
    /\ arrow' = [arrow EXCEPT ![p] = FALSE]
    /\ UNCHANGED <<arrowTold, seeing>>

Disconnect(p) ==
    /\ p \in connected
    /\ connected' = connected \ {p}
    /\ seeing' = seeing \ {p}
    /\ UNCHANGED <<arrow, arrowTold>>

SeenNext ==
    \/ /\ \/ \E p \in Place : HideMapObject(p) \/ ShowMapObject(p)
          \/ \E p \in Raw : RawHideMapObject(p)
          \/ ShowAllMapObjects
       /\ UNCHANGED <<connected, arrow, arrowTold, seeing>>
    \/ /\ \/ \E enable \in BOOLEAN : SetVehicle3DArrowEnabled(enable)
          \/ \E p \in Player : Connect(p) \/ Disconnect(p)
       /\ UNCHANGED <<hidden, away>>

SeenSpec == SeenInit /\ [][SeenNext]_seenVars

-------------------------------------------------------------------------------
Positive(position) == \A k \in 1 .. 3 : position[k] > 0

\* Where all coordinates are positive, an object of the map is hidden exactly if
\* a script has hidden it and not shown it since.  Elsewhere HideMapObject hides
\* one tenth beside the position ShowMapObject shows.
HiddenAsAsked ==
    \A position \in hidden \cup away :
        Positive(position) => (position \in hidden <=> position \in away)

\* GetVehicle3DArrowEnabled, which asks about one player only, tells what the
\* arrow was set to for all of them, unless the first player came later.
ArrowOfAll ==
    connected # {} /\ Min(connected) \in seeing =>
        /\ GetVehicle3DArrowEnabled = arrowTold
        /\ \A p \in seeing : arrow[p] = GetVehicle3DArrowEnabled

===============================================================================
