--------------------------------- MODULE Areas ---------------------------------
(***************************************************************************)
(* The script functions that tell where a point lies: InPoly, which counts *)
(* how often a ray from the point crosses the edges of a polygon, and      *)
(* GetDistrictName, which tries the rectangles of the map one by one.      *)
(*                                                                         *)
(* Coordinates are integers: numbers a script has are compared exactly,    *)
(* and the rounding of float is left out.                                  *)
(***************************************************************************)
EXTENDS Integers, Sequences, FiniteSetsExt, SequencesExt

CONSTANTS
    Polygon,   \* the sequences of points scripts pass to InPoly
    Point,     \* the points they ask about
    MaxPoints, \* size of areaPoints
    Spot       \* the points they ask GetDistrictName about, in thousandths

ASSUME AreasAssumption ==
    /\ Polygon \subseteq Seq(Int \X Int)
    /\ Point \subseteq Int \X Int
    /\ MaxPoints \in Nat

ASSUME SpotAssumption == Spot \subseteq Int \X Int

VARIABLES
    areaCall, \* the function a script has called last, "none" when it goes on
    area,     \* the polygon it passed
    point,    \* the point it passed
    answer    \* what it was told

areaVars == <<areaCall, area, point, answer>>

AreasInit == areaCall = "none" /\ area = <<>> /\ point = <<0, 0>> /\ answer = "none"

-------------------------------------------------------------------------------
(* Internal_InPoly *)

\* Is p on the line through a and b, or below it?
NotAbove(p, a, b) ==
    IF a[1] < b[1] THEN (p[2] - a[2]) * (b[1] - a[1]) <= (b[2] - a[2]) * (p[1] - a[1])
                   ELSE (p[2] - a[2]) * (b[1] - a[1]) >= (b[2] - a[2]) * (p[1] - a[1])

CrossesTwice(p, a, b) ==
    /\ p[1] >= Min({a[1], b[1]}) /\ p[1] <= Max({a[1], b[1]})
    /\ p[2] < a[2] \/ p[2] <= b[2]
    /\ a[1] # b[1] /\ NotAbove(p, a, b)

\* Does the ray from p upwards cross the edge from a to b?  Nothing crosses a
\* vertical edge, whatever slope it is given.
Crosses(p, a, b) ==
    /\ p[1] > Min({a[1], b[1]}) /\ p[1] <= Max({a[1], b[1]})
    /\ p[2] < a[2] \/ p[2] <= b[2]
    /\ NotAbove(p, a, b)

To(points, i) == points[(i % Len(points)) + 1]

Internal_InPoly(p, points) ==
    Quantify(DOMAIN points, LAMBDA i : Crosses(p, points[i], To(points, i))) % 2 = 1

\* A script passes the coordinates one by one, in a string, or in an array; odd
\* when the last point has no second coordinate.  Of too many points the first
\* ones are taken.
Form == {"numbers", "string", "array"}

Accepted(form, points, odd) ==
    /\ Len(points) >= 3
    /\ form = "numbers" => ~odd

InPoly(form, p, points, odd) ==
    IF ~Accepted(form, points, odd) THEN "error"
    ELSE IF Internal_InPoly(p, SubSeq(points, 1, Min({Len(points), MaxPoints})))
         THEN "inside" ELSE "outside"

-------------------------------------------------------------------------------
(* GetDistrictName *)

InOrOnBorder(p, box) ==
    /\ p[1] >= box.west /\ p[1] <= box.east
    /\ p[2] >= box.south /\ p[2] <= box.north

In(p, box) ==
    /\ p[1] > box.west /\ p[1] < box.east
    /\ p[2] > box.south /\ p[2] < box.north

Box(name, west, south, east, north) ==
    [name |-> name, west |-> west, south |-> south, east |-> east, north |-> north]

\* Their names are written without spaces
Districts == <<
    Box("DowntownViceCity", -1613030, 413218, -213730, 1677320),
    Box("VicePoint", 163656, -351153, 1246030, 1398850),
    Box("WashingtonBeach", -103970, -930526, 1246030, -351153),
    Box("OceanBeach", -253206, -1805370, 1254900, -930526),
    Box("EscobarInternationalAirport", -1888210, -1779610, -1208210, 230390),
    Box("StarfishIsland", -748206, -818266, -104505, -241467),
    Box("PrawnIsland", -213730, 797605, 163656, 1243470),
    Box("LeafLinks", -213730, -241429, 163656, 797605),
    Box("Junkyard", -1396760, -42911, -1208210, 230390),
    Box("Viceport", -1208210, -1779610, -253206, -898738),
    Box("LittleHavana", -1208210, -898738, -748206, -241467),
    Box("LittleHaiti", -1208210, -241467, -578289, 412660) >>

GetDistrictName(p) ==
    LET around == {i \in DOMAIN Districts : In(p, Districts[i])}
    IN  IF around = {} THEN "ViceCity" ELSE Districts[Min(around)].name

-------------------------------------------------------------------------------
AreaAnswers(f, points, p, result) ==
    areaCall' = f /\ area' = points /\ point' = p /\ answer' = result

CallInPoly ==
    /\ areaCall = "none"
    /\ \E form \in Form, points \in Polygon, p \in Point, odd \in BOOLEAN :
          AreaAnswers("InPoly", points, p, InPoly(form, p, points, odd))

CallGetDistrictName ==
    /\ areaCall = "none"
    /\ \E p \in Spot : AreaAnswers("GetDistrictName", <<>>, p, GetDistrictName(p))

AreaGoesOn ==
    /\ areaCall # "none"
    /\ areaCall' = "none" /\ area' = <<>> /\ point' = <<0, 0>> /\ answer' = "none"

AreasNext == CallInPoly \/ CallGetDistrictName \/ AreaGoesOn

AreasSpec == AreasInit /\ [][AreasNext]_areaVars

-------------------------------------------------------------------------------
AskedArea(f) == areaCall = f /\ answer # "error"
Taken == SubSeq(area, 1, Min({Len(area), MaxPoints}))

\* Is p a point of the edge from a to b?
OnEdge(p, a, b) ==
    /\ (p[2] - a[2]) * (b[1] - a[1]) = (b[2] - a[2]) * (p[1] - a[1])
    /\ \A k \in 1 .. 2 : p[k] >= Min({a[k], b[k]}) /\ p[k] <= Max({a[k], b[k]})

\* Does a ray from p to the left cross the edge from a to b?
CrossesLeft(p, a, b) ==
    /\ (a[2] > p[2]) # (b[2] > p[2])
    /\ LET ahead == (p[1] - a[1]) * (b[2] - a[2]) > (p[2] - a[2]) * (b[1] - a[1])
       IN  IF a[2] < b[2] THEN ahead
           ELSE (p[1] - a[1]) * (b[2] - a[2]) < (p[2] - a[2]) * (b[1] - a[1])

\* For a point on no edge InPoly counts an odd number of crossings exactly if a
\* ray in another direction does: rays through corners and along edges included,
\* the answer depends on the polygon and not on the ray.
InsideByAnyRay ==
    AskedArea("InPoly") /\ (\A i \in DOMAIN Taken : ~OnEdge(point, Taken[i], To(Taken, i))) =>
        (answer = "inside" <=>
            Quantify(DOMAIN Taken, LAMBDA i : CrossesLeft(point, Taken[i], To(Taken, i))) % 2 = 1)

\* No point lies in two districts, so that the order they are tried in does not
\* matter, except in the Junkyard: it lies in the airport, which is tried before
\* it, and is never the answer.
OneDistrict ==
    AskedArea("GetDistrictName") =>
        /\ answer # "Junkyard"
        /\ \A i \in DOMAIN Districts :
              In(point, Districts[i]) => Districts[i].name \in {answer, "Junkyard"}

===============================================================================
