---------------------------- MODULE Functions_proofs ----------------------------
(***************************************************************************)
(* Proofs about the functions and properties scripts use: what players are *)
(* shown (Visibility), what shares a word of a vehicle (Bodywork), the     *)
(* district of a point and the polygons it lies in (Areas), the texts they *)
(* take apart (Text), the values read from entities (Values), and what is  *)
(* turned on and off (Switches).                                           *)
(***************************************************************************)
EXTENDS Visibility, Areas, Text, Values, Switches, Bodywork, SequenceTheorems,
        FiniteSetTheorems, WellFoundedInduction, TLAPS

(* Visibility *)

SeenTypeOK ==
    /\ connected \subseteq Player /\ seeing \subseteq connected
    /\ arrow \in [Player -> BOOLEAN] /\ arrowTold \in BOOLEAN

\* Every player the flag was set for has it, and nobody who came later counts.
ArrowKept == \A p \in seeing : arrow[p] = arrowTold

ArrowInv == SeenTypeOK /\ ArrowKept

LEMMA ArrowInitInv == SeenInit => ArrowInv
  BY DEF SeenInit, ArrowInv, SeenTypeOK, ArrowKept

LEMMA ArrowNextInv ==
    ASSUME ArrowInv, [SeenNext]_seenVars
    PROVE  ArrowInv'
<1>1. CASE UNCHANGED <<connected, arrow, arrowTold, seeing>>
  BY <1>1 DEF ArrowInv, SeenTypeOK, ArrowKept
<1>2. ASSUME NEW enable \in BOOLEAN, SetVehicle3DArrowEnabled(enable) PROVE ArrowInv'
  BY <1>2 DEF SetVehicle3DArrowEnabled, Everyone, ArrowInv, SeenTypeOK, ArrowKept
<1>3. ASSUME NEW p \in Player, Connect(p) PROVE ArrowInv'
  <2>1. p \notin seeing
    BY <1>3 DEF Connect, ArrowInv, SeenTypeOK
  <2>2. QED
    BY <1>3, <2>1 DEF Connect, ArrowInv, SeenTypeOK, ArrowKept
<1>4. ASSUME NEW p \in Player, Disconnect(p) PROVE ArrowInv'
  BY <1>4 DEF Disconnect, ArrowInv, SeenTypeOK, ArrowKept
<1>5. QED
  BY <1>1, <1>2, <1>3, <1>4 DEF SeenNext, seenVars

\* Every player the arrow was last set for and who has not left sees what it was
\* set to, whoever has come and gone since (CVehicle::SetVehicle3DArrowEnabled).
THEOREM ArrowInvariance == SeenSpec => []ArrowInv
<1>1. SeenInit => ArrowInv
  BY ArrowInitInv
<1>2. ArrowInv /\ [SeenNext]_seenVars => ArrowInv'
  BY ArrowNextInv
<1>3. QED
  BY <1>1, <1>2, PTL DEF SeenSpec

\* The one player the getter asks about tells what the arrow was set to for all.
THEOREM ArrowOfAllCorrect == SeenSpec => []ArrowOfAll
<1>1. ArrowInv => ArrowOfAll
  <2> SUFFICES ASSUME ArrowInv, connected # {}, Min(connected) \in seeing
               PROVE  /\ GetVehicle3DArrowEnabled = arrowTold
                      /\ \A p \in seeing : arrow[p] = GetVehicle3DArrowEnabled
    BY DEF ArrowOfAll
  <2>1. Min(connected) \in Player /\ arrow[Min(connected)] \in BOOLEAN
    BY DEF ArrowInv, SeenTypeOK
  <2>2. arrow[Min(connected)] = arrowTold
    BY DEF ArrowInv, ArrowKept
  <2>3. GetVehicle3DArrowEnabled = arrowTold
    BY <2>1, <2>2 DEF GetVehicle3DArrowEnabled
  <2>4. QED
    BY <2>3 DEF ArrowInv, ArrowKept
<1>2. QED
  BY <1>1, ArrowInvariance, PTL

\* Above 0 a tenth that is hidden is the one that is shown, and below it what is
\* hidden is not above 0 either
LEMMA RoundedAlike ==
    ASSUME NEW x \in Int
    PROVE  /\ HiddenAt(x) \in Int /\ ShownAt(x) \in Int /\ Tenths(x) \in Int
           /\ HiddenAt(x) > 0 => HiddenAt(x) = Tenths(x)
           /\ Tenths(x) > 0 => HiddenAt(x) = Tenths(x)
           /\ ShownAt(x) = Tenths(x)
<1> DEFINE t == x \div 10
<1>1. t \in Int
  OBVIOUS
<1> HIDE DEF t
<1>2. /\ (2 * t + 1 >= 0 <=> t >= 0)
      /\ (t >= 0 => (2 * t + 1) \div 2 = t)
      /\ (2 * t >= 0 <=> t >= 0)
      /\ (2 * t) \div 2 = t
      /\ (t < 0 => -(2 * t) >= 0 /\ (-(2 * t)) \div 2 = -t)
      /\ (t < 0 => (-(2 * t + 1)) \div 2 >= 0)
  BY <1>1
<1>3. Tenths(x) = t
  BY DEF Tenths, t
<1>4. QED
  BY <1>1, <1>2, <1>3 DEF HiddenAt, ShownAt, ToInt

Triple == [1 .. 3 -> Int]

HiddenInv ==
    /\ hidden \subseteq Triple /\ away \subseteq Triple
    /\ HiddenAsAsked

LEMMA HiddenNextInv ==
    ASSUME HiddenInv, [SeenNext]_seenVars
    PROVE  HiddenInv'
<1>1. CASE UNCHANGED <<hidden, away>>
  BY <1>1 DEF HiddenInv, HiddenAsAsked, Positive
<1>2. ASSUME NEW p \in Place, HideMapObject(p) PROVE HiddenInv'
  <2> DEFINE at == [k \in 1 .. 3 |-> HiddenAt(p[k])]
             place == [k \in 1 .. 3 |-> Tenths(p[k])]
  <2>1. \A k \in 1 .. 3 : p[k] \in Int
    BY PlaceAssumption
  <2>2. at \in Triple /\ place \in Triple
    BY <2>1, RoundedAlike DEF Triple
  <2>3. hidden' = hidden \cup {at} /\ away' = away \cup {place}
    BY <1>2 DEF HideMapObject, Hide
  <2>4. Positive(at) \/ Positive(place) => at = place
    BY <2>1, RoundedAlike DEF Positive
  <2> HIDE DEF at, place
  <2>5. HiddenAsAsked'
    BY <2>3, <2>4 DEF HiddenInv, HiddenAsAsked, Positive
  <2>6. QED
    BY <2>2, <2>3, <2>5 DEF HiddenInv
<1>3. ASSUME NEW p \in Place, ShowMapObject(p) PROVE HiddenInv'
  <2> DEFINE at == [k \in 1 .. 3 |-> ShownAt(p[k])]
             place == [k \in 1 .. 3 |-> Tenths(p[k])]
  <2>1. \A k \in 1 .. 3 : p[k] \in Int
    BY PlaceAssumption
  <2>2. at = place
    BY <2>1, RoundedAlike
  <2>3. hidden' = hidden \ {at} /\ away' = away \ {place}
    BY <1>3 DEF ShowMapObject
  <2> HIDE DEF at, place
  <2>4. QED
    BY <2>2, <2>3 DEF HiddenInv, HiddenAsAsked, Positive
<1>4. ASSUME NEW p \in Raw, RawHideMapObject(p) PROVE HiddenInv'
  <2>1. hidden' = hidden \cup {p} /\ away' = away \cup {p} /\ p \in Triple
    BY <1>4, PlaceAssumption DEF RawHideMapObject, Hide, Triple
  <2>2. QED
    BY <2>1 DEF HiddenInv, HiddenAsAsked, Positive
<1>5. CASE ShowAllMapObjects
  BY <1>5 DEF ShowAllMapObjects, HiddenInv, HiddenAsAsked
<1>6. QED
  BY <1>1, <1>2, <1>3, <1>4, <1>5 DEF SeenNext, seenVars

\* Where all coordinates are positive the server hides exactly the objects of the
\* map scripts have hidden and not shown since, for any positions.
THEOREM HiddenAsAskedCorrect == SeenSpec => []HiddenAsAsked
<1>1. SeenInit => HiddenInv
  BY DEF SeenInit, HiddenInv, HiddenAsAsked
<1>2. HiddenInv /\ [SeenNext]_seenVars => HiddenInv'
  BY HiddenNextInv
<1>3. HiddenInv => HiddenAsAsked
  BY DEF HiddenInv
<1>4. QED
  BY <1>1, <1>2, <1>3, PTL DEF SeenSpec

-------------------------------------------------------------------------------
(* Bodywork *)

BodyTypeOK ==
    /\ lights \in SUBSET (0 .. 31)
    /\ colour \in Colour \X Colour
    /\ tyre \in [Tyre -> 0 .. 1]

BodyInv == BodyTypeOK /\ BodyAsAsked

LEMMA KeptFact ==
    ASSUME NEW S, S \subseteq 0 .. 31
    PROVE  {b \in S : b > 7} = Kept(S)
<1>1. \A b \in S : b > 7 <=> b \notin LowByte
  BY DEF LowByte
<1>2. QED
  BY <1>1 DEF Kept

\* want is what the vehicle has, field by field
LEMMA BodyNextInv ==
    ASSUME BodyInv, [BodyNext]_bodyVars
    PROVE  BodyInv'
<1> USE DEF BodyInv, BodyTypeOK, BodyAsAsked
<1>1. ASSUME NEW c \in Colour, SetColour1(c) PROVE BodyInv'
  BY <1>1 DEF SetColour1
<1>2. ASSUME NEW c \in Colour, SetColour2(c) PROVE BodyInv'
  BY <1>2 DEF SetColour2
<1>3. ASSUME NEW flags \in SUBSET Bit, SetLightFlags(flags) PROVE BodyInv'
  BY <1>3, BitAssumption DEF SetLightFlags
<1>4. ASSUME NEW on \in BOOLEAN, SetTaxiLight(on) PROVE BodyInv'
  <2> DEFINE lit == IF on THEN lights \cup {TaxiBit} ELSE lights \ {TaxiBit}
  <2>1. lit \in SUBSET (0 .. 31)
    BY DEF TaxiBit
  <2>2. lights' = lit
    BY <1>4 DEF SetTaxiLight, GetTaxiLight
  <2>3. want' = [want EXCEPT !.lights = lit]
    BY <1>4 DEF SetTaxiLight
  <2>4. UNCHANGED <<colour, health, damage, tyre>>
    BY <1>4 DEF SetTaxiLight
  <2> HIDE DEF lit
  <2>5. QED
    BY <2>1, <2>2, <2>3, <2>4
<1>5. CASE Fix
  <2>1. {b \in lights : b > 7} = Kept(lights)
    BY KeptFact
  <2>2. Kept(lights) \in SUBSET (0 .. 31)
    BY DEF Kept
  <2>3. QED
    BY <1>5, <2>1, <2>2 DEF Fix
<1>6. ASSUME NEW h, SetHealth(h) PROVE BodyInv'
  BY <1>6 DEF SetHealth
<1>7. ASSUME NEW d, SetDamage(d) PROVE BodyInv'
  BY <1>7 DEF SetDamage
<1>8. ASSUME NEW t \in Tyre, NEW status \in 0 .. 1, SetTyreStatus(t, status) PROVE BodyInv'
  BY <1>8 DEF SetTyreStatus
<1>9. ASSUME NEW flat \in BOOLEAN, SetFlatTyres(flat) PROVE BodyInv'
  BY <1>9 DEF SetFlatTyres, Tyre
<1>10. CASE UNCHANGED bodyVars
  BY <1>10 DEF bodyVars
<1>11. QED
  BY <1>1, <1>2, <1>3, <1>4, <1>5, <1>6, <1>7, <1>8, <1>9, <1>10 DEF BodyNext

\* Whatever scripts set in whatever order, of lights and colours of any number,
\* the vehicle has what was asked for last of each property.
THEOREM BodyAsAskedCorrect == BodySpec => []BodyAsAsked
<1>1. BodyInit => BodyInv
  BY BitAssumption DEF BodyInit, BodyInv, BodyTypeOK, BodyAsAsked, Tyre
<1>2. BodyInv /\ [BodyNext]_bodyVars => BodyInv'
  BY BodyNextInv
<1>3. BodyInv => BodyAsAsked
  BY DEF BodyInv
<1>4. QED
  BY <1>1, <1>2, <1>3, PTL DEF BodySpec

-------------------------------------------------------------------------------
(* Areas *)

LEMMA TwelveDistricts == DOMAIN Districts = 1 .. 12
  BY SMT DEF Districts

LEMMA TheDistricts ==
    /\ Districts[1] = Box("DowntownViceCity", -1613030, 413218, -213730, 1677320)
    /\ Districts[2] = Box("VicePoint", 163656, -351153, 1246030, 1398850)
    /\ Districts[3] = Box("WashingtonBeach", -103970, -930526, 1246030, -351153)
    /\ Districts[4] = Box("OceanBeach", -253206, -1805370, 1254900, -930526)
    /\ Districts[5] = Box("EscobarInternationalAirport", -1888210, -1779610, -1208210, 230390)
    /\ Districts[6] = Box("StarfishIsland", -748206, -818266, -104505, -241467)
    /\ Districts[7] = Box("PrawnIsland", -213730, 797605, 163656, 1243470)
    /\ Districts[8] = Box("LeafLinks", -213730, -241429, 163656, 797605)
    /\ Districts[9] = Box("Junkyard", -1396760, -42911, -1208210, 230390)
    /\ Districts[10] = Box("Viceport", -1208210, -1779610, -253206, -898738)
    /\ Districts[11] = Box("LittleHavana", -1208210, -898738, -748206, -241467)
    /\ Districts[12] = Box("LittleHaiti", -1208210, -241467, -578289, 412660)
  BY SMT DEF Districts

\* The points in each district
LEMMA InDistricts ==
    ASSUME NEW p \in Int \X Int
    PROVE  /\ In(p, Districts[1]) <=>
                  p[1] > -1613030 /\ p[1] < -213730 /\ p[2] > 413218 /\ p[2] < 1677320
           /\ In(p, Districts[2]) <=>
                  p[1] > 163656 /\ p[1] < 1246030 /\ p[2] > -351153 /\ p[2] < 1398850
           /\ In(p, Districts[3]) <=>
                  p[1] > -103970 /\ p[1] < 1246030 /\ p[2] > -930526 /\ p[2] < -351153
           /\ In(p, Districts[4]) <=>
                  p[1] > -253206 /\ p[1] < 1254900 /\ p[2] > -1805370 /\ p[2] < -930526
           /\ In(p, Districts[5]) <=>
                  p[1] > -1888210 /\ p[1] < -1208210 /\ p[2] > -1779610 /\ p[2] < 230390
           /\ In(p, Districts[6]) <=>
                  p[1] > -748206 /\ p[1] < -104505 /\ p[2] > -818266 /\ p[2] < -241467
           /\ In(p, Districts[7]) <=>
                  p[1] > -213730 /\ p[1] < 163656 /\ p[2] > 797605 /\ p[2] < 1243470
           /\ In(p, Districts[8]) <=>
                  p[1] > -213730 /\ p[1] < 163656 /\ p[2] > -241429 /\ p[2] < 797605
           /\ In(p, Districts[9]) <=>
                  p[1] > -1396760 /\ p[1] < -1208210 /\ p[2] > -42911 /\ p[2] < 230390
           /\ In(p, Districts[10]) <=>
                  p[1] > -1208210 /\ p[1] < -253206 /\ p[2] > -1779610 /\ p[2] < -898738
           /\ In(p, Districts[11]) <=>
                  p[1] > -1208210 /\ p[1] < -748206 /\ p[2] > -898738 /\ p[2] < -241467
           /\ In(p, Districts[12]) <=>
                  p[1] > -1208210 /\ p[1] < -578289 /\ p[2] > -241467 /\ p[2] < 412660
  BY SMT, TheDistricts DEF In, Box

\* Of two districts that a point lies in the one is the airport, the other the
\* Junkyard, and the Junkyard is nowhere else.
LEMMA Apart ==
    ASSUME NEW p \in Int \X Int, NEW i \in DOMAIN Districts, NEW j \in DOMAIN Districts,
           In(p, Districts[i]), In(p, Districts[j])
    PROVE  /\ i = j \/ {i, j} = {5, 9}
           /\ In(p, Districts[9]) => In(p, Districts[5])
<1>1. p[1] \in Int /\ p[2] \in Int
  OBVIOUS
<1>2. i \in 1 .. 12 /\ j \in 1 .. 12
  BY TwelveDistricts
<1>3. QED
  BY SMTT(60), <1>1, <1>2, InDistricts

LEMMA NamesOfDistricts ==
    ASSUME NEW i \in DOMAIN Districts
    PROVE  (Districts[i].name = "Junkyard" <=> i = 9) /\ Districts[i].name # "ViceCity"
  BY SMT, TwelveDistricts, TheDistricts DEF Box

LEMMA MinIs ==
    ASSUME NEW T, T \subseteq Int, NEW k \in T, \A j \in T : k <= j
    PROVE  Min(T) = k
<1>1. \E x \in T : \A j \in T : x <= j
  OBVIOUS
<1>2. Min(T) \in T /\ \A j \in T : Min(T) <= j
  BY <1>1 DEF Min
<1>3. Min(T) \in Int /\ k \in Int /\ Min(T) <= k /\ k <= Min(T)
  BY <1>2
<1>4. QED
  BY <1>3

LEMMA OneDistrictOf ==
    ASSUME NEW p \in Int \X Int
    PROVE  /\ GetDistrictName(p) # "Junkyard"
           /\ \A i \in DOMAIN Districts :
                 In(p, Districts[i]) => Districts[i].name \in {GetDistrictName(p), "Junkyard"}
<1> DEFINE around == {i \in DOMAIN Districts : In(p, Districts[i])}
<1>1. CASE around = {}
  BY <1>1 DEF GetDistrictName
<1>2. CASE around # {}
  <2>1. GetDistrictName(p) = Districts[Min(around)].name
    BY <1>2 DEF GetDistrictName
  <2>2. \A i, j \in around : i = j \/ {i, j} = {5, 9}
    BY Apart
  <2>3. 9 \in around => 5 \in around
    <3>1. 5 \in DOMAIN Districts
      BY TwelveDistricts
    <3>2. QED
      BY <3>1, Apart
  <2>4. around \subseteq 1 .. 12
    BY TwelveDistricts
  <2> HIDE DEF around
  <2>5. PICK k \in around : \A j \in around : k <= j /\ (j = k \/ j = 9)
    <3>1. CASE 5 \in around
      BY <2>2, <3>1
    <3>2. CASE 5 \notin around
      <4>1. PICK k \in around : TRUE
        BY <1>2 DEF around
      <4>2. \A j \in around : j = k
        BY <2>2, <2>3, <3>2, <4>1
      <4>3. k \in Int
        BY <2>4, <4>1
      <4>4. QED
        BY <4>1, <4>2, <4>3
    <3>3. QED
      BY <3>1, <3>2
  <2>6. Min(around) = k
    <3>1. around \subseteq Int
      BY <2>4
    <3>2. QED
      BY <2>5, <3>1, MinIs
  <2>7. k # 9
    BY <2>3, <2>5
  <2>8. \A i \in DOMAIN Districts : In(p, Districts[i]) <=> i \in around
    BY DEF around
  <2>9. k \in DOMAIN Districts
    BY DEF around
  <2>10. QED
    BY <2>1, <2>5, <2>6, <2>7, <2>8, <2>9, NamesOfDistricts
<1>3. QED
  BY <1>1, <1>2

\* Of the districts of the map, for any point with integer coordinates: the ones
\* it lies in are the one GetDistrictName gives and, in the airport, the Junkyard.
THEOREM OneDistrictCorrect == AreasSpec => []OneDistrict
<1>1. AreasInit => OneDistrict
  BY DEF AreasInit, OneDistrict, AskedArea
<1>2. OneDistrict /\ [AreasNext]_areaVars => OneDistrict'
  <2> SUFFICES ASSUME OneDistrict, [AreasNext]_areaVars PROVE OneDistrict'
    OBVIOUS
  <2>1. CASE CallInPoly
    BY <2>1 DEF CallInPoly, AreaAnswers, OneDistrict, AskedArea
  <2>2. CASE CallGetDistrictName
    <3>1. PICK p \in Spot : AreaAnswers("GetDistrictName", <<>>, p, GetDistrictName(p))
      BY <2>2 DEF CallGetDistrictName
    <3>2. p \in Int \X Int
      BY SpotAssumption
    <3>3. point' = p /\ answer' = GetDistrictName(p)
      BY <3>1 DEF AreaAnswers
    <3>4. QED
      BY <3>2, <3>3, OneDistrictOf DEF OneDistrict
  <2>3. CASE AreaGoesOn
    BY <2>3 DEF AreaGoesOn, OneDistrict, AskedArea
  <2>4. CASE UNCHANGED areaVars
    BY <2>4 DEF areaVars, OneDistrict, AskedArea
  <2>5. QED
    BY <2>1, <2>2, <2>3, <2>4 DEF AreasNext
<1>3. QED
  BY <1>1, <1>2, PTL DEF AreasSpec

-------------------------------------------------------------------------------
(* Text *)

\* A set of natural numbers has a least one
LEMMA LeastOne ==
    ASSUME NEW T, T \subseteq Nat, T # {}
    PROVE  Min(T) \in T /\ \A x \in T : Min(T) <= x
<1>1. PICK x \in T : \A y \in T : <<y, x>> \notin OpToRel(<, Nat)
  BY NatLessThanWellFounded, WFMin, Zenon
<1>2. \A y \in T : ~(y < x)
  BY <1>1, Zenon DEF OpToRel
<1>3. \A y \in T : x <= y
  BY <1>2
<1>4. QED
  BY <1>3 DEF Min

\* Where Skip stops, and that it stops nowhere else
LEMMA SkipFacts ==
    ASSUME NEW s \in Seq(STRING), NEW i \in 1 .. Len(s) + 1, NEW chars
    PROVE  /\ Skip(s, i, chars) \in i .. Len(s) + 1
           /\ \A n \in i .. Skip(s, i, chars) - 1 : s[n] \in chars
           /\ Skip(s, i, chars) <= Len(s) => s[Skip(s, i, chars)] \notin chars
           /\ \A m \in i .. Len(s) + 1 :
                 (\A n \in i .. m - 1 : s[n] \in chars) /\ (m <= Len(s) => s[m] \notin chars)
                     => Skip(s, i, chars) = m
<1> DEFINE stops == {j \in i .. Len(s) : s[j] \notin chars} \cup {Len(s) + 1}
           least == Min(stops)
<1>1. Len(s) \in Nat
  OBVIOUS
<1>2. stops \subseteq Nat /\ stops # {} /\ stops \subseteq i .. Len(s) + 1
  BY <1>1
<1>3. Skip(s, i, chars) = least
  BY DEF Skip
<1>4. \A j \in i .. Len(s) : j \in stops <=> s[j] \notin chars
  BY <1>1
<1>5. Len(s) + 1 \in stops
  OBVIOUS
<1> HIDE DEF stops
<1>6. least \in stops /\ \A x \in stops : least <= x
  BY <1>2, LeastOne
<1> HIDE DEF least
<1>7. least \in i .. Len(s) + 1
  BY <1>2, <1>6
<1>8. \A n \in i .. least - 1 : s[n] \in chars
  BY <1>1, <1>4, <1>6, <1>7
<1>9. least <= Len(s) => s[least] \notin chars
  BY <1>1, <1>4, <1>6, <1>7
<1>10. ASSUME NEW m \in i .. Len(s) + 1, \A n \in i .. m - 1 : s[n] \in chars,
              m <= Len(s) => s[m] \notin chars
       PROVE  least = m
  <2>1. m \in stops
    BY <1>1, <1>4, <1>5, <1>10
  <2>2. least <= m
    BY <1>6, <2>1
  <2>3. ~(least < m)
    BY <1>1, <1>7, <1>9, <1>10
  <2>4. QED
    BY <1>1, <1>7, <2>2, <2>3
<1>11. QED
  BY <1>3, <1>7, <1>8, <1>9, <1>10

\* The characters of a part of a text
LEMMA PartOf ==
    ASSUME NEW s \in Seq(STRING), NEW a \in 1 .. Len(s) + 1, NEW b \in 0 .. Len(s), a <= b + 1,
           NEW chars
    PROVE  ToSet(SubSeq(s, a, b)) \subseteq chars <=> \A n \in a .. b : s[n] \in chars
<1> DEFINE part == SubSeq(s, a, b)
<1>1. Len(s) \in Nat /\ a \in Nat /\ b \in Int
  OBVIOUS
<1>2. /\ part \in Seq(STRING)
      /\ Len(part) = IF a <= b THEN b - a + 1 ELSE 0
      /\ \A n \in 1 .. b - a + 1 : part[n] = s[a + n - 1]
  <2>1. \A n \in a .. b : s[n] \in STRING
    BY <1>1, ElementOfSeq
  <2>2. QED
    BY <1>1, <2>1, SubSeqProperties
<1>3. DOMAIN part = 1 .. b - a + 1
  BY <1>1, <1>2
<1> HIDE DEF part
<1>4. ToSet(part) \subseteq chars <=> \A n \in 1 .. b - a + 1 : part[n] \in chars
  BY <1>3 DEF ToSet
<1>5. ASSUME \A n \in 1 .. b - a + 1 : part[n] \in chars, NEW n \in a .. b
      PROVE  s[n] \in chars
  <2>1. n - a + 1 \in 1 .. b - a + 1 /\ a + (n - a + 1) - 1 = n
    BY <1>1
  <2>2. QED
    BY <1>2, <1>5, <2>1
<1>6. ASSUME \A n \in a .. b : s[n] \in chars, NEW n \in 1 .. b - a + 1
      PROVE  part[n] \in chars
  <2>1. a + n - 1 \in a .. b
    BY <1>1
  <2>2. QED
    BY <1>2, <1>6, <2>1
<1>7. QED
  BY <1>4, <1>5, <1>6 DEF part

\* What it is to be an integer with space around it
NumericText(s) ==
    \E i, j, k \in 0 .. Len(s) :
        /\ i <= j /\ j < k /\ j - i <= 1
        /\ ToSet(SubSeq(s, 1, i)) \subseteq Space
        /\ ToSet(SubSeq(s, i + 1, j)) \subseteq Sign
        /\ ToSet(SubSeq(s, j + 1, k)) \subseteq Digit
        /\ ToSet(From(s, k + 1)) \subseteq Space

LEMMA NumericTextBy ==
    ASSUME NEW s \in Seq(STRING)
    PROVE  NumericText(s) <=>
               \E i, j, k \in 0 .. Len(s) :
                   /\ i <= j /\ j < k /\ j - i <= 1
                   /\ \A n \in 1 .. i : s[n] \in Space
                   /\ \A n \in i + 1 .. j : s[n] \in Sign
                   /\ \A n \in j + 1 .. k : s[n] \in Digit
                   /\ \A n \in k + 1 .. Len(s) : s[n] \in Space
<1>1. Len(s) \in Nat
  OBVIOUS
<1>2. ASSUME NEW i \in 0 .. Len(s), NEW j \in 0 .. Len(s), NEW k \in 0 .. Len(s),
             i <= j, j < k
      PROVE  /\ ToSet(SubSeq(s, 1, i)) \subseteq Space <=> \A n \in 1 .. i : s[n] \in Space
             /\ ToSet(SubSeq(s, i + 1, j)) \subseteq Sign <=> \A n \in i + 1 .. j : s[n] \in Sign
             /\ ToSet(SubSeq(s, j + 1, k)) \subseteq Digit
                    <=> \A n \in j + 1 .. k : s[n] \in Digit
             /\ ToSet(From(s, k + 1)) \subseteq Space
                    <=> \A n \in k + 1 .. Len(s) : s[n] \in Space
  <2>1. /\ 1 \in 1 .. Len(s) + 1 /\ i \in 0 .. Len(s)
        /\ i + 1 \in 1 .. Len(s) + 1 /\ i + 1 <= j + 1
        /\ j + 1 \in 1 .. Len(s) + 1 /\ j + 1 <= k + 1
        /\ k + 1 \in 1 .. Len(s) + 1 /\ k + 1 <= Len(s) + 1
        /\ 1 <= i + 1 /\ Len(s) \in 0 .. Len(s)
    BY <1>1, <1>2
  <2>2. ToSet(SubSeq(s, 1, i)) \subseteq Space <=> \A n \in 1 .. i : s[n] \in Space
    BY <2>1, PartOf
  <2>3. ToSet(SubSeq(s, i + 1, j)) \subseteq Sign <=> \A n \in i + 1 .. j : s[n] \in Sign
    BY <2>1, PartOf
  <2>4. ToSet(SubSeq(s, j + 1, k)) \subseteq Digit <=> \A n \in j + 1 .. k : s[n] \in Digit
    BY <2>1, PartOf
  <2>5. ToSet(From(s, k + 1)) \subseteq Space
            <=> \A n \in k + 1 .. Len(s) : s[n] \in Space
    BY <2>1, PartOf DEF From
  <2>6. QED
    BY <2>2, <2>3, <2>4, <2>5
<1>3. QED
  BY <1>1, <1>2 DEF NumericText

Apart3 == Space \cap Sign = {} /\ Sign \cap Digit = {} /\ Digit \cap Space = {}

LEMMA Kinds3 == Apart3
  BY DEF Apart3, Space, Sign, Digit

\* IsNum finds the three parts if there are any, and any three parts are the ones
\* it finds
LEMMA NumericOf ==
    ASSUME NEW s \in Seq(STRING)
    PROVE  IsNum(s) <=> NumericText(s)
<1> DEFINE L == Len(s)
           i0 == Skip(s, 1, Space)
           end == Strtol(s, i0)
           start == IF i0 <= L /\ s[i0] \in Sign THEN i0 + 1 ELSE i0
           stop == Skip(s, start, Digit)
           Parts(i, j, k) ==
               /\ i <= j /\ j < k /\ j - i <= 1
               /\ \A n \in 1 .. i : s[n] \in Space
               /\ \A n \in i + 1 .. j : s[n] \in Sign
               /\ \A n \in j + 1 .. k : s[n] \in Digit
               /\ \A n \in k + 1 .. L : s[n] \in Space
<1>1. L \in Nat
  OBVIOUS
<1>2. NumericText(s) <=> \E i, j, k \in 0 .. L : Parts(i, j, k)
  BY NumericTextBy
<1>3. IsNum(s) <=> i0 <= L /\ end # i0 /\ Skip(s, end, Space) = L + 1
  BY DEF IsNum
<1>4. end = IF stop = start THEN i0 ELSE stop
  BY DEF Strtol
<1>5. /\ i0 \in 1 .. L + 1
      /\ \A n \in 1 .. i0 - 1 : s[n] \in Space
      /\ i0 <= L => s[i0] \notin Space
  BY <1>1, SkipFacts
<1>6. start \in 1 .. L + 1 /\ start \in i0 .. i0 + 1
  BY <1>1, <1>5
<1>7. /\ stop \in start .. L + 1
      /\ \A n \in start .. stop - 1 : s[n] \in Digit
  BY <1>6, SkipFacts
<1>8. ASSUME IsNum(s) PROVE \E i, j, k \in 0 .. L : Parts(i, j, k)
  <2>1. i0 <= L /\ stop # start /\ end = stop /\ Skip(s, stop, Space) = L + 1
    BY <1>3, <1>4, <1>8
  <2>2. stop \in 1 .. L + 1
    BY <1>1, <1>6, <1>7
  <2>3. \A n \in stop .. L + 1 - 1 : s[n] \in Space
    BY <2>1, <2>2, SkipFacts
  <2> DEFINE i == i0 - 1
             j == start - 1
             k == stop - 1
  <2>4. i \in 0 .. L /\ j \in 0 .. L /\ k \in 0 .. L
    BY <1>1, <1>5, <1>6, <2>2
  <2>5. i <= j /\ j < k /\ j - i <= 1
    BY <1>1, <1>5, <1>6, <1>7, <2>1
  <2>6. \A n \in i + 1 .. j : s[n] \in Sign
    BY <1>1, <1>5, <1>6
  <2>7. /\ \A n \in j + 1 .. k : s[n] \in Digit
        /\ \A n \in k + 1 .. L : s[n] \in Space
        /\ \A n \in 1 .. i : s[n] \in Space
    BY <1>1, <1>5, <1>6, <1>7, <2>2, <2>3
  <2>8. Parts(i, j, k)
    BY <2>5, <2>6, <2>7
  <2>9. QED
    BY <2>4, <2>8
<1>9. ASSUME NEW i \in 0 .. L, NEW j \in 0 .. L, NEW k \in 0 .. L, Parts(i, j, k)
      PROVE  IsNum(s)
  <2>1. i + 1 \in 1 .. L + 1 /\ s[i + 1] \in Sign \cup Digit
    BY <1>1, <1>9
  <2>2. i0 = i + 1
    BY <1>1, <1>9, <2>1, SkipFacts, Kinds3 DEF Apart3
  <2>3. start = j + 1
    BY <1>1, <1>9, <2>1, <2>2, Kinds3 DEF Apart3
  <2>4. k + 1 \in j + 1 .. L + 1 /\ (k + 1 <= L => s[k + 1] \in Space)
    BY <1>1, <1>9
  <2>5. stop = k + 1
    <3>1. \A n \in j + 1 .. k + 1 - 1 : s[n] \in Digit
      BY <1>1, <1>9
    <3>2. k + 1 <= L => s[k + 1] \notin Digit
      BY <2>4, Kinds3 DEF Apart3
    <3>3. j + 1 \in 1 .. L + 1
      BY <1>1
    <3>4. Skip(s, j + 1, Digit) = k + 1
      BY <2>4, <3>1, <3>2, <3>3, SkipFacts
    <3>5. QED
      BY <2>3, <3>4
  <2>6. end = k + 1 /\ end # i0
    BY <1>1, <1>4, <1>9, <2>2, <2>3, <2>5
  <2>7. Skip(s, k + 1, Space) = L + 1
    <3>1. k + 1 \in 1 .. L + 1 /\ L + 1 \in k + 1 .. L + 1 /\ L + 1 - 1 = L /\ ~(L + 1 <= L)
      BY <1>1
    <3>2. \A n \in k + 1 .. L + 1 - 1 : s[n] \in Space
      BY <1>9, <3>1
    <3>3. QED
      BY <3>1, <3>2, SkipFacts
  <2>8. i0 <= L
    BY <1>1, <1>9, <2>2
  <2>9. QED
    BY <1>3, <2>6, <2>7, <2>8
<1>10. QED
  BY <1>2, <1>8, <1>9

\* Of texts of any length: IsNum accepts the integers with space around them and
\* nothing else.
THEOREM NumericCorrect == TextSpec => []Numeric
<1> DEFINE Right == textCall = "IsNum" => (result <=> NumericText(text))
<1>1. Right <=> Numeric
  BY DEF Numeric, NumericText
<1>2. TextInit => Right
  BY DEF TextInit
<1>3. Right /\ [TextNext]_textVars => Right'
  <2> SUFFICES ASSUME Right, [TextNext]_textVars PROVE Right'
    OBVIOUS
  <2>1. CASE CallFormatDecimal
    BY <2>1 DEF CallFormatDecimal, TextAnswers
  <2>2. CASE CallReplaceChars
    BY <2>2 DEF CallReplaceChars, TextAnswers
  <2>3. CASE CallIsNum
    <3>1. PICK s \in Line : TextAnswers("IsNum", s, <<>>, IsNum(s))
      BY <2>3 DEF CallIsNum
    <3>2. s \in Seq(STRING)
      BY LineAssumption
    <3>3. text' = s /\ result' = IsNum(s)
      BY <3>1 DEF TextAnswers
    <3>4. IsNum(s) <=> NumericText(s)
      BY <3>2, NumericOf
    <3>5. QED
      BY <3>3, <3>4
  <2>4. CASE TextGoesOn
    BY <2>4 DEF TextGoesOn
  <2>5. CASE UNCHANGED textVars
    BY <2>5 DEF textVars, NumericText, From
  <2>6. QED
    BY <2>1, <2>2, <2>3, <2>4, <2>5 DEF TextNext
<1>4. QED
  BY <1>1, <1>2, <1>3, PTL DEF TextSpec

-------------------------------------------------------------------------------
(* Text: ReplaceChars *)

\* A set of numbers up to n that has 0, and with m also m + 1, has them all.
LEMMA Climb ==
    ASSUME NEW n \in Nat, NEW S \in SUBSET (0 .. n), 0 \in S,
           \A m \in 0 .. n - 1 : m \in S => m + 1 \in S
    PROVE  S = 0 .. n
<1> DEFINE T == (0 .. n) \ S
<1>1. T = {}
  <2> SUFFICES ASSUME T # {} PROVE FALSE
    OBVIOUS
  <2>1. T \subseteq Nat
    OBVIOUS
  <2>2. Min(T) \in T /\ \A x \in T : Min(T) <= x
    BY <2>1, LeastOne
  <2>3. PICK m \in T : \A x \in T : m <= x
    BY <2>2
  <2>4. m # 0 /\ m - 1 \in 0 .. n - 1 /\ (m - 1) + 1 = m /\ m - 1 \in 0 .. n
    BY <2>3
  <2>5. m - 1 \in S
    BY <2>3, <2>4
  <2>6. QED
    BY <2>3, <2>4, <2>5
<1>2. QED
  BY <1>1

\* A loop that makes a value of R of a value of R can be run from any value.
IsRun(g, n, base, step) == g[0] = base /\ \A i \in 1 .. n : g[i] = step[<<g[i - 1], i>>]

LEMMA Iterate ==
    ASSUME NEW n \in Nat, NEW R, NEW base \in R, NEW step \in [R \X (1 .. n) -> R]
    PROVE  \E g \in [0 .. n -> R] : IsRun(g, n, base, step)
<1> DEFINE Runs(g, m) == IsRun(g, m, base, step)
           S == {m \in 0 .. n : \E g \in [0 .. m -> R] : Runs(g, m)}
<1>1. 0 \in S
  <2> DEFINE g == [i \in 0 .. 0 |-> base]
  <2>1. g \in [0 .. 0 -> R] /\ Runs(g, 0) /\ 0 \in 0 .. n
    BY DEF IsRun
  <2> HIDE DEF g, Runs
  <2>2. QED
    BY <2>1
<1>2. ASSUME NEW m \in 0 .. n - 1, m \in S PROVE m + 1 \in S
  <2>1. PICK g \in [0 .. m -> R] : Runs(g, m)
    BY <1>2
  <2> DEFINE next == step[<<g[m], m + 1>>]
             h == [i \in 0 .. m + 1 |-> IF i = m + 1 THEN next ELSE g[i]]
  <2>2. next \in R
    <3>1. g[m] \in R /\ m + 1 \in 1 .. n
      OBVIOUS
    <3>2. <<g[m], m + 1>> \in R \X (1 .. n)
      BY <3>1
    <3>3. QED
      BY <3>2
  <2>3. /\ \A i \in 0 .. m : h[i] = g[i]
        /\ h[m + 1] = next
        /\ h \in [0 .. m + 1 -> R]
    BY <2>2
  <2>4. /\ \A i \in 1 .. m : i - 1 \in 0 .. m /\ i \in 0 .. m
        /\ \A i \in 1 .. m + 1 : i \in 1 .. m \/ i = m + 1
        /\ 0 \in 0 .. m /\ (m + 1) - 1 = m /\ m \in 0 .. m
    OBVIOUS
  <2> HIDE DEF h
  <2>5. Runs(h, m + 1)
    <3>1. h[0] = base
      BY <2>1, <2>3, <2>4 DEF IsRun
    <3>2. \A i \in 1 .. m : h[i] = step[<<h[i - 1], i>>]
      BY <2>1, <2>3, <2>4 DEF IsRun
    <3>3. h[m + 1] = step[<<h[(m + 1) - 1], m + 1>>]
      BY <2>3, <2>4
    <3>4. QED
      BY <2>4, <3>1, <3>2, <3>3 DEF IsRun
  <2>6. m + 1 \in 0 .. n
    OBVIOUS
  <2> HIDE DEF Runs
  <2>7. QED
    BY <2>3, <2>5, <2>6
<1> HIDE DEF Runs
<1>3. S = 0 .. n
  <2>1. S \in SUBSET (0 .. n)
    OBVIOUS
  <2> HIDE DEF S
  <2>2. QED
    BY <1>1, <1>2, <2>1, Climb
<1>4. \E g \in [0 .. n -> R] : Runs(g, n)
  BY <1>3
<1>5. QED
  BY <1>4 DEF Runs

\* The characters of a text, of which "0" takes the place of an empty replacement
Letter == STRING \cup {"0"}

\* c is the lower case of nothing in target.
Unlike(c, target) == ToLower(c) \notin {ToLower(x) : x \in ToSet(target)}

\* No character of such a target is c in either case.
LEMMA FirstOfTarget ==
    ASSUME NEW target \in Seq(Letter), NEW c, Unlike(c, target)
    PROVE  \A i \in DOMAIN target : ToLower(target[i]) # ToLower(c)
BY DEF Unlike, ToSet

\* Putting c in the place of characters makes no new occurrence of a target c is
\* not in.
LEMMA MatchKept ==
    ASSUME NEW s \in Seq(Letter), NEW u \in Seq(Letter), Len(u) = Len(s), NEW c,
           \A j \in DOMAIN s : u[j] \in {s[j], c},
           NEW target \in Seq(Letter), Unlike(c, target),
           NEW pos \in Nat \ {0}, MatchesAt(u, target, pos)
    PROVE  MatchesAt(s, target, pos)
<1>1. DOMAIN target = 1 .. Len(target) /\ DOMAIN s = 1 .. Len(s) /\ Len(target) \in Nat /\ Len(s) \in Nat
  OBVIOUS
<1>2. pos + Len(target) - 1 <= Len(s)
  BY DEF MatchesAt
<1>3. ASSUME NEW i \in DOMAIN target PROVE ToLower(s[pos + i - 1]) = ToLower(target[i])
  <2>1. pos + i - 1 \in DOMAIN s
    BY <1>1, <1>2
  <2>2. ToLower(u[pos + i - 1]) = ToLower(target[i])
    BY DEF MatchesAt
  <2>3. ToLower(target[i]) # ToLower(c)
    BY FirstOfTarget
  <2>4. u[pos + i - 1] # c
    BY <2>2, <2>3
  <2>5. QED
    BY <2>1, <2>2, <2>4
<1>4. QED
  BY <1>2, <1>3 DEF MatchesAt

\* What the loop over the positions has left of s when it has come past pos: of
\* the target it looks for there is nothing up to pos.
Past(s, target, c, acc, pos) ==
    /\ acc.text \in Seq(Letter) /\ Len(acc.text) = Len(s)
    /\ \A j \in DOMAIN s : acc.text[j] \in {s[j], c}
    /\ Unlike(c, target) =>
          \A p \in DOMAIN s : p <= pos \/ p < acc.next => ~MatchesAt(acc.text, target, p)

Position == [text : Seq(Letter), next : Nat]

\* u is s with c in the place of the n characters from pos on.
PutInto(u, s, pos, n, c) ==
    /\ u \in Seq(Letter) /\ Len(u) = Len(s)
    /\ \A j \in DOMAIN s : u[j] = IF j \in pos .. pos + n - 1 THEN c ELSE s[j]

\* What Overwritten makes of a text
LEMMA OverwrittenType ==
    ASSUME NEW s \in Seq(Letter), NEW pos \in Nat, NEW n \in Nat, NEW c \in Letter
    PROVE  PutInto(Overwritten(s, pos, n, c), s, pos, n, c)
<1>1. DOMAIN s = 1 .. Len(s) /\ Len(s) \in Nat
  OBVIOUS
<1>2. \A i \in 1 .. Len(s) : s[i] \in Letter
  OBVIOUS
<1> DEFINE m == Len(s)
           u == [i \in 1 .. m |-> IF i \in pos .. pos + n - 1 THEN c ELSE s[i]]
<1>3. Overwritten(s, pos, n, c) = u
  BY <1>1 DEF Overwritten
<1>4. m \in Nat /\ \A i \in 1 .. m : s[i] \in Letter
  BY <1>1, <1>2
<1>5. \A i \in 1 .. m : u[i] = IF i \in pos .. pos + n - 1 THEN c ELSE s[i]
  OBVIOUS
<1> HIDE DEF m
<1>6. u \in [1 .. m -> Letter]
  BY <1>4
<1>7. u \in Seq(Letter) /\ Len(u) = m
  <2> HIDE DEF u
  <2>1. u \in Seq(Letter)
    BY <1>4, <1>6
  <2>2. DOMAIN u = 1 .. m
    BY <1>6
  <2>3. QED
    BY <1>4, <2>1, <2>2
<1> HIDE DEF u
<1>8. QED
  BY <1>1, <1>3, <1>5, <1>7 DEF m, PutInto

\* The loop goes from position to position.
LEMMA VisitType ==
    ASSUME NEW acc \in Position, NEW pos \in Nat, NEW target \in Seq(Letter), NEW c \in Letter
    PROVE  Visit(acc, pos, target, c) \in Position
<1>1. acc.text \in Seq(Letter) /\ acc.next \in Nat /\ Len(target) \in Nat
  BY DEF Position
<1>2. Overwritten(acc.text, pos, Len(target), c) \in Seq(Letter)
  BY <1>1, OverwrittenType DEF PutInto
<1>3. QED
  BY <1>1, <1>2 DEF Visit, Step, Position

\* A visit of a position leaves nothing of the target there: if the target is
\* overwritten no occurrence of it begins in what has taken its place.
LEMMA VisitPast ==
    ASSUME NEW s \in Seq(Letter), NEW target \in Seq(Letter), target # <<>>,
           NEW c \in Letter, NEW acc \in Position, NEW pos \in DOMAIN s,
           Past(s, target, c, acc, pos - 1)
    PROVE  Past(s, target, c, Visit(acc, pos, target, c), pos)
<1>1. /\ DOMAIN s = 1 .. Len(s) /\ Len(s) \in Nat /\ pos \in Nat \ {0} /\ pos \in Nat
      /\ DOMAIN target = 1 .. Len(target) /\ Len(target) \in Nat /\ Len(target) > 0
      /\ acc.text \in Seq(Letter) /\ acc.next \in Nat
  BY DEF Position
<1>2. /\ Len(acc.text) = Len(s) /\ DOMAIN acc.text = DOMAIN s
      /\ \A j \in DOMAIN s : acc.text[j] \in {s[j], c}
  BY <1>1 DEF Past
<1>3. CASE pos < acc.next
  <2>1. Visit(acc, pos, target, c) = acc
    BY <1>3 DEF Visit
  <2>2. \A p \in DOMAIN s : p <= pos => p < acc.next
    BY <1>1, <1>3
  <2>3. QED
    BY <2>1, <2>2 DEF Past
<1>4. CASE ~MatchesAt(acc.text, target, pos)
  <2>1. Visit(acc, pos, target, c) = acc
    BY <1>4 DEF Visit
  <2>2. \A p \in DOMAIN s : p <= pos => p <= pos - 1 \/ p = pos
    BY <1>1
  <2>3. QED
    BY <1>4, <2>1, <2>2 DEF Past
<1>5. CASE ~(pos < acc.next) /\ MatchesAt(acc.text, target, pos)
  <2> DEFINE u == Overwritten(acc.text, pos, Len(target), c)
             new == Visit(acc, pos, target, c)
  <2>1. new.text = u /\ new.next = pos + Len(target)
    BY <1>5 DEF Visit, Step
  <2>2. /\ u \in Seq(Letter) /\ Len(u) = Len(s)
        /\ \A j \in DOMAIN s : u[j] = IF j \in pos .. pos + Len(target) - 1 THEN c ELSE acc.text[j]
    <3> DEFINE n == Len(target)
               t == acc.text
    <3>1. n \in Nat /\ t \in Seq(Letter) /\ pos \in Nat /\ c \in Letter
      BY <1>1
    <3> HIDE DEF n, t
    <3>2. PutInto(Overwritten(t, pos, n, c), t, pos, n, c)
      BY ONLY <3>1, OverwrittenType
    <3>3. QED
      BY <1>2, <3>2 DEF n, t, PutInto
  <2> HIDE DEF u, new
  <2>3. \A j \in DOMAIN s : u[j] \in {s[j], c} /\ u[j] \in {acc.text[j], c}
    BY <1>2, <2>2
  <2>4. ASSUME Unlike(c, target), NEW p \in DOMAIN s, p <= pos \/ p < new.next,
               MatchesAt(u, target, p)
        PROVE  FALSE
    <3>1. p \in Nat \ {0} /\ (p <= pos - 1 \/ p \in pos .. pos + Len(target) - 1)
      BY <1>1, <2>1, <2>4
    <3>2. MatchesAt(acc.text, target, p)
      BY <1>1, <1>2, <2>2, <2>3, <2>4, <3>1, MatchKept
    <3>3. ~(p <= pos - 1)
      BY <2>4, <3>2 DEF Past
    <3>4. u[p] = c
      BY <2>2, <3>1, <3>3
    <3>5. 1 \in DOMAIN target /\ p + 1 - 1 = p
      BY <1>1, <3>1
    <3>6. ToLower(u[p]) = ToLower(target[1])
      BY <2>4, <3>5 DEF MatchesAt
    <3>7. QED
      BY <2>4, <3>4, <3>5, <3>6, FirstOfTarget
  <2>5. QED
    BY <2>1, <2>2, <2>3, <2>4 DEF Past, new
<1>6. QED
  BY <1>3, <1>4, <1>5

\* What the recursion of Visits defines
LEMMA VisitsDef ==
    ASSUME NEW s \in Seq(Letter), NEW target \in Seq(Letter), NEW c \in Letter
    PROVE  /\ Visits(s, target, c)[0] = [text |-> s, next |-> 1]
           /\ \A pos \in DOMAIN s :
                 Visits(s, target, c)[pos] = Visit(Visits(s, target, c)[pos - 1], pos, target, c)
<1> DEFINE n == Len(s)
           base == [text |-> s, next |-> 1]
           step == [x \in Position \X (1 .. n) |-> Visit(x[1], x[2], target, c)]
           Is(g) == g = [pos \in 0 .. n |->
                            IF pos = 0 THEN base ELSE Visit(g[pos - 1], pos, target, c)]
<1>1. n \in Nat /\ DOMAIN s = 1 .. n
  OBVIOUS
<1>2. base \in Position
  BY DEF Position
<1>3. step \in [Position \X (1 .. n) -> Position]
  <2>1. ASSUME NEW x \in Position \X (1 .. n) PROVE Visit(x[1], x[2], target, c) \in Position
    <3>1. x[1] \in Position /\ x[2] \in Nat
      BY <1>1
    <3>2. QED
      BY <3>1, VisitType
  <2>2. QED
    BY <2>1
<1>4. \A acc \in Position, pos \in 1 .. n : step[<<acc, pos>>] = Visit(acc, pos, target, c)
  OBVIOUS
<1> HIDE DEF n, base, step
<1>5. PICK g \in [0 .. n -> Position] : IsRun(g, n, base, step)
  BY ONLY <1>1, <1>2, <1>3, Iterate
<1>6. Is(g)
  <2>1. \A i \in 1 .. n : g[i - 1] \in Position
    BY <1>1
  <2>2. \A i \in 1 .. n : g[i] = Visit(g[i - 1], i, target, c)
    BY <1>4, <1>5, <2>1 DEF IsRun
  <2>3. \A i \in 0 .. n : i = 0 \/ (i \in 1 .. n /\ i # 0)
    BY <1>1
  <2>4. \A i \in 0 .. n : g[i] = IF i = 0 THEN base ELSE Visit(g[i - 1], i, target, c)
    BY <1>5, <2>2, <2>3, Zenon DEF IsRun
  <2>5. QED
    BY <2>4
<1>7. Visits(s, target, c) = CHOOSE f : Is(f)
  BY DEF Visits, n, base
<1> DEFINE v == Visits(s, target, c)
<1>8. Is(v)
  <2> HIDE DEF Is
  <2>1. QED
    BY <1>6, <1>7
<1> HIDE DEF v
<1>9. v[0] = base /\ \A pos \in 1 .. n : v[pos] = Visit(v[pos - 1], pos, target, c)
  <2>1. \A i \in 0 .. n : v[i] = IF i = 0 THEN base ELSE Visit(v[i - 1], i, target, c)
    BY <1>8
  <2>2. 0 \in 0 .. n /\ \A i \in 1 .. n : i \in 0 .. n /\ i # 0
    BY <1>1
  <2> HIDE DEF Is
  <2>3. QED
    BY <2>1, <2>2, Zenon
<1>10. QED
  BY <1>1, <1>9 DEF v, base
\* t is s with c in the place of some characters.
Only(c, s, t) ==
    /\ t \in Seq(Letter) /\ Len(t) = Len(s)
    /\ \A j \in DOMAIN s : t[j] \in {s[j], c}

\* What is put in the place of characters is one.
LEMMA FirstType ==
    ASSUME NEW new \in Seq(Letter)
    PROVE  First(new) \in Letter
<1>1. CASE new = <<>>
  BY <1>1 DEF First, Letter
<1>2. CASE new # <<>>
  <2>1. 1 \in 1 .. Len(new)
    BY <1>2
  <2>2. new[1] \in Letter
    BY <2>1
  <2>3. QED
    BY <1>2, <2>2 DEF First
<1>3. QED
  BY <1>1, <1>2

\* The texts scripts pass are texts.
LEMMA LetterSeq ==
    /\ Seq(STRING) \subseteq Seq(Letter)
    /\ Seq(Seq(STRING)) \subseteq Seq(Seq(Letter))
<1>1. STRING \subseteq Letter
  BY DEF Letter
<1>2. Seq(STRING) \subseteq Seq(Letter)
  BY <1>1, SeqMonotonic
<1>3. QED
  BY <1>2, SeqMonotonic

\* One target is replaced.
LEMMA ReplaceOneFacts ==
    ASSUME NEW s \in Seq(Letter), NEW target \in Seq(Letter), NEW new \in Seq(Letter)
    PROVE  LET c == First(new)
               t == ReplaceOne(s, target, new)
           IN  Only(c, s, t) /\ (Unlike(c, target) => ~OccursIn(target, t))
<1> DEFINE c == First(new)
           v == Visits(s, target, c)
           n == Len(s)
           S == {pos \in 0 .. n : v[pos] \in Position /\ Past(s, target, c, v[pos], pos)}
<1>1. c \in Letter
  BY FirstType
<1>2. CASE target = <<>>
  <2>1. ReplaceOne(s, target, new) = s
    BY <1>2 DEF ReplaceOne
  <2>2. Only(c, s, s)
    BY DEF Only
  <2>3. QED
    BY <1>2, <2>1, <2>2 DEF OccursIn
<1>3. CASE target # <<>>
  <2>1. n \in Nat /\ DOMAIN s = 1 .. n
    OBVIOUS
  <2> HIDE DEF c
  <2>2. v[0] = [text |-> s, next |-> 1]
    BY <1>1, VisitsDef
  <2>3. \A pos \in DOMAIN s : v[pos] = Visit(v[pos - 1], pos, target, c)
    BY <1>1, VisitsDef
  <2> HIDE DEF v, n
  <2>4. 0 \in S
    <3>1. v[0] \in Position
      BY <2>2 DEF Position
    <3>2. v[0].text = s /\ v[0].next = 1
      BY <2>2
    <3>3. \A p \in DOMAIN s : ~(p <= 0) /\ ~(p < 1)
      BY <2>1
    <3>4. Past(s, target, c, v[0], 0)
      BY <3>2, <3>3 DEF Past
    <3>5. QED
      BY <2>1, <3>1, <3>4
  <2>5. ASSUME NEW m \in 0 .. n - 1, m \in S PROVE m + 1 \in S
    <3>1. m + 1 \in DOMAIN s /\ m + 1 \in 0 .. n /\ (m + 1) - 1 = m /\ m + 1 \in Nat
      BY <2>1
    <3>2. v[m] \in Position /\ Past(s, target, c, v[m], m)
      BY <2>5
    <3>3. v[m + 1] = Visit(v[m], m + 1, target, c)
      BY <2>3, <3>1
    <3>4. Visit(v[m], m + 1, target, c) \in Position
      BY <1>1, <3>1, <3>2, VisitType
    <3>5. Past(s, target, c, Visit(v[m], m + 1, target, c), m + 1)
      BY <1>1, <1>3, <3>1, <3>2, VisitPast
    <3>6. QED
      BY <3>1, <3>3, <3>4, <3>5
  <2>6. S = 0 .. n
    <3>1. S \in SUBSET (0 .. n)
      OBVIOUS
    <3> HIDE DEF S
    <3>2. QED
      BY <2>1, <2>4, <2>5, <3>1, Climb
  <2>7. Past(s, target, c, v[n], n)
    BY <2>1, <2>6
  <2>8. ReplaceOne(s, target, new) = v[n].text
    BY <1>3 DEF ReplaceOne, v, n, c
  <2> DEFINE t == v[n].text
  <2>9. Only(c, s, t)
    BY <2>7 DEF Past, Only
  <2>10. ASSUME Unlike(c, target) PROVE ~OccursIn(target, t)
    <3>1. DOMAIN t = DOMAIN s
      BY <2>1, <2>9 DEF Only
    <3>2. \A p \in DOMAIN s : p <= n
      BY <2>1
    <3>3. QED
      BY <2>7, <2>10, <3>1, <3>2 DEF Past, OccursIn
  <2>11. QED
    BY <2>8, <2>9, <2>10 DEF c
<1>4. QED
  BY <1>2, <1>3

\* What the recursion of Replaced defines
LEMMA ReplacedDef ==
    ASSUME NEW s \in Seq(Letter), NEW targets \in Seq(Seq(Letter)), NEW new \in Seq(Letter)
    PROVE  /\ Replaced(s, targets, new)[0] = s
           /\ \A k \in DOMAIN targets :
                 Replaced(s, targets, new)[k] =
                     ReplaceOne(Replaced(s, targets, new)[k - 1], targets[k], new)
<1> DEFINE n == Len(targets)
           R == Seq(Letter)
           step == [x \in R \X (1 .. n) |-> ReplaceOne(x[1], targets[x[2]], new)]
           Is(g) == g = [k \in 0 .. n |->
                            IF k = 0 THEN s ELSE ReplaceOne(g[k - 1], targets[k], new)]
<1>1. n \in Nat /\ DOMAIN targets = 1 .. n /\ \A k \in 1 .. n : targets[k] \in R
  OBVIOUS
<1>2. s \in R
  OBVIOUS
<1>3. step \in [R \X (1 .. n) -> R]
  <2>1. ASSUME NEW x \in R \X (1 .. n) PROVE ReplaceOne(x[1], targets[x[2]], new) \in R
    <3>1. x[1] \in Seq(Letter) /\ targets[x[2]] \in Seq(Letter)
      BY <1>1
    <3>2. QED
      BY <3>1, ReplaceOneFacts DEF Only
  <2>2. QED
    BY <2>1
<1>4. \A t \in R, k \in 1 .. n : step[<<t, k>>] = ReplaceOne(t, targets[k], new)
  OBVIOUS
<1> HIDE DEF n, R, step
<1>5. PICK g \in [0 .. n -> R] : IsRun(g, n, s, step)
  BY ONLY <1>1, <1>2, <1>3, Iterate
<1>6. Is(g)
  <2>1. \A k \in 1 .. n : g[k - 1] \in R
    BY <1>1
  <2>2. \A k \in 1 .. n : g[k] = ReplaceOne(g[k - 1], targets[k], new)
    BY <1>4, <1>5, <2>1 DEF IsRun
  <2>3. \A k \in 0 .. n : k = 0 \/ (k \in 1 .. n /\ k # 0)
    <3>1. n \in Nat
      BY <1>1
    <3>2. QED
      BY ONLY <3>1
  <2>4. \A k \in 0 .. n : g[k] = IF k = 0 THEN s ELSE ReplaceOne(g[k - 1], targets[k], new)
    BY <1>5, <2>2, <2>3, Zenon DEF IsRun
  <2>5. QED
    BY <2>4
<1>7. Replaced(s, targets, new) = CHOOSE f : Is(f)
  BY DEF Replaced, n
<1> DEFINE v == Replaced(s, targets, new)
<1>8. Is(v)
  <2> HIDE DEF Is
  <2>1. QED
    BY <1>6, <1>7
<1> HIDE DEF v
<1>9. v[0] = s /\ \A k \in 1 .. n : v[k] = ReplaceOne(v[k - 1], targets[k], new)
  <2>1. \A k \in 0 .. n : v[k] = IF k = 0 THEN s ELSE ReplaceOne(v[k - 1], targets[k], new)
    BY <1>8
  <2>2. 0 \in 0 .. n /\ \A k \in 1 .. n : k \in 0 .. n /\ k # 0
    BY <1>1
  <2> HIDE DEF Is
  <2>3. QED
    BY <2>1, <2>2, Zenon
<1>10. QED
  BY <1>1, <1>9 DEF v

\* What has gone stays away as more is replaced.
LEMMA StaysAway ==
    ASSUME NEW s \in Seq(Letter), NEW c, NEW t, Only(c, s, t),
           NEW target \in Seq(Letter), Unlike(c, target), ~OccursIn(target, s)
    PROVE  ~OccursIn(target, t)
<1> SUFFICES ASSUME target # <<>>, NEW pos \in DOMAIN t, MatchesAt(t, target, pos)
             PROVE  FALSE
  BY DEF OccursIn
<1>1. /\ t \in Seq(Letter) /\ Len(t) = Len(s)
      /\ \A j \in DOMAIN s : t[j] \in {s[j], c}
  BY DEF Only
<1>2. pos \in DOMAIN s /\ pos \in Nat \ {0}
  BY <1>1
<1>3. MatchesAt(s, target, pos)
  BY <1>1, <1>2, MatchKept
<1>4. QED
  BY <1>2, <1>3 DEF OccursIn

\* All targets are replaced, one after the other.
LEMMA ReplaceCharsFacts ==
    ASSUME NEW s \in Seq(Letter), NEW targets \in Seq(Seq(Letter)), NEW new \in Seq(Letter)
    PROVE  LET c == First(new)
               t == ReplaceChars(s, targets, new)
           IN  /\ Only(c, s, t)
               /\ \A k \in DOMAIN targets : Unlike(c, targets[k]) => ~OccursIn(targets[k], t)
<1> DEFINE c == First(new)
           v == Replaced(s, targets, new)
           n == Len(targets)
           Done(k) == /\ Only(c, s, v[k])
                      /\ \A q \in 1 .. k : Unlike(c, targets[q]) => ~OccursIn(targets[q], v[k])
           S == {k \in 0 .. n : Done(k)}
<1>1. n \in Nat /\ DOMAIN targets = 1 .. n /\ \A k \in 1 .. n : targets[k] \in Seq(Letter)
  OBVIOUS
<1>2. v[0] = s /\ \A k \in 1 .. n : v[k] = ReplaceOne(v[k - 1], targets[k], new)
  BY <1>1, ReplacedDef
<1> HIDE DEF c, v, n
<1>3. 0 \in S
  <2>1. Only(c, s, s)
    BY DEF Only
  <2>2. QED
    BY <1>1, <1>2, <2>1
<1>4. ASSUME NEW k \in 0 .. n - 1, k \in S PROVE k + 1 \in S
  <2>1. k + 1 \in 1 .. n /\ k + 1 \in 0 .. n /\ (k + 1) - 1 = k
    BY <1>1
  <2>2. Done(k)
    BY <1>4
  <2>3. v[k] \in Seq(Letter) /\ targets[k + 1] \in Seq(Letter)
    BY <1>1, <2>1, <2>2 DEF Only
  <2>4. v[k + 1] = ReplaceOne(v[k], targets[k + 1], new)
    BY <1>2, <2>1
  <2>5. /\ Only(c, v[k], v[k + 1])
        /\ Unlike(c, targets[k + 1]) => ~OccursIn(targets[k + 1], v[k + 1])
    BY <2>3, <2>4, ReplaceOneFacts DEF c
  <2>6. Only(c, s, v[k + 1])
    BY <2>2, <2>5 DEF Only
  <2>7. ASSUME NEW q \in 1 .. k + 1, Unlike(c, targets[q]) PROVE ~OccursIn(targets[q], v[k + 1])
    <3>1. CASE q = k + 1
      BY <2>5, <2>7, <3>1
    <3>2. CASE q \in 1 .. k
      <4>1. ~OccursIn(targets[q], v[k]) /\ targets[q] \in Seq(Letter)
        BY <1>1, <2>2, <2>7, <3>2
      <4>2. QED
        BY <2>3, <2>5, <2>7, <4>1, StaysAway
    <3>3. QED
      BY <3>1, <3>2
  <2>8. QED
    BY <2>1, <2>6, <2>7
<1>5. S = 0 .. n
  <2>1. S \in SUBSET (0 .. n)
    OBVIOUS
  <2> HIDE DEF S
  <2>2. QED
    BY <1>1, <1>3, <1>4, <2>1, Climb
<1>6. Done(n)
  <2>1. n \in S
    <3>1. n \in 0 .. n
      BY <1>1
    <3> HIDE DEF S
    <3>2. QED
      BY <1>5, <3>1
  <2> HIDE DEF Done
  <2>2. QED
    BY <2>1
<1>7. QED
  BY <1>1, <1>6 DEF c, v, n, ReplaceChars

\* What ReplaceChars has answered is what it makes of the text it was passed.
RightlyReplaced ==
    textCall = "ReplaceChars" =>
        /\ text \in Seq(Letter)
        /\ args[1] \in Seq(Seq(Letter)) /\ args[2] \in Seq(Letter)
        /\ result = ReplaceChars(text, args[1], args[2])

\* NoTargetLeft holds in every reachable state.
THEOREM NoTargetLeftCorrect == TextSpec => []NoTargetLeft
<1>1. TextInit => RightlyReplaced
  BY DEF TextInit, RightlyReplaced
<1>2. RightlyReplaced /\ [TextNext]_textVars => RightlyReplaced'
  <2> SUFFICES ASSUME RightlyReplaced, [TextNext]_textVars PROVE RightlyReplaced'
    OBVIOUS
  <2>1. CASE CallFormatDecimal
    BY <2>1 DEF CallFormatDecimal, TextAnswers, RightlyReplaced
  <2>2. CASE CallReplaceChars
    <3>1. PICK s \in Original, targets \in Target, new \in Replacement :
             TextAnswers("ReplaceChars", s, <<targets, new>>, ReplaceChars(s, targets, new))
      BY <2>2 DEF CallReplaceChars
    <3>2. /\ text' = s /\ args' = <<targets, new>>
          /\ result' = ReplaceChars(s, targets, new)
      BY <3>1 DEF TextAnswers
    <3>3. s \in Seq(Letter) /\ targets \in Seq(Seq(Letter)) /\ new \in Seq(Letter)
      BY ReplaceAssumption, LetterSeq, Zenon
    <3>4. QED
      BY <3>2, <3>3 DEF RightlyReplaced
  <2>3. CASE CallIsNum
    BY <2>3 DEF CallIsNum, TextAnswers, RightlyReplaced
  <2>4. CASE TextGoesOn
    BY <2>4 DEF TextGoesOn, RightlyReplaced
  <2>5. CASE UNCHANGED textVars
    BY <2>5 DEF textVars, RightlyReplaced
  <2>6. QED
    BY <2>1, <2>2, <2>3, <2>4, <2>5 DEF TextNext
<1>3. RightlyReplaced => NoTargetLeft
  <2> SUFFICES ASSUME RightlyReplaced, textCall = "ReplaceChars" PROVE NoTargetLeft
    BY DEF NoTargetLeft
  <2> DEFINE c == First(args[2])
  <2>1. /\ Only(c, text, result)
        /\ \A k \in DOMAIN args[1] : Unlike(c, args[1][k]) => ~OccursIn(args[1][k], result)
    BY ReplaceCharsFacts DEF RightlyReplaced
  <2>2. Len(result) = Len(text) /\ \A i \in DOMAIN text : result[i] \in {text[i], c}
    BY <2>1 DEF Only
  <2>3. QED
    BY <2>1, <2>2 DEF NoTargetLeft, Unlike
<1>4. QED
  BY <1>1, <1>2, <1>3, PTL DEF TextSpec

-------------------------------------------------------------------------------
(* Text: FormatDecimal *)

\* The characters of a formatted amount after the sign
Mark == Digit \cup {"."}

\* What the recursion of DigitsUpTo defines
LEMMA DigitsDef ==
    ASSUME NEW X, NEW s \in Seq(X)
    PROVE  /\ DigitsUpTo(s)[0] = <<>>
           /\ \A i \in 1 .. Len(s) :
                 DigitsUpTo(s)[i] = IF IsDigit(s[i]) THEN Append(DigitsUpTo(s)[i - 1], s[i])
                                    ELSE DigitsUpTo(s)[i - 1]
           /\ \A i \in 0 .. Len(s) : DigitsUpTo(s)[i] \in Seq(Digit)
<1> DEFINE n == Len(s)
           R == Seq(Digit)
           Next(d, i) == IF IsDigit(s[i]) THEN Append(d, s[i]) ELSE d
           step == [x \in R \X (1 .. n) |-> Next(x[1], x[2])]
           Is(g) == g = [i \in 0 .. n |-> IF i = 0 THEN <<>> ELSE Next(g[i - 1], i)]
<1>1. n \in Nat
  OBVIOUS
<1>2. <<>> \in R
  OBVIOUS
<1>3. step \in [R \X (1 .. n) -> R]
  <2>1. ASSUME NEW x \in R \X (1 .. n) PROVE Next(x[1], x[2]) \in R
    <3>1. x[1] \in Seq(Digit)
      OBVIOUS
    <3>2. \A c : IsDigit(c) => Append(x[1], c) \in Seq(Digit)
      BY <3>1 DEF IsDigit
    <3>3. QED
      BY <3>1, <3>2
  <2> HIDE DEF Next
  <2>2. QED
    BY <2>1
<1> HIDE DEF Next
<1>4. \A d \in R, i \in 1 .. n : step[<<d, i>>] = Next(d, i)
  OBVIOUS
<1> HIDE DEF n, R, step
<1>5. PICK g \in [0 .. n -> R] : IsRun(g, n, <<>>, step)
  BY ONLY <1>1, <1>2, <1>3, Iterate
<1>6. Is(g)
  <2>1. \A i \in 1 .. n : g[i - 1] \in R
    BY <1>1
  <2>2. \A i \in 1 .. n : g[i] = Next(g[i - 1], i)
    BY <1>4, <1>5, <2>1 DEF IsRun
  <2>3. \A i \in 0 .. n : i = 0 \/ (i \in 1 .. n /\ i # 0)
    BY ONLY <1>1
  <2>4. \A i \in 0 .. n : g[i] = IF i = 0 THEN <<>> ELSE Next(g[i - 1], i)
    BY <1>5, <2>2, <2>3, Zenon DEF IsRun
  <2>5. QED
    BY <2>4
<1>7. DigitsUpTo(s) = CHOOSE f : Is(f)
  BY DEF DigitsUpTo, n, Next
<1> DEFINE v == DigitsUpTo(s)
<1>8. Is(v)
  <2> HIDE DEF Is
  <2>1. QED
    BY <1>6, <1>7
<1> HIDE DEF v
<1>9. v[0] = <<>> /\ \A i \in 1 .. n : v[i] = Next(v[i - 1], i)
  <2>1. \A i \in 0 .. n : v[i] = IF i = 0 THEN <<>> ELSE Next(v[i - 1], i)
    BY <1>8
  <2>2. 0 \in 0 .. n /\ \A i \in 1 .. n : i \in 0 .. n /\ i # 0
    BY ONLY <1>1
  <2> HIDE DEF Is
  <2>3. QED
    BY <2>1, <2>2, Zenon
<1> DEFINE S == {i \in 0 .. n : v[i] \in R}
<1>10. S = 0 .. n
  <2>1. 0 \in S
    BY <1>1, <1>2, <1>9
  <2>2. ASSUME NEW m \in 0 .. n - 1, m \in S PROVE m + 1 \in S
    <3>1. m + 1 \in 1 .. n /\ (m + 1) - 1 = m /\ m + 1 \in 0 .. n
      BY ONLY <1>1, m \in 0 .. n - 1
    <3>2. v[m + 1] = Next(v[m], m + 1)
      BY <1>9, <3>1
    <3>3. <<v[m], m + 1>> \in R \X (1 .. n) /\ v[m] \in R
      BY <2>2, <3>1
    <3>4. Next(v[m], m + 1) \in R
      BY <1>3, <1>4, <3>1, <3>3
    <3>5. QED
      BY <3>1, <3>2, <3>4
  <2>3. S \in SUBSET (0 .. n)
    OBVIOUS
  <2> HIDE DEF S
  <2>4. QED
    BY <1>1, <2>1, <2>2, <2>3, Climb
<1>11. QED
  BY <1>9, <1>10 DEF v, n, R, Next

\* Appending to a concatenation appends to its right part.
SameAppended(p, q, c) == Append(p \o q, c) = p \o Append(q, c)

LEMMA AppendConcat ==
    ASSUME NEW X, NEW p \in Seq(X), NEW q \in Seq(X), NEW c \in X
    PROVE  SameAppended(p, q, c)
<1>1. p \o q \in Seq(X) /\ Append(q, c) \in Seq(X)
  OBVIOUS
<1>2. Append(p \o q, c) \in Seq(X) /\ p \o Append(q, c) \in Seq(X)
  BY <1>1
<1>3. Len(Append(p \o q, c)) = Len(p \o Append(q, c))
  OBVIOUS
<1>4. \A i \in 1 .. Len(Append(p \o q, c)) : Append(p \o q, c)[i] = (p \o Append(q, c))[i]
  OBVIOUS
<1>5. QED
  BY <1>2, <1>3, <1>4, SeqEqual DEF SameAppended

\* Digits are found from the left.
LEMMA DigitsConcat ==
    ASSUME NEW X, NEW s \in Seq(X), NEW t \in Seq(X)
    PROVE  Digits(s \o t) = Digits(s) \o Digits(t)
<1> DEFINE a == Len(s)
           b == Len(t)
           u == s \o t
           ds == DigitsUpTo(s)
           dt == DigitsUpTo(t)
           du == DigitsUpTo(u)
<1>1. /\ a \in Nat /\ b \in Nat /\ u \in Seq(X) /\ Len(u) = a + b
      /\ \A i \in 1 .. a : u[i] = s[i]
      /\ \A i \in 1 .. b : u[a + i] = t[i]
  OBVIOUS
<1> HIDE DEF u
<1>2. /\ ds[0] = <<>> /\ dt[0] = <<>> /\ du[0] = <<>>
      /\ \A i \in 1 .. a : ds[i] = IF IsDigit(s[i]) THEN Append(ds[i - 1], s[i]) ELSE ds[i - 1]
      /\ \A i \in 1 .. b : dt[i] = IF IsDigit(t[i]) THEN Append(dt[i - 1], t[i]) ELSE dt[i - 1]
      /\ \A i \in 1 .. a + b : du[i] = IF IsDigit(u[i]) THEN Append(du[i - 1], u[i]) ELSE du[i - 1]
  BY <1>1, DigitsDef
<1>3. /\ \A i \in 0 .. a : ds[i] \in Seq(Digit)
      /\ \A i \in 0 .. b : dt[i] \in Seq(Digit)
  BY DigitsDef
<1> HIDE DEF a, b, ds, dt, du
<1> DEFINE S == {i \in 0 .. a : du[i] = ds[i]}
<1>4. S = 0 .. a
  <2>1. 0 \in S
    BY <1>1, <1>2
  <2>2. ASSUME NEW m \in 0 .. a - 1, m \in S PROVE m + 1 \in S
    <3>1. m + 1 \in 1 .. a /\ (m + 1) - 1 = m /\ m + 1 \in 0 .. a /\ m + 1 \in 1 .. a + b
      BY <1>1
    <3>2. du[m] = ds[m] /\ u[m + 1] = s[m + 1]
      BY <1>1, <2>2, <3>1
    <3> DEFINE Next(d, c) == IF IsDigit(c) THEN Append(d, c) ELSE d
    <3>3. du[m + 1] = Next(du[m], u[m + 1]) /\ ds[m + 1] = Next(ds[m], s[m + 1])
      BY <1>2, <3>1
    <3> HIDE DEF Next
    <3>4. du[m + 1] = ds[m + 1]
      BY <3>2, <3>3, Zenon
    <3>5. QED
      BY <3>1, <3>4
  <2>3. S \in SUBSET (0 .. a)
    OBVIOUS
  <2> HIDE DEF S
  <2>4. QED
    BY <1>1, <2>1, <2>2, <2>3, Climb
<1>5. du[a] = ds[a] /\ ds[a] \in Seq(Digit)
  <2>1. a \in 0 .. a
    BY <1>1
  <2>2. a \in S
    BY <1>4, <2>1, Zenon
  <2>3. QED
    BY <1>3, <2>1, <2>2, Zenon
<1> DEFINE T == {j \in 0 .. b : du[a + j] = ds[a] \o dt[j]}
<1>6. T = 0 .. b
  <2>1. 0 \in T
    <3>1. ds[a] \o <<>> = ds[a]
      BY <1>5, ConcatEmptySeq
    <3>2. a + 0 = a /\ 0 \in 0 .. b
      BY <1>1
    <3>3. du[a + 0] = ds[a] \o dt[0]
      BY <1>2, <1>5, <3>1, <3>2
    <3>4. QED
      BY <3>2, <3>3
  <2>2. ASSUME NEW m \in 0 .. b - 1, m \in T PROVE m + 1 \in T
    <3>1. /\ m + 1 \in 1 .. b /\ (m + 1) - 1 = m /\ m + 1 \in 0 .. b /\ m \in 0 .. b
          /\ a + (m + 1) \in 1 .. a + b /\ (a + (m + 1)) - 1 = a + m
      BY <1>1
    <3>2. du[a + m] = ds[a] \o dt[m] /\ u[a + (m + 1)] = t[m + 1]
      BY <1>1, <2>2, <3>1
    <3>3. /\ du[a + (m + 1)] = IF IsDigit(u[a + (m + 1)]) THEN Append(du[a + m], u[a + (m + 1)])
                               ELSE du[a + m]
          /\ dt[m + 1] = IF IsDigit(t[m + 1]) THEN Append(dt[m], t[m + 1]) ELSE dt[m]
      BY <1>2, <3>1
    <3> DEFINE c == t[m + 1]
    <3>4. dt[m] \in Seq(Digit)
      BY <1>3, <3>1
    <3>5. IsDigit(c) => Append(ds[a] \o dt[m], c) = ds[a] \o Append(dt[m], c)
      <4> SUFFICES ASSUME IsDigit(c)
                   PROVE  Append(ds[a] \o dt[m], c) = ds[a] \o Append(dt[m], c)
        OBVIOUS
      <4>1. c \in Digit
        BY DEF IsDigit
      <4> HIDE DEF c
      <4>2. QED
        <5>1. SameAppended(ds[a], dt[m], c)
          BY <1>5, <3>4, <4>1, AppendConcat
        <5>2. QED
          BY <5>1, Zenon DEF SameAppended
    <3>6. du[a + (m + 1)] = ds[a] \o dt[m + 1]
      BY <3>2, <3>3, <3>5, Zenon
    <3>7. QED
      BY <3>1, <3>6
  <2>3. T \in SUBSET (0 .. b)
    OBVIOUS
  <2> HIDE DEF T
  <2>4. QED
    BY <1>1, <2>1, <2>2, <2>3, Climb
<1>7. du[a + b] = ds[a] \o dt[b]
  <2>1. b \in 0 .. b
    BY <1>1
  <2>2. b \in T
    BY <1>6, <2>1
  <2>3. QED
    BY <2>2
<1>8. QED
  BY <1>1, <1>7 DEF Digits, a, b, ds, dt, du, u

\* A text of digits is left as it is.
LEMMA DigitsAll ==
    ASSUME NEW s \in Seq(Digit)
    PROVE  Digits(s) = s
<1> DEFINE n == Len(s)
           d == DigitsUpTo(s)
           S == {i \in 0 .. n : d[i] = SubSeq(s, 1, i)}
<1>1. n \in Nat /\ \A i \in 1 .. n : IsDigit(s[i])
  BY DEF IsDigit
<1>2. d[0] = <<>> /\ \A i \in 1 .. n : d[i] = Append(d[i - 1], s[i])
  BY <1>1, DigitsDef
<1>3. \A i \in 1 .. n : Append(SubSeq(s, 1, i - 1), s[i]) = SubSeq(s, 1, i)
  OBVIOUS
<1>4. SubSeq(s, 1, n) = s /\ SubSeq(s, 1, 0) = <<>>
  OBVIOUS
<1> HIDE DEF n, d
<1>5. S = 0 .. n
  <2>1. 0 \in S
    <3>1. d[0] = SubSeq(s, 1, 0)
      BY <1>2, <1>4, Zenon
    <3>2. 0 \in 0 .. n
      BY <1>1
    <3>3. QED
      BY <3>1, <3>2, Zenon
  <2>2. ASSUME NEW m \in 0 .. n - 1, m \in S PROVE m + 1 \in S
    <3>1. m + 1 \in 1 .. n /\ (m + 1) - 1 = m /\ m + 1 \in 0 .. n
      BY <1>1
    <3>2. d[m] = SubSeq(s, 1, m)
      BY <2>2, Zenon
    <3>3. d[m + 1] = Append(d[m], s[m + 1])
      BY <1>2, <3>1
    <3>4. Append(SubSeq(s, 1, m), s[m + 1]) = SubSeq(s, 1, m + 1)
      BY <1>3, <3>1
    <3>5. d[m + 1] = SubSeq(s, 1, m + 1)
      BY <3>2, <3>3, <3>4, Zenon
    <3>6. QED
      BY <3>1, <3>5, Zenon
  <2>3. S \in SUBSET (0 .. n)
    OBVIOUS
  <2> HIDE DEF S
  <2>4. QED
    BY <1>1, <2>1, <2>2, <2>3, Climb
<1>6. d[n] = SubSeq(s, 1, n)
  <2>1. n \in 0 .. n
    BY <1>1
  <2>2. n \in S
    BY <1>5, <2>1, Zenon
  <2>3. QED
    BY <2>2, Zenon
<1>7. QED
  BY <1>4, <1>6, Zenon DEF Digits, n, d

\* Of one character that is no digit nothing is left.
LEMMA DigitsOfOne ==
    ASSUME NEW X, NEW c \in X, ~IsDigit(c)
    PROVE  Digits(<<c>>) = <<>>
<1> DEFINE s == <<c>>
<1>1. s \in Seq(X) /\ Len(s) = 1 /\ s[1] = c
  OBVIOUS
<1>2. 1 \in 1 .. 1 /\ 1 - 1 = 0
  OBVIOUS
<1> HIDE DEF s
<1>3. DigitsUpTo(s)[1] = DigitsUpTo(s)[0] /\ DigitsUpTo(s)[0] = <<>>
  BY <1>1, <1>2, DigitsDef
<1>4. QED
  BY <1>1, <1>3 DEF Digits, s

\* What Digits leaves is digits.
LEMMA DigitsType ==
    ASSUME NEW X, NEW s \in Seq(X)
    PROVE  Digits(s) \in Seq(Digit)
<1>1. Len(s) \in Nat /\ Len(s) \in 0 .. Len(s)
  OBVIOUS
<1>2. QED
  BY <1>1, DigitsDef DEF Digits

\* The first group of a text of digits is as long as it takes for the others to
\* be of three.
LEMMA HeadFacts ==
    ASSUME NEW s \in Seq(Digit), s # <<>>
    PROVE  /\ Head3(s) \in 1 .. 3
           /\ GroupsAfter(s) \in Nat
           /\ Len(s) = Head3(s) + 3 * GroupsAfter(s)
<1> DEFINE n == Len(s)
<1>1. n \in Nat /\ n > 0
  OBVIOUS
<1> DEFINE h == IF n % 3 > 0 THEN n % 3 ELSE 3
<1>2. Head3(s) = h
  BY DEF Head3
<1>3. GroupsAfter(s) = (n - h) \div 3
  BY <1>2 DEF GroupsAfter
<1> HIDE DEF n
<1>4. /\ n % 3 \in 0 .. 2 /\ n = 3 * (n \div 3) + (n % 3) /\ n \div 3 \in Nat
  <2>1. n % 3 \in 0 .. 2
    BY ONLY <1>1
  <2>2. n = 3 * (n \div 3) + (n % 3)
    BY ONLY <1>1
  <2>3. n \div 3 \in Nat
    BY ONLY <1>1
  <2>4. QED
    BY <2>1, <2>2, <2>3
<1>5. h \in 1 .. 3 /\ h <= n
  BY <1>1, <1>4
<1>6. \E q \in Nat : n = h + 3 * q
  <2>1. CASE n % 3 > 0
    BY <1>4, <2>1
  <2>2. CASE n % 3 = 0
    <3>1. n \div 3 - 1 \in Nat /\ n = 3 + 3 * (n \div 3 - 1)
      BY <1>1, <1>4, <2>2
    <3>2. QED
      BY <2>2, <3>1
  <2>3. QED
    BY <1>4, <2>1, <2>2
<1> HIDE DEF h
<1>7. PICK q \in Nat : n = h + 3 * q
  BY <1>6
<1>8. (n - h) \div 3 = q
  BY <1>5, <1>7
<1>9. QED
  BY <1>2, <1>3, <1>5, <1>7, <1>8 DEF n

\* The k-th group after the first, with its dot
Group(s, k) == <<".">> \o SubSeq(s, Head3(s) + 3 * k - 2, Head3(s) + 3 * k)

\* Concatenation is associative.
SameConcat(p, q, r) == (p \o q) \o r = p \o (q \o r)

LEMMA ConcatThree ==
    ASSUME NEW X, NEW p \in Seq(X), NEW q \in Seq(X), NEW r \in Seq(X)
    PROVE  SameConcat(p, q, r)
<1>1. /\ p \o q \in Seq(X) /\ q \o r \in Seq(X)
      /\ Len(p \o q) = Len(p) + Len(q) /\ Len(q \o r) = Len(q) + Len(r)
  OBVIOUS
<1>2. (p \o q) \o r \in Seq(X) /\ p \o (q \o r) \in Seq(X)
  BY <1>1
<1>3. Len((p \o q) \o r) = Len(p \o (q \o r))
  BY <1>1
<1>4. \A i \in 1 .. Len((p \o q) \o r) : ((p \o q) \o r)[i] = (p \o (q \o r))[i]
  BY <1>1
<1>5. QED
  BY <1>2, <1>3, <1>4, SeqEqual DEF SameConcat

LEMMA GroupFacts ==
    ASSUME NEW s \in Seq(Digit), s # <<>>, NEW k \in 1 .. GroupsAfter(s)
    PROVE  LET v == SubSeq(s, Head3(s) + 3 * k - 2, Head3(s) + 3 * k)
           IN  /\ v \in Seq(Digit) /\ Len(v) = 3 /\ Group(s, k) = <<".">> \o v
               /\ Head3(s) + 3 * k \in 0 .. Len(s)
<1> DEFINE h == Head3(s)
           n == Len(s)
           m == GroupsAfter(s)
           lo == h + 3 * k - 2
           hi == h + 3 * k
<1>1. h \in 1 .. 3 /\ m \in Nat /\ n = h + 3 * m /\ k \in 1 .. m
  BY HeadFacts
<1>2. \A i \in 1 .. n : s[i] \in Digit
  OBVIOUS
<1>3. Group(s, k) = <<".">> \o SubSeq(s, lo, hi)
  BY DEF Group
<1> HIDE DEF h, n, m
<1>4. lo \in 1 .. n /\ hi \in 0 .. n /\ hi - lo + 1 = 3 /\ lo \in Int /\ hi \in Int /\ lo <= hi
  BY <1>1
<1> HIDE DEF lo, hi
<1>5. \A i \in lo .. hi : s[i] \in Digit
  <2>1. \A i \in lo .. hi : i \in 1 .. n
    BY <1>1, <1>4
  <2>2. QED
    BY <1>2, <2>1
<1>6. SubSeq(s, lo, hi) \in Seq(Digit) /\ Len(SubSeq(s, lo, hi)) = 3
  <2>1. /\ SubSeq(s, lo, hi) \in Seq(Digit)
        /\ Len(SubSeq(s, lo, hi)) = IF lo <= hi THEN hi - lo + 1 ELSE 0
        /\ \A i \in 1 .. hi - lo + 1 : SubSeq(s, lo, hi)[i] = s[lo + i - 1]
    BY <1>4, <1>5, SubSeqProperties
  <2>2. QED
    BY ONLY <1>4, <2>1
<1>7. QED
  BY <1>3, <1>4, <1>6, Zenon DEF lo, hi, h, n

\* What the recursion of GroupsUpTo defines
LEMMA GroupsDef ==
    ASSUME NEW s \in Seq(Digit), s # <<>>
    PROVE  /\ GroupsUpTo(s)[0] = SubSeq(s, 1, Head3(s))
           /\ \A k \in 1 .. GroupsAfter(s) : GroupsUpTo(s)[k] = GroupsUpTo(s)[k - 1] \o Group(s, k)
<1> DEFINE n == GroupsAfter(s)
           R == Seq(Mark)
           base == SubSeq(s, 1, Head3(s))
           v(k) == SubSeq(s, Head3(s) + 3 * k - 2, Head3(s) + 3 * k)
           Next(g, k) == g \o <<".">> \o v(k)
           step == [x \in R \X (1 .. n) |-> Next(x[1], x[2])]
           Is(g) == g = [k \in 0 .. n |-> IF k = 0 THEN base ELSE Next(g[k - 1], k)]
<1>1. n \in Nat /\ Head3(s) \in 1 .. 3 /\ Len(s) = Head3(s) + 3 * n
  BY HeadFacts
<1>2. base \in R
  <2> DEFINE h == Head3(s)
  <2>1. h \in 1 .. Len(s) /\ 1 \in Int /\ h \in Int
    BY <1>1
  <2>2. \A i \in 1 .. Len(s) : s[i] \in Mark
    BY DEF Mark
  <2>3. \A i \in 1 .. h : i \in 1 .. Len(s)
    BY <2>1
  <2> HIDE DEF h
  <2>4. \A i \in 1 .. h : s[i] \in Mark
    BY <2>2, <2>3
  <2>5. SubSeq(s, 1, h) \in Seq(Mark)
    BY <2>1, <2>4, SubSeqProperties, Zenon
  <2>6. QED
    BY <2>5, Zenon DEF h
<1>3. \A k \in 1 .. n : v(k) \in R
  <2>1. Seq(Digit) \subseteq Seq(Mark)
    BY SeqMonotonic, Zenon DEF Mark
  <2>2. QED
    BY <2>1, GroupFacts, Zenon
<1>4. <<".">> \in R
  BY DEF Mark
<1> HIDE DEF v, n, base
<1>5. \A g \in R, k \in 1 .. n : Next(g, k) \in R /\ Next(g, k) = g \o Group(s, k)
  <2> SUFFICES ASSUME NEW g \in R, NEW k \in 1 .. n
               PROVE  Next(g, k) \in R /\ Next(g, k) = g \o Group(s, k)
    OBVIOUS
  <2>1. v(k) \in Seq(Mark) /\ g \in Seq(Mark) /\ <<".">> \in Seq(Mark)
    BY <1>3, <1>4
  <2>2. g \o <<".">> \in Seq(Mark)
    BY <2>1, ConcatProperties
  <2>3. (g \o <<".">>) \o v(k) \in Seq(Mark)
    BY <2>1, <2>2, ConcatProperties
  <2>4. Group(s, k) = <<".">> \o v(k)
    BY DEF Group, v
  <2>5. (g \o <<".">>) \o v(k) = g \o (<<".">> \o v(k))
    <3>1. SameConcat(g, <<".">>, v(k))
      BY <2>1, ConcatThree
    <3>2. QED
      BY <3>1, Zenon DEF SameConcat
  <2>6. QED
    BY <2>3, <2>4, <2>5, Zenon
<1>6. step \in [R \X (1 .. n) -> R]
  <2>1. ASSUME NEW x \in R \X (1 .. n) PROVE Next(x[1], x[2]) \in R
    <3>1. x[1] \in R /\ x[2] \in 1 .. n
      OBVIOUS
    <3> HIDE DEF Next, R
    <3>2. QED
      BY <1>5, <3>1
  <2> HIDE DEF Next
  <2>2. QED
    BY <2>1
<1> HIDE DEF Next
<1>7. \A g \in R, k \in 1 .. n : step[<<g, k>>] = Next(g, k)
  OBVIOUS
<1> HIDE DEF R, step
<1>8. PICK g \in [0 .. n -> R] : IsRun(g, n, base, step)
  BY ONLY <1>1, <1>2, <1>6, Iterate
<1>9. Is(g) /\ \A k \in 1 .. n : g[k - 1] \in R
  <2>1. \A k \in 1 .. n : g[k - 1] \in R
    <3>1. n \in Nat
      BY <1>1
    <3>2. \A k \in 1 .. n : k - 1 \in 0 .. n
      BY ONLY <3>1
    <3>3. QED
      BY <3>2
  <2>2. \A k \in 1 .. n : g[k] = Next(g[k - 1], k)
    BY <1>7, <1>8, <2>1 DEF IsRun
  <2>3. \A k \in 0 .. n : k = 0 \/ (k \in 1 .. n /\ k # 0)
    <3>1. n \in Nat
      BY <1>1
    <3>2. QED
      BY ONLY <3>1
  <2>4. \A k \in 0 .. n : g[k] = IF k = 0 THEN base ELSE Next(g[k - 1], k)
    BY <1>8, <2>2, <2>3, Zenon DEF IsRun
  <2>5. QED
    BY <2>1, <2>4
<1>10. GroupsUpTo(s) = CHOOSE f : Is(f)
  BY DEF GroupsUpTo, n, Next, base, v
<1> DEFINE w == GroupsUpTo(s)
<1>11. Is(w)
  <2> HIDE DEF Is
  <2>1. QED
    BY <1>9, <1>10
<1> HIDE DEF w
<1>12. w[0] = base /\ \A k \in 1 .. n : w[k] = Next(w[k - 1], k)
  <2>1. \A k \in 0 .. n : w[k] = IF k = 0 THEN base ELSE Next(w[k - 1], k)
    BY <1>11
  <2>2. 0 \in 0 .. n /\ \A k \in 1 .. n : k \in 0 .. n /\ k # 0
    <3>1. n \in Nat
      BY <1>1
    <3>2. QED
      BY ONLY <3>1
  <2> HIDE DEF Is
  <2>3. QED
    BY <2>1, <2>2, Zenon
<1> DEFINE S == {k \in 0 .. n : w[k] \in R}
<1>13. S = 0 .. n
  <2>1. 0 \in S
    BY <1>1, <1>2, <1>12
  <2>2. ASSUME NEW m \in 0 .. n - 1, m \in S PROVE m + 1 \in S
    <3>1. m + 1 \in 1 .. n /\ (m + 1) - 1 = m /\ m + 1 \in 0 .. n
      BY <1>1
    <3>2. w[m + 1] = Next(w[m], m + 1)
      BY <1>12, <3>1
    <3>3. Next(w[m], m + 1) \in R
      BY <1>5, <2>2, <3>1
    <3>4. QED
      BY <3>1, <3>2, <3>3
  <2>3. S \in SUBSET (0 .. n)
    OBVIOUS
  <2> HIDE DEF S
  <2>4. QED
    BY <1>1, <2>1, <2>2, <2>3, Climb
<1>14. \A k \in 1 .. n : w[k - 1] \in R
  <2>1. n \in Nat
    BY <1>1
  <2>2. \A k \in 1 .. n : k - 1 \in 0 .. n
    BY ONLY <2>1
  <2>3. QED
    BY <1>13, <2>2
<1>15. \A k \in 1 .. n : w[k] = w[k - 1] \o Group(s, k)
  BY <1>5, <1>12, <1>14, Zenon
<1>16. QED
  BY <1>12, <1>15, Zenon DEF w, n, base

\* Where the dots of a text are whose first group has h digits
DotsFrom(g, h) == \A i \in 1 .. Len(g) : g[i] = "." <=> i > h /\ (i - h) % 4 = 1

\* One more group: what it adds to a text that has those before it
LEMMA GroupAdded ==
    ASSUME NEW s \in Seq(Digit), s # <<>>, NEW k \in 1 .. GroupsAfter(s),
           NEW g \in Seq(Mark), Len(g) = Head3(s) + 4 * (k - 1), DotsFrom(g, Head3(s)),
           Digits(g) = SubSeq(s, 1, Head3(s) + 3 * (k - 1))
    PROVE  LET f == g \o Group(s, k)
           IN  /\ f \in Seq(Mark) /\ Len(f) = Head3(s) + 4 * k /\ DotsFrom(f, Head3(s))
               /\ Digits(f) = SubSeq(s, 1, Head3(s) + 3 * k)
<1> DEFINE h == Head3(s)
           lo == h + 3 * k - 2
           hi == h + 3 * k
           v == SubSeq(s, lo, hi)
           dot == <<".">>
           e == Group(s, k)
           f == g \o e
<1>1. h \in 1 .. 3 /\ GroupsAfter(s) \in Nat /\ Len(s) = h + 3 * GroupsAfter(s)
  BY HeadFacts
<1>2. v \in Seq(Digit) /\ Len(v) = 3 /\ e = dot \o v /\ hi \in 0 .. Len(s)
  BY GroupFacts, Zenon
<1>3. dot \in Seq(Mark) /\ Len(dot) = 1 /\ dot[1] = "."
  BY DEF Mark
<1>4. v \in Seq(Mark) /\ \A i \in 1 .. 3 : v[i] \in Digit /\ v[i] # "."
  <2>1. v \in Seq(Mark)
    BY <1>2, SeqMonotonic, Zenon DEF Mark
  <2>2. \A x \in Digit : x # "."
    BY DEF Digit
  <2> HIDE DEF v
  <2>3. \A i \in 1 .. 3 : v[i] \in Digit
    BY <1>2
  <2>4. QED
    BY <2>1, <2>2, <2>3
<1> HIDE DEF v, dot
<1>5. /\ e \in Seq(Mark) /\ Len(e) = 4 /\ e[1] = "."
      /\ \A i \in 2 .. 4 : e[i] # "."
  <2>1. /\ dot \o v \in Seq(Mark) /\ Len(dot \o v) = 4 /\ (dot \o v)[1] = "."
        /\ \A i \in 2 .. 4 : (dot \o v)[i] = v[i - 1]
    <3>1. /\ dot \o v \in Seq(Mark) /\ Len(dot \o v) = Len(dot) + Len(v)
          /\ \A i \in 1 .. Len(dot) + Len(v) :
                (dot \o v)[i] = IF i <= Len(dot) THEN dot[i] ELSE v[i - Len(dot)]
      BY <1>3, <1>4, ConcatProperties, Zenon
    <3> DEFINE u == dot \o v
    <3> HIDE DEF u
    <3>2. u \in Seq(Mark) /\ Len(u) = 4
      BY <1>2, <1>3, <3>1 DEF u
    <3>3. \A i \in 1 .. 4 : u[i] = IF i <= 1 THEN dot[i] ELSE v[i - 1]
      <4>1. Len(dot) = 1 /\ Len(dot) + Len(v) = 4
        BY <1>2, <1>3
      <4>2. QED
        BY <3>1, <4>1, Zenon DEF u
    <3>4. u[1] = "." /\ \A i \in 2 .. 4 : u[i] = v[i - 1]
      BY ONLY <1>3, <3>3
    <3>5. QED
      BY <3>2, <3>4 DEF u
  <2>2. \A i \in 2 .. 4 : i - 1 \in 1 .. 3
    OBVIOUS
  <2>3. \A i \in 2 .. 4 : (dot \o v)[i] # "."
    BY <1>4, <2>1, <2>2
  <2>4. QED
    BY <1>2, <2>1, <2>3, Zenon
<1>6. Digits(e) = v
  <2>1. Digits(dot) = <<>>
    <3>1. "." \in Mark /\ ~IsDigit(".")
      BY DEF Mark, IsDigit, Digit
    <3>2. Digits(<<".">>) = <<>>
      BY <3>1, DigitsOfOne, Zenon
    <3>3. QED
      BY <3>2, Zenon DEF dot
  <2>2. Digits(v) = v
    BY <1>2, DigitsAll
  <2>3. Digits(dot \o v) = Digits(dot) \o Digits(v)
    BY <1>3, <1>4, DigitsConcat, Zenon
  <2>4. <<>> \o v = v
    BY <1>2, ConcatEmptySeq, Zenon
  <2>5. QED
    BY <1>2, <2>1, <2>2, <2>3, <2>4, Zenon
<1> HIDE DEF e
<1>7. /\ f \in Seq(Mark) /\ Len(f) = Len(g) + 4
      /\ \A i \in 1 .. Len(g) : f[i] = g[i]
      /\ \A j \in 1 .. 4 : f[Len(g) + j] = e[j]
  <2>1. /\ g \o e \in Seq(Mark) /\ Len(g \o e) = Len(g) + Len(e)
        /\ \A i \in 1 .. Len(g) + Len(e) :
              (g \o e)[i] = IF i <= Len(g) THEN g[i] ELSE e[i - Len(g)]
    BY <1>5, ConcatProperties, Zenon
  <2> DEFINE n == Len(g)
  <2>2. n \in Nat /\ Len(e) = 4
    BY <1>5
  <2> HIDE DEF n, f
  <2>3. f \in Seq(Mark) /\ Len(f) = n + 4
    BY <2>1, <2>2, Zenon DEF f, n
  <2>4. \A i \in 1 .. n + 4 : f[i] = IF i <= n THEN g[i] ELSE e[i - n]
    BY <2>1, <2>2, Zenon DEF f, n
  <2>5. /\ \A i \in 1 .. n : f[i] = g[i]
        /\ \A j \in 1 .. 4 : f[n + j] = e[j]
    <3>1. \A i \in 1 .. n : i \in 1 .. n + 4 /\ i <= n
      BY ONLY <2>2
    <3>2. \A j \in 1 .. 4 : n + j \in 1 .. n + 4 /\ ~(n + j <= n) /\ (n + j) - n = j
      BY ONLY <2>2
    <3>3. QED
      BY ONLY <2>4, <3>1, <3>2
  <2>6. QED
    BY <2>3, <2>5 DEF n
<1>8. Digits(f) = SubSeq(s, 1, hi)
  <2>1. Digits(f) = Digits(g) \o Digits(e)
    BY <1>5, DigitsConcat, Zenon
  <2>2. h + 3 * (k - 1) = lo - 1
    BY <1>1
  <2>3. Digits(f) = SubSeq(s, 1, lo - 1) \o v
    BY <1>6, <2>1, <2>2, Zenon
  <2>4. /\ 1 \in 1 .. Len(s) + 1 /\ lo - 1 \in 1 - 1 .. Len(s) /\ hi \in lo - 1 .. Len(s)
        /\ (lo - 1) + 1 = lo
    <3> DEFINE n == Len(s)
               m == GroupsAfter(s)
    <3>1. k \in 1 .. m /\ n = h + 3 * m /\ m \in Nat /\ h \in 1 .. 3
      BY <1>1
    <3> HIDE DEF n, m, h
    <3>2. /\ 1 \in 1 .. n + 1 /\ lo - 1 \in 1 - 1 .. n /\ hi \in lo - 1 .. n
          /\ (lo - 1) + 1 = lo
      BY ONLY <3>1
    <3>3. QED
      BY <3>2 DEF n
  <2> HIDE DEF f, lo, hi
  <2>5. SubSeq(s, 1, lo - 1) \o SubSeq(s, (lo - 1) + 1, hi) = SubSeq(s, 1, hi)
    BY <2>4, ConcatAdjacentSubSeq, Zenon
  <2>6. QED
    BY <2>3, <2>4, <2>5, Zenon DEF v
<1> HIDE DEF f
<1>9. DotsFrom(f, h)
  <2> DEFINE n == Len(g)
  <2>1. n = h + 4 * (k - 1) /\ k \in Nat /\ k > 0 /\ n \in Nat
    BY <1>1
  <2>2. \A i \in 1 .. n : g[i] = "." <=> i > h /\ (i - h) % 4 = 1
    BY DEF DotsFrom
  <2>3. /\ \A i \in 1 .. n : f[i] = g[i]
        /\ \A j \in 1 .. 4 : f[n + j] = e[j]
        /\ Len(f) = n + 4
    BY <1>7
  <2> HIDE DEF n, h
  <2> SUFFICES ASSUME NEW i \in 1 .. n + 4 PROVE f[i] = "." <=> i > h /\ (i - h) % 4 = 1
    BY <2>3 DEF DotsFrom
  <2>4. CASE i <= n
    <3>1. i \in 1 .. n
      BY <2>1, <2>4
    <3>2. f[i] = g[i]
      BY ONLY <2>3, <3>1
    <3>3. g[i] = "." <=> i > h /\ (i - h) % 4 = 1
      BY ONLY <2>2, <3>1
    <3>4. QED
      BY <3>2, <3>3, Zenon
  <2>5. CASE i = n + 1
    <3>1. f[i] = "."
      BY <1>5, <2>3, <2>5
    <3>2. i - h = 4 * (k - 1) + 1 /\ i > h
      BY <1>1, <2>1, <2>5
    <3>3. QED
      BY <1>1, <2>1, <3>1, <3>2
  <2>6. ASSUME NEW j \in 2 .. 4, i = n + j PROVE f[i] = "." <=> i > h /\ (i - h) % 4 = 1
    <3>1. f[i] = e[j] /\ e[j] # "."
      BY <1>5, <2>3, <2>6
    <3>2. i - h = 4 * (k - 1) + j
      BY <1>1, <2>1, <2>6
    <3>3. (i - h) % 4 # 1
      <4>1. k - 1 \in Int /\ j \in {2, 3, 4}
        BY <2>1
      <4>2. (4 * (k - 1) + j) % 4 # 1
        <5> DEFINE q == k - 1
        <5>1. q \in Int
          BY <4>1
        <5> HIDE DEF q
        <5>2. (4 * q + 2) % 4 # 1
          BY ONLY <5>1
        <5>3. (4 * q + 3) % 4 # 1
          BY ONLY <5>1
        <5>4. (4 * q + 4) % 4 # 1
          BY ONLY <5>1
        <5>5. (4 * q + j) % 4 # 1
          BY <4>1, <5>2, <5>3, <5>4, Zenon
        <5>6. QED
          BY <5>5, Zenon DEF q
      <4>3. QED
        BY <3>2, <4>2, Zenon
    <3>4. QED
      BY <3>1, <3>3
  <2>7. i <= n \/ i = n + 1 \/ \E j \in 2 .. 4 : i = n + j
    <3>1. n \in Nat /\ i \in 1 .. n + 4
      BY <2>1
    <3>2. QED
      BY ONLY <3>1
  <2>8. QED
    BY <2>4, <2>5, <2>6, <2>7
<1>10. Len(f) = h + 4 * k
  <2> DEFINE n == Len(g)
             m == Len(f)
  <2>1. m = n + 4 /\ n = h + 4 * (k - 1) /\ h \in 1 .. 3 /\ k \in Int
    BY <1>1, <1>7
  <2> HIDE DEF m, n, h
  <2>2. m = h + 4 * k
    BY ONLY <2>1
  <2>3. QED
    BY <2>2 DEF m
<1>11. QED
  BY <1>7, <1>8, <1>9, <1>10 DEF f, e

\* The digits in groups: the digits they were, with dots where the groups of
\* three from the right begin.
LEMMA GroupedFacts ==
    ASSUME NEW s \in Seq(Digit), s # <<>>
    PROVE  LET b == Grouped(s)
               n == Len(b)
           IN  /\ b \in Seq(Mark) /\ n > 0 /\ Digits(b) = s
               /\ \A i \in 1 .. n : b[i] = "." <=> (n - i + 1) % 4 = 0 /\ i > 1
<1> DEFINE h == Head3(s)
           m == GroupsAfter(s)
           w == GroupsUpTo(s)
           Good(k) == /\ w[k] \in Seq(Mark) /\ Len(w[k]) = h + 4 * k /\ DotsFrom(w[k], h)
                      /\ Digits(w[k]) = SubSeq(s, 1, h + 3 * k)
           S == {k \in 0 .. m : Good(k)}
<1>1. h \in 1 .. 3 /\ m \in Nat /\ Len(s) = h + 3 * m
  BY HeadFacts
<1>2. w[0] = SubSeq(s, 1, h) /\ \A k \in 1 .. m : w[k] = w[k - 1] \o Group(s, k)
  BY GroupsDef
<1>3. \A k \in 1 .. m, g \in Seq(Mark) :
         /\ Len(g) = h + 4 * (k - 1) /\ DotsFrom(g, h)
         /\ Digits(g) = SubSeq(s, 1, h + 3 * (k - 1))
         => LET f == g \o Group(s, k)
            IN  /\ f \in Seq(Mark) /\ Len(f) = h + 4 * k /\ DotsFrom(f, h)
                /\ Digits(f) = SubSeq(s, 1, h + 3 * k)
  BY GroupAdded, Zenon
<1> HIDE DEF h, m, w
<1>4. Good(0)
  <2> DEFINE g == SubSeq(s, 1, h)
  <2>1. 1 \in Int /\ h \in Int /\ h - 1 + 1 = h /\ 1 <= h /\ h + 3 * 0 = h /\ h + 4 * 0 = h
    BY <1>1
  <2>2. \A i \in 1 .. h : s[i] \in Digit
    BY <1>1
  <2>3. g \in Seq(Digit)
    BY <2>1, <2>2, SubSeqProperties, Zenon
  <2>4. Len(g) = IF 1 <= h THEN h - 1 + 1 ELSE 0
    BY <2>1, <2>2, SubSeqProperties, Zenon
  <2> HIDE DEF g
  <2>5. Len(g) = h
    BY <2>1, <2>4
  <2>6. Digits(g) = g
    BY <2>3, DigitsAll
  <2>7. g \in Seq(Mark)
    BY <2>3, SeqMonotonic, Zenon DEF Mark
  <2>8. DotsFrom(g, h)
    <3>1. \A x \in Digit : x # "."
      BY DEF Digit
    <3>2. \A i \in 1 .. h : g[i] # "." /\ ~(i > h)
      BY <1>1, <2>3, <2>5, <3>1
    <3>3. QED
      BY <2>5, <3>2 DEF DotsFrom
  <2>9. w[0] = g
    BY <1>2 DEF g
  <2>10. QED
    BY <2>1, <2>5, <2>6, <2>7, <2>8, <2>9, Zenon DEF g
<1>5. ASSUME NEW k \in 0 .. m - 1, Good(k) PROVE Good(k + 1)
  <2>1. k + 1 \in 1 .. m /\ (k + 1) - 1 = k
    BY <1>1
  <2>2. w[k + 1] = w[k] \o Group(s, k + 1)
    BY <1>2, <2>1
  <2> DEFINE g == w[k]
  <2>3. /\ g \in Seq(Mark) /\ Len(g) = h + 4 * ((k + 1) - 1) /\ DotsFrom(g, h)
        /\ Digits(g) = SubSeq(s, 1, h + 3 * ((k + 1) - 1))
    BY <1>5, <2>1, Zenon
  <2> HIDE DEF g
  <2>4. LET f == g \o Group(s, k + 1)
        IN  /\ f \in Seq(Mark) /\ Len(f) = h + 4 * (k + 1) /\ DotsFrom(f, h)
            /\ Digits(f) = SubSeq(s, 1, h + 3 * (k + 1))
    BY <1>3, <2>1, <2>3, Zenon
  <2>5. QED
    BY <2>2, <2>4, Zenon DEF g
<1> HIDE DEF Good
<1>6. S = 0 .. m
  <2>1. 0 \in S
    BY <1>1, <1>4
  <2>2. ASSUME NEW k \in 0 .. m - 1, k \in S PROVE k + 1 \in S
    <3>1. k + 1 \in 0 .. m
      BY <1>1
    <3>2. QED
      BY <1>5, <2>2, <3>1
  <2>3. S \in SUBSET (0 .. m)
    OBVIOUS
  <2> HIDE DEF S
  <2>4. QED
    BY <1>1, <2>1, <2>2, <2>3, Climb
<1>7. Good(m)
  <2>1. m \in 0 .. m
    BY <1>1
  <2>2. QED
    BY <1>6, <2>1
<1> DEFINE b == Grouped(s)
           n == Len(b)
<1>8. /\ b \in Seq(Mark) /\ n = h + 4 * m /\ DotsFrom(b, h) /\ Digits(b) = SubSeq(s, 1, h + 3 * m)
  BY <1>7, Zenon DEF Good, Grouped, w, m
<1> HIDE DEF b
<1>9. Digits(b) = s
  <2>1. SubSeq(s, 1, Len(s)) = s
    BY SubSeqFull, Zenon
  <2>2. QED
    BY <1>1, <1>8, <2>1, Zenon
<1>10. ASSUME NEW i \in 1 .. n PROVE b[i] = "." <=> (n - i + 1) % 4 = 0 /\ i > 1
  <2>1. b[i] = "." <=> i > h /\ (i - h) % 4 = 1
    BY <1>8 DEF DotsFrom
  <2>2. n - i + 1 = 4 * m + (h - i + 1) /\ n \in Nat /\ i \in Int
    BY <1>1, <1>8
  <2> HIDE DEF n
  <2>3. (4 * m + (h - i + 1)) % 4 = (h - i + 1) % 4
    BY <1>1, <2>2
  <2>4. (h - i + 1) % 4 = 0 /\ i > 1 <=> i > h /\ (i - h) % 4 = 1
    <3>1. CASE i <= h
      <4>1. i > 1 => h - i + 1 \in 1 .. 2
        BY <1>1, <1>10, <3>1
      <4>2. QED
        BY <1>1, <1>10, <3>1, <4>1
    <3>2. CASE i > h
      BY <1>1, <2>2, <3>2
    <3>3. QED
      BY <1>1, <2>2, <3>1, <3>2
  <2>5. QED
    BY <2>1, <2>2, <2>3, <2>4
<1>11. n > 0
  BY <1>1, <1>8
<1>12. QED
  BY <1>8, <1>9, <1>10, <1>11 DEF b

\* The body of a formatted amount: its digits, in groups when they are more than
\* three
BodyOf(digits) == IF Len(digits) <= 3 THEN digits ELSE Grouped(digits)

LEMMA BodyFacts ==
    ASSUME NEW s \in Seq(Digit), s # <<>>
    PROVE  LET b == BodyOf(s)
               n == Len(b)
           IN  /\ b \in Seq(Mark) /\ n > 0 /\ Digits(b) = s
               /\ \A i \in 1 .. n : b[i] = "." <=> (n - i + 1) % 4 = 0 /\ i > 1
<1>1. CASE Len(s) <= 3
  <2>1. BodyOf(s) = s
    BY <1>1, Zenon DEF BodyOf
  <2>2. s \in Seq(Mark)
    BY SeqMonotonic, Zenon DEF Mark
  <2>3. Digits(s) = s
    BY DigitsAll
  <2> DEFINE n == Len(s)
  <2>4. n \in 1 .. 3
    <3>1. n \in Nat /\ n > 0
      OBVIOUS
    <3>2. n <= 3
      BY <1>1
    <3> HIDE DEF n
    <3>3. QED
      BY ONLY <3>1, <3>2
  <2>5. \A i \in 1 .. n : s[i] # "."
    <3>1. \A x \in Digit : x # "."
      BY DEF Digit
    <3>2. \A i \in 1 .. n : s[i] \in Digit
      OBVIOUS
    <3>3. QED
      BY <3>1, <3>2
  <2> HIDE DEF n
  <2>6. \A i \in 1 .. n : i > 1 => n - i + 1 \in 1 .. 2
    BY ONLY <2>4
  <2>7. \A i \in 1 .. n : ~((n - i + 1) % 4 = 0 /\ i > 1)
    BY ONLY <2>4, <2>6
  <2>8. \A i \in 1 .. n : s[i] = "." <=> (n - i + 1) % 4 = 0 /\ i > 1
    BY <2>5, <2>7, Zenon
  <2>9. n > 0
    BY ONLY <2>4
  <2>10. QED
    BY <2>1, <2>2, <2>3, <2>8, <2>9, Zenon DEF n
<1>2. CASE ~(Len(s) <= 3)
  <2>1. BodyOf(s) = Grouped(s)
    BY <1>2, Zenon DEF BodyOf
  <2>2. QED
    BY <2>1, GroupedFacts, Zenon
<1>3. QED
  BY <1>1, <1>2, Zenon

\* What Formatted asks of the answer to s
RightlyFormatted(s, r) ==
    LET signed == r[1] = "-"
        body == IF signed THEN From(r, 2) ELSE r
        n == Len(body)
    IN  /\ FormatDecimal(r) = r
        /\ \A i \in 1 .. n : body[i] = "." <=> (n - i + 1) % 4 = 0 /\ i > 1
        /\ \A i \in 1 .. n : body[i] = "." \/ IsDigit(body[i])
        /\ IF Digits(s) = <<>> THEN r = <<"0">>
           ELSE /\ Digits(body) = Digits(s)
                /\ signed <=> s[1] = "-"

\* A text begins with a minus.
Minus(s) == s # <<>> /\ s[1] = "-"

LEMMA FormatDef ==
    ASSUME NEW s, Digits(s) # <<>>
    PROVE  FormatDecimal(s) = (IF Minus(s) THEN <<"-">> ELSE <<>>) \o BodyOf(Digits(s))
BY Zenon DEF FormatDecimal, Minus, BodyOf

LEMMA FormatDecimalFacts ==
    ASSUME NEW s \in Seq(STRING)
    PROVE  RightlyFormatted(s, FormatDecimal(s))
<1> DEFINE d == Digits(s)
           r == FormatDecimal(s)
           Sound(b) == LET n == Len(b)
                       IN  /\ \A i \in 1 .. n : b[i] = "." <=> (n - i + 1) % 4 = 0 /\ i > 1
                           /\ \A i \in 1 .. n : b[i] = "." \/ IsDigit(b[i])
<1>1. d \in Seq(Digit)
  BY DigitsType
<1>2. CASE d = <<>>
  <2> DEFINE z == <<"0">>
  <2>1. r = z
    BY <1>2, Zenon DEF FormatDecimal
  <2>2. z \in Seq(Digit) /\ Len(z) = 1 /\ z[1] = "0" /\ z # <<>>
    BY DEF Digit
  <2>3. Digits(z) = z
    BY <2>2, DigitsAll, Zenon
  <2>4. z[1] # "-" /\ ~Minus(z)
    BY <2>2 DEF Minus
  <2> HIDE DEF z
  <2>5. BodyOf(z) = z
    <3>1. Len(z) <= 3
      BY <2>2
    <3>2. QED
      BY <3>1, Zenon DEF BodyOf
  <2>6. FormatDecimal(z) = z
    <3>1. FormatDecimal(z) = <<>> \o z
      BY <2>2, <2>3, <2>4, <2>5, FormatDef, Zenon
    <3>2. <<>> \o z = z
      BY <2>2, ConcatEmptySeq, Zenon
    <3>3. QED
      BY <3>1, <3>2, Zenon
  <2>7. Sound(z)
    <3>1. z[1] # "." /\ IsDigit(z[1])
      BY <2>2 DEF IsDigit, Digit
    <3>2. QED
      BY <2>2, <3>1
  <2> HIDE DEF Sound
  <2>8. RightlyFormatted(s, z)
    <3> HIDE DEF d
    <3>1. (IF z[1] = "-" THEN From(z, 2) ELSE z) = z
      BY <2>4, Zenon
    <3>2. z = <<"0">>
      BY DEF z
    <3>3. QED
      BY <1>2, <2>6, <2>7, <3>1, <3>2, Zenon DEF RightlyFormatted, Sound, d
  <2>9. QED
    BY <2>1, <2>8, Zenon
<1>3. CASE d # <<>>
  <2> DEFINE b == BodyOf(d)
             sign == IF Minus(s) THEN <<"-">> ELSE <<>>
             n == Len(b)
             Char == Mark \cup {"-"}
  <2>1. r = sign \o b
    BY <1>3, FormatDef, Zenon
  <2>2. /\ b \in Seq(Mark) /\ n > 0 /\ Digits(b) = d
        /\ \A i \in 1 .. n : b[i] = "." <=> (n - i + 1) % 4 = 0 /\ i > 1
    BY <1>1, <1>3, BodyFacts, Zenon
  <2>3. \A i \in 1 .. n : b[i] = "." \/ IsDigit(b[i])
    BY <2>2 DEF Mark, IsDigit
  <2>4. Sound(b)
    BY <2>2, <2>3, Zenon
  <2>5. s # <<>>
    <3>1. Digits(<<>>) = <<>>
      <4>1. <<>> \in Seq(Digit)
        OBVIOUS
      <4>2. QED
        BY <4>1, DigitsAll, Zenon
    <3>2. QED
      BY <1>3, <3>1, Zenon
  <2>6. b[1] # "-" /\ b # <<>>
    <3>1. \A x \in Mark : x # "-"
      BY DEF Mark, Digit
    <3>2. b[1] \in Mark
      BY <2>2
    <3>3. QED
      BY <2>2, <3>1, <3>2
  <2>7. b \in Seq(Char)
    BY <2>2, SeqMonotonic, Zenon
  <2> HIDE DEF d, b, Sound, Char
  <2>8. CASE Minus(s)
    <3> DEFINE m == <<"-">>
               f == m \o b
    <3>1. r = f
      BY <2>1, <2>8, Zenon
    <3>2. m \in Seq(Char) /\ Len(m) = 1 /\ m[1] = "-"
      BY DEF Char
    <3>3. Digits(m) = <<>>
      <4>1. "-" \in Char /\ ~IsDigit("-")
        BY DEF Char, IsDigit, Digit
      <4>2. QED
        BY <4>1, DigitsOfOne, Zenon
    <3> HIDE DEF m
    <3>4. /\ f \in Seq(Char) /\ Len(f) = 1 + n /\ f[1] = "-"
          /\ \A i \in 1 .. n : f[i + 1] = b[i]
      <4>1. /\ m \o b \in Seq(Char) /\ Len(m \o b) = Len(m) + Len(b)
            /\ \A i \in 1 .. Len(m) + Len(b) :
                  (m \o b)[i] = IF i <= Len(m) THEN m[i] ELSE b[i - Len(m)]
        BY <2>7, <3>2, ConcatProperties, Zenon
      <4>2. n \in Nat
        BY <2>7
      <4>3. /\ f \in Seq(Char) /\ Len(f) = 1 + n
            /\ \A i \in 1 .. 1 + n : f[i] = IF i <= 1 THEN m[i] ELSE b[i - 1]
        BY <3>2, <4>1, Zenon DEF f, n
      <4> HIDE DEF n, f
      <4>4. f[1] = m[1]
        <5>1. 1 \in 1 .. 1 + n /\ 1 <= 1
          BY ONLY <4>2
        <5>2. QED
          BY ONLY <4>3, <5>1
      <4>5. \A i \in 1 .. n : f[i + 1] = b[i]
        <5>1. \A i \in 1 .. n : i + 1 \in 1 .. 1 + n /\ ~(i + 1 <= 1) /\ (i + 1) - 1 = i
          BY ONLY <4>2
        <5>2. QED
          BY ONLY <4>3, <5>1
      <4>6. QED
        BY <3>2, <4>3, <4>4, <4>5
    <3>5. Digits(f) = d
      <4>1. Digits(f) = Digits(m) \o Digits(b)
        BY <2>7, <3>2, DigitsConcat, Zenon
      <4>2. <<>> \o d = d
        BY <1>1, ConcatEmptySeq, Zenon
      <4>3. QED
        BY <2>2, <3>3, <4>1, <4>2, Zenon
    <3> HIDE DEF f
    <3>6. From(f, 2) = b
      <4>1. n \in Nat /\ n > 0
        BY <2>2
      <4> HIDE DEF n
      <4>2. \A i \in 2 .. n + 1 : f[i] \in Char
        BY <3>4, <4>1
      <4>3. 2 \in Int /\ n + 1 \in Int /\ 2 <= n + 1 /\ (n + 1) - 2 + 1 = n
        BY ONLY <4>1
      <4>4. /\ SubSeq(f, 2, n + 1) \in Seq(Char)
            /\ Len(SubSeq(f, 2, n + 1)) = IF 2 <= n + 1 THEN (n + 1) - 2 + 1 ELSE 0
            /\ \A i \in 1 .. (n + 1) - 2 + 1 : SubSeq(f, 2, n + 1)[i] = f[2 + i - 1]
        BY <4>2, <4>3, SubSeqProperties
      <4> DEFINE u == SubSeq(f, 2, n + 1)
      <4>5. u \in Seq(Char) /\ Len(u) = n /\ \A i \in 1 .. n : u[i] = f[2 + i - 1]
        BY <4>3, <4>4, Zenon
      <4> HIDE DEF u
      <4>6. \A i \in 1 .. n : 2 + i - 1 = i + 1
        BY ONLY <4>1
      <4>7. \A i \in 1 .. n : u[i] = b[i]
        BY <3>4, <4>5, <4>6
      <4>8. Len(b) = n
        BY DEF n
      <4>9. u = b
        BY <2>7, <4>5, <4>7, <4>8, SeqEqual, Zenon
      <4>10. Len(f) = n + 1
        BY <3>4, <4>1
      <4>11. QED
        BY <4>9, <4>10, Zenon DEF From, u
    <3>7. Minus(f)
      <4>1. f # <<>>
        BY <2>2, <3>4
      <4>2. QED
        BY <3>4, <4>1, Zenon DEF Minus
    <3>8. FormatDecimal(f) = f
      <4>1. FormatDecimal(f) = m \o b
        BY <1>3, <3>5, <3>7, FormatDef, Zenon DEF b, m
      <4>2. QED
        BY <4>1, Zenon DEF f
    <3>9. (IF f[1] = "-" THEN From(f, 2) ELSE f) = b
      BY <3>4, <3>6, Zenon
    <3>10. s[1] = "-"
      BY <2>8, Zenon DEF Minus
    <3>11. RightlyFormatted(s, f)
      BY <1>3, <2>2, <2>4, <3>4, <3>8, <3>9, <3>10, Zenon DEF RightlyFormatted, Sound, d
    <3>12. QED
      BY <3>1, <3>11, Zenon
  <2>9. CASE ~Minus(s)
    <3>1. r = b
      <4>1. <<>> \o b = b
        BY <2>2, ConcatEmptySeq, Zenon
      <4>2. QED
        BY <2>1, <2>9, <4>1, Zenon
    <3>2. FormatDecimal(b) = b
      <4>1. ~Minus(b)
        BY <2>6, Zenon DEF Minus
      <4>2. FormatDecimal(b) = <<>> \o BodyOf(d)
        BY <1>3, <2>2, <4>1, FormatDef, Zenon
      <4>3. <<>> \o b = b
        BY <2>2, ConcatEmptySeq, Zenon
      <4>4. QED
        BY <4>2, <4>3, Zenon DEF b
    <3>3. (IF b[1] = "-" THEN From(b, 2) ELSE b) = b
      BY <2>6, Zenon
    <3>4. s[1] # "-"
      BY <2>5, <2>9, Zenon DEF Minus
    <3>5. RightlyFormatted(s, b)
      BY <1>3, <2>2, <2>4, <2>6, <3>2, <3>3, <3>4, Zenon DEF RightlyFormatted, Sound, d
    <3>6. QED
      BY <3>1, <3>5, Zenon
  <2>10. QED
    BY <2>8, <2>9, Zenon
<1>4. QED
  BY <1>2, <1>3, Zenon

\* Formatted: the answer to any text scripts pass.
FormattedInv == textCall = "FormatDecimal" => RightlyFormatted(text, result)

\* Whatever texts scripts pass to FormatDecimal: the digits stay in their order,
\* the dots stand before every third digit from the right, the sign is kept, and
\* the answer is formatted to itself.
THEOREM FormattedCorrect == TextSpec => []Formatted
<1>1. TextInit => FormattedInv
  BY DEF TextInit, FormattedInv
<1>2. FormattedInv /\ [TextNext]_textVars => FormattedInv'
  <2> SUFFICES ASSUME FormattedInv, [TextNext]_textVars PROVE FormattedInv'
    OBVIOUS
  <2>1. CASE CallFormatDecimal
    <3>1. PICK s \in Figure : TextAnswers("FormatDecimal", s, <<>>, FormatDecimal(s))
      BY <2>1 DEF CallFormatDecimal
    <3>2. s \in Seq(STRING)
      BY FigureAssumption
    <3>3. RightlyFormatted(s, FormatDecimal(s))
      BY <3>2, FormatDecimalFacts
    <3>4. text' = s /\ result' = FormatDecimal(s)
      BY <3>1 DEF TextAnswers
    <3>5. RightlyFormatted(text, result)'
      BY <3>3, <3>4, Zenon DEF RightlyFormatted
    <3>6. QED
      BY <3>5, Zenon DEF FormattedInv
  <2>2. CASE CallReplaceChars
    BY <2>2 DEF CallReplaceChars, TextAnswers, FormattedInv
  <2>3. CASE CallIsNum
    BY <2>3 DEF CallIsNum, TextAnswers, FormattedInv
  <2>4. CASE TextGoesOn
    BY <2>4 DEF TextGoesOn, FormattedInv
  <2>5. CASE UNCHANGED textVars
    BY <2>5, Zenon DEF textVars, FormattedInv, RightlyFormatted
  <2>6. QED
    BY <2>1, <2>2, <2>3, <2>4, <2>5 DEF TextNext
<1>3. FormattedInv => Formatted
  BY Zenon DEF FormattedInv, Formatted, RightlyFormatted
<1>4. QED
  BY <1>1, <1>2, <1>3, PTL DEF TextSpec

-------------------------------------------------------------------------------
(* Areas: the ray of InPoly *)

\* The lesser and the greater of two numbers
LEMMA MinMaxOfTwo ==
    ASSUME NEW x \in Int, NEW y \in Int
    PROVE  /\ Min({x, y}) = IF x <= y THEN x ELSE y
           /\ Max({x, y}) = IF x <= y THEN y ELSE x
<1>1. \E z \in {x, y} : \A u \in {x, y} : z <= u
  OBVIOUS
<1>2. Min({x, y}) \in {x, y} /\ \A u \in {x, y} : Min({x, y}) <= u
  BY <1>1 DEF Min
<1>3. \E z \in {x, y} : \A u \in {x, y} : u <= z
  OBVIOUS
<1>4. Max({x, y}) \in {x, y} /\ \A u \in {x, y} : u <= Max({x, y})
  BY <1>3 DEF Max
<1>5. QED
  BY <1>2, <1>4

\* Left of p and above it
Corner(p, a) == a[1] < p[1] /\ a[2] > p[2]

\* The sign of a product
LEMMA Signs ==
    ASSUME NEW x \in Int, NEW y \in Int
    PROVE  /\ x * y \in Int
           /\ x * y > 0 <=> (x > 0 /\ y > 0) \/ (x < 0 /\ y < 0)
           /\ x * y < 0 <=> (x > 0 /\ y < 0) \/ (x < 0 /\ y > 0)
OBVIOUS

\* The products of OnEdge and CrossesLeft around the point itself
LEMMA Turn ==
    ASSUME NEW ax \in Int, NEW ay \in Int, NEW bx \in Int, NEW by \in Int
    PROVE  /\ ay * bx \in Int /\ by * ax \in Int
           /\ (-ay) * (bx - ax) = ay * ax - ay * bx
           /\ (by - ay) * (-ax) = ay * ax - by * ax
           /\ (-ax) * (by - ay) = ay * ax - by * ax
OBVIOUS

\* For an edge that p is not on, the ray upwards and the ray to the left cross
\* it alike unless one of its ends lies between the rays and the other does not.
LEMMA EdgeCrossed ==
    ASSUME NEW p \in Int \X Int, NEW a \in Int \X Int, NEW b \in Int \X Int,
           ~OnEdge(p, a, b)
    PROVE  (Crosses(p, a, b) <=> CrossesLeft(p, a, b)) <=> (Corner(p, a) <=> Corner(p, b))
<1> DEFINE ax == a[1] - p[1]
           ay == a[2] - p[2]
           bx == b[1] - p[1]
           by == b[2] - p[2]
           s == ay * bx
           t == by * ax
<1>1. /\ a[1] \in Int /\ a[2] \in Int /\ b[1] \in Int /\ b[2] \in Int
      /\ p[1] \in Int /\ p[2] \in Int
  OBVIOUS
<1>2. ax \in Int /\ ay \in Int /\ bx \in Int /\ by \in Int
  BY <1>1
<1>3. /\ p[2] - a[2] = -ay /\ b[1] - a[1] = bx - ax
      /\ b[2] - a[2] = by - ay /\ p[1] - a[1] = -ax
  BY <1>1
<1>4. s \in Int /\ t \in Int /\ ay * ax \in Int
  BY <1>2
<1>5. /\ (p[2] - a[2]) * (b[1] - a[1]) = ay * ax - s
      /\ (b[2] - a[2]) * (p[1] - a[1]) = ay * ax - t
      /\ (p[1] - a[1]) * (b[2] - a[2]) = ay * ax - t
  <2> HIDE DEF ax, ay, bx, by
  <2>1. /\ (-ay) * (bx - ax) = ay * ax - s
        /\ (by - ay) * (-ax) = ay * ax - t
        /\ (-ax) * (by - ay) = ay * ax - t
    BY <1>2, Turn
  <2>2. QED
    BY <1>3, <2>1
<1> DEFINE over == IF a[1] < b[1] THEN s >= t ELSE s <= t
<1>6. NotAbove(p, a, b) <=> over
  BY <1>4, <1>5 DEF NotAbove
<1>7. /\ s > 0 <=> (ay > 0 /\ bx > 0) \/ (ay < 0 /\ bx < 0)
      /\ s < 0 <=> (ay > 0 /\ bx < 0) \/ (ay < 0 /\ bx > 0)
      /\ t > 0 <=> (by > 0 /\ ax > 0) \/ (by < 0 /\ ax < 0)
      /\ t < 0 <=> (by > 0 /\ ax < 0) \/ (by < 0 /\ ax > 0)
  <2> HIDE DEF ax, ay, bx, by
  <2>1. QED
    BY <1>2, Signs
<1>8. /\ Crosses(p, a, b) <=> /\ (ax < 0 /\ 0 <= bx) \/ (bx < 0 /\ 0 <= ax)
                              /\ 0 < ay \/ 0 <= by
                              /\ over
  BY <1>1, <1>6, MinMaxOfTwo DEF Crosses
<1>9. CrossesLeft(p, a, b) <=> /\ (ay > 0) # (by > 0)
                               /\ IF a[2] < b[2] THEN s > t ELSE s < t
  BY <1>1, <1>4, <1>5 DEF CrossesLeft
<1>10. OnEdge(p, a, b) <=>
          /\ s = t
          /\ (ax <= 0 /\ 0 <= bx) \/ (bx <= 0 /\ 0 <= ax)
          /\ (ay <= 0 /\ 0 <= by) \/ (by <= 0 /\ 0 <= ay)
  <2>1. (p[2] - a[2]) * (b[1] - a[1]) = (b[2] - a[2]) * (p[1] - a[1]) <=> s = t
    BY <1>4, <1>5
  <2>2. \A x, y, z \in Int : z >= Min({x, y}) /\ z <= Max({x, y}) <=>
                            (x <= z /\ z <= y) \/ (y <= z /\ z <= x)
    <3> SUFFICES ASSUME NEW x \in Int, NEW y \in Int, NEW z \in Int
                 PROVE  z >= Min({x, y}) /\ z <= Max({x, y}) <=>
                            (x <= z /\ z <= y) \/ (y <= z /\ z <= x)
      OBVIOUS
    <3>1. /\ Min({x, y}) = IF x <= y THEN x ELSE y
          /\ Max({x, y}) = IF x <= y THEN y ELSE x
      BY MinMaxOfTwo
    <3>2. QED
      BY <3>1
  <2>3. \A k \in 1 .. 2 :
           /\ p[k] \in Int /\ a[k] \in Int /\ b[k] \in Int
           /\ p[k] >= Min({a[k], b[k]}) /\ p[k] <= Max({a[k], b[k]}) <=>
                 (a[k] <= p[k] /\ p[k] <= b[k]) \/ (b[k] <= p[k] /\ p[k] <= a[k])
    BY <1>1, <2>2
  <2>4. OnEdge(p, a, b) <=>
          /\ s = t
          /\ \A k \in 1 .. 2 : (a[k] <= p[k] /\ p[k] <= b[k]) \/ (b[k] <= p[k] /\ p[k] <= a[k])
    BY <2>1, <2>3 DEF OnEdge
  <2>5. ASSUME NEW k \in 1 .. 2, NEW u, NEW v, u = a[k] - p[k], v = b[k] - p[k]
        PROVE  (a[k] <= p[k] /\ p[k] <= b[k]) \/ (b[k] <= p[k] /\ p[k] <= a[k]) <=>
               (u <= 0 /\ 0 <= v) \/ (v <= 0 /\ 0 <= u)
    BY <2>3, <2>5
  <2>6. 1 \in 1 .. 2 /\ 2 \in 1 .. 2 /\ \A k \in 1 .. 2 : k = 1 \/ k = 2
    OBVIOUS
  <2>7. /\ (a[1] <= p[1] /\ p[1] <= b[1]) \/ (b[1] <= p[1] /\ p[1] <= a[1]) <=>
               (ax <= 0 /\ 0 <= bx) \/ (bx <= 0 /\ 0 <= ax)
        /\ (a[2] <= p[2] /\ p[2] <= b[2]) \/ (b[2] <= p[2] /\ p[2] <= a[2]) <=>
               (ay <= 0 /\ 0 <= by) \/ (by <= 0 /\ 0 <= ay)
    BY <2>5, <2>6
  <2> HIDE DEF s, t, ax, ay, bx, by
  <2>8. QED
    BY <2>4, <2>6, <2>7
<1>11. /\ a[1] < b[1] <=> ax < bx
       /\ a[2] < b[2] <=> ay < by
       /\ Corner(p, a) <=> ax < 0 /\ ay > 0
       /\ Corner(p, b) <=> bx < 0 /\ by > 0
  BY <1>1 DEF Corner
<1> HIDE DEF ax, ay, bx, by, s, t
<1>12. QED
  BY <1>2, <1>4, <1>7, <1>8, <1>9, <1>10, <1>11

\* The edges of a polygon that the rays cross
Upwards(p, points) == {i \in DOMAIN points : Crosses(p, points[i], To(points, i))}
Leftwards(p, points) == {i \in DOMAIN points : CrossesLeft(p, points[i], To(points, i))}

\* The part of a set up to m gets m if the set has it.
LEMMA UpTo ==
    ASSUME NEW A, NEW m \in Nat, IsFiniteSet(A \cap (1 .. m))
    PROVE  /\ IsFiniteSet(A \cap (1 .. m + 1))
           /\ Cardinality(A \cap (1 .. m)) \in Nat
           /\ Cardinality(A \cap (1 .. m + 1)) =
                 Cardinality(A \cap (1 .. m)) + (IF m + 1 \in A THEN 1 ELSE 0)
<1> DEFINE S == A \cap (1 .. m)
<1>1. m + 1 \notin S
  OBVIOUS
<1>2. A \cap (1 .. m + 1) = IF m + 1 \in A THEN S \cup {m + 1} ELSE S
  OBVIOUS
<1>3. Cardinality(S) \in Nat
  BY FS_CardinalityType
<1> HIDE DEF S
<1>4. /\ IsFiniteSet(S \cup {m + 1})
      /\ Cardinality(S \cup {m + 1}) = Cardinality(S) + 1
  <2>1. IsFiniteSet(S)
    BY DEF S
  <2>2. QED
    BY <1>1, <2>1, FS_AddElement, Zenon
<1>5. CASE m + 1 \in A
  <2>1. Cardinality(S) + 1 = Cardinality(S) + (IF m + 1 \in A THEN 1 ELSE 0)
    BY <1>5
  <2>2. QED
    BY <1>2, <1>3, <1>4, <1>5, <2>1 DEF S
<1>6. CASE m + 1 \notin A
  <2>1. Cardinality(S) = Cardinality(S) + (IF m + 1 \in A THEN 1 ELSE 0)
    BY <1>3, <1>6
  <2>2. QED
    BY <1>2, <1>3, <1>6, <2>1 DEF S
<1>7. QED
  BY <1>5, <1>6

\* One more changes parity.
LEMMA Parity ==
    ASSUME NEW x \in Nat
    PROVE  /\ x % 2 \in 0 .. 1
           /\ (x + 1) % 2 = 1 - (x % 2)
           /\ x + 0 = x
OBVIOUS

SameParity(x, y) == x % 2 = y % 2

\* u and v are of the same parity as x and y are, or as they are not.
AsBefore(x, y, u, v) == SameParity(u, v) <=> SameParity(x, y)
Reversed(x, y, u, v) == SameParity(u, v) <=> ~SameParity(x, y)

\* Adding one to both of two numbers or to neither leaves alone whether they are
\* of the same parity; adding it to one of them reverses it.
LEMMA ParityStep ==
    ASSUME NEW x \in Nat, NEW y \in Nat, NEW d \in 0 .. 1, NEW e \in 0 .. 1
    PROVE  /\ d = e => AsBefore(x, y, x + d, y + e)
           /\ d # e => Reversed(x, y, x + d, y + e)
<1>1. /\ x % 2 \in 0 .. 1 /\ (x + 1) % 2 = 1 - (x % 2) /\ x + 0 = x
      /\ y % 2 \in 0 .. 1 /\ (y + 1) % 2 = 1 - (y % 2) /\ y + 0 = y
  BY Parity
<1>2. (d = 0 \/ d = 1) /\ (e = 0 \/ e = 1)
  OBVIOUS
<1>3. /\ (x + d) % 2 = IF d = 1 THEN 1 - (x % 2) ELSE x % 2
      /\ (y + e) % 2 = IF e = 1 THEN 1 - (y % 2) ELSE y % 2
  BY <1>1, <1>2
<1>4. QED
  BY <1>1, <1>2, <1>3 DEF SameParity, AsBefore, Reversed

\* Two sets of edges of a closed path, which differ at the edges that lead into
\* or out of a region, have sizes of the same parity: the path leaves the region
\* as often as it enters it.
Turns(A, B, H, n) ==
    \A i \in 1 .. n : (i \in A <=> i \in B) <=> (H[i - 1] <=> H[i])

LEMMA ClosedPath ==
    ASSUME NEW n \in Nat, NEW A \in SUBSET (1 .. n), NEW B \in SUBSET (1 .. n),
           NEW H \in [0 .. n -> BOOLEAN], H[n] = H[0],
           Turns(A, B, H, n)
    PROVE  Cardinality(A) % 2 = Cardinality(B) % 2
<1> DEFINE a(m) == Cardinality(A \cap (1 .. m))
           b(m) == Cardinality(B \cap (1 .. m))
           Even(m) == /\ IsFiniteSet(A \cap (1 .. m)) /\ IsFiniteSet(B \cap (1 .. m))
                      /\ SameParity(a(m), b(m)) <=> (H[m] <=> H[0])
           T == {m \in 0 .. n : ~Even(m)}
<1>1. Even(0)
  <2>1. 1 .. 0 = {}
    OBVIOUS
  <2>2. A \cap (1 .. 0) = {} /\ B \cap (1 .. 0) = {}
    BY <2>1
  <2>3. QED
    BY <2>2, FS_EmptySet DEF SameParity
<1>2. ASSUME NEW m \in 0 .. n - 1, Even(m) PROVE Even(m + 1)
  <2>1. m \in Nat /\ IsFiniteSet(A \cap (1 .. m)) /\ IsFiniteSet(B \cap (1 .. m))
    BY <1>2
  <2> DEFINE d == IF m + 1 \in A THEN 1 ELSE 0
             e == IF m + 1 \in B THEN 1 ELSE 0
  <2>2. /\ IsFiniteSet(A \cap (1 .. m + 1)) /\ a(m) \in Nat
        /\ a(m + 1) = a(m) + d
    BY <2>1, UpTo, Zenon
  <2>3. /\ IsFiniteSet(B \cap (1 .. m + 1)) /\ b(m) \in Nat
        /\ b(m + 1) = b(m) + e
    BY <2>1, UpTo, Zenon
  <2>4. SameParity(a(m), b(m)) <=> (H[m] <=> H[0])
    BY <1>2
  <2>5. /\ m + 1 \in 1 .. n /\ (m + 1) - 1 = m /\ m \in 0 .. n /\ m + 1 \in 0 .. n
    OBVIOUS
  <2>6. (m + 1 \in A <=> m + 1 \in B) <=> (H[m] <=> H[m + 1])
    BY <2>5 DEF Turns
  <2>7. /\ H[m] \in BOOLEAN /\ H[m + 1] \in BOOLEAN /\ H[0] \in BOOLEAN
    BY <2>5
  <2>8. d \in 0 .. 1 /\ e \in 0 .. 1
    OBVIOUS
  <2>9. d = e <=> (m + 1 \in A <=> m + 1 \in B)
    OBVIOUS
  <2> HIDE DEF a, b, d, e
  <2>10. a(m) \in Nat /\ b(m) \in Nat
    BY <2>2, <2>3
  <2>11. SameParity(a(m + 1), b(m + 1)) <=> (H[m + 1] <=> H[0])
    <3>1. d = e <=> (H[m] <=> H[m + 1])
      BY <2>6, <2>9, Zenon
    <3>2. CASE d = e
      <4>1. AsBefore(a(m), b(m), a(m) + d, b(m) + e)
        BY ONLY <2>8, <2>10, <3>2, ParityStep
      <4>2. SameParity(a(m + 1), b(m + 1)) <=> SameParity(a(m), b(m))
        BY <2>2, <2>3, <4>1, Zenon DEF AsBefore
      <4>3. H[m] <=> H[m + 1]
        BY ONLY <3>1, <3>2, Zenon
      <4>4. QED
        BY ONLY <2>4, <4>2, <4>3, Zenon
    <3>3. CASE d # e
      <4>1. Reversed(a(m), b(m), a(m) + d, b(m) + e)
        BY ONLY <2>8, <2>10, <3>3, ParityStep
      <4>2. SameParity(a(m + 1), b(m + 1)) <=> ~SameParity(a(m), b(m))
        BY <2>2, <2>3, <4>1, Zenon DEF Reversed
      <4>3. H[m] <=> ~H[m + 1]
        BY ONLY <3>1, <3>3, Zenon
      <4>4. QED
        BY ONLY <2>4, <4>2, <4>3, Zenon
    <3>4. QED
      BY ONLY <3>2, <3>3, Zenon
  <2>12. QED
    BY <2>2, <2>3, <2>11 DEF a, b
<1> HIDE DEF Even
<1>3. T = {}
  <2> SUFFICES ASSUME T # {} PROVE FALSE
    OBVIOUS
  <2>1. T \subseteq Nat
    OBVIOUS
  <2>2. Min(T) \in T /\ \A x \in T : Min(T) <= x
    BY <2>1, LeastOne
  <2> DEFINE m == Min(T)
  <2>3. m \in 0 .. n /\ ~Even(m) /\ m # 0
    BY <1>1, <2>2
  <2> HIDE DEF m
  <2>4. m - 1 \in 0 .. n - 1 /\ (m - 1) + 1 = m
    BY <2>3
  <2>5. m - 1 \notin T
    BY <2>2, <2>4 DEF m
  <2>6. Even(m - 1)
    BY <2>4, <2>5
  <2>7. QED
    BY <1>2, <2>3, <2>4, <2>6
<1>4. Even(n)
  BY <1>3
<1>5. A \cap (1 .. n) = A /\ B \cap (1 .. n) = B
  OBVIOUS
<1>6. QED
  BY <1>4, <1>5 DEF Even, SameParity

\* The same, quantified
LEMMA ClosedPaths ==
    \A n \in Nat : \A A \in SUBSET (1 .. n), B \in SUBSET (1 .. n) :
        \A H \in [0 .. n -> BOOLEAN] :
            /\ H[n] = H[0]
            /\ Turns(A, B, H, n)
            => Cardinality(A) % 2 = Cardinality(B) % 2
<1> SUFFICES ASSUME NEW n \in Nat, NEW A \in SUBSET (1 .. n), NEW B \in SUBSET (1 .. n),
                    NEW H \in [0 .. n -> BOOLEAN], H[n] = H[0],
                    Turns(A, B, H, n)
             PROVE  Cardinality(A) % 2 = Cardinality(B) % 2
  BY Zenon
<1>1. QED
  BY ClosedPath

\* A number below n is its own remainder, and n has none.
LEMMA ModBelow ==
    ASSUME NEW n \in Nat, n > 0, NEW i \in 0 .. n
    PROVE  i % n = (IF i = n THEN 0 ELSE i) /\ i % n \in 0 .. n - 1
<1>1. n % n = 0
  OBVIOUS
<1>2. i < n => i % n = i
  OBVIOUS
<1>3. QED
  BY <1>1, <1>2

\* For a point on no edge both rays cross an odd number of edges, or none does.
LEMMA AnyRay ==
    ASSUME NEW p \in Int \X Int, NEW points \in Seq(Int \X Int),
           \A i \in DOMAIN points : ~OnEdge(p, points[i], To(points, i))
    PROVE  Cardinality(Upwards(p, points)) % 2 = Cardinality(Leftwards(p, points)) % 2
<1>1. PICK n \in Nat : n = Len(points) /\ DOMAIN points = 1 .. n
  OBVIOUS
<1> DEFINE at(i) == points[(i % n) + 1]
           H == [i \in 0 .. n |-> Corner(p, at(i))]
<1>2. CASE n = 0
  <2>1. DOMAIN points = {}
    BY <1>1, <1>2
  <2>2. Upwards(p, points) = {} /\ Leftwards(p, points) = {}
    BY <2>1 DEF Upwards, Leftwards
  <2>3. QED
    BY <2>2
<1>3. CASE n > 0
  <2>1. \A i \in 1 .. n : /\ (i - 1) % n = i - 1
                          /\ i % n = IF i = n THEN 0 ELSE i
                          /\ i % n \in 0 .. n - 1
    <3> SUFFICES ASSUME NEW i \in 1 .. n
                 PROVE  /\ (i - 1) % n = i - 1
                        /\ i % n = IF i = n THEN 0 ELSE i
                        /\ i % n \in 0 .. n - 1
      OBVIOUS
    <3>1. i \in 0 .. n /\ i - 1 \in 0 .. n /\ i - 1 # n
      BY <1>1
    <3>2. (i - 1) % n = i - 1
      BY <1>1, <1>3, <3>1, ModBelow
    <3>3. i % n = (IF i = n THEN 0 ELSE i) /\ i % n \in 0 .. n - 1
      BY <1>1, <1>3, <3>1, ModBelow
    <3>4. QED
      BY <3>2, <3>3
  <2>2. \A i \in 1 .. n : /\ points[i] = at(i - 1) /\ To(points, i) = at(i)
                          /\ i \in DOMAIN points
                          /\ points[i] \in Int \X Int /\ at(i) \in Int \X Int
    <3> SUFFICES ASSUME NEW i \in 1 .. n
                 PROVE  /\ points[i] = at(i - 1) /\ To(points, i) = at(i)
                        /\ i \in DOMAIN points
                        /\ points[i] \in Int \X Int /\ at(i) \in Int \X Int
      OBVIOUS
    <3>1. (i - 1) % n = i - 1 /\ (i - 1) + 1 = i /\ (i % n) + 1 \in 1 .. n
      <4>1. (i - 1) % n = i - 1 /\ i % n \in 0 .. n - 1
        BY <2>1
      <4> DEFINE r == i % n
      <4>2. r \in 0 .. n - 1 => r + 1 \in 1 .. n
        BY <1>1
      <4>3. (i - 1) + 1 = i
        BY <1>1
      <4>4. QED
        BY <4>1, <4>2, <4>3
    <3>2. \A j \in 1 .. n : points[j] \in Int \X Int
      BY <1>1
    <3>3. QED
      BY <1>1, <3>1, <3>2 DEF To
  <2>3. at(n) = at(0)
    <3>1. 0 % n = 0 /\ n % n = 0
      BY <1>1, <1>3, ModBelow
    <3>2. QED
      BY <3>1
  <2>4. /\ H \in [0 .. n -> BOOLEAN] /\ H[n] = H[0]
        /\ \A i \in 1 .. n : H[i - 1] = Corner(p, at(i - 1)) /\ H[i] = Corner(p, at(i))
    <3>1. \A i \in 0 .. n : Corner(p, at(i)) \in BOOLEAN
      BY DEF Corner
    <3>2. \A i \in 1 .. n : i \in 0 .. n /\ i - 1 \in 0 .. n
      BY <1>1
    <3>3. 0 \in 0 .. n /\ n \in 0 .. n
      BY <1>1
    <3> HIDE DEF at
    <3>4. QED
      BY <2>3, <3>1, <3>2, <3>3
  <2> DEFINE A == Upwards(p, points)
             B == Leftwards(p, points)
  <2>5. A \subseteq 1 .. n /\ B \subseteq 1 .. n
    BY <1>1 DEF Upwards, Leftwards
  <2>6. ASSUME NEW i \in 1 .. n
        PROVE  (i \in A <=> i \in B) <=> (H[i - 1] <=> H[i])
    <3>1. ~OnEdge(p, at(i - 1), at(i))
      BY <2>2
    <3>2. at(i - 1) \in Int \X Int /\ at(i) \in Int \X Int
      BY <2>2
    <3> HIDE DEF at
    <3>3. (Crosses(p, at(i - 1), at(i)) <=> CrossesLeft(p, at(i - 1), at(i)))
              <=> (Corner(p, at(i - 1)) <=> Corner(p, at(i)))
      BY <3>1, <3>2, EdgeCrossed
    <3>4. /\ i \in A <=> Crosses(p, at(i - 1), at(i))
          /\ i \in B <=> CrossesLeft(p, at(i - 1), at(i))
      BY <2>2 DEF Upwards, Leftwards
    <3> HIDE DEF A, B, H
    <3>5. QED
      BY <2>4, <3>3, <3>4
  <2> HIDE DEF A, B, H
  <2>7. Cardinality(A) % 2 = Cardinality(B) % 2
    <3>1. Turns(A, B, H, n)
      BY <2>6 DEF Turns
    <3>2. A \in SUBSET (1 .. n) /\ B \in SUBSET (1 .. n)
      BY <2>5
    <3>3. H \in [0 .. n -> BOOLEAN] /\ H[n] = H[0]
      BY <2>4
    <3>4. QED
      BY <1>1, <3>1, <3>2, <3>3, ClosedPaths, Zenon
  <2>8. QED
    BY <2>7 DEF A, B
<1>4. QED
  BY <1>1, <1>2, <1>3

\* What InPoly answers, about what
RightlyInside ==
    AskedArea("InPoly") =>
        /\ area \in Seq(Int \X Int) /\ point \in Int \X Int
        /\ answer = IF Internal_InPoly(point, Taken) THEN "inside" ELSE "outside"

\* For every polygon, whatever its points, and every point on none of its
\* edges: the answer does not depend on the direction the ray goes.
THEOREM InsideByAnyRayCorrect == AreasSpec => []InsideByAnyRay
<1>1. AreasInit => RightlyInside
  BY DEF AreasInit, RightlyInside, AskedArea
<1>2. RightlyInside /\ [AreasNext]_areaVars => RightlyInside'
  <2> SUFFICES ASSUME RightlyInside, [AreasNext]_areaVars PROVE RightlyInside'
    OBVIOUS
  <2>1. CASE CallInPoly
    <3>1. PICK form \in Form, points \in Polygon, p \in Point, odd \in BOOLEAN :
             AreaAnswers("InPoly", points, p, InPoly(form, p, points, odd))
      BY <2>1 DEF CallInPoly
    <3>2. points \in Seq(Int \X Int) /\ p \in Int \X Int
      BY AreasAssumption
    <3>3. /\ area' = points /\ point' = p
          /\ answer' = InPoly(form, p, points, odd)
      BY <3>1 DEF AreaAnswers
    <3>4. CASE Accepted(form, points, odd)
      <4>1. Taken' = SubSeq(points, 1, Min({Len(points), MaxPoints}))
        BY <3>3 DEF Taken
      <4>2. answer' = IF Internal_InPoly(p, Taken') THEN "inside" ELSE "outside"
        BY <3>3, <3>4, <4>1 DEF InPoly
      <4>3. QED
        BY <3>2, <3>3, <4>2 DEF RightlyInside
    <3>5. CASE ~Accepted(form, points, odd)
      BY <3>3, <3>5 DEF InPoly, RightlyInside, AskedArea
    <3>6. QED
      BY <3>4, <3>5
  <2>2. CASE CallGetDistrictName
    BY <2>2 DEF CallGetDistrictName, AreaAnswers, RightlyInside, AskedArea
  <2>3. CASE AreaGoesOn
    BY <2>3 DEF AreaGoesOn, RightlyInside, AskedArea
  <2>4. CASE UNCHANGED areaVars
    BY <2>4 DEF areaVars, RightlyInside, AskedArea, Taken
  <2>5. QED
    BY <2>1, <2>2, <2>3, <2>4 DEF AreasNext
<1>3. RightlyInside => InsideByAnyRay
  <2> SUFFICES ASSUME RightlyInside, AskedArea("InPoly"),
                      \A i \in DOMAIN Taken : ~OnEdge(point, Taken[i], To(Taken, i))
               PROVE  answer = "inside" <=>
                        Quantify(DOMAIN Taken, LAMBDA i :
                            CrossesLeft(point, Taken[i], To(Taken, i))) % 2 = 1
    BY DEF InsideByAnyRay
  <2>1. /\ area \in Seq(Int \X Int) /\ point \in Int \X Int
        /\ answer = IF Internal_InPoly(point, Taken) THEN "inside" ELSE "outside"
    BY DEF RightlyInside
  <2>2. Taken \in Seq(Int \X Int)
    <3>1. Min({Len(area), MaxPoints}) \in 0 .. Len(area)
      <4> DEFINE n == Len(area)
      <4>1. n \in Nat /\ MaxPoints \in Nat
        BY <2>1, AreasAssumption
      <4> HIDE DEF n
      <4>2. Min({n, MaxPoints}) = IF n <= MaxPoints THEN n ELSE MaxPoints
        BY <4>1, MinMaxOfTwo
      <4>3. Min({n, MaxPoints}) \in 0 .. n
        BY ONLY <4>1, <4>2
      <4>4. QED
        BY <4>3 DEF n
    <3>2. QED
      <4> DEFINE k == Min({Len(area), MaxPoints})
      <4>1. \A i \in 1 .. k : area[i] \in Int \X Int
        <5>1. \A i \in 1 .. Len(area) : area[i] \in Int \X Int
          BY <2>1
        <5>2. Len(area) \in Nat /\ k \in 0 .. Len(area)
          BY <2>1, <3>1
        <5> HIDE DEF k
        <5>3. QED
          BY <5>1, <5>2
      <4>2. 1 \in Int /\ k \in Int
        BY <3>1
      <4> HIDE DEF k
      <4>3. SubSeq(area, 1, k) \in Seq(Int \X Int)
        BY <4>1, <4>2, SubSeqProperties, Zenon
      <4>4. QED
        BY <4>3 DEF Taken, k
  <2>3. Cardinality(Upwards(point, Taken)) % 2 = Cardinality(Leftwards(point, Taken)) % 2
    BY <2>1, <2>2, AnyRay
  <2>4. Internal_InPoly(point, Taken) <=> Cardinality(Upwards(point, Taken)) % 2 = 1
    BY DEF Internal_InPoly, Quantify, Upwards
  <2>5. Quantify(DOMAIN Taken, LAMBDA i : CrossesLeft(point, Taken[i], To(Taken, i)))
            = Cardinality(Leftwards(point, Taken))
    BY DEF Quantify, Leftwards
  <2>6. QED
    BY <2>1, <2>3, <2>4, <2>5
<1>4. QED
  BY <1>1, <1>2, <1>3, PTL DEF AreasSpec

-------------------------------------------------------------------------------
(* Values *)

\* Each of the 18 attributes is written by the function that belongs to the one
\* that reads it
LEMMA SetterFits ==
    ASSUME NEW a \in Attribute
    PROVE  SetterOf(GetterOf[a]) = a
  BY DEF Attribute, GetterOf, SetterOf, Of, Vector, Quaternion, ENTITY_PLAYER,
     ENTITY_VEHICLE, ENTITY_PICKUP, ENTITY_OBJECT, ENTITY_CHECKPOINT

LEMMA DivMod ==
    ASSUME NEW B \in Nat \ {0}, NEW a \in Nat, NEW b \in 0 .. B - 1
    PROVE  (a * B + b) \div B = a /\ (a * B + b) % B = b
  BY SMTT(30)

LEMMA Cube ==
    ASSUME NEW B \in Nat \ {0}, NEW x \in 0 .. B
    PROVE  x * B * B \in 0 .. B * B * B /\ x * B \in 0 .. B * B * B /\ x * B \in 0 .. B * B
<1>1. \A a, b, d \in Nat : a <= b => a * d <= b * d
  BY SMTT(30)
<1>2. x \in Nat /\ B \in Nat /\ x <= B /\ 1 <= B
  OBVIOUS
<1>3. x * B \in Nat /\ B * B \in Nat /\ x * B * B \in Nat /\ B * B * B \in Nat
  BY <1>2
<1>4. x * B <= B * B
  BY <1>1, <1>2
<1>5. x * B * B <= B * B * B
  BY <1>1, <1>2, <1>3, <1>4
<1>6. B * B <= B * B * B
  <2>1. 1 * (B * B) <= B * (B * B)
    BY <1>1, <1>2, <1>3
  <2>2. QED
    BY <1>3, <2>1
<1>7. QED
  BY <1>3, <1>4, <1>5, <1>6

\* The numbers a row of two digits stands for
LEMMA TwoDigits ==
    ASSUME NEW B \in Nat \ {0}, NEW x \in 0 .. B - 1, NEW y \in 0 .. B - 1
    PROVE  x * B + y \in 0 .. B * B - 1
<1>1. \A a, b, d \in Nat : a <= b => a * d <= b * d
  BY SMTT(30)
<1>2. x * B <= (B - 1) * B
  BY <1>1
<1>3. (B - 1) * B = B * B - B
  OBVIOUS
<1>4. x * B \in Nat /\ B * B \in Nat
  OBVIOUS
<1>5. QED
  BY <1>2, <1>3, <1>4

\* GetColour of a number of three digits
LEMMA ThreeDigits ==
    ASSUME NEW x \in 0 .. Channel - 1, NEW y \in 0 .. Channel - 1, NEW z \in 0 .. Channel - 1
    PROVE  Channels((x * Channel + y) * Channel + z) = <<x, y, z>>
<1> DEFINE top == x * Channel + y
           rest == y * Channel + z
           square == Channel * Channel
           n == top * Channel + z
<1>1. Channel \in Nat \ {0}
  BY ChannelAssumption
<1>2. top \in Nat /\ square \in Nat \ {0} /\ rest \in 0 .. square - 1
  <2>1. square \in Nat \ {0}
    BY <1>1, SMTT(30)
  <2>2. QED
    BY <1>1, <2>1, TwoDigits
<1>3. n = x * square + rest
  BY <1>1
<1>4. top % Channel = y
  <2>1. x \in Nat
    BY <1>1
  <2>2. QED
    BY Zenon, <1>1, <2>1, DivMod DEF top
<1> HIDE DEF top, rest, square
<1>5. n \div Channel = top /\ n % Channel = z
  BY Zenon, <1>1, <1>2, DivMod DEF n
<1> HIDE DEF n
<1>6. n \div square = x
  <2>1. x \in Nat
    BY <1>1
  <2>2. square \in Nat \ {0}
    BY <1>2
  <2>3. rest \in 0 .. square - 1
    BY <1>2
  <2>4. (x * square + rest) \div square = x
    BY ZenonT(30), <2>1, <2>2, <2>3, DivMod
  <2>5. QED
    BY <1>3, <2>4
<1>7. x % Channel = x
  BY <1>1
<1>8. Channels(n) = <<x, y, z>>
  BY <1>4, <1>5, <1>6, <1>7 DEF square, Channels
<1>9. QED
  BY <1>8 DEF n, top

\* toUInt of components that fit in bytes
LEMMA OrOfBytes ==
    ASSUME NEW x \in 0 .. Channel - 1, NEW y \in 0 .. Channel - 1, NEW z \in 0 .. Channel - 1
    PROVE  BitOr(BitOr(x * Channel * Channel, y * Channel), z) = (x * Channel + y) * Channel + z
<1> DEFINE top == x * Channel + y
           square == Channel * Channel
<1>1. Channel \in Nat \ {0}
  BY ChannelAssumption
<1>2. square \in Nat \ {0} /\ Channel <= square
  BY <1>1, SMTT(30)
<1>3. top \in 0 .. square - 1
  BY <1>1, TwoDigits
<1>4. y * Channel \in 0 .. square - 1
  <2>1. y * Channel + 0 \in 0 .. square - 1
    BY <1>1, TwoDigits
  <2>2. QED
    BY <1>1, <2>1
<1>5. x \in 0 .. square - 1
  BY <1>1, <1>2
<1>6. x * Channel * Channel = x * square
  BY <1>1
<1>7. x * square + y * Channel = top * Channel
  BY <1>1
<1>8. BitOr(x * square, y * Channel) = x * square + y * Channel
  BY <1>4, <1>5, OrAssumption
<1> HIDE DEF top
<1>9. BitOr(top * Channel, z) = top * Channel + z
  BY <1>3, OrAssumption
<1> HIDE DEF square
<1>10. BitOr(BitOr(x * Channel * Channel, y * Channel), z) = top * Channel + z
  BY <1>6, <1>7, <1>8, <1>9
<1>11. QED
  BY <1>10 DEF top

\* toUInt of any components
LEMMA OrIsNumber ==
    ASSUME NEW x \in 0 .. Channel, NEW y \in 0 .. Channel, NEW z \in 0 .. Channel
    PROVE  BitOr(BitOr(x * Channel * Channel, y * Channel), z) \in Nat
<1> DEFINE a == x * Channel * Channel
           b == y * Channel
           square == Channel * Channel
           cube == Channel * Channel * Channel
           high == BitOr(a, b)
<1>1. Channel \in Nat \ {0}
  BY ChannelAssumption
<1>2. a \in 0 .. cube /\ b \in 0 .. cube /\ b \in 0 .. square
  BY <1>1, Cube
<1>3. z \in 0 .. square
  <2>1. Channel \in 0 .. square
    BY <1>1, SMTT(30)
  <2>2. QED
    BY <1>1, <2>1
<1>4. cube \in Nat /\ square \in Nat /\ 2 * cube = 2 * Channel * Channel * Channel
  BY <1>1
<1>5. \A u \in 0 .. 2 * cube : \A v \in 0 .. square : BitOr(u, v) \in u .. u + v
  BY <1>4, OrBounds
<1> HIDE DEF a, b, square, cube
<1>6. high \in a .. a + b
  BY <1>2, <1>4, <1>5
<1> HIDE DEF high
<1>7. high \in 0 .. 2 * cube
  BY <1>2, <1>4, <1>6
<1>8. BitOr(high, z) \in high .. high + z
  BY <1>3, <1>5, <1>7
<1>9. BitOr(high, z) \in Nat
  BY <1>3, <1>4, <1>7, <1>8
<1>10. QED
  BY <1>9 DEF high, a, b

Channel3 == [1 .. 3 -> 0 .. Channel]

\* toUInt makes a number of any three components, and one that GetColour takes
\* apart into the same components if they fit in bytes
LEMMA ToUIntFacts ==
    ASSUME NEW c \in Channel3
    PROVE  /\ ToUInt(c)[1] \in Nat
           /\ (\A i \in 1 .. 3 : c[i] < Channel) => Channels(ToUInt(c)[1]) = c
<1> DEFINE n == BitOr(BitOr(c[1] * Channel * Channel, c[2] * Channel), c[3])
<1>1. c[1] \in 0 .. Channel /\ c[2] \in 0 .. Channel /\ c[3] \in 0 .. Channel
  BY DEF Channel3
<1>2. ToUInt(c)[1] = n
  BY DEF ToUInt
<1>3. n \in Nat
  BY <1>1, OrIsNumber
<1>4. ASSUME \A i \in 1 .. 3 : c[i] < Channel PROVE Channels(n) = c
  <2>1. /\ Channel \in Nat \ {0}
        /\ c[1] \in 0 .. Channel - 1 /\ c[2] \in 0 .. Channel - 1 /\ c[3] \in 0 .. Channel - 1
    BY <1>1, <1>4, ChannelAssumption
  <2>2. n = (c[1] * Channel + c[2]) * Channel + c[3]
    BY <2>1, OrOfBytes
  <2> HIDE DEF n
  <2>3. Channels((c[1] * Channel + c[2]) * Channel + c[3]) = <<c[1], c[2], c[3]>>
    BY <2>1, ThreeDigits
  <2>4. Channels(n) = <<c[1], c[2], c[3]>>
    BY <2>2, <2>3
  <2>5. <<c[1], c[2], c[3]>> = c
    BY DEF Channel3
  <2>6. QED
    BY <2>4, <2>5
<1>5. QED
  BY <1>2, <1>3, <1>4

\* What components and numbers can be
Held(a) == IF GetterOf[a].class = "colour" THEN Channel3 ELSE [1 .. Arity(a) -> Component \cup {0}]

ValuesTypeOK ==
    /\ attr \in Attribute
    /\ \E c \in Held(attr) : held = [of |-> GetterOf[attr], c |-> c]
    /\ GetterOf[attr].class = "colour" => there[1] \in Nat
    /\ GetterOf[attr].class # "colour" => there \in [1 .. Arity(attr) -> Component \cup {0}]

ValuesInv == ValuesTypeOK /\ InStep

Colours(a) == GetterOf[a].class = "colour"

LEMMA Arities ==
    ASSUME NEW a \in Attribute
    PROVE  /\ Arity(a) \in {3, 4}
           /\ Colours(a) => Arity(a) = 3
  BY DEF Arity, Colours

LEMMA ZerosHeld ==
    ASSUME NEW a \in Attribute
    PROVE  Zeros(a) \in Held(a)
<1>1. CASE Colours(a)
  <2>1. Zeros(a) = [i \in 1 .. 3 |-> 0]
    BY <1>1, Arities DEF Zeros
  <2>2. Held(a) = Channel3
    BY <1>1 DEF Held, Colours
  <2>3. 0 \in 0 .. Channel
    BY ChannelAssumption
  <2>4. QED
    BY <2>1, <2>2, <2>3 DEF Channel3
<1>2. CASE ~Colours(a)
  BY <1>2 DEF Zeros, Held, Colours
<1>3. QED
  BY <1>1, <1>2

LEMMA ChannelsType ==
    ASSUME NEW n \in Nat
    PROVE  Channels(n) \in Channel3 /\ Channels(0) = <<0, 0, 0>>
<1>1. Channel \in Nat \ {0} /\ Channel * Channel \in Nat \ {0}
  BY ChannelAssumption, SMTT(30)
<1>2. /\ \A m \in Nat : m % Channel \in 0 .. Channel
      /\ n \div (Channel * Channel) \in Nat /\ n \div Channel \in Nat
  BY <1>1, SMTT(30)
<1>3. 0 \div (Channel * Channel) = 0 /\ 0 \div Channel = 0 /\ 0 % Channel = 0
  BY <1>1, SMTT(30)
<1>4. QED
  BY <1>2, <1>3 DEF Channels, Channel3

\* The server's value and the script's are the same after reading
LEMMA ReadsKeeps ==
    ASSUME ValuesInv, ReadsValue
    PROVE  ValuesInv'
<1> DEFINE c == IF alive THEN FromServer(there) ELSE Zeros(attr)
<1>1. /\ held' = [of |-> GetterOf[attr], c |-> c]
      /\ same' = alive /\ attr' = attr /\ there' = there
  BY DEF ReadsValue
<1>2. attr \in Attribute
  BY DEF ValuesInv, ValuesTypeOK
<1>3. c \in Held(attr)
  <2>1. Zeros(attr) \in Held(attr)
    BY <1>2, ZerosHeld
  <2>2. FromServer(there) \in Held(attr)
    BY ChannelsType DEF FromServer, Held, ValuesInv, ValuesTypeOK
  <2>3. QED
    BY <2>1, <2>2
<1>4. ValuesTypeOK'
  BY <1>1, <1>2, <1>3 DEF ValuesTypeOK, ValuesInv, Held
<1>5. same' => FromServer(there)' = held'.c
  BY <1>1 DEF FromServer
<1>6. InStep'
  BY <1>5 DEF InStep
<1>7. QED
  BY <1>4, <1>6 DEF ValuesInv

LEMMA WritesKeeps ==
    ASSUME ValuesInv, NEW i \in 1 .. Arity(attr), NEW x \in RangeOf(attr), WritesComponent(i, x)
    PROVE  ValuesInv'
<1>1. attr \in Attribute /\ attr' = attr /\ same' = alive
  BY DEF ValuesInv, ValuesTypeOK, WritesComponent
<1>2. PICK c \in Held(attr) : held = [of |-> GetterOf[attr], c |-> c]
  BY DEF ValuesInv, ValuesTypeOK
<1> DEFINE new == [c EXCEPT ![i] = x]
<1>3. held' = [of |-> GetterOf[attr], c |-> new]
  BY <1>2 DEF WritesComponent
<1>4. new \in Held(attr)
  BY <1>1, <1>2, Arities DEF Held, RangeOf, Channel3, Colours
<1>5. there' = IF alive THEN ToServer(new) ELSE there
  <2>1. SetterOf(held.of) = attr
    BY <1>1, <1>2, SetterFits
  <2>2. held'.c = new
    BY <1>3
  <2>3. ToServer(held'.c) = ToServer(new)
    BY <2>2
  <2>4. QED
    BY <2>1, <2>3 DEF WritesComponent
<1> HIDE DEF new
<1>6. CASE Colours(attr)
  <2>1. new \in Channel3 /\ ToServer(new) = ToUInt(new)
    BY <1>4, <1>6 DEF Held, Colours, ToServer
  <2>2. there'[1] \in Nat
    BY <1>5, <1>6, <2>1, ToUIntFacts DEF Colours, ValuesInv, ValuesTypeOK
  <2>3. ValuesTypeOK'
    BY <1>1, <1>3, <1>4, <1>6, <2>2 DEF ValuesTypeOK, Held, Colours
  <2>4. ASSUME \A k \in DOMAIN new : new[k] < Channel, alive
        PROVE  FromServer(there)' = new
    <3>1. \A k \in 1 .. 3 : new[k] < Channel
      BY <2>1, <2>4 DEF Channel3
    <3>2. Channels(ToUInt(new)[1]) = new
      BY <2>1, <3>1, ToUIntFacts
    <3>3. QED
      BY <1>1, <1>5, <1>6, <2>1, <2>4, <3>2 DEF FromServer, Colours
  <2>5. InStep'
    BY <1>1, <1>3, <1>6, <2>4 DEF InStep, Colours
  <2>6. QED
    BY <2>3, <2>5 DEF ValuesInv
<1>7. CASE ~Colours(attr)
  <2>1. ToServer(new) = new /\ FromServer(there)' = there'
    BY <1>1, <1>7 DEF ToServer, FromServer, Colours
  <2>2. new \in [1 .. Arity(attr) -> Component \cup {0}]
    BY <1>4, <1>7 DEF Held, Colours
  <2>3. ValuesTypeOK'
    BY <1>1, <1>3, <1>4, <1>5, <1>7, <2>1, <2>2 DEF ValuesInv, ValuesTypeOK, Held, Colours, Arity
  <2>4. InStep'
    BY <1>1, <1>3, <1>5, <2>1 DEF InStep
  <2>5. QED
    BY <2>3, <2>4 DEF ValuesInv
<1>8. QED
  BY <1>6, <1>7

LEMMA ComputesKeeps ==
    ASSUME ValuesInv, NEW c \in [1 .. Arity(attr) -> Component], Computes(c)
    PROVE  ValuesInv'
<1>1. /\ GetterOf[attr].class # "colour" /\ same' = FALSE
      /\ attr' = attr /\ there' = there
  BY DEF Computes
<1>2. held' = [of |-> GetterOf[attr], c |-> c]
  BY DEF Computes, ValuesInv, ValuesTypeOK
<1>3. c \in Held(attr)
  BY <1>1 DEF Held
<1>4. QED
  BY <1>1, <1>2, <1>3 DEF ValuesInv, ValuesTypeOK, InStep, Held, Arity

LEMMA ValuesNextInv ==
    ASSUME ValuesInv, [ValuesNext]_valueVars
    PROVE  ValuesInv'
<1>1. CASE ReadsValue
  BY <1>1, ReadsKeeps
<1>2. ASSUME NEW i \in 1 .. Arity(attr), NEW x \in RangeOf(attr), WritesComponent(i, x)
      PROVE  ValuesInv'
  BY <1>2, WritesKeeps
<1>3. ASSUME NEW c \in [1 .. Arity(attr) -> Component], Computes(c) PROVE ValuesInv'
  BY <1>3, ComputesKeeps
<1>4. ASSUME NEW x \in OnServer(attr), EntityChanges(x) PROVE ValuesInv'
  <2>1. /\ there' = x /\ same' = FALSE /\ attr' = attr /\ held' = held
    BY <1>4 DEF EntityChanges
  <2>2. /\ GetterOf[attr].class = "colour" => x[1] \in Nat
        /\ GetterOf[attr].class # "colour" => x \in [1 .. Arity(attr) -> Component \cup {0}]
    BY ChannelAssumption DEF OnServer
  <2>3. QED
    BY <2>1, <2>2 DEF ValuesInv, ValuesTypeOK, InStep, Held, Arity
<1>5. CASE EntityGoes
  BY <1>5 DEF EntityGoes, ValuesInv, ValuesTypeOK, InStep, Held, Arity
<1>6. CASE UNCHANGED valueVars
  BY <1>6 DEF valueVars, ValuesInv, ValuesTypeOK, InStep, Held, Arity, FromServer
<1>7. QED
  BY <1>1, <1>2, <1>3, <1>4, <1>5, <1>6 DEF ValuesNext

LEMMA ValuesInitInv == ValuesInit => ValuesInv
<1> SUFFICES ASSUME ValuesInit PROVE ValuesInv
  OBVIOUS
<1>1. /\ attr \in Attribute /\ held = [of |-> GetterOf[attr], c |-> Zeros(attr)]
      /\ there = IF Colours(attr) THEN <<0>> ELSE Zeros(attr)
  BY DEF ValuesInit, Colours
<1>2. Zeros(attr) \in Held(attr)
  BY <1>1, ZerosHeld
<1>3. ValuesTypeOK
  BY <1>1, <1>2 DEF ValuesTypeOK, Colours, Held
<1>4. FromServer(there) = Zeros(attr)
  <2>1. CASE Colours(attr)
    <3>1. there[1] = 0 /\ Arity(attr) = 3
      BY <1>1, <2>1, Arities
    <3>2. FromServer(there) = <<0, 0, 0>>
      BY <2>1, <3>1, ChannelsType DEF FromServer, Colours
    <3>3. Zeros(attr) = <<0, 0, 0>>
      BY <3>1 DEF Zeros
    <3>4. QED
      BY <3>2, <3>3
  <2>2. CASE ~Colours(attr)
    BY <1>1, <2>2 DEF FromServer, Colours
  <2>3. QED
    BY <2>1, <2>2
<1>5. QED
  BY <1>1, <1>3, <1>4 DEF ValuesInv, InStep

\* Assigning to one component leaves the server with what the script holds, and
\* reading leaves the script with what the server has, for components and bytes of
\* any size and for each of the 18 attributes.
THEOREM InStepCorrect == ValuesSpec => []InStep
<1>1. ValuesInit => ValuesInv
  BY ValuesInitInv
<1>2. ValuesInv /\ [ValuesNext]_valueVars => ValuesInv'
  BY ValuesNextInv
<1>3. ValuesInv => InStep
  BY DEF ValuesInv
<1>4. QED
  BY <1>1, <1>2, <1>3, PTL DEF ValuesSpec

-------------------------------------------------------------------------------
(* Switches *)

\* Each name, getter and setter is in one table only
LEMMA GetterRows ==
    /\ \A f \in DOMAIN ServerGetters : f \in DOMAIN Getter /\ Getter[f] = ServerGetters[f]
    /\ \A f \in DOMAIN RuleGetters : f \in DOMAIN Getter /\ Getter[f] = RuleGetters[f]
    /\ \A f \in DOMAIN PlayerGetters : f \in DOMAIN Getter /\ Getter[f] = PlayerGetters[f]
    /\ \A f \in DOMAIN MarkerGetters : f \in DOMAIN Getter /\ Getter[f] = MarkerGetters[f]
    /\ \A f \in DOMAIN ScreenGetters : f \in DOMAIN Getter /\ Getter[f] = ScreenGetters[f]
    /\ \A f \in DOMAIN VehicleGetters : f \in DOMAIN Getter /\ Getter[f] = VehicleGetters[f]
    /\ \A f \in DOMAIN LateVehicleGetters : f \in DOMAIN Getter /\ Getter[f] = LateVehicleGetters[f]
    /\ \A f \in DOMAIN OtherGetters : f \in DOMAIN Getter /\ Getter[f] = OtherGetters[f]
<1>1. ASSUME NEW f \in DOMAIN ServerGetters
      PROVE  f \in DOMAIN Getter /\ Getter[f] = ServerGetters[f]
  BY SMT DEF Getter, Joined
<1>2. ASSUME NEW f \in DOMAIN RuleGetters
      PROVE  f \in DOMAIN Getter /\ Getter[f] = RuleGetters[f]
  <2>1. f \notin DOMAIN ServerGetters
    BY SMT DEF ServerGetters, RuleGetters
  <2>2. QED
    BY SMT, <2>1 DEF Getter, Joined
<1>3. ASSUME NEW f \in DOMAIN PlayerGetters
      PROVE  f \in DOMAIN Getter /\ Getter[f] = PlayerGetters[f]
  <2>1. f \notin DOMAIN ServerGetters /\ f \notin DOMAIN RuleGetters
    BY SMT DEF ServerGetters, RuleGetters, PlayerGetters
  <2>2. QED
    BY SMT, <2>1 DEF Getter, Joined
<1>4. ASSUME NEW f \in DOMAIN MarkerGetters
      PROVE  f \in DOMAIN Getter /\ Getter[f] = MarkerGetters[f]
  <2>1. /\ f \notin DOMAIN ServerGetters /\ f \notin DOMAIN RuleGetters
        /\ f \notin DOMAIN PlayerGetters
    BY SMT DEF ServerGetters, RuleGetters, PlayerGetters, MarkerGetters
  <2>2. QED
    BY SMT, <2>1 DEF Getter, Joined
<1>5. ASSUME NEW f \in DOMAIN ScreenGetters
      PROVE  f \in DOMAIN Getter /\ Getter[f] = ScreenGetters[f]
  <2>1. /\ f \notin DOMAIN ServerGetters /\ f \notin DOMAIN RuleGetters
        /\ f \notin DOMAIN PlayerGetters /\ f \notin DOMAIN MarkerGetters
    BY SMT DEF ServerGetters, RuleGetters, PlayerGetters, MarkerGetters, ScreenGetters
  <2>2. QED
    BY SMT, <2>1 DEF Getter, Joined
<1>6. ASSUME NEW f \in DOMAIN VehicleGetters
      PROVE  f \in DOMAIN Getter /\ Getter[f] = VehicleGetters[f]
  <2>1. /\ f \notin DOMAIN ServerGetters /\ f \notin DOMAIN RuleGetters
        /\ f \notin DOMAIN PlayerGetters /\ f \notin DOMAIN MarkerGetters
        /\ f \notin DOMAIN ScreenGetters
    BY SMT DEF ServerGetters, RuleGetters, PlayerGetters, MarkerGetters, ScreenGetters,
       VehicleGetters
  <2>2. QED
    BY SMT, <2>1 DEF Getter, Joined
<1>7. ASSUME NEW f \in DOMAIN LateVehicleGetters
      PROVE  f \in DOMAIN Getter /\ Getter[f] = LateVehicleGetters[f]
  <2>1. /\ f \notin DOMAIN ServerGetters /\ f \notin DOMAIN RuleGetters
        /\ f \notin DOMAIN PlayerGetters /\ f \notin DOMAIN MarkerGetters
        /\ f \notin DOMAIN ScreenGetters /\ f \notin DOMAIN VehicleGetters
    BY SMT DEF ServerGetters, RuleGetters, PlayerGetters, MarkerGetters, ScreenGetters,
       VehicleGetters, LateVehicleGetters
  <2>2. QED
    BY SMT, <2>1 DEF Getter, Joined
<1>8. ASSUME NEW f \in DOMAIN OtherGetters
      PROVE  f \in DOMAIN Getter /\ Getter[f] = OtherGetters[f]
  <2>1. /\ f \notin DOMAIN ServerGetters /\ f \notin DOMAIN RuleGetters
        /\ f \notin DOMAIN PlayerGetters /\ f \notin DOMAIN MarkerGetters
        /\ f \notin DOMAIN ScreenGetters /\ f \notin DOMAIN VehicleGetters
        /\ f \notin DOMAIN LateVehicleGetters
    BY SMT DEF ServerGetters, RuleGetters, PlayerGetters, MarkerGetters, ScreenGetters,
       VehicleGetters, LateVehicleGetters, OtherGetters
  <2>2. QED
    BY SMT, <2>1 DEF Getter, Joined
<1>9. QED
  BY <1>1, <1>2, <1>3, <1>4, <1>5, <1>6, <1>7, <1>8

LEMMA SetterRows ==
    /\ \A f \in DOMAIN ServerSetters : f \in DOMAIN Setter /\ Setter[f] = ServerSetters[f]
    /\ \A f \in DOMAIN RuleSetters : f \in DOMAIN Setter /\ Setter[f] = RuleSetters[f]
    /\ \A f \in DOMAIN PlayerSetters : f \in DOMAIN Setter /\ Setter[f] = PlayerSetters[f]
    /\ \A f \in DOMAIN MarkerSetters : f \in DOMAIN Setter /\ Setter[f] = MarkerSetters[f]
    /\ \A f \in DOMAIN ScreenSetters : f \in DOMAIN Setter /\ Setter[f] = ScreenSetters[f]
    /\ \A f \in DOMAIN VehicleSetters : f \in DOMAIN Setter /\ Setter[f] = VehicleSetters[f]
    /\ \A f \in DOMAIN LateVehicleSetters : f \in DOMAIN Setter /\ Setter[f] = LateVehicleSetters[f]
    /\ \A f \in DOMAIN OtherSetters : f \in DOMAIN Setter /\ Setter[f] = OtherSetters[f]
<1>1. ASSUME NEW f \in DOMAIN ServerSetters
      PROVE  f \in DOMAIN Setter /\ Setter[f] = ServerSetters[f]
  BY SMT DEF Setter, Joined
<1>2. ASSUME NEW f \in DOMAIN RuleSetters
      PROVE  f \in DOMAIN Setter /\ Setter[f] = RuleSetters[f]
  <2>1. f \notin DOMAIN ServerSetters
    BY SMT DEF ServerSetters, RuleSetters
  <2>2. QED
    BY SMT, <2>1 DEF Setter, Joined
<1>3. ASSUME NEW f \in DOMAIN PlayerSetters
      PROVE  f \in DOMAIN Setter /\ Setter[f] = PlayerSetters[f]
  <2>1. f \notin DOMAIN ServerSetters /\ f \notin DOMAIN RuleSetters
    BY SMT DEF ServerSetters, RuleSetters, PlayerSetters
  <2>2. QED
    BY SMT, <2>1 DEF Setter, Joined
<1>4. ASSUME NEW f \in DOMAIN MarkerSetters
      PROVE  f \in DOMAIN Setter /\ Setter[f] = MarkerSetters[f]
  <2>1. /\ f \notin DOMAIN ServerSetters /\ f \notin DOMAIN RuleSetters
        /\ f \notin DOMAIN PlayerSetters
    BY SMT DEF ServerSetters, RuleSetters, PlayerSetters, MarkerSetters
  <2>2. QED
    BY SMT, <2>1 DEF Setter, Joined
<1>5. ASSUME NEW f \in DOMAIN ScreenSetters
      PROVE  f \in DOMAIN Setter /\ Setter[f] = ScreenSetters[f]
  <2>1. /\ f \notin DOMAIN ServerSetters /\ f \notin DOMAIN RuleSetters
        /\ f \notin DOMAIN PlayerSetters /\ f \notin DOMAIN MarkerSetters
    BY SMT DEF ServerSetters, RuleSetters, PlayerSetters, MarkerSetters, ScreenSetters
  <2>2. QED
    BY SMT, <2>1 DEF Setter, Joined
<1>6. ASSUME NEW f \in DOMAIN VehicleSetters
      PROVE  f \in DOMAIN Setter /\ Setter[f] = VehicleSetters[f]
  <2>1. /\ f \notin DOMAIN ServerSetters /\ f \notin DOMAIN RuleSetters
        /\ f \notin DOMAIN PlayerSetters /\ f \notin DOMAIN MarkerSetters
        /\ f \notin DOMAIN ScreenSetters
    BY SMT DEF ServerSetters, RuleSetters, PlayerSetters, MarkerSetters, ScreenSetters,
       VehicleSetters
  <2>2. QED
    BY SMT, <2>1 DEF Setter, Joined
<1>7. ASSUME NEW f \in DOMAIN LateVehicleSetters
      PROVE  f \in DOMAIN Setter /\ Setter[f] = LateVehicleSetters[f]
  <2>1. /\ f \notin DOMAIN ServerSetters /\ f \notin DOMAIN RuleSetters
        /\ f \notin DOMAIN PlayerSetters /\ f \notin DOMAIN MarkerSetters
        /\ f \notin DOMAIN ScreenSetters /\ f \notin DOMAIN VehicleSetters
    BY SMT DEF ServerSetters, RuleSetters, PlayerSetters, MarkerSetters, ScreenSetters,
       VehicleSetters, LateVehicleSetters
  <2>2. QED
    BY SMT, <2>1 DEF Setter, Joined
<1>8. ASSUME NEW f \in DOMAIN OtherSetters
      PROVE  f \in DOMAIN Setter /\ Setter[f] = OtherSetters[f]
  <2>1. /\ f \notin DOMAIN ServerSetters /\ f \notin DOMAIN RuleSetters
        /\ f \notin DOMAIN PlayerSetters /\ f \notin DOMAIN MarkerSetters
        /\ f \notin DOMAIN ScreenSetters /\ f \notin DOMAIN VehicleSetters
        /\ f \notin DOMAIN LateVehicleSetters
    BY SMT DEF ServerSetters, RuleSetters, PlayerSetters, MarkerSetters, ScreenSetters,
       VehicleSetters, LateVehicleSetters, OtherSetters
  <2>2. QED
    BY SMT, <2>1 DEF Setter, Joined
<1>9. QED
  BY <1>1, <1>2, <1>3, <1>4, <1>5, <1>6, <1>7, <1>8

LEMMA NamesRows ==
    /\ \A f \in DOMAIN GlobalNames : f \in DOMAIN Names /\ Names[f] = GlobalNames[f]
    /\ \A f \in DOMAIN RuleNames : f \in DOMAIN Names /\ Names[f] = RuleNames[f]
    /\ \A f \in DOMAIN ScreenNames : f \in DOMAIN Names /\ Names[f] = ScreenNames[f]
    /\ \A f \in DOMAIN PlayerNames : f \in DOMAIN Names /\ Names[f] = PlayerNames[f]
    /\ \A f \in DOMAIN VehicleNames : f \in DOMAIN Names /\ Names[f] = VehicleNames[f]
    /\ \A f \in DOMAIN OtherNames : f \in DOMAIN Names /\ Names[f] = OtherNames[f]
<1>1. ASSUME NEW f \in DOMAIN GlobalNames PROVE f \in DOMAIN Names /\ Names[f] = GlobalNames[f]
  BY SMT DEF Names, Joined
<1>2. ASSUME NEW f \in DOMAIN RuleNames PROVE f \in DOMAIN Names /\ Names[f] = RuleNames[f]
  <2>1. f \notin DOMAIN GlobalNames
    BY SMT DEF GlobalNames, RuleNames
  <2>2. QED
    BY SMT, <2>1 DEF Names, Joined
<1>3. ASSUME NEW f \in DOMAIN ScreenNames PROVE f \in DOMAIN Names /\ Names[f] = ScreenNames[f]
  <2>1. f \notin DOMAIN GlobalNames /\ f \notin DOMAIN RuleNames
    BY SMT DEF GlobalNames, RuleNames, ScreenNames
  <2>2. QED
    BY SMT, <2>1 DEF Names, Joined
<1>4. ASSUME NEW f \in DOMAIN PlayerNames PROVE f \in DOMAIN Names /\ Names[f] = PlayerNames[f]
  <2>1. f \notin DOMAIN GlobalNames /\ f \notin DOMAIN RuleNames /\ f \notin DOMAIN ScreenNames
    BY SMT DEF GlobalNames, RuleNames, ScreenNames, PlayerNames
  <2>2. QED
    BY SMT, <2>1 DEF Names, Joined
<1>5. ASSUME NEW f \in DOMAIN VehicleNames
      PROVE  f \in DOMAIN Names /\ Names[f] = VehicleNames[f]
  <2>1. /\ f \notin DOMAIN GlobalNames /\ f \notin DOMAIN RuleNames
        /\ f \notin DOMAIN ScreenNames /\ f \notin DOMAIN PlayerNames
    BY SMT DEF GlobalNames, RuleNames, ScreenNames, PlayerNames, VehicleNames
  <2>2. QED
    BY SMT, <2>1 DEF Names, Joined
<1>6. ASSUME NEW f \in DOMAIN OtherNames PROVE f \in DOMAIN Names /\ Names[f] = OtherNames[f]
  <2>1. /\ f \notin DOMAIN GlobalNames /\ f \notin DOMAIN RuleNames
        /\ f \notin DOMAIN ScreenNames /\ f \notin DOMAIN PlayerNames
        /\ f \notin DOMAIN VehicleNames
    BY SMT DEF GlobalNames, RuleNames, ScreenNames, PlayerNames, VehicleNames, OtherNames
  <2>2. QED
    BY SMT, <2>1 DEF Names, Joined
<1>7. QED
  BY <1>1, <1>2, <1>3, <1>4, <1>5, <1>6

\* The name of what each option is about; Canon picks it where scripts have two
NameOf ==
    [SyncFrameLimiter |-> "SyncFrameLimiter", FrameLimiter |-> "FrameLimiter",
     TaxiBoostJump |-> "TaxiBoostJump", DriveOnWater |-> "DriveOnWater",
     FastSwitch |-> "FastSwitch", FriendlyFire |-> "FriendlyFire",
     DisableDriveBy |-> "DrivebyEnabled", PerfectHandling |-> "PerfectHandling",
     FlyingCars |-> "FlyingCars", JumpSwitch |-> "JumpSwitch",
     ShowMarkers |-> "ShowOnRadar", OnlyShowTeamMarkers |-> "ShowOnlyTeamMarkers",
     StuntBike |-> "StuntBike", ShootInAir |-> "ShootInAir",
     ShowNameTags |-> "ShowNametags", JoinMessages |-> "JoinMessages",
     DeathMessages |-> "DeathMessages", WallGlitch |-> "Wallglitch",
     DisableBackfaceCulling |-> "BackfaceCullingDisabled",
     DisableHeliBladeDamage |-> "HeliBladeDamageDisabled",
     DisableCrouch |-> "CrouchEnabled", UseClasses |-> "UseClasses",
     Controllable |-> "Frozen", DriveBy |-> "CanDriveby",
     WhiteScanlines |-> "WhiteScanlines", GreenScanlines |-> "GreenScanlines",
     Widescreen |-> "Widescreen", HasMarker |-> "HasMarker",
     CanAttack |-> "CanAttack", ChatTagsEnabled |-> "HasChatTags",
     DrunkEffectsDeprecated |-> "IsDrunk", DoorsLocked |-> "Locked",
     Alarm |-> "Alarm", Siren |-> "Siren", Lights |-> "Lights",
     SingleUse |-> "SingleUse", RadioLocked |-> "RadioLocked", Ghost |-> "IsGhost",
     EngineDisabled |-> "EngineEnabled", BonnetOpen |-> "BonnetOpen",
     BootOpen |-> "BootOpen", PlayerShowMarkers |-> "ShowMarkers",
     Bleeding |-> "Bleeding", PickupSingleUse |-> "PickupSingleUse",
     IsAutomatic |-> "Automatic", ShotReport |-> "TrackingShots",
     TouchedReport |-> "TrackingBumps"]

Canon(n) ==
    CASE n = "IsWeaponSyncBlocked" -> "CanAttack"
      [] n = "DrivebyAbility" -> "CanDriveby"
      [] n = "IsFrozen" -> "Frozen"
      [] n = "IsOnRadar" -> "HasMarker"
      [] n = "CinematicBorder" -> "Widescreen"
      [] n = "GreenScanLines" -> "GreenScanlines"
      [] n = "WhiteScanLines" -> "WhiteScanlines"
      [] OTHER -> n

\* The way of n to read and the way to write agree, and n is what is read and written
Right(n) ==
    /\ Names[n][1] \in DOMAIN Getter /\ Names[n][2] \in DOMAIN Setter
    /\ Getter[Names[n][1]] = Setter[Names[n][2]]
    /\ Setter[Names[n][2]].option \in DOMAIN NameOf
    /\ NameOf[Setter[Names[n][2]].option] = Canon(n)
    /\ Setter[Names[n][2]].straight \in BOOLEAN

LEMMA Says ==
    \A o : /\ As(o).option = o /\ As(o).straight \in BOOLEAN
          /\ Opposite(o).option = o /\ Opposite(o).straight \in BOOLEAN
  BY DEF As, Opposite

LEMMA AllRight == \A n \in DOMAIN Names : Right(n)
<1>1. ASSUME NEW n \in DOMAIN GlobalNames PROVE Right(n)
  <2>1. /\ /\ GlobalNames[n][1] \in DOMAIN ServerGetters
        /\ GlobalNames[n][2] \in DOMAIN ServerSetters
        /\ ServerGetters[GlobalNames[n][1]] = ServerSetters[GlobalNames[n][2]]
    BY SMT DEF GlobalNames, ServerGetters, ServerSetters
  <2>2. /\ ServerSetters[GlobalNames[n][2]].option \in DOMAIN NameOf
        /\ NameOf[ServerSetters[GlobalNames[n][2]].option] = Canon(n)
    BY SMT, Says DEF GlobalNames, ServerSetters, NameOf, Canon
  <2>3. ServerSetters[GlobalNames[n][2]].straight \in BOOLEAN
    BY SMT, Says DEF GlobalNames, ServerSetters
  <2>4. QED
    BY SMT, <2>1, <2>2, <2>3, NamesRows, GetterRows, SetterRows DEF Right
<1>2. ASSUME NEW n \in DOMAIN RuleNames PROVE Right(n)
  <2>1. /\ RuleNames[n][1] \in DOMAIN RuleGetters /\ RuleNames[n][2] \in DOMAIN RuleSetters
        /\ RuleGetters[RuleNames[n][1]] = RuleSetters[RuleNames[n][2]]
    BY SMT DEF RuleNames, RuleGetters, RuleSetters
  <2>2. /\ RuleSetters[RuleNames[n][2]].option \in DOMAIN NameOf
        /\ NameOf[RuleSetters[RuleNames[n][2]].option] = Canon(n)
    BY SMT, Says DEF RuleNames, RuleSetters, NameOf, Canon
  <2>3. RuleSetters[RuleNames[n][2]].straight \in BOOLEAN
    BY SMT, Says DEF RuleNames, RuleSetters
  <2>4. QED
    BY SMT, <2>1, <2>2, <2>3, NamesRows, GetterRows, SetterRows DEF Right
<1>3. ASSUME NEW n \in DOMAIN ScreenNames PROVE Right(n)
  <2>1. /\ /\ ScreenNames[n][1] \in DOMAIN ScreenGetters
        /\ ScreenNames[n][2] \in DOMAIN ScreenSetters
        /\ ScreenGetters[ScreenNames[n][1]] = ScreenSetters[ScreenNames[n][2]]
    BY SMT DEF ScreenNames, ScreenGetters, ScreenSetters
  <2>2. /\ ScreenSetters[ScreenNames[n][2]].option \in DOMAIN NameOf
        /\ NameOf[ScreenSetters[ScreenNames[n][2]].option] = Canon(n)
    BY SMT, Says DEF ScreenNames, ScreenSetters, NameOf, Canon
  <2>3. ScreenSetters[ScreenNames[n][2]].straight \in BOOLEAN
    BY SMT, Says DEF ScreenNames, ScreenSetters
  <2>4. QED
    BY SMT, <2>1, <2>2, <2>3, NamesRows, GetterRows, SetterRows DEF Right
<1>4. ASSUME NEW n \in DOMAIN PlayerNames PROVE Right(n)
  <2>1. Names[n] = PlayerNames[n]
    BY NamesRows
  <2>2. /\ PlayerNames[n][1] \in DOMAIN Getter /\ PlayerNames[n][2] \in DOMAIN Setter
        /\ Getter[PlayerNames[n][1]] = Setter[PlayerNames[n][2]]
    BY SMTT(60), GetterRows, SetterRows DEF PlayerNames, PlayerGetters, PlayerSetters,
       MarkerGetters, MarkerSetters, OtherGetters, OtherSetters
  <2>3. /\ Setter[PlayerNames[n][2]].option \in DOMAIN NameOf
        /\ NameOf[Setter[PlayerNames[n][2]].option] = Canon(n)
    BY SMTT(60), SetterRows, Says DEF PlayerNames, PlayerSetters, MarkerSetters,
       OtherSetters, NameOf, Canon
  <2>4. Setter[PlayerNames[n][2]].straight \in BOOLEAN
    BY SMTT(60), SetterRows, Says DEF PlayerNames, PlayerSetters, MarkerSetters, OtherSetters
  <2>5. QED
    BY SMT, <2>1, <2>2, <2>3, <2>4 DEF Right
<1>5. ASSUME NEW n \in DOMAIN VehicleNames PROVE Right(n)
  <2>1. Names[n] = VehicleNames[n]
    BY NamesRows
  <2>2. /\ VehicleNames[n][1] \in DOMAIN Getter /\ VehicleNames[n][2] \in DOMAIN Setter
        /\ Getter[VehicleNames[n][1]] = Setter[VehicleNames[n][2]]
    BY SMTT(60), GetterRows, SetterRows DEF VehicleNames, VehicleGetters, VehicleSetters,
       LateVehicleGetters, LateVehicleSetters, OtherGetters, OtherSetters
  <2>3. /\ Setter[VehicleNames[n][2]].option \in DOMAIN NameOf
        /\ NameOf[Setter[VehicleNames[n][2]].option] = Canon(n)
    BY SMTT(60), SetterRows, Says DEF VehicleNames, VehicleSetters, LateVehicleSetters,
       OtherSetters, NameOf, Canon
  <2>4. Setter[VehicleNames[n][2]].straight \in BOOLEAN
    BY SMTT(60), SetterRows, Says DEF VehicleNames, VehicleSetters, LateVehicleSetters,
       OtherSetters
  <2>5. QED
    BY SMT, <2>1, <2>2, <2>3, <2>4 DEF Right
<1>6. ASSUME NEW n \in DOMAIN OtherNames PROVE Right(n)
  <2>1. /\ OtherNames[n][1] \in DOMAIN OtherGetters /\ OtherNames[n][2] \in DOMAIN OtherSetters
        /\ OtherGetters[OtherNames[n][1]] = OtherSetters[OtherNames[n][2]]
    BY SMT DEF OtherNames, OtherGetters, OtherSetters
  <2>2. /\ OtherSetters[OtherNames[n][2]].option \in DOMAIN NameOf
        /\ NameOf[OtherSetters[OtherNames[n][2]].option] = Canon(n)
    BY SMT, Says DEF OtherNames, OtherSetters, NameOf, Canon
  <2>3. OtherSetters[OtherNames[n][2]].straight \in BOOLEAN
    BY SMT, Says DEF OtherNames, OtherSetters
  <2>4. QED
    BY SMT, <2>1, <2>2, <2>3, NamesRows, GetterRows, SetterRows DEF Right
<1>7. QED
  BY <1>1, <1>2, <1>3, <1>4, <1>5, <1>6 DEF Names, Joined


\* Names of one thing are read and written alike, and no two things share an option
LEMMA TwinsAgree ==
    /\ Setter[Names["CanAttack"][2]] = Setter[Names["IsWeaponSyncBlocked"][2]]
    /\ Setter[Names["CanDriveby"][2]] = Setter[Names["DrivebyAbility"][2]]
    /\ Setter[Names["Frozen"][2]] = Setter[Names["IsFrozen"][2]]
    /\ Setter[Names["HasMarker"][2]] = Setter[Names["IsOnRadar"][2]]
    /\ Setter[Names["Widescreen"][2]] = Setter[Names["CinematicBorder"][2]]
    /\ Setter[Names["GreenScanlines"][2]] = Setter[Names["GreenScanLines"][2]]
    /\ Setter[Names["WhiteScanlines"][2]] = Setter[Names["WhiteScanLines"][2]]
  BY SMTT(30), NamesRows, SetterRows DEF PlayerNames, ScreenNames, PlayerSetters,
     MarkerSetters, ScreenSetters

LEMMA OneThing ==
    ASSUME NEW n \in DOMAIN Names, NEW m \in DOMAIN Names
    PROVE  /\ Same(n, m) => Setter[Names[n][2]] = Setter[Names[m][2]]
           /\ ~Same(n, m) => Setter[Names[n][2]].option # Setter[Names[m][2]].option
<1>1. ASSUME Same(n, m) PROVE Setter[Names[n][2]] = Setter[Names[m][2]]
  BY <1>1, TwinsAgree DEF Same, Twins
<1>2. ASSUME Setter[Names[n][2]].option = Setter[Names[m][2]].option PROVE Same(n, m)
  <2>1. Canon(n) = Canon(m)
    BY <1>2, AllRight DEF Right
  <2>2. QED
    BY <2>1, SMTT(30) DEF Canon, Same, Twins
<1>3. QED
  BY <1>1, <1>2

OptionSet == {Setter[f].option : f \in DOMAIN Setter}

SwitchesInv ==
    /\ option \in [OptionSet -> BOOLEAN]
    /\ DOMAIN wanted \subseteq DOMAIN Names
    /\ \A n \in DOMAIN wanted : wanted[n] \in BOOLEAN
    /\ SwitchesKept

LEMMA AssignmentKeeps ==
    ASSUME SwitchesInv, NEW n \in DOMAIN Names, NEW on \in BOOLEAN, NEW value \in BOOLEAN,
           value <=> (on <=> Setter[Names[n][2]].straight),
           Wants(n, on), Puts(Setter[Names[n][2]].option, value)
    PROVE  SwitchesInv'
<1> DEFINE twins == {m \in DOMAIN Names : Same(m, n)}
           o == Setter[Names[n][2]].option
<1>1. wanted' = Joined([m \in twins |-> on], wanted) /\ option' = [option EXCEPT ![o] = value]
  BY DEF Wants, Puts
<1>2. /\ DOMAIN wanted' = twins \cup DOMAIN wanted
      /\ \A m \in twins : wanted'[m] = on
      /\ \A m \in DOMAIN wanted : m \notin twins => wanted'[m] = wanted[m]
  BY <1>1 DEF Joined
<1>3. /\ Names[n][2] \in DOMAIN Setter /\ o \in OptionSet
  BY AllRight DEF Right, OptionSet
<1>4. /\ option' \in [OptionSet -> BOOLEAN]
      /\ option'[o] = value
      /\ \A p \in OptionSet : p # o => option'[p] = option[p]
  BY <1>1, <1>3 DEF SwitchesInv
<1>5. DOMAIN wanted' \subseteq DOMAIN Names /\ \A m \in DOMAIN wanted' : wanted'[m] \in BOOLEAN
  BY <1>2 DEF SwitchesInv
<1>6. ASSUME NEW m \in DOMAIN wanted' PROVE Reads(m)' = wanted'[m]
  <2>1. m \in DOMAIN Names
    BY <1>2, <1>6 DEF SwitchesInv
  <2> DEFINE getter == Getter[Names[m][1]]
  <2>2. /\ getter = Setter[Names[m][2]] /\ getter.straight \in BOOLEAN
        /\ getter.option \in OptionSet
    BY <2>1, AllRight DEF Right, OptionSet
  <2>3. Reads(m)' = (option'[getter.option] = getter.straight)
    BY DEF Reads
  <2>4. Reads(m) = (option[getter.option] = getter.straight)
    BY DEF Reads
  <2>5. CASE m \in twins
    <3>1. getter = Setter[Names[n][2]]
      BY <2>1, <2>2, <2>5, OneThing
    <3>2. option'[getter.option] = value /\ (value <=> (on <=> getter.straight))
      BY <1>4, <3>1
    <3>3. wanted'[m] = on
      BY <1>2, <2>5
    <3>4. Reads(m)' = (value = getter.straight)
      BY <2>3, <3>2
    <3>5. (value = getter.straight) = on
      BY <2>2, <3>2
    <3>6. QED
      BY <3>3, <3>4, <3>5
  <2>6. CASE m \notin twins
    <3>1. m \in DOMAIN wanted /\ wanted'[m] = wanted[m]
      BY <1>2, <1>6, <2>6
    <3>2. getter.option # o
      BY <2>1, <2>2, <2>6, OneThing
    <3>3. option'[getter.option] = option[getter.option]
      BY <1>4, <2>2, <3>2
    <3>4. Reads(m) = wanted[m]
      BY <3>1 DEF SwitchesInv, SwitchesKept
    <3>5. QED
      BY <2>3, <2>4, <3>1, <3>3, <3>4
  <2>7. QED
    BY <2>5, <2>6
<1>7. SwitchesKept'
  BY <1>6 DEF SwitchesKept
<1>8. QED
  BY <1>4, <1>5, <1>7 DEF SwitchesInv

LEMMA DrunkAndMarker ==
    /\ "IsDrunk" \in DOMAIN Names /\ "HasMarker" \in DOMAIN Names
    /\ Setter[Names["IsDrunk"][2]] = As("DrunkEffectsDeprecated")
    /\ Setter[Names["HasMarker"][2]] = As("HasMarker")
    /\ \A o : As(o).straight = TRUE
<1>1. /\ "IsDrunk" \in DOMAIN PlayerNames /\ "HasMarker" \in DOMAIN PlayerNames
      /\ PlayerNames["IsDrunk"] = <<"GetDrunkStatus", "SetDrunkStatus">>
      /\ PlayerNames["HasMarker"] = <<"GetMarkerVisible", "SetMarkerVisible">>
  BY SMT DEF PlayerNames
<1>2. /\ "SetDrunkStatus" \in DOMAIN MarkerSetters /\ "SetMarkerVisible" \in DOMAIN MarkerSetters
      /\ MarkerSetters["SetDrunkStatus"] = As("DrunkEffectsDeprecated")
      /\ MarkerSetters["SetMarkerVisible"] = As("HasMarker")
  BY SMT DEF MarkerSetters
<1>3. \A o : As(o).straight = TRUE
  BY DEF As
<1>4. QED
  BY <1>1, <1>2, <1>3, NamesRows, SetterRows

LEMMA SwitchesNextInv ==
    ASSUME SwitchesInv, [SwitchesNext]_switchVars
    PROVE  SwitchesInv'
<1>1. ASSUME NEW n \in DOMAIN Names, NEW on \in BOOLEAN, Assigns(n, on) PROVE SwitchesInv'
  <2> DEFINE value == Written(Names[n][2], on)
  <2>1. value \in BOOLEAN /\ (value <=> (on <=> Setter[Names[n][2]].straight))
    BY AllRight DEF Written, Right
  <2>2. Wants(n, on) /\ Puts(Setter[Names[n][2]].option, value)
    BY <1>1 DEF Assigns
  <2> HIDE DEF value
  <2>3. QED
    BY <2>1, <2>2, AssignmentKeeps
<1>2. ASSUME NEW visuals, NEW handling, SetDrunkLevel(visuals, handling) PROVE SwitchesInv'
  <2> DEFINE drunk == ~(visuals <= 0 /\ handling <= 0)
  <2>1. Wants("IsDrunk", drunk) /\ Puts("DrunkEffectsDeprecated", drunk) /\ drunk \in BOOLEAN
    BY <1>2 DEF SetDrunkLevel
  <2> HIDE DEF drunk
  <2>2. /\ "IsDrunk" \in DOMAIN Names
        /\ Setter[Names["IsDrunk"][2]].option = "DrunkEffectsDeprecated"
        /\ Setter[Names["IsDrunk"][2]].straight = TRUE
    BY DrunkAndMarker, Says
  <2>3. drunk <=> (drunk <=> Setter[Names["IsDrunk"][2]].straight)
    BY <2>2
  <2>4. Puts(Setter[Names["IsDrunk"][2]].option, drunk)
    BY <2>1, <2>2
  <2>5. QED
    BY <2>1, <2>2, <2>3, <2>4, AssignmentKeeps
<1>3. ASSUME NEW on \in BOOLEAN, Wants("HasMarker", on), Puts("HasMarker", on)
      PROVE  SwitchesInv'
  <2>1. /\ "HasMarker" \in DOMAIN Names
        /\ Setter[Names["HasMarker"][2]].option = "HasMarker"
        /\ Setter[Names["HasMarker"][2]].straight = TRUE
    BY DrunkAndMarker, Says
  <2>2. on <=> (on <=> Setter[Names["HasMarker"][2]].straight)
    BY <2>1
  <2>3. Puts(Setter[Names["HasMarker"][2]].option, on)
    BY <1>3, <2>1
  <2>4. QED
    BY <1>3, <2>1, <2>2, <2>3, AssignmentKeeps
<1>4. CASE SetMarker
  BY <1>3, <1>4 DEF SetMarker
<1>5. CASE RemoveMarker
  BY <1>3, <1>5 DEF RemoveMarker
<1>6. CASE UNCHANGED switchVars
  BY <1>6 DEF switchVars, SwitchesInv, SwitchesKept, Reads
<1>7. QED
  BY <1>1, <1>2, <1>4, <1>5, <1>6 DEF SwitchesNext

\* However often scripts turn options on and off, under whatever names: what they
\* read under a name is what was asked for last under a name of the same thing.
THEOREM SwitchesKeptCorrect == SwitchesSpec => []SwitchesKept
<1>1. SwitchesInit => SwitchesInv
  <2> SUFFICES ASSUME SwitchesInit PROVE SwitchesInv
    OBVIOUS
  <2>1. option \in [OptionSet -> BOOLEAN] /\ wanted = <<>>
    BY DEF SwitchesInit, OptionSet
  <2>2. DOMAIN wanted = {}
    BY <2>1
  <2>3. QED
    BY <2>1, <2>2 DEF SwitchesInv, SwitchesKept
<1>2. SwitchesInv /\ [SwitchesNext]_switchVars => SwitchesInv'
  BY SwitchesNextInv
<1>3. SwitchesInv => SwitchesKept
  BY DEF SwitchesInv
<1>4. QED
  BY <1>1, <1>2, <1>3, PTL DEF SwitchesSpec

=================================================================================
