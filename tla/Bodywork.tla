-------------------------------- MODULE Bodywork --------------------------------
(***************************************************************************)
(* The properties of a vehicle that share a word in the server: two        *)
(* colours that are set together, the lights, of which TaxiLight is one    *)
(* bit and Fix clears eight, and the tyres that SetFlatTyres sets one by   *)
(* one.  CVehicle reads the word, changes its part and writes it back.     *)
(*                                                                         *)
(* There is one vehicle.  Lights are the set of the bits that are 1.       *)
(***************************************************************************)
EXTENDS Integers

CONSTANTS
    Bit, \* bits of the lights that are looked at, of 0 .. 31
    Colour

ASSUME BitAssumption == Bit \subseteq 0 .. 31

VARIABLES
    lights, colour, health, damage, tyre, \* what the server has
    \* history
    want \* what scripts have asked for last, of each property

bodyVars == <<lights, colour, health, damage, tyre, want>>

Tyre == 0 .. 3
TaxiBit == 8
LowByte == 0 .. 7
Full == "full"
Damaged == "damaged"

BodyInit ==
    /\ lights \in SUBSET Bit
    /\ \E c \in Colour : colour = <<c, c>>
    /\ health = Damaged /\ damage = Damaged
    /\ tyre = [t \in Tyre |-> 1]
    /\ want = [lights |-> lights, colour |-> colour, health |-> health, damage |-> damage,
               tyre |-> tyre]

GetTaxiLight == TaxiBit \in lights

SetColour1(c) ==
    /\ want' = [want EXCEPT !.colour[1] = c]
    /\ colour' = <<c, colour[2]>>
    /\ UNCHANGED <<lights, health, damage, tyre>>

SetColour2(c) ==
    /\ want' = [want EXCEPT !.colour[2] = c]
    /\ colour' = <<colour[1], c>>
    /\ UNCHANGED <<lights, health, damage, tyre>>

SetLightFlags(flags) ==
    /\ want' = [want EXCEPT !.lights = flags]
    /\ lights' = flags
    /\ UNCHANGED <<colour, health, damage, tyre>>

SetTaxiLight(on) ==
    /\ want' = [want EXCEPT !.lights = IF on THEN @ \cup {TaxiBit} ELSE @ \ {TaxiBit}]
    /\ lights' = IF on = GetTaxiLight THEN lights
                 ELSE IF on THEN lights \cup {TaxiBit} ELSE lights \ {TaxiBit}
    /\ UNCHANGED <<colour, health, damage, tyre>>

KeptByMask(flags) == flags \ (LowByte \cup {TaxiBit})
\* & 0xFFFFFF00
Kept(flags) == flags \ LowByte

Fix ==
    /\ want' = [want EXCEPT !.health = Full, !.damage = Full,
                         !.lights = {b \in @ : b > 7}]
    /\ health' = Full /\ damage' = Full
    /\ lights' = Kept(lights)
    /\ UNCHANGED <<colour, tyre>>

SetHealth(h) ==
    /\ want' = [want EXCEPT !.health = h]
    /\ health' = h
    /\ UNCHANGED <<lights, colour, damage, tyre>>

SetDamage(d) ==
    /\ want' = [want EXCEPT !.damage = d]
    /\ damage' = d
    /\ UNCHANGED <<lights, colour, health, tyre>>

SetTyreStatus(t, status) ==
    /\ want' = [want EXCEPT !.tyre[t] = status]
    /\ tyre' = [tyre EXCEPT ![t] = status]
    /\ UNCHANGED <<lights, colour, health, damage>>

\* All four, 0 for flat
SetFlatTyres(flat) ==
    LET status == IF flat THEN 0 ELSE 1
    IN  /\ want' = [want EXCEPT !.tyre = [t \in Tyre |-> status]]
        /\ tyre' = [t \in 0 .. 3 |-> status]
        /\ UNCHANGED <<lights, colour, health, damage>>

BodyNext ==
    \/ \E c \in Colour : SetColour1(c) \/ SetColour2(c)
    \/ \E flags \in SUBSET Bit : SetLightFlags(flags)
    \/ \E on \in BOOLEAN : SetTaxiLight(on) \/ SetFlatTyres(on)
    \/ \E x \in {Full, Damaged} : SetHealth(x) \/ SetDamage(x)
    \/ \E t \in Tyre : \E status \in 0 .. 1 : SetTyreStatus(t, status)
    \/ Fix

BodySpec == BodyInit /\ [][BodyNext]_bodyVars

-------------------------------------------------------------------------------
\* One property of a vehicle is never changed by setting another one that shares
\* its word: the vehicle has what was asked for last of each.  A repair turns off
\* the lights below the taxi's sign, and nothing else.
BodyAsAsked ==
    [lights |-> lights, colour |-> colour, health |-> health, damage |-> damage, tyre |-> tyre]
        = want

===============================================================================
