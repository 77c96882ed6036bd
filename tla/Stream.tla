--------------------------------- MODULE Stream ---------------------------------
(***************************************************************************)
(* What the two halves of CStream share: the sizes of its buffers and of   *)
(* its numbers, and what a script may ask of it.                           *)
(***************************************************************************)
EXTENDS Integers

CONSTANTS
    CAP,       \* STREAM_MAX_SIZE
    RESULT,    \* characters in the static buffer of ReadString
    MaxUInt16, \* UINT16_MAX
    Word,      \* 2^w, w the width of size_t
    Position,  \* positions a script may set
    Length     \* lengths of the strings scripts write and packets declare

ASSUME CapAssumption == CAP \in Nat /\ MaxUInt16 \in Nat /\ CAP <= MaxUInt16

ASSUME SizeAssumption ==
    /\ CAP \in Nat \ {0} /\ RESULT \in Nat \ {0} /\ Word \in Nat \ {0}
    /\ CAP <= RESULT /\ CAP + 4 < Word

ASSUME ArgumentAssumption == Position \subseteq Int /\ Length \subseteq Nat

Smaller(a, b) == IF a < b THEN a ELSE b

===============================================================================
