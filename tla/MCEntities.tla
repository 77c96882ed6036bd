------------------------------ MODULE MCEntities ------------------------------
(***************************************************************************)
(* An instance of Entities for TLC: vehicles and one of the kinds that     *)
(* count from 0.                                                           *)
(***************************************************************************)
EXTENDS Entities

MCMAX == [k \in Kind |-> IF k = "vehicle" THEN 3 ELSE 2]

===============================================================================
