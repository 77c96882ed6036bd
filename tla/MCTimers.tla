------------------------------- MODULE MCTimers -------------------------------
(***************************************************************************)
(* Instances of Timers for TLC.                                            *)
(***************************************************************************)
EXTENDS Timers, TLC

\* Timers are interchangeable
Symmetry == Permutations(Timer)

===============================================================================
