------------------------------- MODULE MCSession -------------------------------
(***************************************************************************)
(* Instances of Session for TLC.                                           *)
(***************************************************************************)
EXTENDS Session, TLC

\* Timers are interchangeable, and so are players
Symmetry == Permutations(Timer) \cup Permutations(Player)

===============================================================================
