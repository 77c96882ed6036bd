---------------------------- MODULE MCUpdateTracker ----------------------------
(***************************************************************************)
(* Instances of UpdateTracker for TLC.                                     *)
(***************************************************************************)
EXTENDS UpdateTracker

\* Two values of the attributes players and vehicles share, and of the time
MCValue ==
    [a \in Attr |-> CASE a = "hp" -> {50, 100}
                      [] a \in {"pos", "time"} -> {0, 1}
                      [] OTHER -> {0}]

===============================================================================
