-------------------------------- MODULE MCEvents --------------------------------
(***************************************************************************)
(* An instance of Events for TLC.                                          *)
(***************************************************************************)
EXTENDS Events
===============================================================================
