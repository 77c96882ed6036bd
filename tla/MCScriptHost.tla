------------------------------ MODULE MCScriptHost ------------------------------
(***************************************************************************)
(* Instances of ScriptHost for TLC.                                        *)
(***************************************************************************)
EXTENDS ScriptHost

===============================================================================
