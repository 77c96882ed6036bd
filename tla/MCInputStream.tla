----------------------------- MODULE MCInputStream -----------------------------
(***************************************************************************)
(* An instance of InputStream for TLC.                                     *)
(***************************************************************************)
EXTENDS InputStream

\* From before the buffer to behind it
MCPosition == -1 .. CAP + 1

===============================================================================
