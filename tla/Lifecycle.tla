------------------------------- MODULE Lifecycle -------------------------------
(***************************************************************************)
(* What the script host promises about the life of the scripts, whatever   *)
(* calls what: they are loaded one generation at a time, and nothing       *)
(* begins a generation while another one is being loaded or started.       *)
(***************************************************************************)
EXTENDS Naturals

VARIABLES
    generation, \* how many virtual machines have been opened
    state       \* of the newest one

vars == <<generation, state>>

Init == generation = 0 /\ state = "off"

\* The virtual machine is there, the scripts are not
Open ==
    /\ state = "off" /\ state' = "blank"
    /\ generation' = 1

Load ==
    /\ state = "blank" /\ state' = "loading"
    /\ UNCHANGED generation

\* onServerStart, after the first load only
Start ==
    /\ state = "loading" /\ state' = "starting"
    /\ generation = 1
    /\ UNCHANGED generation

Ready ==
    /\ state \in {"loading", "starting"} /\ state' = "ready"
    /\ UNCHANGED generation

Reload ==
    /\ state = "ready" /\ state' = "loading"
    /\ generation' = generation + 1

Close ==
    /\ state \in {"blank", "ready"} /\ state' = "down"
    /\ UNCHANGED generation

Next == Open \/ Load \/ Start \/ Ready \/ Reload \/ Close

Spec == Init /\ [][Next]_vars

===============================================================================
