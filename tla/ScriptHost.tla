------------------------------ MODULE ScriptHost ------------------------------
(***************************************************************************)
(* Loading, running and reloading scripts.  The plugin is single-threaded, *)
(* but its calls nest: a script function called by an event or a timer may *)
(* call functions of the server that raise other events, and ReloadScripts *)
(* opens a new virtual machine and loads the scripts again while functions *)
(* of the old machine are still running below it.  What is nested is kept  *)
(* on a stack, the oldest call first.                                      *)
(*                                                                         *)
(* The configuration file is read again by every load; a line of it may    *)
(* name a script that runs, one that fails, or none.                       *)
(***************************************************************************)
EXTENDS Naturals, Sequences

CONSTANTS
    MaxVM,    \* bound on the virtual machines opened
    MaxDepth, \* bound on nested calls
    Late      \* do script functions create timers after ReloadScripts returned?

ASSUME BoundAssumption == MaxVM \in Nat \ {0} /\ MaxDepth \in Nat
ASSUME LateAssumption == Late \in BOOLEAN

VARIABLES
    vms,               \* virtual machines opened; v is the last one
    canReload,
    gServerInitPending,
    script,            \* the machine CCore::script was created in, 0 if null
    code,              \* machines in which a script has run, if only in part
    timers,            \* machines whose functions the timers to be called run in
    stack,             \* the calls that have not returned
    phase              \* where the server stands

vars == <<vms, canReload, gServerInitPending, script, code, timers, stack, phase>>

Phase == {"loaded",         \* VcmpPluginInit has returned
          "up",             \* OnInitServer has returned
          "onServerStop",   \* in OnShutdownServer, first callback
          "onScriptUnload", \* in OnShutdownServer, second callback
          "down"}           \* the core is deleted

Kind == {"load",          \* LoadScript, between two scripts of the file
         "main",          \* a script's top level, run by ParseConfigLine
         "onScriptLoad",  \* called by ParseConfigLine
         "onServerStart", \* called by the first OnFrame
         "script"}        \* any other callback or timer function

Frame == [kind : Kind, vm : 1 .. MaxVM]

Call(kind, vm) == [kind |-> kind, vm |-> vm]

Top == stack[Len(stack)]
Push(f) == Append(stack, f)
Pop == SubSeq(stack, 1, Len(stack) - 1)
IsTop(kind) == stack # <<>> /\ Top.kind = kind
\* A function runs, and is one of a script: not one that was never defined
ScriptRuns == stack # <<>> /\ Top.kind # "load" /\ Top.vm \in code

Init ==
    /\ vms = 0
    /\ canReload = FALSE
    /\ gServerInitPending = TRUE
    /\ script = 0
    /\ code = {}
    /\ timers = {}
    /\ stack = <<>>
    /\ phase = "loaded"

-------------------------------------------------------------------------------
(* Starting and loading. *)

OnInitServer ==
    /\ phase = "loaded"
    /\ phase' = "up"
    /\ vms' = 1
    /\ gServerInitPending' = TRUE
    /\ UNCHANGED <<canReload, script, code, timers, stack>>

\* LoadScript up to the loop over the lines of server.cfg
BeginLoad(vm) == stack' = Push(Call("load", vm)) /\ canReload' = FALSE

FirstFrame ==
    /\ phase = "up" /\ stack = <<>>
    /\ gServerInitPending
    /\ gServerInitPending' = FALSE
    /\ BeginLoad(vms)
    /\ UNCHANGED <<vms, script, code, timers, phase>>

\* A line that names a script: new Script(), and its top level runs
LineRuns ==
    /\ IsTop("load")
    /\ script' = vms
    /\ stack' = Push(Call("main", vms))
    /\ code' = code \cup {vms}
    /\ UNCHANGED <<vms, canReload, gServerInitPending, timers, phase>>

\* One that does not compile
LineFails ==
    /\ IsTop("load")
    /\ script' = 0
    /\ UNCHANGED <<vms, canReload, gServerInitPending, code, timers, stack, phase>>

\* The top level throws: the next line is tried in the same machine
ScriptFails ==
    /\ IsTop("main")
    /\ script' = 0
    /\ stack' = Pop
    /\ UNCHANGED <<vms, canReload, gServerInitPending, code, timers, phase>>

ScriptRun ==
    /\ IsTop("main")
    /\ stack' = Append(Pop, Call("onScriptLoad", vms))
    /\ UNCHANGED <<vms, canReload, gServerInitPending, script, code, timers, phase>>

\* LoadScript returns: to ReloadScripts, or to the first OnFrame, which calls
\* onServerStart.  LoadScript allows a reload before that, but nothing runs
\* until OnFrame has forbidden it again.
ReturnsLocked(s) ==
    IF s = <<>>
    THEN stack' = <<Call("onServerStart", vms)>> /\ canReload' = FALSE
    ELSE stack' = s /\ UNCHANGED canReload
ReturnsUnlocked(s) ==
    IF s = <<>>
    THEN stack' = <<Call("onServerStart", vms)>> /\ canReload' = TRUE
    ELSE stack' = s /\ canReload' = TRUE
ReturnsTo(s) ==
    IF s = <<>>
    THEN stack' = <<Call("onServerStart", vms)>> /\ canReload' = FALSE
    ELSE stack' = s /\ canReload' = TRUE

\* No server.cfg, or no line of it names a script that runs
NoGamemode ==
    /\ IsTop("load")
    /\ ReturnsTo(Pop)
    /\ UNCHANGED <<vms, gServerInitPending, script, code, timers, phase>>

\* onScriptLoad returns or throws
Loaded ==
    /\ IsTop("onScriptLoad")
    /\ ReturnsTo(SubSeq(stack, 1, Len(stack) - 2))
    /\ UNCHANGED <<vms, gServerInitPending, script, code, timers, phase>>

Started ==
    /\ IsTop("onServerStart")
    /\ stack' = Pop
    /\ canReload' = TRUE
    /\ UNCHANGED <<vms, gServerInitPending, script, code, timers, phase>>

-------------------------------------------------------------------------------
(* Running. *)

\* An event: its callback is looked up in the newest machine
Event ==
    /\ Len(stack) < MaxDepth
    /\ \/ ScriptRuns
       \/ stack = <<>> /\ phase = "up" /\ vms \in code
    /\ stack' = Push(Call("script", vms))
    /\ UNCHANGED <<vms, canReload, gServerInitPending, script, code, timers, phase>>

\* ProcessTimers, never nested: the function is one of the timer's machine
TimerFires(vm) ==
    /\ phase = "up" /\ ~gServerInitPending /\ stack = <<>>
    /\ vm \in timers
    /\ stack' = Push(Call("script", vm))
    /\ UNCHANGED <<vms, canReload, gServerInitPending, script, code, timers, phase>>

\* The last timer of a machine has made its last call, or is deleted
TimersEnd(vm) ==
    /\ phase = "up"
    /\ vm \in timers
    /\ timers' = timers \ {vm}
    /\ UNCHANGED <<vms, canReload, gServerInitPending, script, code, stack, phase>>

NewTimer ==
    /\ ScriptRuns
    /\ Late \/ Top.vm = vms
    /\ timers' = timers \cup {Top.vm}
    /\ UNCHANGED <<vms, canReload, gServerInitPending, script, code, stack, phase>>

Returns ==
    /\ IsTop("script")
    /\ Len(stack) > 1 \/ phase = "up"
    /\ stack' = Pop
    /\ UNCHANGED <<vms, canReload, gServerInitPending, script, code, timers, phase>>

\* DropAllTimers
NotDropped == timers
Dropped == {}

Always == TRUE
Allowed == canReload

ReloadScripts ==
    /\ ScriptRuns
    /\ Allowed
    /\ vms < MaxVM /\ Len(stack) < MaxDepth
    /\ timers' = Dropped
    /\ vms' = vms + 1
    /\ BeginLoad(vms + 1)
    /\ UNCHANGED <<gServerInitPending, script, code, phase>>

-------------------------------------------------------------------------------
(* OnShutdownServer: onServerStop, onScriptUnload, CCore::Release. *)

OnShutdownServer ==
    /\ phase = "up" /\ stack = <<>>
    /\ phase' = "onServerStop"
    /\ stack' = <<Call("script", vms)>>
    /\ UNCHANGED <<vms, canReload, gServerInitPending, script, code, timers>>

StopReturns ==
    /\ phase = "onServerStop" /\ IsTop("script") /\ Len(stack) = 1
    /\ phase' = "onScriptUnload"
    /\ stack' = <<Call("script", vms)>>
    /\ UNCHANGED <<vms, canReload, gServerInitPending, script, code, timers>>

Release ==
    /\ phase = "onScriptUnload" /\ IsTop("script") /\ Len(stack) = 1
    /\ phase' = "down"
    /\ stack' = <<>>
    /\ timers' = {}
    /\ script' = 0
    /\ UNCHANGED <<vms, canReload, gServerInitPending, code>>

Next ==
    \/ OnInitServer \/ FirstFrame
    \/ LineRuns \/ LineFails \/ ScriptFails \/ ScriptRun \/ NoGamemode \/ Loaded \/ Started
    \/ Event \/ NewTimer \/ Returns \/ ReloadScripts
    \/ \E vm \in 1 .. MaxVM : TimerFires(vm) \/ TimersEnd(vm)
    \/ OnShutdownServer \/ StopReturns \/ Release

Spec == Init /\ [][Next]_vars

-------------------------------------------------------------------------------
TypeOK ==
    /\ vms \in 0 .. MaxVM
    /\ canReload \in BOOLEAN /\ gServerInitPending \in BOOLEAN
    /\ script \in 0 .. MaxVM
    /\ code \subseteq 1 .. vms /\ timers \subseteq 1 .. vms
    /\ stack \in Seq(Frame)
    /\ phase \in Phase

Loading == \E i \in DOMAIN stack : stack[i].kind = "load"
Starting == \E i \in DOMAIN stack : stack[i].kind = "onServerStart"

\* Whatever the scripts being loaded or started call, and whatever events that
\* raises, everything that runs before LoadScript or onServerStart returns runs
\* in the machine being loaded: it is not replaced in the meantime.
LoadsUndisturbed ==
    \A i, j \in DOMAIN stack :
        i < j /\ stack[i].kind \in {"load", "onServerStart"} => stack[j].vm = stack[i].vm

\* A reload is refused while scripts are loaded or started and at no other
\* time: every way out of LoadScript, a missing file and failing scripts
\* included, allows it again.
PermissionReturns ==
    canReload <=> ~gServerInitPending /\ ~Loading /\ ~Starting

\* The script ParseConfigLine deletes when a script throws is the one it
\* created, not that of a load nested in the run.
OwnScript ==
    \A i \in DOMAIN stack : stack[i].kind = "main" => script = stack[i].vm

\* When nothing runs, every timer that will be called runs a function of the
\* newest machine: a reload got rid of all the others ("Get rid of ALL declared
\* timers", ReloadScripts).  Holds unless a function of an old machine goes on
\* to create timers after the ReloadScripts it called has returned.
TimersCurrent == stack = <<>> => timers \subseteq {vms}

\* The life of the newest machine, seen from outside
L == INSTANCE Lifecycle WITH
    generation <- vms,
    state <- IF phase = "loaded" THEN "off"
             ELSE IF phase = "down" THEN "down"
             ELSE IF gServerInitPending THEN "blank"
             ELSE IF Loading THEN "loading"
             ELSE IF Starting THEN "starting" ELSE "ready"

\* The host keeps what Lifecycle promises.
LifecycleSpec == L!Spec

===============================================================================
