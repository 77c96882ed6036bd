# SqVCMP: a verification project

SqVCMP is a plugin for VC:MP game servers that runs gamemodes written in
Squirrel. This directory holds TLA+ models of the parts of it that carry state
from one call of the server to the next, TLC configurations that check them on
small instances, and TLAPS proofs of the properties that matter most, for every
value of the constants. Paths below are relative to the repository.

- [The system](#the-system): components, state, operations, interactions
- [The modules](#the-modules): what models what, and how
- [The runs](#the-runs): what is checked, bounds, fairness
- [What the runs found](#what-the-runs-found)
- [The proofs](#the-proofs)
- [Not modelled](#not-modelled)

Running: `tlc -config MCTimersWalk.cfg MCTimers` and so on for the runs of
`PROJECT.json`; `tlapm Timers_proofs.tla` and so on for the proofs.

## The system

The server loads the plugin once (`main.cpp`, VcmpPluginInit), hands it a table
of server functions and takes from it a table of callbacks
(`CallbackHandler.cpp`). Everything runs in the server's one thread. What makes
the plugin hard is therefore not threads but **nesting**: a callback calls a
script function; the function calls functions of the plugin
(`FunctionHandler.cpp`, `CPlayer.cpp`, ...), which call the server, which may
call the plugin back before it returns (kick a player: OnPlayerDisconnect;
delete a vehicle: OnEntityPoolChange); and the function may reload all scripts
while it runs. Native code that keeps a pointer, an index or a value across a
call into a script has to be right for all of it.

```
            OnFrame                          script functions
 server ─────────────► CallbackHandler ────► (Squirrel, Sqrat)
   ▲   OnPlayerConnect   │  ▲                   │
   │   OnEntityPoolChange│  │ onPlayerPart ...  │ NewTimer, CreateVehicle,
   │   ...               ▼  │                   ▼ ReloadScripts, kick ...
   └──────────────────  CCore  ◄──────────  FunctionHandler, CPlayer ...
                  timers, entity maps,
                  scripts, canReload
```

| component | state | operations | used by | what makes it correct |
|---|---|---|---|---|
| **Timers** `CTimer`, `CCore::timers` | a vector of entries (pointer and strong handle); elapsed time, interval, repeats, flags of each | NewTimer, Delete, Stop, Start, Interval, Paused; ProcessTimers per frame; DropAllTimers, CancelTimersForPlayer | scripts, OnFrame, ReloadScripts, OnPlayerDisconnect, ~CCore | the walk survives what scripts do to the vector in the middle of it; no timer is skipped, called twice in a frame or more often than asked; dead ones leave |
| **Entity maps** `CCore` | for each kind, the table from ids to objects, with isOurs | OnEntityPoolChange, Create..., Delete, ScanForEntities, CleanWorld, ~CCore | server, scripts, ReloadScripts | the maps follow the server's pools; a reload deletes what scripts made and nothing else |
| **Player sessions** `CallbackHandler`, `CCore::playerMap` | the players with an object; the disconnects in progress | OnPlayerConnect, OnPlayerDisconnect | server, scripts that kick | no timer is called with a player who left |
| **Update tracker** `CallbackHandler` | lastPlrInfo, lastVehInfo, lastSrvInfo | OnPlayerUpdate, OnVehicleUpdate, the clock part of OnFrame | server | reports form a chain; no change is missed |
| **Script host** `CCore`, `CallbackHandler`, `FunctionHandler` | the machine `v`, canReload, script, gServerInitPending, what is on the C++ stack | OnInitServer, the first OnFrame, LoadScript, ReloadScripts, OnShutdownServer | server, scripts | a load is not disturbed by a reload nested in it; the permission to reload always comes back |
| **Outgoing stream** `CStream` | one static buffer, position, end, error flag | StartWrite, Write..., SetWritePosition, SendStream | scripts | a packet holds what was written for it, all of it and nothing else |
| **Incoming stream** `CStream` | one static buffer, size, position, error flag | OnClientScriptData, Read..., SetReadPosition | server, scripts | reads stay within the packet |
| **Event dispatch** `CallbackHandler` | none of its own; the stack of the virtual machine | some thirty callbacks that look up objects and call one function | server | nesting, above; the answer the server is given is the function's; the stack is as high after as before |
| **Entity wrappers** `CPlayer`, `CVehicle`, ... | an id, isOurs | getters and setters that call the server, SetMoney and SetScore, which call a function first | scripts | a setter changes its own property, and the getter under the same name reads it back |
| **Value types** `UtilStructs` | coordinates, and the entity they were read from | assigning to a component writes all of them to the entity | scripts | what the script holds is what the server has |
| **Script functions** `FunctionHandler` | what is hidden and shown lies in the server | some 300 global functions, most of which pass their arguments on | scripts | names lead back to numbers; what one function does another undoes |
| Registration `Functions.cpp`, `Register...` | tables | binding of names to functions | LoadVM | a name's getter and setter belong together |
| Exports, console, server interface, Squirrel and Sqrat | - | - | - | output, or not this project's code |

The hazards of this code, each at its line, are listed in `PROJECT.json`. They
are mostly of four kinds: **re-entrancy** (a vector that grows while it is
walked, an entity or a machine that is replaced under a function that still
runs), **order** (timers cancelled before the function that may create more of
them; timers dropped before the last function that may create more of them has
returned; an event raised before the change it tells of), **ranges** (vehicle
ids count from 1, everything else from 0; unsigned subtraction; narrowing;
cutting towards zero or downwards), and **exits** (every early return of
LoadScript must allow reloads again; a script function that fails must leave the
stack as it was).

## The modules

A step of a model is what the thread does between two points at which a script
may run; native code without a call into a script is one step, except where the
order inside it is what a property is about.

### Timers

`timers` is the vector CCore::timers, `timer` the fields of each CTimer. `pc`,
`pos`, `pTimer` and `delta` are the locals of ProcessTimers. One iteration of
its loop is one of Reap (a dead timer leaves; the last entry takes its place and
is visited next), SkipPaused, Accumulate, or Fire followed by PulseContinues or
PulseDies; between Fire and those the script runs, and any of the actions of
`Script`, or a disconnect, may happen any number of times. EventBegins and
EventEnds bracket any other script function. Destroy is ~CCore up to and
including its ProcessTimers(0.0f).

- Time is in whole milliseconds: the code uses float, whose rounding is left
  out; Fire drops the remainder of the elapsed time as the code does.
- A timer's entry holds a strong handle, so a CTimer in the vector is alive, and
  references scripts keep to timers that left cannot reach anything the host
  reads: they are left out. A CTimer may reuse the memory of one that left.
- A repeat count is narrowed to `Word` values, as the cast to unsigned int does.
- A script error counts as a call; only a native exception makes Pulse return
  true early (`PulseDies` allows it at any call).
- Parameters are known by the value of their ID slot, which is what
  CancelTimersForPlayer looks at.
- `due`, `seen`, `doomed`, `asked`, `fired` are history variables.

Frames is the abstract specification of ProcessTimers: a set of timers without a
vector, a position in it or an order, times or pauses. A frame looks once at every
timer there is, those made meanwhile included; one that is dead when its turn comes
leaves; one that is called has a call less left, and leaves after its last; the
last frame, of ~CCore, calls nothing and leaves nothing. Timers implements it under
the mapping at its end (`FramesSpec`): `there` is what the vector holds, `ahead` what
it holds from `pos` on, `left` is max - pulses. So nothing in the vector may be
overlooked, and no scripts or disconnects within a frame may make a difference to
which timers it looks at.

### Session

Extends Timers with the players that come and go. `playerMap` is the set of
non-null entries, `leaving` the stack of OnPlayerDisconnect calls whose
onPlayerPart runs (nested when a script, perhaps one called by a timer, kicks),
`holds` the players a timer's parameters wrap, `dangling` the timers that wrap a
CPlayer that was deleted. Leave is OnPlayerDisconnect up to onPlayerPart with
CancelTimersForPlayer in it, which compares the ID of every instance, whatever it is
an instance of: `params` has the numbers of those that are no players. For a dangling
instance that function reads the ID of freed memory, so it may or may not find it,
and so it does for an instance of another entity that was deleted (`gone`: any timers
with such an instance, as no action here deletes other entities). PartReturns is
DereferencePlayer.
Scripts are assumed to let go of a player once onPlayerPart has returned
(SessionNewTimer); `PartTimers` says whether onPlayerPart itself creates timers
with him: the run session_part says yes, the others no.

### Entities

`pool` is the server's, `map` the plugin's tables, with the ids of each kind in
`Id` and the ids the loops visit in `Looped`: the difference between the two is
where the code's off-by-one lies. Allocate keeps an object it finds, as the code
does. No function here calls a script, so each is one step. The server is not
part of the repository: it announces every deletion within the call that causes
it, and may announce an entity before the function that creates it returns
(`NotifyFirst`) or after. The runs take the latter; the theorems about
NoStaleObject, Found and OnlyOurs hold for both. In the former CleanWorld would
leave what scripts created; which it is cannot be told from this repository.

### UpdateTracker

`saved` is lastPlrInfo, lastVehInfo and lastSrvInfo, `update` the locals of the
handler that runs: whose, the attribute it stands at, whether the function for
it is running, the old and the new values read before the first comparison.
While a function runs, values change, players are kicked, vehicles are deleted
and their ids reused. `heard` is a history variable: what scripts were told last
in this session, of this vehicle, of the clock. A position is one attribute, and
so is the time; the order of the attributes is the code's. The server is assumed
not to call OnPlayerUpdate for a player from within a report about him.

### ScriptHost and Lifecycle

`stack` is the C++ call stack seen as script calls and loads, oldest first, each
with the machine it runs in; `vms` counts the machines opened, of which `v` is the
last. BeginLoad, LineRuns, LineFails, ScriptFails, ScriptRun, NoGamemode and
Loaded are LoadScript and ParseConfigLine step by step; ReturnsTo is every way
out of LoadScript. A line of the configuration file may name a script that runs,
one that throws, one that does not compile, or none. `code` has the machines in
which a script has run, if only in part, `timers` the machines whose functions
the live timers call. `Late` says whether a function goes on to create timers after
the ReloadScripts it called has returned. `MaxVM` and `MaxDepth` bound reloads
and nesting.

Lifecycle is the abstract specification: the scripts are loaded one generation
at a time, and a reload begins only when the last one is ready. ScriptHost
implements it under the mapping at the end of the module (generation is `vms`;
the state is computed from the phase, gServerInitPending and the stack).

### OutputStream, InputStream

The two halves of CStream. A byte is known by its offset. In OutputStream
`fresh` are the offsets written since StartWrite, `lost` says that something the
script wrote since then is missing, `packet` is what was sent last. InputStream
computes in `size_t` (`% Word`), so that `inputStreamSize - sizeof(T)` wraps as it
does in the code; `touched` is how far the buffer was read. CAP is
STREAM_MAX_SIZE (4096); MaxUInt16 is the largest length a string can declare.
SQChar is one byte: SQUNICODE is not defined by the makefile or the project
files. `Early` says whether scripts read before any packet has come.

### Purse

`money` is the server's, `setting` the stack of SetMoney (or SetScore) calls whose
function runs, each with the locals of the call. A function may set the value
again, which nests, give or take some, fail, or be missing; when it returns Set
writes what its call was to set. `meant` and `given` are history variables.

### Values

One attribute of one entity, of the 18 that are read as EntityVector,
EntityQuaternion or EntityRGB, and one value read from it. `GetterOf` has the type
and flag each attribute's getter puts into the value, Vector and Quaternion the
tables by which SetX... choose the function that writes. A colour is one number
in the server; ToUInt is the code's, which ors what does not fit. The bitwise or
is the constant `BitOr`, of which OrAssumption and OrBounds say what the module
relies on: numbers without a common bit add up, and others give no less than the
first and no more than the sum. The runs give it the operator of Bitwise.

### Events

`stack` is the height of the virtual machine's stack, `event` the last event with
the objects its ids have, `called` the function and arguments, `left` what it
left, `told` what the server was told. Asking and Telling are the tables of
events and their functions; OnPlayerDeath and OnCommandMessage have steps of
their own. A function may be missing or no function, fail, or return any value.
What sq_call cannot call it leaves on top, where Evaluate takes it for the answer: a
number or a truth value under the function's name is one, anything else counts as 0.
Execute and Evaluate are Sqrat's Function::Execute and Function::Evaluate with
arguments, which do not look at whether sq_call failed: it is therefore only in
functions without arguments (of other modules) that an error is an exception.
Nesting is left to the other modules: an event nested in another one begins and
ends within one step of it, and by StackKept (or without it, as PopsHeld shows)
it changes the height only by what is lost to failures. StackKept gives the height
exactly: what it was before, or one less after an event that asks for an answer
and whose function failed.

### Switches

Every option that is a truth value: `Setter` and `Getter` have, for each C++
function, the option of the server it writes or reads and whether it inverts it;
`Names` has the pair of functions registered under each name. The tables are
`Joined` from those of the files they stand in. `wanted` is a history variable, the
last value a script has asked for under each name of the thing.

### Bodywork

The properties of a vehicle that share a word of the server with others: its
colours, its lights with the taxi's sign, its tyres, and Fix, which resets some of
them. `want` is a history variable.

### Names, Areas, Text, Visibility

Functions of FunctionHandler that compute: the tables of names and the functions
that find the number of a name; InPoly and GetDistrictName; FormatDecimal,
ReplaceChars and IsNum; what is hidden from players and shown to them. A script
asks and is answered, one question per step or two. Properties compare the code
with a definition of another kind: a ray in another direction (Areas), the
lookup against the table (Names), digits and groups (Text), what the script asked
for (Visibility). Coordinates and texts are abstracted as the headers of the
modules say: the points GetDistrictName is asked about (`Spot`) are pairs of
integers, thousandths of the map's unit, and the districts' names stand without
spaces.

## The runs

| run | instance | checks | distinct states |
|---|---|---|---|
| timers_walk | 3 timers, frames of 2, intervals of 3, counts 0 and 1, Word 2, one player id | TypeOK, PulsedInPlace, NeverTwice, WalkComplete, DestroyDrains, and the refinement FramesSpec | 2 000 000 |
| timers_wide | Word 2, a count of 2 | RepeatsRespected **violated** | |
| session | 2 timers, 2 players; timers hold players only | GonePlayersTimersDie, OthersTimersStay; with fairness DyingLeaves, FrameReturns | 240 000 |
| session_number | 1 player; timers may hold another instance with his number | OnlyTheirTimers **violated** | |
| session_part | onPlayerPart creates timers | GonePlayersTimersDie **violated** | |
| entities_clean | vehicle ids 1..3, object ids 0..1 | AllCleaned **violated** | |
| update_tracker | 1 player, 1 vehicle id, the clock | Chained, NothingMissed | 2 900 000 |
| script_host | 3 machines, depth 4 | LoadsUndisturbed, PermissionReturns, OwnScript, TimersCurrent, and the refinement LifecycleSpec | 1 400 |
| script_host_late | functions go on after a reload | TimersCurrent **violated** | |
| input_short | packets of 3 bytes | InPacket **violated** | |
| events_pop | functions that fail, one after the other | PopsHeld **violated** | |
| library | twelve parts, each by itself (below) | 22 invariants and one action property (below) | 460 000 |

The run `library` puts the modules whose state is all their own into one instance:
`part` says which one moves, and the others stay where they start, so that the
states of one are not multiplied by those of another. MCLibrary extends the modules
rather than instantiating them, so that the properties it checks are the formulas
the theorems are about; only Names, which has no theorem, is an instance. Its parts:

| part | instance | checks |
|---|---|---|
| entities | vehicle ids 1..3, object ids 0..1 | NoStaleObject, Found, OnlyOurs, WorldCleaned |
| output | CAP 9, every position from before the buffer to behind it | InBuffer, NothingStale, NothingLost |
| input | CAP 9, Word 16, packets of 0, 4, 5, 9, 10 bytes | InPacket, StringsWhole |
| names | every weapon, vehicle and skin | NamesLeadBack |
| areas | polygons of 2 to 4 points on a 3 by 3 grid and one of 5, all points of a 5 by 5 grid; every border of a district and what is next to it | InsideByAnyRay, OneDistrict |
| texts | all texts of up to 7, 4 and 5 characters for FormatDecimal, ReplaceChars and IsNum | Formatted, NoTargetLeft, Numeric |
| visibility | 5 positions on both sides of zero, 3 players | HiddenAsAsked, ArrowOfAll |
| values | 18 attributes; components 0 and 1, of colours 0 to 4; bytes of two bits (`Channel` = 4) | InStep |
| money | 3 amounts, calls nested 3 deep | OutermostWins |
| events | every event, every object missing or none, every kind of answer, numbers from -1 to 5 for bytes of two bits (`Byte` = 4) | StackKept, RefusedByFunction |
| switches | every pair of assignments, from options all on and all off | SwitchesKept |
| bodywork | lights 0, 7, 8, 9, two colours | BodyAsAsked |

Why the bounds are enough. Three timers are the fewest for which the entry that
fills a gap is neither the one removed nor one that was visited; a frame is shorter
than an interval but two are not, so that a timer waits in one and fires in the next,
with what elapsed beyond its interval dropped; a count of 1 makes a timer's first
call its last, one of 0 makes `pulseCount` wrap around. (A timer whose interval is
no longer than a frame, and fires in the one that creates it, is left to timers_wide
and to the theorems, which hold for all intervals.)
Two timers and two players give a timer of the one who leaves, one of the one who
stays, one that kicks from its own call, and two players who leave within one
frame. That the timers of session hold players only costs nothing:
OthersTimersStay is about such timers, a timer with another instance changes
nothing in what is read of them, session_number has those that make a difference,
and the theorems hold for both. Three vehicle ids have a first, a middle and a last; two object ids have
0 and the last one. Nine bytes hold an int, a float or a string with room to miss
by one in either direction. Depth 4 and three machines allow a reload from an
event nested in a function of a machine that was itself loaded by a reload.
In update_tracker armour and weapon do not change: health and position are the
attributes both kinds share, and each has another one before or behind it.
Four points make polygons that are convex, not convex, crossing themselves and
degenerate, and MaxPoints, four too, cuts the one of five. Seven characters are two
dots and a sign. Two assignments (`MaxWrites`) are enough to see one option
disturb another, since an assignment writes a constant to one option. Three calls
of SetMoney (`MaxCalls`) have an outermost, an innermost and one between them. The
lights that are looked at lie on both sides of the byte Fix clears and of the
taxi's sign. Numbers returned to an event are on both sides of 0 and of `Byte`, and a component
of a colour may be one that does not fit.
In timers_walk, timers_wide and session_part timers (and players) are permuted by
SYMMETRY: nothing refers to a particular one, and these runs check no liveness.

CHECK_DEADLOCK is off where the system really stops: at the bound on machines or
after the shutdown in ScriptHost.

**Fairness** (Session, `SessionFairness`): native code and script functions
return (weak fairness of the walk, of Pulse's return, of the end of an event and
of a disconnect), and the server keeps calling OnFrame while the plugin is
loaded. That one is strong: OnFrame is not enabled while another event is handled,
and a server that delivers events without end still has its frames in between.
FrameReturns is checked with intervals longer than a frame. Without that bound it
does not hold: a timer that creates one like it on every call, with an interval
shorter than the frame, is given the whole frame's time in the frame that
creates it, and ProcessTimers never reaches the vector's end.

Each property of a passing run has a mutant in `PROJECT.json`: a plausible slip
in the code under which the run fails (swap-removal that drops the wrong entry, a
range off by one, a cut string that sets no error, a permission that one way out
forgets, a vector written by its neighbour's setter, a mask one bit too wide,
...). Their definitions stand next to the ones they replace.

## What the runs found

- **timers_wide**: NewTimer checks the repeat count as an SQInteger and narrows
  it to unsigned int (FunctionHandler.cpp:2702): a multiple of 2^32 becomes 0,
  "infinite". Only where SQInteger has 64 bits (`_SQ64`,
  squirrelsrc/include/squirrel.h, defined by the 64-bit target of the makefile).
- **entities_clean**: the vehicle loops of CleanWorld, ScanForEntities and ~CCore
  end before MAX_VEHICLES, but vehicle ids run from 1 to MAX_VEHICLES: a vehicle
  with the last id survives a reload.
- **input_short**: the guards of ReadInt, ReadFloat and ReadBEInt16 subtract from
  an unsigned size: a packet of one to three bytes is read past its end.
- **script_host_late**: ReloadScripts drops the timers before it loads the new
  scripts; what the old function creates after it returned keeps calling the old
  machine.
- **session_number**: CancelTimersForPlayer compares the ID of every instance a timer
  was created with and does not ask what it is an instance of: a timer created with
  a vehicle, an object or a pickup that has the number of the player who leaves is
  cancelled with his. What it reads of an entity that was deleted may be his number,
  too.
- **session_part**: OnPlayerDisconnect cancels a player's timers before
  onPlayerPart, not after it: a timer onPlayerPart creates with him outlives his
  CPlayer.
- **events_pop**: each onPlayerRequestClass, onPlayerChat... that throws costs the
  stack of the virtual machine one element that somebody else has pushed, and
  makes the server refuse: Sqrat's Function::Evaluate with arguments pops a result
  that a failed sq_call has not left, and the handlers' catch, with its warning
  and its answer of 1, is never reached.

Other facts about the code show as exceptions in the properties that hold: the
names NamesLeadBack leaves out, the Junkyard in OneDistrict, failures in StackKept,
colours whose components do not fit in bytes in InStep.

Everything else that is checked holds, each with the assumption its comment
names. OthersTimersStay, HiddenAsAsked, InStep and WorldCleaned are about the cases in
which the code does what it should; the others are in the models as they are.

## The proofs

Proved by TLAPS for every value of the constants, from the named assumptions on
them only:

| module | theorems | argument |
|---|---|---|
| Timers_proofs | TypeCorrect, PulsedInPlaceCorrect, NeverTwiceCorrect, WalkCompleteCorrect, DestroyDrainsCorrect; RepeatsRespectedCorrect and FramesCorrect if `Repeats \subseteq 0 .. Word - 1` | below |
| Session_proofs | GonePlayersTimersDieCorrect and OthersTimersStayCorrect if `~PartTimers`; SessionFramesCorrect if `Repeats \subseteq 0 .. Word - 1` | below |
| Entities_proofs | NoStaleObjectCorrect, FoundCorrect, OnlyOursCorrect; WorldCleanedCorrect if `NotifyFirst = {FALSE}` | the maps' entries stand for entities of the pools and `ours` for created ones; every id a loop visits is found once the plugin is up; under NotifyFirst = {FALSE} created entities have isOurs, which every action keeps |
| Stream_proofs | InBufferCorrect, NothingStaleCorrect, NothingLostCorrect; InPacketCorrect if `NoShortPacket`; StringsWholeCorrect | below |
| ScriptHost_proofs | TypeCorrect, LoadsUndisturbedCorrect, PermissionReturnsCorrect, OwnScriptCorrect, LifecycleCorrect; TimersCurrentCorrect if `~Late` | below |
| UpdateTracker_proofs | TypeCorrect, ChainedCorrect, NothingMissedCorrect | below |
| Callbacks_proofs | OutermostWinsCorrect, StackKeptCorrect, RefusedByFunctionCorrect | below |
| Functions_proofs | ArrowOfAllCorrect, HiddenAsAskedCorrect, BodyAsAskedCorrect, OneDistrictCorrect, InsideByAnyRayCorrect, FormattedCorrect, NoTargetLeftCorrect, NumericCorrect, InStepCorrect, SwitchesKeptCorrect | below |

**The walk.** That the walk visits every timer once is not inductive by itself.
`WalkInv` adds, to the types and to PulsedInPlace (the entry at `pos` is the
pulsed timer's, which needs that scripts only append): no timer is in the vector
twice; while the walk is on, the timers seen are among those before `pos` or have
been removed (SeenBehind), the ones due are at `pos` or behind it (DueAhead), and
those that were dead when the frame began are too (DoomedAhead). Removal by swap
keeps all of them because the last entry is never before `pos`; at the end nothing
is behind `pos`, so nothing is due. DestroyDrains needs `Draining`: while closing,
every timer in the vector is dead, so none fires and the walk only removes.
RepeatsRespected needs that `fired` and `pulses` agree outside a call and differ
by one within it, and that `pulses` stays below a positive `max`.

**The frames.** `FramesInv` is WalkInv with Draining and `Unspent`: a timer of the
vector whose count is positive has been called less often, but for the one whose last
call is in progress. FramesStep maps every step of Timers to one of Frames or to a
stutter: a timer that is paused or has not waited long enough is passed, an
entry that is swapped into a gap stays ahead, what a script marks is killed. The
assumption on `Repeats` is the one timers_wide refutes: a count that does not fit
unsigned int becomes another one. SessionFramesCorrect is the same for Session, where
a disconnect marks more timers than it should if it reads freed memory, and
onPlayerPart may create timers: none of it matters to the walk.

**The sessions.** `SessionInv` is WalkInv with: a timer that holds a player whose
CPlayer was deleted is in the vector and marked (Marked), and so is every timer
that holds a player whose onPlayerPart runs (Promised). Promised is what
DereferencePlayer relies on, and the step at which it could fail is a timer
created during onPlayerPart: hence the assumption. Marked is also what OthersTimersStay
needs: a timer that is found by misreading a freed CPlayer is marked already, and
the timers of which anything else can be misread are those with another instance. That a mark is never undone
(DyingStays) needs WalkInv, since the memory of a removed timer may be reused.

**The script host.** None of its properties is inductive without the shape of the
call stack. `HostInv` has it: there is at most one load on the stack, everything
above it runs in the machine being loaded, it never shares the stack with
onServerStart, and only the first one is at the bottom (LoadShape); onServerStart
is at the bottom (StartShape); a script's top level and onScriptLoad stand right
above a load (BodyShape); nothing has run before the first frame (BeforeLoad).
PermissionReturns is part of it, for it is what makes a second load impossible: a
reload needs canReload, which with PermissionReturns says that no load is on the
stack. The lemma of each action also says what it does to Loading and Starting,
from which LifecycleStep maps every step to one of Lifecycle or to a stutter.
`Machines` adds that calls, timers and scripts name opened machines only.

**The update tracker.** That reports form a chain is not inductive: it needs what
lies between two of them. `Settled` says that what scripts were told last of
somebody's attribute is what is saved of it and what was read last, or that they
were told nothing; it holds of everybody while nothing is reported, and of
everybody else while a report is under way (OthersSettled). Of the one whose
report runs, `Handled` says it attribute by attribute: those behind the place of
the handler are as they were read now, those ahead as they were read before it
began, which is still what is saved. The steps that could break it are those of
the functions that are called on the way: a kick resets what is saved, hence the
exception for players who left; a vehicle deleted and created again has been told
nothing of. NeverTold and NeverRead say that nothing was told of what has no
object nor read of what is gone. Weapons need that what is read fits in a byte.

**The purse.** `Outermost`: while calls are in progress, the value the outermost
one is to set is the one that was meant, and no change since counts. A nested call
appends behind the outermost and a return takes the innermost away, so its entry
stays until it returns itself and writes that value. Calls may nest as deep as
they like: no bound is used.

**The streams.** Of the outgoing one `OutInv` says that the offsets written since
StartWrite are exactly `0 .. outEnd - 1`, that the position is within them, and that
nothing is lost unless the error flag is set; SetWritePosition clamps to the end,
so no gap can arise. Of the incoming one, `InInv` needs that every packet is at
least as long as the value read (`NoShortPacket`): then `size - n` does not wrap, and
the guard is the one meant. A string is at most CAP - 2 characters and the result
holds RESULT - 1 >= CAP - 1.

**The events.** StackKept compares the stack with what it was before the event, and
is inductive with the stack no higher than when the scripts were loaded, from which
a reload starts anew. The lemmas go through every way out of a handler: the object
or the function is missing (NotCalledKeeps), the function is asked (AsksKeeps) or
told (ReportsKeeps, TellsKeeps), and the two handlers that do more (DeathKeeps,
CommandKeeps). `PopsFacts` is what Execute and Evaluate do to the stack.

**The functions.** What scripts are shown of each is proved for all inputs.
- ArrowOfAll needs that everybody who was there when the arrow was last set, and
  has not left, has it as it was set (ArrowKept). HiddenAsAsked needs `RoundedAlike`:
  HideMapObject and ShowMapObject, which cut in two ways, agree above 0, and what
  is hidden from below 0 is not above 0. `Place` and `Raw` are triples of integers.
- OneDistrict is geometry of twelve rectangles (`Apart`), decided by the SMT solver
  for all integers, where TLC tries the borders and their neighbours.
- Numeric: `SkipFacts` says where Skip stops. Skip takes the least index of a set,
  which exists since < is well-founded on Nat (`LeastOne`, from WFMin: the one
  theorem of the library that takes a set, not an operator). `NumericOf` then shows
  that IsNum finds the three parts if there are any, because no character is of two
  of the kinds.
- InsideByAnyRay: a ray upwards, whose crossings Internal_InPoly counts, and one to the
  left have an odd number of crossings alike. `EdgeCrossed` is the geometry of one
  edge: if the point is not on it, the two rays disagree about it exactly if one of
  its ends lies in the quarter between them and the other does not. `ClosedPath` is the
  rest: a closed path leaves a region as often as it enters it, so the number of
  edges about which the rays disagree is even. Polygons are of any length
  (AreasAssumption gives them integer coordinates).
- Formatted and NoTargetLeft are about loops, written as recursive functions over
  0 .. n. `Iterate` says that there is a function with such a recursion, hence that
  CHOOSE finds it (DigitsDef, GroupsDef, VisitsDef, ReplacedDef), and `Climb`, that a
  set of numbers which has 0, and with m also m + 1, has all up to n: induction as a
  fact about a set, which needs no operator as a parameter.
  * Of k groups after the first, of h digits, GroupAdded says: the text has h + 4k
    characters, its dots are where i - h is one more than a multiple of 4, and its
    digits are the first h + 3k. At the end this counts dots from the right. That
    formatting again changes nothing follows from DigitsConcat: dots and the sign
    add no digits.
  * Of the loop over the positions, `Past` says: no occurrence of the target begins
    before the next position, and none will, since what is put into the text is not
    in the target (MatchKept, VisitPast). ReplaceOneFacts is its end. StaysAway is
    the step from target to target: replacing one makes no occurrence of another.
    The texts are sequences of strings (FigureAssumption, ReplaceAssumption).
- InStep is a matter of tables and of one computation. `SetterFits`: for each of the
  18 attributes, the setter chosen by the flags its getter puts in is its own.
  `ToUIntFacts`: three components that fit in bytes are one number whose digits they
  are, under OrAssumption (which any power of two satisfies with the bitwise or);
  and any others are some number (OrBounds), so that the types stay as they are.
- BodyAsAsked needs the lights to be bits of a word of 32 (BitAssumption).
- SwitchesKept: `AllRight` says of each name that its getter and setter are of one
  option and invert it alike; `OneThing`, that two names share an option only if
  they are twins. So an assignment changes what is read under its twins only.

**Only model-checked**: liveness (DyingLeaves, FrameReturns), which is out of the
provers' reach; NamesLeadBack, whose tables and texts are all there is, so that TLC's
check is exhaustive and a proof would add nothing.
The properties the violation runs refute are of course not proved; the
refinements FramesSpec and LifecycleSpec are.

## Not modelled

- **Squirrel and Sqrat** (two thirds of the lines of the repository) are vendored.
  What the plugin sees of them, the stack sq_call leaves and what Execute and
  Evaluate do with it, is in Events.
- **The server** is not part of the repository: its interface is a table of
  function pointers, and it is the environment of every module.
- **Exports and console output** have no behaviour of their own; of the
  **registration** the names of the options are in Switches, and which calls
  Squirrel's parameter checks refuse is not modelled.
- **Setters and getters that pass a value on** and read the same one back, handling
  rules, radio streams and messages: nothing happens in them that a property
  could be about without restating them. SetVehicle raises an event before it
  acts as SetMoney does, but hands no value that a nested call could lose.
- **Counting and finding players** (FindPlayer, GetPlayers, nearby entities): loops
  over ids without state.
- **Event dispatch** leaves out the conversion of texts between UTF-8 and ANSI,
  how a command is split into name and arguments, what OnLoginAttempt does with
  the name, and OnInternalCommand, by which other plugins ask for the machine.
- **A callback that kicks the player** whose setter runs (SetMoney) makes the setter
  read a deleted object; Purse assumes that it does not.
- Two sizes are left open on purpose: float rounding, of elapsed time and of
  coordinates, and what the pools of the server do beyond what the code relies on.

`PROJECT.json` names for each hazard the properties that cover it, or why none
does.
