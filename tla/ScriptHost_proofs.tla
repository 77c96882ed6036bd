--------------------------- MODULE ScriptHost_proofs ---------------------------
(***************************************************************************)
(* Proofs about ScriptHost, for any number of reloads and any depth of     *)
(* nested calls.                                                           *)
(***************************************************************************)
EXTENDS ScriptHost, SequenceTheorems, TLAPS

\* There is at most one load on the stack, and not while onServerStart runs;
\* what is above it runs in the machine being loaded, and only the first one is
\* at the bottom
LoadShape ==
    \A i \in DOMAIN stack : stack[i].kind = "load" =>
        /\ stack[i].vm = vms
        /\ \A j \in DOMAIN stack : j # i => stack[j].kind \notin {"load", "onServerStart"}
        /\ \A j \in DOMAIN stack : j > i => stack[j].vm = vms
        /\ i = 1 => vms = 1

StartShape ==
    \A i \in DOMAIN stack : stack[i].kind = "onServerStart" =>
        i = 1 /\ \A j \in DOMAIN stack : stack[j].vm = vms

\* A script's top level and onScriptLoad are called by the load below them
BodyShape ==
    \A j \in DOMAIN stack : stack[j].kind \in {"main", "onScriptLoad"} =>
        /\ j > 1 /\ stack[j - 1].kind = "load"
        /\ stack[j].kind = "main" => script = vms

\* Nothing has run before the first frame
BeforeLoad ==
    /\ gServerInitPending => code = {} /\ \A i \in DOMAIN stack : stack[i].kind = "script"
    /\ phase = "loaded" => stack = <<>> /\ gServerInitPending
    /\ phase = "down" => stack = <<>>
    /\ gServerInitPending /\ phase # "loaded" => vms = 1

Frames == [kind : Kind, vm : Nat]

HostInv ==
    /\ stack \in Seq(Frames) /\ vms \in Nat
    /\ phase \in Phase /\ canReload \in BOOLEAN /\ gServerInitPending \in BOOLEAN
    /\ LoadShape /\ StartShape /\ BodyShape /\ BeforeLoad
    /\ PermissionReturns

LEMMA InitHost == Init => HostInv
<1> SUFFICES ASSUME Init PROVE HostInv
  OBVIOUS
<1>1. stack = <<>> /\ DOMAIN stack = {} /\ stack \in Seq(Frames)
  BY DEF Init
<1>2. LoadShape /\ StartShape /\ BodyShape
  BY <1>1 DEF LoadShape, StartShape, BodyShape
<1>3. BeforeLoad
  BY <1>1 DEF Init, BeforeLoad
<1>4. PermissionReturns
  BY <1>1 DEF Init, PermissionReturns, Loading, Starting
<1>5. QED
  BY <1>1, <1>2, <1>3, <1>4 DEF Init, HostInv, Frames, Phase

\* Pushing a frame.
LEMMA PushFacts ==
    ASSUME NEW s \in Seq(Frames), NEW f \in Frames
    PROVE  /\ Append(s, f) \in Seq(Frames)
           /\ DOMAIN Append(s, f) = 1 .. Len(s) + 1
           /\ Len(Append(s, f)) = Len(s) + 1
           /\ \A i \in DOMAIN s : Append(s, f)[i] = s[i]
           /\ Append(s, f)[Len(s) + 1] = f
OBVIOUS

\* Popping frames.
LEMMA PopFacts ==
    ASSUME NEW s \in Seq(Frames), NEW n \in 0 .. Len(s)
    PROVE  /\ SubSeq(s, 1, n) \in Seq(Frames)
           /\ DOMAIN SubSeq(s, 1, n) = 1 .. n
           /\ Len(SubSeq(s, 1, n)) = n
           /\ \A i \in 1 .. n : SubSeq(s, 1, n)[i] = s[i]
OBVIOUS

\* The kinds of the calls a step makes and ends.
LEMMA CallFacts ==
    ASSUME NEW k \in Kind, NEW n \in Nat
    PROVE  Call(k, n) \in Frames /\ Call(k, n).kind = k /\ Call(k, n).vm = n
BY DEF Call, Frames

Shapes == LoadShape /\ StartShape /\ BodyShape
OnlyScripts == \A i \in DOMAIN stack : stack[i].kind = "script"
Same == (Loading' <=> Loading) /\ (Starting' <=> Starting)

\* What is left when calls end keeps its shape.
LEMMA PrefixKeeps ==
    ASSUME HostInv, NEW n \in 0 .. Len(stack), stack' = SubSeq(stack, 1, n), vms' = vms,
           script' = script \/ \A i \in 1 .. n : stack[i].kind # "main"
    PROVE  /\ stack' \in Seq(Frames) /\ Shapes'
           /\ OnlyScripts => OnlyScripts'
           /\ Loading' <=> \E i \in 1 .. n : stack[i].kind = "load"
           /\ Starting' <=> \E i \in 1 .. n : stack[i].kind = "onServerStart"
<1>1. stack \in Seq(Frames) /\ DOMAIN stack = 1 .. Len(stack) /\ Len(stack) \in Nat
  BY DEF HostInv
<1>2. stack' \in Seq(Frames) /\ DOMAIN stack' = 1 .. n /\ \A i \in 1 .. n : stack'[i] = stack[i]
  BY <1>1, PopFacts
<1>3. DOMAIN stack' \subseteq DOMAIN stack /\ \A i \in DOMAIN stack' : stack'[i] = stack[i]
  BY <1>1, <1>2
<1>4. LoadShape'
  BY <1>3 DEF HostInv, LoadShape
<1>5. StartShape'
  BY <1>3 DEF HostInv, StartShape
<1>6. BodyShape'
  <2> SUFFICES ASSUME NEW j \in 1 .. n, stack[j].kind \in {"main", "onScriptLoad"}
               PROVE  /\ j > 1 /\ stack'[j - 1].kind = "load"
                      /\ stack[j].kind = "main" => script' = vms
    BY <1>2 DEF BodyShape
  <2>1. j \in DOMAIN stack /\ BodyShape
    BY <1>1 DEF HostInv
  <2>2. j > 1 /\ stack[j - 1].kind = "load" /\ (stack[j].kind = "main" => script = vms)
    BY <2>1 DEF BodyShape
  <2>3. QED
    BY <1>2, <2>2
<1>7. OnlyScripts => OnlyScripts'
  BY <1>3 DEF OnlyScripts
<1>8. /\ Loading' <=> \E i \in 1 .. n : stack[i].kind = "load"
      /\ Starting' <=> \E i \in 1 .. n : stack[i].kind = "onServerStart"
  BY <1>2 DEF Loading, Starting
<1>9. QED
  BY <1>2, <1>4, <1>5, <1>6, <1>7, <1>8 DEF Shapes

\* A function that is called runs in the machine being loaded, if any.
LEMMA PushScriptKeeps ==
    ASSUME HostInv, NEW n \in Nat, stack' = Push(Call("script", n)), vms' = vms,
           script' = script, Loading \/ Starting => n = vms
    PROVE  /\ stack' \in Seq(Frames) /\ Shapes'
           /\ OnlyScripts => OnlyScripts'
           /\ Loading' <=> Loading
           /\ Starting' <=> Starting
<1>1. stack \in Seq(Frames) /\ DOMAIN stack = 1 .. Len(stack) /\ Len(stack) \in Nat
  BY DEF HostInv
<1> DEFINE f == Call("script", n)
<1>2. f \in Frames /\ f.kind = "script" /\ f.vm = n
  BY CallFacts DEF Kind
<1>3. /\ stack' \in Seq(Frames) /\ DOMAIN stack' = 1 .. Len(stack) + 1
      /\ \A i \in 1 .. Len(stack) : stack'[i] = stack[i]
      /\ stack'[Len(stack) + 1] = f
  BY <1>1, <1>2, PushFacts DEF Push
<1> HIDE DEF f
<1>4. LoadShape'
  <2> SUFFICES ASSUME NEW i \in DOMAIN stack', stack'[i].kind = "load"
               PROVE  /\ stack'[i].vm = vms
                      /\ \A j \in DOMAIN stack' :
                            j # i => stack'[j].kind \notin {"load", "onServerStart"}
                      /\ \A j \in DOMAIN stack' : j > i => stack'[j].vm = vms
                      /\ i = 1 => vms = 1
    BY DEF LoadShape
  <2>1. i \in DOMAIN stack /\ stack[i].kind = "load"
    BY <1>1, <1>2, <1>3
  <2>2. n = vms
    BY <2>1 DEF Loading
  <2>3. QED
    BY <1>1, <1>2, <1>3, <2>1, <2>2 DEF HostInv, LoadShape
<1>5. StartShape'
  <2> SUFFICES ASSUME NEW i \in DOMAIN stack', stack'[i].kind = "onServerStart"
               PROVE  i = 1 /\ \A j \in DOMAIN stack' : stack'[j].vm = vms
    BY DEF StartShape
  <2>1. i \in DOMAIN stack /\ stack[i].kind = "onServerStart"
    BY <1>1, <1>2, <1>3
  <2>2. n = vms
    BY <2>1 DEF Starting
  <2>3. QED
    BY <1>1, <1>2, <1>3, <2>1, <2>2 DEF HostInv, StartShape
<1>6. BodyShape'
  <2> SUFFICES ASSUME NEW j \in DOMAIN stack', stack'[j].kind \in {"main", "onScriptLoad"}
               PROVE  /\ j > 1 /\ stack'[j - 1].kind = "load"
                      /\ stack'[j].kind = "main" => script' = vms'
    BY DEF BodyShape
  <2>1. j \in DOMAIN stack /\ stack'[j] = stack[j] /\ BodyShape
    BY <1>1, <1>2, <1>3 DEF HostInv
  <2>2. j > 1 /\ stack[j - 1].kind = "load" /\ (stack[j].kind = "main" => script = vms)
    BY <2>1 DEF BodyShape
  <2>3. QED
    BY <1>1, <1>3, <2>1, <2>2
<1>7. OnlyScripts => OnlyScripts'
  BY <1>1, <1>2, <1>3 DEF OnlyScripts
<1>8. (Loading' <=> Loading) /\ (Starting' <=> Starting)
  BY <1>1, <1>2, <1>3 DEF Loading, Starting
<1>9. QED
  BY <1>3, <1>4, <1>5, <1>6, <1>7, <1>8 DEF Shapes

-------------------------------------------------------------------------------
(* One lemma per action that makes or ends a call. *)

LEMMA EventHost == ASSUME HostInv, Event PROVE HostInv' /\ Same
<1>1. vms \in Nat /\ (Loading \/ Starting => vms = vms)
  BY DEF HostInv
<1>2. /\ stack' \in Seq(Frames) /\ Shapes' /\ (OnlyScripts => OnlyScripts')
      /\ (Loading' <=> Loading) /\ (Starting' <=> Starting)
  BY <1>1, PushScriptKeeps DEF Event
<1>3. ~gServerInitPending /\ phase \notin {"loaded", "down"}
  BY DEF Event, HostInv, BeforeLoad, ScriptRuns
<1>4. BeforeLoad' /\ PermissionReturns'
  BY <1>2, <1>3 DEF Event, HostInv, BeforeLoad, PermissionReturns
<1>5. QED
  BY <1>2, <1>4 DEF Event, HostInv, Shapes, Same

LEMMA TimerFiresHost ==
    ASSUME HostInv, NEW vm \in 1 .. MaxVM, TimerFires(vm) PROVE HostInv' /\ Same
<1>1. vm \in Nat /\ ~Loading /\ ~Starting
  BY BoundAssumption DEF TimerFires, Loading, Starting
<1>2. /\ stack' \in Seq(Frames) /\ Shapes'
      /\ (Loading' <=> Loading) /\ (Starting' <=> Starting)
  BY <1>1, PushScriptKeeps DEF TimerFires
<1>3. BeforeLoad' /\ PermissionReturns'
  BY <1>2 DEF TimerFires, HostInv, BeforeLoad, PermissionReturns
<1>4. QED
  BY <1>2, <1>3 DEF TimerFires, HostInv, Shapes, Same

\* The function on top of the stack returns.
LEMMA ReturnsHost == ASSUME HostInv, Returns PROVE HostInv' /\ Same
<1>1. /\ stack \in Seq(Frames) /\ DOMAIN stack = 1 .. Len(stack) /\ Len(stack) \in Nat
      /\ Len(stack) # 0 /\ stack # <<>> /\ stack[Len(stack)].kind = "script"
  BY DEF HostInv, Returns, IsTop, Top
<1>2. /\ stack' \in Seq(Frames) /\ Shapes' /\ (OnlyScripts => OnlyScripts')
      /\ Loading' <=> \E i \in 1 .. Len(stack) - 1 : stack[i].kind = "load"
      /\ Starting' <=> \E i \in 1 .. Len(stack) - 1 : stack[i].kind = "onServerStart"
  <2>1. Len(stack) - 1 \in 0 .. Len(stack)
    BY <1>1
  <2>2. QED
    BY <2>1, PrefixKeeps DEF Returns, Pop
<1>3. (Loading' <=> Loading) /\ (Starting' <=> Starting)
  <2> DEFINE n == Len(stack)
  <2>1. n \in Nat
    BY <1>1
  <2>2. /\ Loading <=> \E i \in 1 .. n : stack[i].kind = "load"
        /\ Starting <=> \E i \in 1 .. n : stack[i].kind = "onServerStart"
        /\ Loading' <=> \E i \in 1 .. n - 1 : stack[i].kind = "load"
        /\ Starting' <=> \E i \in 1 .. n - 1 : stack[i].kind = "onServerStart"
        /\ stack[n].kind = "script"
    BY <1>1, <1>2 DEF Loading, Starting
  <2> HIDE DEF n
  <2>3. \A i : i \in 1 .. n <=> i \in 1 .. n - 1 \/ (i = n /\ n # 0)
    BY <2>1
  <2>4. QED
    BY <2>2, <2>3
<1>4. phase \notin {"loaded", "down"}
  BY <1>1 DEF HostInv, BeforeLoad
<1>5. gServerInitPending => code = {} /\ OnlyScripts
  BY DEF HostInv, BeforeLoad, OnlyScripts
<1>6. BeforeLoad'
  BY <1>2, <1>4, <1>5 DEF Returns, HostInv, BeforeLoad, OnlyScripts
<1>7. BeforeLoad' /\ PermissionReturns'
  BY <1>3, <1>6 DEF Returns, HostInv, PermissionReturns
<1>8. QED
  BY <1>2, <1>3, <1>7 DEF Returns, HostInv, Shapes, Same

\* While the load is on top, nothing it started is on the stack.
LEMMA LoadOnTop ==
    ASSUME HostInv, IsTop("load")
    PROVE  /\ stack # <<>> /\ Len(stack) \in Nat /\ Len(stack) # 0
           /\ DOMAIN stack = 1 .. Len(stack) /\ stack[Len(stack)].kind = "load"
           /\ stack[Len(stack)].vm = vms
           /\ \A i \in DOMAIN stack :
                  stack[i].kind \notin {"main", "onScriptLoad", "onServerStart"}
           /\ \A i \in DOMAIN stack : stack[i].kind = "load" => i = Len(stack)
           /\ ~gServerInitPending /\ phase \notin {"loaded", "down"}
<1>1. /\ stack \in Seq(Frames) /\ DOMAIN stack = 1 .. Len(stack) /\ Len(stack) \in Nat
      /\ stack # <<>> /\ Len(stack) # 0 /\ stack[Len(stack)].kind = "load"
  BY DEF HostInv, IsTop, Top
<1>2. /\ \A i \in DOMAIN stack : i # Len(stack) => stack[i].kind \notin {"load", "onServerStart"}
      /\ stack[Len(stack)].vm = vms
  BY <1>1 DEF HostInv, LoadShape
<1>3. ASSUME NEW i \in DOMAIN stack, stack[i].kind \in {"main", "onScriptLoad"}
      PROVE  FALSE
  <2>1. i > 1 /\ stack[i - 1].kind = "load"
    BY <1>3 DEF HostInv, BodyShape
  <2>2. i - 1 \in DOMAIN stack /\ i - 1 # Len(stack)
    BY <1>1, <2>1
  <2>3. QED
    BY <1>2, <2>1, <2>2
<1>4. ~gServerInitPending /\ phase \notin {"loaded", "down"}
  BY <1>1 DEF HostInv, BeforeLoad
<1>5. QED
  BY <1>1, <1>2, <1>3, <1>4

\* A line of the configuration file runs a script, above the load.
LEMMA LineRunsHost == ASSUME HostInv, LineRuns PROVE HostInv' /\ Same
<1>1. /\ stack \in Seq(Frames) /\ DOMAIN stack = 1 .. Len(stack) /\ Len(stack) \in Nat
      /\ Len(stack) # 0 /\ stack[Len(stack)].kind = "load" /\ vms \in Nat
  BY DEF HostInv, LineRuns, IsTop, Top
<1> DEFINE f == Call("main", vms)
<1>2. f \in Frames /\ f.kind = "main" /\ f.vm = vms
  BY <1>1, CallFacts DEF Kind
<1>3. /\ stack' \in Seq(Frames) /\ DOMAIN stack' = 1 .. Len(stack) + 1
      /\ \A i \in 1 .. Len(stack) : stack'[i] = stack[i]
      /\ stack'[Len(stack) + 1] = f
  BY <1>1, <1>2, PushFacts DEF LineRuns, Push
<1> HIDE DEF f
<1>4. \A i \in DOMAIN stack :
          /\ stack[i].kind \notin {"main", "onScriptLoad", "onServerStart"}
          /\ stack[i].kind = "load" => i = Len(stack)
  BY LoadOnTop DEF LineRuns
<1>5. LoadShape'
  <2>1. \A i \in DOMAIN stack' : stack'[i].kind = "load" => i = Len(stack)
    BY <1>1, <1>2, <1>3, <1>4
  <2>2. stack'[Len(stack)].vm = vms /\ (Len(stack) = 1 => vms = 1)
    BY <1>1, <1>3 DEF HostInv, LoadShape
  <2>3. \A j \in DOMAIN stack' : stack'[j].kind # "onServerStart"
    BY <1>1, <1>2, <1>3, <1>4
  <2>4. \A j \in DOMAIN stack' : j > Len(stack) => stack'[j].vm = vms
    BY <1>1, <1>2, <1>3
  <2>5. vms' = vms
    BY DEF LineRuns
  <2>6. QED
    BY <2>1, <2>2, <2>3, <2>4, <2>5 DEF LoadShape
<1>6. StartShape'
  BY <1>1, <1>2, <1>3, <1>4 DEF StartShape
<1>7. BodyShape'
  <2>1. script' = vms /\ vms' = vms
    BY DEF LineRuns
  <2>2. \A j \in DOMAIN stack' : stack'[j].kind \in {"main", "onScriptLoad"} => j = Len(stack) + 1
    BY <1>1, <1>3, <1>4
  <2>3. Len(stack) + 1 > 1 /\ stack'[Len(stack) + 1 - 1].kind = "load"
    BY <1>1, <1>3
  <2>4. QED
    BY <2>1, <2>2, <2>3 DEF BodyShape
<1>8. Loading /\ Loading' /\ ~Starting /\ ~Starting'
  BY <1>1, <1>2, <1>3, <1>4 DEF Loading, Starting
<1>9. ~gServerInitPending /\ phase \notin {"loaded", "down"}
  BY <1>1 DEF HostInv, BeforeLoad
<1>10. BeforeLoad' /\ PermissionReturns'
  BY <1>8, <1>9 DEF LineRuns, HostInv, BeforeLoad, PermissionReturns
<1>11. QED
  BY <1>1, <1>3, <1>5, <1>6, <1>7, <1>8, <1>10 DEF LineRuns, HostInv, Same

\* What a load runs is called by it, one call at a time.
LEMMA BodyOnTop ==
    ASSUME HostInv, NEW k \in {"main", "onScriptLoad"}, IsTop(k)
    PROVE  /\ stack # <<>> /\ Len(stack) \in Nat /\ Len(stack) > 1
           /\ DOMAIN stack = 1 .. Len(stack) /\ stack[Len(stack)].kind = k
           /\ stack[Len(stack) - 1].kind = "load" /\ stack[Len(stack) - 1].vm = vms
           /\ Len(stack) = 2 => vms = 1
           /\ \A i \in DOMAIN stack : stack[i].kind # "onServerStart"
           /\ \A i \in DOMAIN stack : stack[i].kind = "load" => i = Len(stack) - 1
           /\ \A i \in DOMAIN stack :
                  stack[i].kind \in {"main", "onScriptLoad"} => i = Len(stack)
           /\ ~gServerInitPending /\ phase \notin {"loaded", "down"}
<1>1. /\ stack \in Seq(Frames) /\ DOMAIN stack = 1 .. Len(stack) /\ Len(stack) \in Nat
      /\ stack # <<>> /\ Len(stack) # 0 /\ stack[Len(stack)].kind = k
  BY DEF HostInv, IsTop, Top
<1>2. Len(stack) > 1 /\ stack[Len(stack) - 1].kind = "load"
  BY <1>1 DEF HostInv, BodyShape
<1>3. Len(stack) - 1 \in DOMAIN stack
  BY <1>1, <1>2
<1>4. /\ \A i \in DOMAIN stack :
             i # Len(stack) - 1 => stack[i].kind \notin {"load", "onServerStart"}
      /\ stack[Len(stack) - 1].vm = vms
      /\ Len(stack) - 1 = 1 => vms = 1
  BY <1>2, <1>3 DEF HostInv, LoadShape
<1>5. ASSUME NEW i \in DOMAIN stack, stack[i].kind \in {"main", "onScriptLoad"}
      PROVE  i = Len(stack)
  <2>1. i > 1 /\ stack[i - 1].kind = "load"
    BY <1>5 DEF HostInv, BodyShape
  <2>2. i - 1 \in DOMAIN stack
    BY <1>1, <2>1
  <2>3. i - 1 = Len(stack) - 1
    BY <1>4, <2>1, <2>2
  <2>4. QED
    BY <1>1, <2>3
<1>6. ~gServerInitPending /\ phase \notin {"loaded", "down"}
  BY <1>1 DEF HostInv, BeforeLoad
<1>7. QED
  BY <1>1, <1>2, <1>4, <1>5, <1>6

\* The stack with one call on it.
LEMMA OneFrame ==
    ASSUME NEW f \in Frames
    PROVE  <<f>> \in Seq(Frames) /\ DOMAIN <<f>> = {1} /\ <<f>>[1] = f /\ <<f>> # <<>>
OBVIOUS

LEMMA LineFailsHost == ASSUME HostInv, LineFails PROVE HostInv' /\ Same
<1>1. /\ \A i \in DOMAIN stack : stack[i].kind \notin {"main", "onScriptLoad"}
      /\ ~gServerInitPending
  BY LoadOnTop DEF LineFails
<1>2. stack' = stack /\ vms' = vms
  BY DEF LineFails
<1>3. LoadShape' /\ StartShape' /\ BodyShape'
  BY <1>1, <1>2 DEF HostInv, LoadShape, StartShape, BodyShape
<1>4. BeforeLoad' /\ PermissionReturns'
  BY <1>1, <1>2 DEF LineFails, HostInv, BeforeLoad, PermissionReturns, Loading, Starting
<1>5. Same
  BY <1>2 DEF Same, Loading, Starting
<1>6. QED
  BY <1>3, <1>4, <1>5 DEF LineFails, HostInv

\* The top level throws: the load below it goes on.
LEMMA ScriptFailsHost == ASSUME HostInv, ScriptFails PROVE HostInv' /\ Same
<1> DEFINE n == Len(stack) - 1
<1>1. /\ n \in 0 .. Len(stack) /\ n \in DOMAIN stack /\ n \in 1 .. n /\ stack[n].kind = "load"
      /\ DOMAIN stack = 1 .. Len(stack)
      /\ \A i \in 1 .. n : i \in DOMAIN stack /\ i # Len(stack)
  <2>1. /\ Len(stack) \in Nat /\ Len(stack) > 1 /\ DOMAIN stack = 1 .. Len(stack)
        /\ stack[n].kind = "load"
    <3>1. IsTop("main") /\ "main" \in {"main", "onScriptLoad"}
      BY DEF ScriptFails
    <3>2. QED
      BY <3>1, BodyOnTop
  <2>2. n \in Nat /\ n > 0 /\ Len(stack) = n + 1
    BY <2>1
  <2> HIDE DEF n
  <2>3. /\ n \in 0 .. n + 1 /\ n \in 1 .. n + 1 /\ n \in 1 .. n
        /\ \A i \in 1 .. n : i \in 1 .. n + 1 /\ i # n + 1
    BY <2>2
  <2>4. QED
    BY <2>1, <2>2, <2>3
<1>2. /\ \A i \in 1 .. n : stack[i].kind \notin {"main", "onServerStart"}
      /\ \A i \in DOMAIN stack : stack[i].kind # "onServerStart"
      /\ ~gServerInitPending /\ phase \notin {"loaded", "down"}
  BY <1>1, BodyOnTop DEF ScriptFails
<1>3. stack' = SubSeq(stack, 1, n) /\ vms' = vms
  BY DEF ScriptFails, Pop
<1>4. /\ stack' \in Seq(Frames) /\ Shapes'
      /\ Loading' <=> \E i \in 1 .. n : stack[i].kind = "load"
      /\ Starting' <=> \E i \in 1 .. n : stack[i].kind = "onServerStart"
  <2> HIDE DEF n
  <2>1. QED
    BY <1>1, <1>2, <1>3, PrefixKeeps
<1>5. Loading /\ Loading' /\ ~Starting /\ ~Starting'
  BY <1>1, <1>2, <1>4 DEF Loading, Starting
<1>6. BeforeLoad' /\ PermissionReturns'
  BY <1>2, <1>5 DEF ScriptFails, HostInv, BeforeLoad, PermissionReturns
<1>7. QED
  BY <1>4, <1>5, <1>6 DEF ScriptFails, HostInv, Shapes, Same

\* The top level returns and the load calls onScriptLoad in its place.
LEMMA ScriptRunHost == ASSUME HostInv, ScriptRun PROVE HostInv' /\ Same
<1> DEFINE m == Len(stack)
           f == Call("onScriptLoad", vms)
<1>1. /\ stack \in Seq(Frames) /\ m \in Nat /\ m > 1 /\ DOMAIN stack = 1 .. m
      /\ stack[m - 1].kind = "load" /\ stack[m - 1].vm = vms /\ (m = 2 => vms = 1)
      /\ \A i \in DOMAIN stack : stack[i].kind # "onServerStart"
      /\ \A i \in DOMAIN stack : stack[i].kind = "load" => i = m - 1
      /\ \A i \in DOMAIN stack : stack[i].kind \in {"main", "onScriptLoad"} => i = m
      /\ ~gServerInitPending /\ phase \notin {"loaded", "down"}
      /\ vms \in Nat
  BY BodyOnTop DEF ScriptRun, HostInv
<1>2. f \in Frames /\ f.kind = "onScriptLoad" /\ f.vm = vms
  BY <1>1, CallFacts DEF Kind
<1>3. /\ stack' \in Seq(Frames) /\ DOMAIN stack' = 1 .. m
      /\ \A i \in 1 .. m - 1 : stack'[i] = stack[i]
      /\ stack'[m] = f
  <2>1. m - 1 \in 0 .. Len(stack)
    BY <1>1
  <2>2. /\ Pop \in Seq(Frames) /\ Len(Pop) = m - 1 /\ DOMAIN Pop = 1 .. m - 1
        /\ \A i \in 1 .. m - 1 : Pop[i] = stack[i]
    BY <1>1, <2>1, PopFacts DEF Pop
  <2>3. stack' = Append(Pop, f)
    BY DEF ScriptRun
  <2> HIDE DEF f, m
  <2>4. /\ stack' \in Seq(Frames) /\ DOMAIN stack' = 1 .. Len(Pop) + 1
        /\ \A i \in DOMAIN Pop : stack'[i] = Pop[i]
        /\ stack'[Len(Pop) + 1] = f
    BY <1>2, <2>2, <2>3, PushFacts
  <2>5. QED
    BY <1>1, <2>2, <2>4
<1> HIDE DEF f, m
<1>4. /\ vms' = vms /\ script' = script
      /\ \A i \in 1 .. m : i \in 1 .. m - 1 \/ i = m
      /\ m - 1 \in 1 .. m - 1
  BY <1>1 DEF ScriptRun
<1>5. /\ \A i \in DOMAIN stack' : stack'[i].kind = "load" => i = m - 1
      /\ \A i \in DOMAIN stack' : stack'[i].kind # "onServerStart"
      /\ \A i \in DOMAIN stack' : stack'[i].kind \in {"main", "onScriptLoad"} => i = m
  BY <1>1, <1>2, <1>3, <1>4
<1>6. LoadShape'
  <2>1. \A j \in DOMAIN stack' : j > m - 1 => stack'[j].vm = vms
    BY <1>1, <1>2, <1>3, <1>4
  <2>2. stack'[m - 1].vm = vms /\ (m - 1 = 1 => vms = 1)
    BY <1>1, <1>3, <1>4
  <2>3. QED
    BY <1>4, <1>5, <2>1, <2>2 DEF LoadShape
<1>7. StartShape'
  BY <1>5 DEF StartShape
<1>8. BodyShape'
  <2>1. stack'[m].kind # "main" /\ stack'[m - 1].kind = "load"
    BY <1>1, <1>2, <1>3, <1>4
  <2>2. QED
    BY <1>1, <1>5, <2>1 DEF BodyShape
<1>9. Loading /\ Loading' /\ ~Starting /\ ~Starting'
  <2>1. m - 1 \in DOMAIN stack /\ m - 1 \in DOMAIN stack' /\ stack'[m - 1].kind = "load"
    BY <1>1, <1>3, <1>4
  <2>2. QED
    BY <1>1, <1>5, <2>1 DEF Loading, Starting
<1>10. BeforeLoad' /\ PermissionReturns'
  BY <1>1, <1>9 DEF ScriptRun, HostInv, BeforeLoad, PermissionReturns
<1>11. QED
  BY <1>3, <1>6, <1>7, <1>8, <1>9, <1>10 DEF ScriptRun, HostInv, Same

\* LoadScript returns to ReloadScripts, or to the first OnFrame.
LEMMA ReturnsToHost ==
    ASSUME HostInv, NEW n \in 0 .. Len(stack), n < Len(stack),
           stack[n + 1].kind = "load", ReturnsTo(SubSeq(stack, 1, n)),
           phase \notin {"loaded", "down"}, ~gServerInitPending,
           UNCHANGED <<vms, gServerInitPending, script, phase>>
    PROVE  HostInv' /\ Loading /\ ~Loading' /\ (Starting' => vms = 1)
<1>1. stack \in Seq(Frames) /\ DOMAIN stack = 1 .. Len(stack) /\ Len(stack) \in Nat
  BY DEF HostInv
<1>2. n \in Nat /\ n + 1 \in DOMAIN stack
  BY <1>1
<1>3. \A i \in DOMAIN stack : i # n + 1 => stack[i].kind \notin {"load", "onServerStart"}
  BY <1>2 DEF HostInv, LoadShape
<1>4. Loading
  BY <1>2 DEF Loading
<1>5. CASE SubSeq(stack, 1, n) = <<>>
  <2> DEFINE f == Call("onServerStart", vms)
  <2>1. stack' = <<f>> /\ canReload' = FALSE
    BY <1>5 DEF ReturnsTo
  <2>2. f \in Frames /\ f.kind = "onServerStart" /\ f.vm = vms
    BY CallFacts DEF Kind, HostInv
  <2> HIDE DEF f
  <2>3. stack' \in Seq(Frames) /\ DOMAIN stack' = {1} /\ stack'[1] = f
    BY <2>1, <2>2, OneFrame
  <2>4. LoadShape' /\ StartShape' /\ BodyShape'
    BY <2>2, <2>3 DEF LoadShape, StartShape, BodyShape
  <2>5. Starting'
    BY <2>2, <2>3 DEF Starting
  <2>6. BeforeLoad' /\ PermissionReturns'
    BY <2>1, <2>5 DEF BeforeLoad, PermissionReturns
  <2>7. HostInv'
    BY <2>1, <2>3, <2>4, <2>6 DEF HostInv
  <2>8. ~Loading'
    BY <2>2, <2>3 DEF Loading
  <2>9. n = 0
    <3>1. Len(SubSeq(stack, 1, n)) = n
      BY <1>1, PopFacts
    <3>2. QED
      BY <1>5, <3>1
  <2>10. vms = 1
    BY <1>2, <2>9 DEF HostInv, LoadShape
  <2>11. QED
    BY <1>4, <2>7, <2>8, <2>10
<1>6. CASE SubSeq(stack, 1, n) # <<>>
  <2>1. stack' = SubSeq(stack, 1, n) /\ canReload' = TRUE
    BY <1>6 DEF ReturnsTo
  <2>2. /\ stack' \in Seq(Frames) /\ Shapes'
        /\ Loading' <=> \E i \in 1 .. n : stack[i].kind = "load"
        /\ Starting' <=> \E i \in 1 .. n : stack[i].kind = "onServerStart"
    BY <2>1, PrefixKeeps
  <2>3. \A i \in 1 .. n : i \in DOMAIN stack /\ i # n + 1
    BY <1>1, <1>2
  <2>4. ~Loading' /\ ~Starting'
    BY <1>3, <2>2, <2>3
  <2>5. BeforeLoad' /\ PermissionReturns'
    BY <2>1, <2>4 DEF BeforeLoad, PermissionReturns
  <2>6. QED
    BY <1>4, <2>1, <2>2, <2>4, <2>5 DEF HostInv, Shapes
<1>7. QED
  BY <1>5, <1>6, <1>4

LEMMA NoGamemodeHost ==
    ASSUME HostInv, NoGamemode
    PROVE  /\ HostInv' /\ Loading /\ ~Loading' /\ (Starting' => vms = 1)
           /\ ~gServerInitPending /\ phase \notin {"loaded", "down"}
<1> DEFINE n == Len(stack) - 1
<1>1. /\ Len(stack) \in Nat /\ Len(stack) # 0 /\ stack[Len(stack)].kind = "load"
      /\ ~gServerInitPending /\ phase \notin {"loaded", "down"}
  BY LoadOnTop DEF NoGamemode
<1>2. n \in 0 .. Len(stack) /\ n < Len(stack) /\ n + 1 = Len(stack)
  BY <1>1
<1>3. ReturnsTo(SubSeq(stack, 1, n)) /\ UNCHANGED <<vms, gServerInitPending, script, phase>>
  BY DEF NoGamemode, Pop
<1> HIDE DEF n
<1>4. QED
  BY <1>1, <1>2, <1>3, ReturnsToHost

LEMMA LoadedHost ==
    ASSUME HostInv, Loaded
    PROVE  /\ HostInv' /\ Loading /\ ~Loading' /\ (Starting' => vms = 1)
           /\ ~gServerInitPending /\ phase \notin {"loaded", "down"}
<1> DEFINE n == Len(stack) - 2
<1>1. /\ Len(stack) \in Nat /\ Len(stack) > 1 /\ stack[Len(stack) - 1].kind = "load"
      /\ ~gServerInitPending /\ phase \notin {"loaded", "down"}
  BY BodyOnTop DEF Loaded
<1>2. n \in 0 .. Len(stack) /\ n < Len(stack) /\ n + 1 = Len(stack) - 1
  <2> DEFINE top == Len(stack)
  <2>1. top \in Nat /\ top > 1
    BY <1>1
  <2> HIDE DEF top
  <2>2. top - 2 \in 0 .. top /\ top - 2 < top /\ (top - 2) + 1 = top - 1
    BY ONLY <2>1
  <2>3. QED
    BY <2>2 DEF top
<1>3. ReturnsTo(SubSeq(stack, 1, n)) /\ UNCHANGED <<vms, gServerInitPending, script, phase>>
  BY DEF Loaded
<1> HIDE DEF n
<1>4. QED
  BY <1>1, <1>2, <1>3, ReturnsToHost

\* onServerStart was the only call.
LEMMA StartedHost ==
    ASSUME HostInv, Started
    PROVE  /\ HostInv' /\ ~Loading /\ Starting /\ ~Loading' /\ ~Starting'
           /\ ~gServerInitPending /\ phase \notin {"loaded", "down"}
<1>1. /\ stack \in Seq(Frames) /\ DOMAIN stack = 1 .. Len(stack) /\ Len(stack) \in Nat
      /\ stack # <<>> /\ Len(stack) # 0 /\ stack[Len(stack)].kind = "onServerStart"
  BY DEF HostInv, Started, IsTop, Top
<1>2. Len(stack) = 1
  BY <1>1 DEF HostInv, StartShape
<1>3. stack' = SubSeq(stack, 1, 0) /\ vms' = vms /\ script' = script
  BY <1>2 DEF Started, Pop
<1>4. /\ stack' \in Seq(Frames) /\ Shapes'
      /\ ~Loading' /\ ~Starting'
  <2>1. 0 \in 0 .. Len(stack) /\ 1 .. 0 = {}
    BY <1>1
  <2>2. /\ Loading' <=> \E i \in 1 .. 0 : stack[i].kind = "load"
        /\ Starting' <=> \E i \in 1 .. 0 : stack[i].kind = "onServerStart"
        /\ stack' \in Seq(Frames) /\ Shapes'
    BY <1>3, <2>1, PrefixKeeps
  <2>3. QED
    BY <2>1, <2>2
<1>5. ~gServerInitPending /\ phase \notin {"loaded", "down"}
  BY <1>1 DEF HostInv, BeforeLoad
<1>6. BeforeLoad' /\ PermissionReturns'
  BY <1>4, <1>5 DEF Started, BeforeLoad, PermissionReturns
<1>7. QED
  <2>1. HostInv'
    BY <1>4, <1>6 DEF Started, HostInv, Shapes
  <2>2. ~Loading /\ Starting
    BY <1>1, <1>2 DEF Loading, Starting
  <2>3. QED
    BY <1>4, <1>5, <2>1, <2>2

-------------------------------------------------------------------------------
(* The first load, and reloads. *)

LEMMA FirstFrameHost == ASSUME HostInv, FirstFrame PROVE HostInv' /\ Loading'
<1> DEFINE f == Call("load", vms)
<1>1. vms \in Nat /\ vms = 1 /\ phase = "up"
  BY DEF FirstFrame, HostInv, BeforeLoad
<1>2. f \in Frames /\ f.kind = "load" /\ f.vm = vms
  BY <1>1, CallFacts DEF Kind
<1>3. stack' = Append(<<>>, f)
  BY DEF FirstFrame, BeginLoad, Push
<1> HIDE DEF f
<1>4. stack' \in Seq(Frames) /\ DOMAIN stack' = {1} /\ stack'[1] = f
  <2>1. Append(<<>>, f) = <<f>>
    OBVIOUS
  <2>2. QED
    BY <1>2, <1>3, <2>1, OneFrame
<1>5. vms' = vms
  BY DEF FirstFrame
<1>6. LoadShape' /\ StartShape' /\ BodyShape'
  BY <1>1, <1>2, <1>4, <1>5 DEF LoadShape, StartShape, BodyShape
<1>7. Loading'
  BY <1>2, <1>4 DEF Loading
<1>8. BeforeLoad' /\ PermissionReturns'
  BY <1>1, <1>7 DEF FirstFrame, BeginLoad, BeforeLoad, PermissionReturns
<1>9. QED
  BY <1>4, <1>5, <1>6, <1>7, <1>8 DEF FirstFrame, BeginLoad, HostInv

\* ReloadScripts is called by a function, when nothing is loaded or started.
LEMMA ReloadScriptsHost ==
    ASSUME HostInv, ReloadScripts
    PROVE  /\ HostInv' /\ Loading' /\ ~Loading /\ ~Starting
           /\ ~gServerInitPending /\ phase \notin {"loaded", "down"}
<1> DEFINE f == Call("load", vms + 1)
           m == Len(stack)
<1>1. /\ stack \in Seq(Frames) /\ DOMAIN stack = 1 .. m /\ m \in Nat /\ m # 0
      /\ vms \in Nat
  BY DEF HostInv, ReloadScripts, ScriptRuns
<1>2. f \in Frames /\ f.kind = "load" /\ f.vm = vms + 1
  BY <1>1, CallFacts DEF Kind
<1>3. stack' = Append(stack, f) /\ canReload' = FALSE
  BY DEF ReloadScripts, BeginLoad, Push
<1>4. ~gServerInitPending /\ ~Loading /\ ~Starting
  BY DEF ReloadScripts, Allowed, HostInv, PermissionReturns
<1>5. \A i \in DOMAIN stack : stack[i].kind \notin {"load", "onServerStart"}
  BY <1>4 DEF Loading, Starting
<1>6. ASSUME NEW i \in DOMAIN stack, stack[i].kind \in {"main", "onScriptLoad"}
      PROVE  FALSE
  <2>1. i > 1 /\ stack[i - 1].kind = "load"
    BY <1>6 DEF HostInv, BodyShape
  <2>2. i - 1 \in DOMAIN stack
    BY <1>1, <2>1
  <2>3. QED
    BY <1>5, <2>1, <2>2
<1> HIDE DEF f
<1>7. /\ stack' \in Seq(Frames) /\ DOMAIN stack' = 1 .. m + 1
      /\ \A i \in 1 .. m : stack'[i] = stack[i]
      /\ stack'[m + 1] = f
  BY <1>1, <1>2, <1>3, PushFacts
<1> HIDE DEF m
<1>8. /\ \A i \in DOMAIN stack' : stack'[i].kind = "load" => i = m + 1
      /\ \A i \in DOMAIN stack' :
             stack'[i].kind \notin {"main", "onScriptLoad", "onServerStart"}
  <2>1. \A i \in 1 .. m + 1 : i \in 1 .. m \/ i = m + 1
    BY <1>1
  <2>2. QED
    BY <1>1, <1>2, <1>5, <1>6, <1>7, <2>1
<1>9. vms' = vms + 1
  BY DEF ReloadScripts
<1>10. LoadShape'
  <2>1. m + 1 # 1 /\ \A j \in DOMAIN stack' : ~(j > m + 1)
    BY <1>1, <1>7
  <2>2. stack'[m + 1].vm = vms'
    BY <1>2, <1>7, <1>9
  <2>3. QED
    BY <1>8, <2>1, <2>2 DEF LoadShape
<1>11. StartShape' /\ BodyShape'
  BY <1>8 DEF StartShape, BodyShape
<1>12. Loading'
  BY <1>1, <1>2, <1>7 DEF Loading
<1>13. phase \notin {"loaded", "down"}
  BY <1>1 DEF HostInv, BeforeLoad, ReloadScripts, ScriptRuns
<1>14. BeforeLoad' /\ PermissionReturns'
  <2>1. UNCHANGED <<gServerInitPending, phase>>
    BY DEF ReloadScripts
  <2>2. QED
    BY <1>3, <1>4, <1>12, <1>13, <2>1 DEF BeforeLoad, PermissionReturns
<1>15. QED
  <2>1. vms' \in Nat
    BY <1>1, <1>9
  <2>2. canReload' \in BOOLEAN
    BY <1>3
  <2>3. UNCHANGED <<gServerInitPending, phase>>
    BY DEF ReloadScripts
  <2>4. phase' \in Phase /\ gServerInitPending' \in BOOLEAN
    BY <2>3 DEF HostInv
  <2>5. stack' \in Seq(Frames)
    BY <1>7
  <2>6. HostInv'
    BY <1>10, <1>11, <1>14, <2>1, <2>2, <2>4, <2>5 DEF HostInv
  <2>7. QED
    BY <1>4, <1>12, <1>13, <2>6

-------------------------------------------------------------------------------
(* Everything else leaves the stack alone, or makes or ends its only call. *)

LEMMA OnInitServerHost == ASSUME HostInv, OnInitServer PROVE HostInv' /\ Same
<1>1. /\ stack = <<>> /\ DOMAIN stack = {} /\ stack' = stack /\ gServerInitPending
      /\ vms' = 1 /\ gServerInitPending' = TRUE /\ phase' = "up" /\ code' = code
      /\ canReload' = canReload
  BY DEF OnInitServer, HostInv, BeforeLoad
<1>2. LoadShape' /\ StartShape' /\ BodyShape'
  BY <1>1 DEF LoadShape, StartShape, BodyShape
<1>3. Same
  BY <1>1 DEF Same, Loading, Starting
<1>4. BeforeLoad'
  BY <1>1 DEF HostInv, BeforeLoad
<1>5. PermissionReturns'
  BY <1>1, <1>3 DEF HostInv, PermissionReturns, Same
<1>6. QED
  BY <1>1, <1>2, <1>3, <1>4, <1>5 DEF HostInv, Phase

\* At shutdown one call runs, or none.
LEMMA OneScript ==
    ASSUME HostInv, stack' \in {<<Call("script", vms)>>, <<>>},
           phase' \in {"onServerStop", "onScriptUnload", "down"},
           phase' = "down" => stack' = <<>>, phase # "loaded",
           UNCHANGED <<vms, canReload, gServerInitPending, code>>,
           ~Loading, ~Starting
    PROVE  HostInv' /\ Same
<1> DEFINE f == Call("script", vms)
<1>1. f \in Frames /\ f.kind = "script"
  BY CallFacts DEF Kind, HostInv
<1>2. /\ stack' \in Seq(Frames)
      /\ \A i \in DOMAIN stack' : stack'[i].kind = "script"
  <2> HIDE DEF f
  <2>1. CASE stack' = <<f>>
    BY <1>1, <2>1, OneFrame
  <2>2. CASE stack' = <<>>
    BY <2>2
  <2>3. QED
    BY <2>1, <2>2 DEF f
<1>3. LoadShape' /\ StartShape' /\ BodyShape'
  BY <1>2 DEF LoadShape, StartShape, BodyShape
<1>4. Same /\ ~Loading' /\ ~Starting'
  BY <1>2 DEF Same, Loading, Starting
<1>5. PermissionReturns'
  BY <1>4 DEF HostInv, PermissionReturns, Same
<1>6. BeforeLoad'
  BY <1>2 DEF HostInv, BeforeLoad
<1>7. QED
  BY <1>2, <1>3, <1>4, <1>5, <1>6 DEF HostInv, Phase

\* The one function that runs is neither a load nor onServerStart.
LEMMA Alone ==
    ASSUME HostInv, IsTop("script"), Len(stack) = 1
    PROVE  ~Loading /\ ~Starting
<1>1. DOMAIN stack = {1} /\ stack[1].kind = "script"
  BY DEF HostInv, IsTop, Top
<1>2. QED
  BY <1>1 DEF Loading, Starting

LEMMA ShutdownHost ==
    ASSUME HostInv, OnShutdownServer \/ StopReturns \/ Release
    PROVE  HostInv' /\ Same /\ ~Loading /\ ~Starting
<1>1. ~Loading /\ ~Starting
  <2>1. CASE OnShutdownServer
    BY <2>1 DEF OnShutdownServer, Loading, Starting
  <2>2. CASE StopReturns \/ Release
    BY <2>2, Alone DEF StopReturns, Release
  <2>3. QED
    BY <2>1, <2>2
<1>2. /\ stack' \in {<<Call("script", vms)>>, <<>>}
      /\ phase' \in {"onServerStop", "onScriptUnload", "down"}
      /\ phase' = "down" => stack' = <<>>
      /\ phase # "loaded"
      /\ UNCHANGED <<vms, canReload, gServerInitPending, code>>
  BY DEF OnShutdownServer, StopReturns, Release
<1>3. QED
  BY <1>1, <1>2, OneScript

LEMMA StillHost ==
    ASSUME HostInv, UNCHANGED <<vms, canReload, gServerInitPending, script, code, stack, phase>>
    PROVE  HostInv' /\ Same
<1>1. Same /\ LoadShape' /\ StartShape' /\ BodyShape' /\ BeforeLoad'
  BY DEF HostInv, Same, Loading, Starting, LoadShape, StartShape, BodyShape, BeforeLoad
<1>2. PermissionReturns'
  BY <1>1 DEF HostInv, PermissionReturns, Same
<1>3. QED
  BY <1>1, <1>2 DEF HostInv

LEMMA HostStep == HostInv /\ [Next]_vars => HostInv'
<1> SUFFICES ASSUME HostInv, [Next]_vars PROVE HostInv'
  OBVIOUS
<1>1. CASE OnInitServer \/ FirstFrame
  BY <1>1, OnInitServerHost, FirstFrameHost
<1>2. CASE LineRuns \/ LineFails \/ ScriptFails \/ ScriptRun
  BY <1>2, LineRunsHost, LineFailsHost, ScriptFailsHost, ScriptRunHost
<1>3. CASE NoGamemode \/ Loaded \/ Started
  BY <1>3, NoGamemodeHost, LoadedHost, StartedHost
<1>4. CASE Event \/ Returns \/ ReloadScripts
  BY <1>4, EventHost, ReturnsHost, ReloadScriptsHost
<1>5. ASSUME NEW vm \in 1 .. MaxVM, TimerFires(vm) PROVE HostInv'
  BY <1>5, TimerFiresHost
<1>6. CASE UNCHANGED <<vms, canReload, gServerInitPending, script, code, stack, phase>>
  BY <1>6, StillHost
<1>7. CASE OnShutdownServer \/ StopReturns \/ Release
  BY <1>7, ShutdownHost
<1>8. QED
  BY <1>1, <1>2, <1>3, <1>4, <1>5, <1>6, <1>7 DEF Next, NewTimer, TimersEnd, vars

\* The invariant of the stack.
THEOREM HostCorrect == Spec => []HostInv
<1>1. Init => HostInv
  BY InitHost
<1>2. HostInv /\ [Next]_vars => HostInv'
  BY HostStep
<1>3. QED
  BY <1>1, <1>2, PTL DEF Spec

\* Nothing replaces the machine in which scripts are being loaded or started,
\* whatever they call and however deep it nests.
THEOREM LoadsUndisturbedCorrect == Spec => []LoadsUndisturbed
<1>1. HostInv => LoadsUndisturbed
  <2> SUFFICES ASSUME HostInv, NEW i \in DOMAIN stack, NEW j \in DOMAIN stack, i < j,
                      stack[i].kind \in {"load", "onServerStart"}
               PROVE  stack[j].vm = stack[i].vm
    BY DEF LoadsUndisturbed
  <2>1. CASE stack[i].kind = "load"
    <3>1. i \in Nat /\ j \in Nat
      BY DEF HostInv
    <3>2. stack[i].vm = vms /\ stack[j].vm = vms
      BY <2>1, <3>1 DEF HostInv, LoadShape
    <3>3. QED
      BY <3>2
  <2>2. CASE stack[i].kind = "onServerStart"
    BY <2>2 DEF HostInv, StartShape
  <2>3. QED
    BY <2>1, <2>2
<1>2. QED
  BY <1>1, HostCorrect, PTL

\* Every way out of LoadScript and onServerStart allows a reload again, and
\* nothing else does.
THEOREM PermissionReturnsCorrect == Spec => []PermissionReturns
<1>1. HostInv => PermissionReturns
  BY DEF HostInv
<1>2. QED
  BY <1>1, HostCorrect, PTL

\* The script that a failing top level deletes is the one that was loading.
THEOREM OwnScriptCorrect == Spec => []OwnScript
<1>1. HostInv => OwnScript
  <2> SUFFICES ASSUME HostInv, NEW j \in DOMAIN stack, stack[j].kind = "main"
               PROVE  script = stack[j].vm
    BY DEF OwnScript
  <2>1. j > 1 /\ stack[j - 1].kind = "load" /\ script = vms
    BY DEF HostInv, BodyShape
  <2>2. j - 1 \in DOMAIN stack /\ j > j - 1 /\ j \in Nat
    BY <2>1 DEF HostInv
  <2>3. stack[j].vm = vms
    BY <2>1, <2>2 DEF HostInv, LoadShape
  <2>4. QED
    BY <2>1, <2>3
<1>2. QED
  BY <1>1, HostCorrect, PTL

-------------------------------------------------------------------------------
(* Machines and timers. *)

Machines ==
    /\ vms \in 0 .. MaxVM /\ script \in 0 .. vms
    /\ phase # "loaded" => vms \in 1 .. MaxVM
    /\ phase = "loaded" => timers = {} /\ vms = 0
    /\ code \subseteq 1 .. vms /\ timers \subseteq 1 .. vms
    /\ \A i \in DOMAIN stack : stack[i].vm \in 1 .. vms

\* Every call was there before the step, or runs in machine n.
NewCallsIn(n) ==
    \A i \in DOMAIN stack' :
        \/ i \in DOMAIN stack /\ stack'[i] = stack[i]
        \/ stack'[i].vm = n

LEMMA PushedIn ==
    ASSUME HostInv, NEW k \in Kind, NEW n \in Nat, stack' = Push(Call(k, n))
    PROVE  NewCallsIn(n)
<1> DEFINE f == Call(k, n)
<1>1. f \in Frames /\ f.vm = n
  BY CallFacts
<1>2. stack \in Seq(Frames) /\ stack' = Append(stack, f)
  BY DEF HostInv, Push
<1> HIDE DEF f
<1>3. /\ DOMAIN stack' = 1 .. Len(stack) + 1 /\ DOMAIN stack = 1 .. Len(stack)
      /\ Len(stack) \in Nat
      /\ \A i \in DOMAIN stack : stack'[i] = stack[i]
      /\ stack'[Len(stack) + 1] = f
  BY <1>1, <1>2, PushFacts
<1>4. \A i \in 1 .. Len(stack) + 1 : i \in 1 .. Len(stack) \/ i = Len(stack) + 1
  BY <1>3
<1>5. QED
  BY <1>1, <1>3, <1>4 DEF NewCallsIn

LEMMA PoppedIn ==
    ASSUME HostInv, NEW n \in 0 .. Len(stack), stack' = SubSeq(stack, 1, n)
    PROVE  NewCallsIn(vms)
<1>1. stack \in Seq(Frames) /\ DOMAIN stack = 1 .. Len(stack) /\ Len(stack) \in Nat
  BY DEF HostInv
<1>2. DOMAIN stack' = 1 .. n /\ \A i \in 1 .. n : stack'[i] = stack[i]
  BY <1>1, PopFacts
<1>3. QED
  BY <1>1, <1>2 DEF NewCallsIn

\* A stack of one call, or none.
LEMMA AloneIn ==
    ASSUME HostInv, NEW k \in Kind, stack' = <<Call(k, vms)>> \/ stack' = <<>>
    PROVE  NewCallsIn(vms)
<1> DEFINE f == Call(k, vms)
<1>1. f \in Frames /\ f.vm = vms
  BY CallFacts DEF HostInv
<1>2. stack' = <<f>> \/ stack' = <<>>
  OBVIOUS
<1> HIDE DEF f
<1>3. QED
  BY <1>1, <1>2, OneFrame DEF NewCallsIn

LEMMA ReturnsToIn ==
    ASSUME HostInv, NEW n \in 0 .. Len(stack), ReturnsTo(SubSeq(stack, 1, n))
    PROVE  NewCallsIn(vms)
<1>1. CASE stack' = SubSeq(stack, 1, n)
  BY <1>1, PoppedIn
<1>2. CASE stack' = <<Call("onServerStart", vms)>>
  BY <1>2, AloneIn DEF Kind
<1>3. QED
  BY <1>1, <1>2 DEF ReturnsTo

\* The end of the top level and the call of onScriptLoad.
LEMMA ReplacedIn == ASSUME HostInv, ScriptRun PROVE NewCallsIn(vms)
<1> DEFINE m == Len(stack) - 1
           f == Call("onScriptLoad", vms)
<1>1. /\ stack \in Seq(Frames) /\ DOMAIN stack = 1 .. Len(stack)
      /\ Len(stack) \in Nat /\ Len(stack) # 0
  BY DEF HostInv, ScriptRun, IsTop
<1>2. m \in 0 .. Len(stack)
  BY <1>1
<1>3. f \in Frames /\ f.vm = vms
  BY CallFacts DEF HostInv, Kind
<1>4. /\ Pop \in Seq(Frames) /\ Len(Pop) = m /\ DOMAIN Pop = 1 .. m
      /\ \A i \in 1 .. m : Pop[i] = stack[i]
  BY <1>1, <1>2, PopFacts DEF Pop
<1>5. stack' = Append(Pop, f)
  BY DEF ScriptRun
<1>6. m \in Nat /\ 1 .. m \subseteq DOMAIN stack
  BY <1>1
<1> HIDE DEF m, f
<1>7. /\ DOMAIN stack' = 1 .. m + 1 /\ \A i \in 1 .. m : stack'[i] = Pop[i]
      /\ stack'[m + 1] = f
  BY <1>3, <1>4, <1>5, PushFacts
<1>8. \A i \in 1 .. m + 1 : i \in 1 .. m \/ i = m + 1
  BY <1>6
<1>9. QED
  BY <1>3, <1>4, <1>6, <1>7, <1>8 DEF NewCallsIn

\* A step after which as many machines or more are open.
LEMMA MachinesKept ==
    ASSUME Machines, vms' \in 1 .. MaxVM, vms' >= vms, script' \in 0 .. vms',
           phase' # "loaded", code' \subseteq 1 .. vms', timers' \subseteq 1 .. vms',
           NEW n \in 1 .. vms', NewCallsIn(n)
    PROVE  Machines'
<1>1. vms \in Nat /\ 1 .. vms \subseteq 1 .. vms' /\ vms' \in 0 .. MaxVM
  BY BoundAssumption DEF Machines
<1>2. \A i \in DOMAIN stack' : stack'[i].vm \in 1 .. vms'
  BY <1>1 DEF Machines, NewCallsIn
<1>3. QED
  BY <1>1, <1>2 DEF Machines

LEMMA MachinesStep == HostInv /\ Machines /\ [Next]_vars => Machines'
<1> SUFFICES ASSUME HostInv, Machines, [Next]_vars PROVE Machines'
  OBVIOUS
<1>1. CASE OnInitServer
  <2>1. /\ stack' = <<>> /\ vms' = 1 /\ phase' = "up" /\ timers' = {} /\ code' = code
        /\ script' = script /\ vms = 0
    BY <1>1 DEF OnInitServer, Machines, HostInv, BeforeLoad
  <2>2. code = {} /\ script \in 0 .. vms
    BY <1>1 DEF OnInitServer, Machines, HostInv, BeforeLoad
  <2>3. QED
    BY <2>1, <2>2, BoundAssumption DEF Machines
<1>2. CASE ReloadScripts
  <2>1. /\ vms \in Nat /\ vms + 1 \in 1 .. MaxVM /\ vms' = vms + 1 /\ phase # "loaded"
        /\ stack' = Push(Call("load", vms + 1)) /\ timers' = {} /\ script' = script
        /\ code' = code /\ phase' = phase
    <3>1. phase # "loaded"
      BY <1>2, ReloadScriptsHost
    <3>2. vms \in Nat /\ vms < MaxVM /\ MaxVM \in Nat
      BY <1>2, BoundAssumption DEF ReloadScripts, Machines
    <3>3. vms + 1 \in 1 .. MaxVM
      BY <3>2
    <3>4. /\ vms' = vms + 1 /\ stack' = Push(Call("load", vms + 1)) /\ timers' = {}
          /\ script' = script /\ code' = code /\ phase' = phase
      BY <1>2 DEF ReloadScripts, BeginLoad, Dropped
    <3>5. QED
      BY <3>1, <3>2, <3>3, <3>4
  <2>2. NewCallsIn(vms + 1)
    BY <2>1, PushedIn DEF Kind
  <2>3. script' \in 0 .. vms + 1 /\ code' \subseteq 1 .. vms + 1 /\ vms + 1 >= vms
        /\ vms + 1 \in 1 .. vms + 1
    BY <2>1 DEF Machines
  <2>4. QED
    BY <2>1, <2>2, <2>3, MachinesKept
<1>3. CASE ~OnInitServer /\ ~ReloadScripts
  <2>1. vms' = vms
    BY <1>3 DEF Next, vars, FirstFrame, LineRuns, LineFails, ScriptFails, ScriptRun,
                NoGamemode, Loaded, Started, Event, NewTimer, Returns, TimerFires,
                TimersEnd, OnShutdownServer, StopReturns, Release
  <2>2. CASE UNCHANGED vars
    BY <2>2 DEF vars, Machines
  <2>3. CASE Next
    <3>1. vms \in 1 .. MaxVM /\ vms \in 1 .. vms /\ phase # "loaded"
      <4>1. phase # "loaded"
        BY <1>3, <2>3, LoadOnTop, BodyOnTop
           DEF Next, FirstFrame, LineRuns, LineFails, ScriptFails, ScriptRun,
               NoGamemode, Loaded, Started, Event, NewTimer, Returns, TimerFires, ScriptRuns,
               TimersEnd, OnShutdownServer, StopReturns, Release, HostInv, BeforeLoad, IsTop
      <4>2. QED
        BY <4>1 DEF Machines
    <3>2. phase' # "loaded"
      BY <1>3, <2>3, <3>1
         DEF Next, FirstFrame, LineRuns, LineFails, ScriptFails, ScriptRun,
             NoGamemode, Loaded, Started, Event, NewTimer, Returns, TimerFires,
             TimersEnd, OnShutdownServer, StopReturns, Release
    <3>3. script' \in 0 .. vms /\ code' \subseteq 1 .. vms
      <4>1. script' \in {script, 0, vms} /\ code' \in {code, code \cup {vms}}
        BY <1>3, <2>3
           DEF Next, FirstFrame, LineRuns, LineFails, ScriptFails, ScriptRun,
               NoGamemode, Loaded, Started, Event, NewTimer, Returns, TimerFires,
               TimersEnd, OnShutdownServer, StopReturns, Release
      <4>2. 0 \in 0 .. vms /\ vms \in 0 .. vms
        BY <3>1, BoundAssumption
      <4>3. QED
        BY <3>1, <4>1, <4>2 DEF Machines
    <3>4. timers' \subseteq 1 .. vms
      <4>1. CASE NewTimer
        <5>1. Top.vm \in 1 .. vms
          <6>1. stack \in Seq(Frames) /\ stack # <<>>
            BY <4>1 DEF HostInv, NewTimer, ScriptRuns
          <6>2. Len(stack) \in DOMAIN stack
            BY <6>1
          <6>3. QED
            BY <6>2 DEF Machines, Top
        <5>2. QED
          BY <4>1, <5>1 DEF NewTimer, Machines
      <4>2. CASE ~NewTimer
        BY <1>3, <2>3, <4>2
           DEF Next, FirstFrame, LineRuns, LineFails, ScriptFails, ScriptRun,
               NoGamemode, Loaded, Started, Event, Returns, TimerFires,
               TimersEnd, OnShutdownServer, StopReturns, Release, Machines
      <4>3. QED
        BY <4>1, <4>2
    <3>5. \E n \in 1 .. vms : NewCallsIn(n)
      <4>1. CASE stack' = stack
        BY <3>1, <4>1 DEF NewCallsIn
      <4>2. CASE FirstFrame \/ LineRuns \/ Event
        BY <3>1, <4>2, PushedIn DEF FirstFrame, BeginLoad, LineRuns, Event, Kind
      <4>3. CASE ScriptFails \/ Returns \/ Started
        <5>1. Len(stack) - 1 \in 0 .. Len(stack)
          BY <4>3 DEF ScriptFails, Returns, Started, IsTop, HostInv
        <5>2. stack' = SubSeq(stack, 1, Len(stack) - 1)
          BY <4>3 DEF ScriptFails, Returns, Started, Pop
        <5>3. QED
          BY <3>1, <5>1, <5>2, PoppedIn
      <4>4. CASE NoGamemode
        <5>1. Len(stack) - 1 \in 0 .. Len(stack)
          BY <4>4 DEF NoGamemode, IsTop, HostInv
        <5>2. QED
          BY <3>1, <4>4, <5>1, ReturnsToIn DEF NoGamemode, Pop
      <4>5. CASE Loaded
        <5>1. Len(stack) - 2 \in 0 .. Len(stack)
          <6>1. Len(stack) \in Nat /\ Len(stack) > 1
            BY <4>5, BodyOnTop DEF Loaded
          <6>2. QED
            BY <6>1
        <5>2. QED
          BY <3>1, <4>5, <5>1, ReturnsToIn DEF Loaded
      <4>6. CASE ScriptRun
        BY <3>1, <4>6, ReplacedIn
      <4>7. CASE OnShutdownServer \/ StopReturns \/ Release
        BY <3>1, <4>7, AloneIn DEF OnShutdownServer, StopReturns, Release, Kind
      <4>8. ASSUME NEW vm \in 1 .. MaxVM, TimerFires(vm) PROVE \E n \in 1 .. vms : NewCallsIn(n)
        BY <4>8, PushedIn DEF TimerFires, Kind, Machines
      <4>9. QED
        BY <1>3, <2>3, <4>1, <4>2, <4>3, <4>4, <4>5, <4>6, <4>7, <4>8
           DEF Next, LineFails, NewTimer, TimersEnd
    <3>6. vms >= vms
      BY <3>1
    <3>7. QED
      BY <2>1, <3>1, <3>2, <3>3, <3>4, <3>5, <3>6, MachinesKept
  <2>4. QED
    BY <2>2, <2>3
<1>4. QED
  BY <1>1, <1>2, <1>3

THEOREM MachinesCorrect == Spec => [](HostInv /\ Machines)
<1>1. Init => HostInv /\ Machines
  BY InitHost, BoundAssumption DEF Init, Machines
<1>2. HostInv /\ Machines /\ [Next]_vars => (HostInv /\ Machines)'
  BY HostStep, MachinesStep
<1>3. QED
  BY <1>1, <1>2, PTL DEF Spec

\* Scripts, timers and calls only ever name machines that were opened.
THEOREM TypeCorrect == Spec => []TypeOK
<1>1. HostInv /\ Machines => TypeOK
  <2> SUFFICES ASSUME HostInv, Machines PROVE TypeOK
    OBVIOUS
  <2>1. stack \in Seq(Frame)
    <3>1. stack \in Seq(Frames) /\ DOMAIN stack = 1 .. Len(stack) /\ Len(stack) \in Nat
      BY DEF HostInv
    <3>2. 1 .. vms \subseteq 1 .. MaxVM
      BY BoundAssumption DEF Machines
    <3>3. \A i \in DOMAIN stack : stack[i] \in Frames /\ stack[i].vm \in 1 .. MaxVM
      BY <3>1, <3>2 DEF Machines
    <3>4. \A i \in 1 .. Len(stack) : stack[i] \in Frame
      BY <3>1, <3>3 DEF Frames, Frame
    <3>5. stack = [i \in 1 .. Len(stack) |-> stack[i]]
      BY <3>1
    <3>6. stack \in [1 .. Len(stack) -> Frame]
      BY <3>4, <3>5
    <3>7. QED
      BY <3>1, <3>6, SeqDef
  <2>2. vms \in 0 .. MaxVM /\ script \in 0 .. MaxVM
    BY BoundAssumption DEF Machines
  <2>3. QED
    BY <2>1, <2>2 DEF TypeOK, HostInv, Machines
<1>2. QED
  BY <1>1, MachinesCorrect, PTL

\* A reload gets rid of all the timers of the old machine, provided that no
\* function creates one after the ReloadScripts it called has returned.
THEOREM TimersCurrentCorrect == ASSUME ~Late PROVE Spec => []TimersCurrent
<1> DEFINE Current == timers \subseteq {vms}
<1>1. Init => Current
  BY DEF Init
<1>2. Machines /\ Current /\ [Next]_vars => Current'
  <2> SUFFICES ASSUME Machines, Current, [Next]_vars PROVE Current'
    OBVIOUS
  <2>1. CASE OnInitServer
    BY <2>1 DEF OnInitServer, Machines
  <2>2. CASE ReloadScripts
    BY <2>2 DEF ReloadScripts, Dropped
  <2>3. CASE NewTimer
    BY <2>3 DEF NewTimer
  <2>4. CASE UNCHANGED vars
    BY <2>4 DEF vars
  <2>5. CASE Next /\ ~OnInitServer /\ ~ReloadScripts /\ ~NewTimer
    <3>1. vms' = vms /\ timers' \subseteq timers
      BY <2>5 DEF Next, FirstFrame, LineRuns, LineFails, ScriptFails, ScriptRun,
                  NoGamemode, Loaded, Started, Event, Returns, TimerFires,
                  TimersEnd, OnShutdownServer, StopReturns, Release
    <3>2. QED
      BY <3>1
  <2>6. QED
    BY <2>1, <2>2, <2>3, <2>4, <2>5
<1>3. Current => TimersCurrent
  BY DEF TimersCurrent
<1>4. QED
  BY <1>1, <1>2, <1>3, MachinesCorrect, PTL DEF Spec

-------------------------------------------------------------------------------
(* The host implements Lifecycle. *)

State ==
    IF phase = "loaded" THEN "off"
    ELSE IF phase = "down" THEN "down"
    ELSE IF gServerInitPending THEN "blank"
    ELSE IF Loading THEN "loading"
    ELSE IF Starting THEN "starting" ELSE "ready"

\* A step that leaves the server up, loads nothing and starts nothing
LEMMA StateSame ==
    ASSUME Same, UNCHANGED <<vms, gServerInitPending>>,
           phase' = phase \/ {phase, phase'} \cap {"loaded", "down"} = {}
    PROVE  UNCHANGED L!vars
<1>1. State' = State
  BY DEF State, Same
<1>2. QED
  BY <1>1 DEF L!vars, State

LEMMA LifecycleStep == HostInv /\ [Next]_vars => [L!Next]_(L!vars)
<1> SUFFICES ASSUME HostInv, [Next]_vars PROVE [L!Next]_(L!vars)
  OBVIOUS
<1>1. CASE OnInitServer
  <2>1. phase = "loaded" /\ phase' = "up" /\ gServerInitPending' /\ vms' = 1
    BY <1>1 DEF OnInitServer
  <2>2. L!Open
    BY <2>1 DEF L!Open
  <2>3. QED
    BY <2>2 DEF L!Next
<1>2. CASE FirstFrame
  <2>1. /\ phase = "up" /\ phase' = "up" /\ gServerInitPending /\ ~gServerInitPending'
        /\ vms' = vms /\ Loading'
    BY <1>2, FirstFrameHost DEF FirstFrame
  <2>2. L!Load
    BY <2>1 DEF L!Load
  <2>3. QED
    BY <2>2 DEF L!Next
<1>3. CASE LineRuns \/ LineFails \/ ScriptFails \/ ScriptRun \/ Event \/ Returns
  <2>1. Same
    BY <1>3, LineRunsHost, LineFailsHost, ScriptFailsHost, ScriptRunHost, EventHost, ReturnsHost
  <2>2. UNCHANGED <<vms, gServerInitPending>> /\ phase' = phase
    BY <1>3 DEF LineRuns, LineFails, ScriptFails, ScriptRun, Event, Returns
  <2>3. QED
    BY <2>1, <2>2, StateSame
<1>4. CASE NoGamemode \/ Loaded
  <2>1. /\ Loading /\ ~Loading' /\ (Starting' => vms = 1)
        /\ ~gServerInitPending /\ phase \notin {"loaded", "down"}
    BY <1>4, NoGamemodeHost, LoadedHost
  <2>2. UNCHANGED <<vms, gServerInitPending, phase>>
    BY <1>4 DEF NoGamemode, Loaded
  <2>3. L!Start \/ L!Ready
    BY <2>1, <2>2 DEF L!Start, L!Ready
  <2>4. QED
    BY <2>3 DEF L!Next
<1>5. CASE Started
  <2>1. /\ ~Loading /\ Starting /\ ~Loading' /\ ~Starting'
        /\ ~gServerInitPending /\ phase \notin {"loaded", "down"}
    BY <1>5, StartedHost
  <2>2. UNCHANGED <<vms, gServerInitPending, phase>>
    BY <1>5 DEF Started
  <2>3. L!Ready
    BY <2>1, <2>2 DEF L!Ready
  <2>4. QED
    BY <2>3 DEF L!Next
<1>6. CASE ReloadScripts
  <2>1. /\ Loading' /\ ~Loading /\ ~Starting
        /\ ~gServerInitPending /\ phase \notin {"loaded", "down"}
    BY <1>6, ReloadScriptsHost
  <2>2. UNCHANGED <<gServerInitPending, phase>> /\ vms' = vms + 1
    BY <1>6 DEF ReloadScripts
  <2>3. L!Reload
    BY <2>1, <2>2 DEF L!Reload
  <2>4. QED
    BY <2>3 DEF L!Next
<1>7. ASSUME NEW vm \in 1 .. MaxVM, TimerFires(vm) PROVE [L!Next]_(L!vars)
  <2>1. Same /\ UNCHANGED <<vms, gServerInitPending>> /\ phase' = phase
    BY <1>7, TimerFiresHost DEF TimerFires
  <2>2. QED
    BY <2>1, StateSame
<1>8. CASE UNCHANGED <<vms, canReload, gServerInitPending, script, code, stack, phase>>
  <2>1. Same /\ UNCHANGED <<vms, gServerInitPending>> /\ phase' = phase
    BY <1>8, StillHost
  <2>2. QED
    BY <2>1, StateSame
<1>9. CASE OnShutdownServer \/ StopReturns
  <2>1. Same
    BY <1>9, ShutdownHost
  <2>2. UNCHANGED <<vms, gServerInitPending>> /\ {phase, phase'} \cap {"loaded", "down"} = {}
    BY <1>9 DEF OnShutdownServer, StopReturns
  <2>3. QED
    BY <2>1, <2>2, StateSame
<1>10. CASE Release
  <2>1. ~Loading /\ ~Starting
    BY <1>10, ShutdownHost
  <2>2. phase = "onScriptUnload" /\ phase' = "down" /\ vms' = vms
    BY <1>10 DEF Release
  <2>3. L!Close
    BY <2>1, <2>2 DEF L!Close
  <2>4. QED
    BY <2>3 DEF L!Next
<1>11. QED
  BY <1>1, <1>2, <1>3, <1>4, <1>5, <1>6, <1>7, <1>8, <1>9, <1>10
     DEF Next, NewTimer, TimersEnd, vars

\* Whatever calls what, the newest machine lives as Lifecycle says: no
\* generation is begun while another one is loaded or started, and
\* onServerStart follows the first load only.
THEOREM LifecycleCorrect == Spec => LifecycleSpec
<1>1. Init => L!Init
  BY DEF Init, L!Init
<1>2. HostInv /\ [Next]_vars => [L!Next]_(L!vars)
  BY LifecycleStep
<1>3. QED
  BY <1>1, <1>2, HostCorrect, PTL DEF Spec, LifecycleSpec, L!Spec

===============================================================================
