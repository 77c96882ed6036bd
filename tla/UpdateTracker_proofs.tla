-------------------------- MODULE UpdateTracker_proofs --------------------------
(***************************************************************************)
(* Proofs about UpdateTracker, for any number of players and vehicles and  *)
(* any values.                                                             *)
(***************************************************************************)
EXTENDS UpdateTracker, TLAPS

Subject == Player \cup Vehicle
Live == pool \cup {Clock}

\* The place of the handler, and the weapons, which fit in their field
Shape ==
    /\ TypeOK
    /\ pool \cap Player \subseteq map
    /\ update.at \in 0 .. Len(Attrs(update.who)) + 1
    /\ update.calling => update.at \in 1 .. Len(Attrs(update.who))
    /\ update.now["wep"] \in 0 .. Byte - 1
    /\ \A w \in Who : current[w]["wep"] \in 0 .. Byte - 1

\* What scripts were told last of w is what was saved, and what was read
Settled(w) ==
    \A a \in Compared(w) :
        /\ heard[w][a] \in {Unknown, saved[w][a]}
        /\ w # Clock => seen[w][a] = Unknown \/ heard[w][a] \in {Unknown, seen[w][a]}

OthersSettled == \A w \in Live : Idle \/ w # update.who => Settled(w)

\* Nothing was ever told of a vehicle without an object, nor read of what is gone
NeverTold == \A w \in pool \ map : \A a \in Compared(w) : heard[w][a] = Unknown
NeverRead == \A w \in Subject \ pool : seen[w] = Nothing

\* The attributes the handler has not come to yet
AheadAt(j) ==
    LET u == update.who
        a == Attrs(u)[j]
    IN  /\ heard[u][a] \in {Unknown, update.last[a]}
        /\ u \notin Player \/ u \in pool => saved[u][a] = update.last[a]

\* Those it has dealt with
BehindAt(j) ==
    LET u == update.who
        a == Attrs(u)[j]
    IN  /\ u \in Live => heard[u][a] \in {Unknown, update.now[a]}
        /\ u \notin Player \/ u \in pool => saved[u][a] = update.now[a]

\* A vehicle loses its object only when it is deleted, and a new one has one
Handled ==
    /\ update.calling => update.who \notin pool \ map
    /\ ~Idle =>
        /\ \A j \in 1 .. Len(Attrs(update.who)) :
              IF j < update.at THEN BehindAt(j) ELSE AheadAt(j)
        /\ update.who # Clock =>
              \A a \in Attr : seen[update.who][a] \in {Unknown, update.now[a]}

Inv == Shape /\ OthersSettled /\ NeverTold /\ NeverRead /\ Handled

-------------------------------------------------------------------------------
\* The attributes of a handler are different attributes, and those that are
\* compared.
LEMMA AttrsFacts ==
    ASSUME NEW w \in Who
    PROVE  /\ Len(Attrs(w)) \in Nat \ {0}
           /\ \A j \in 1 .. Len(Attrs(w)) : Attrs(w)[j] \in Attr
           /\ \A i, j \in 1 .. Len(Attrs(w)) : Attrs(w)[i] = Attrs(w)[j] => i = j
           /\ Compared(w) \subseteq Attr
           /\ \A a \in Compared(w) : \E j \in 1 .. Len(Attrs(w)) : a = Attrs(w)[j]
           /\ \A j \in 1 .. Len(Attrs(w)) : Attrs(w)[j] \in Compared(w)
<1>1. CASE w \in Player
  <2>1. Attrs(w) = <<"pos", "hp", "armour", "wep">>
    BY <1>1, WhoAssumption DEF Attrs
  <2>2. QED
    BY <2>1 DEF Compared, Attr
<1>2. CASE w \in Vehicle
  <2>1. Attrs(w) = <<"hp", "pos">>
    BY <1>2, WhoAssumption DEF Attrs
  <2>2. QED
    BY <2>1 DEF Compared, Attr
<1>3. CASE w = Clock
  <2>1. Attrs(w) = <<"time">>
    BY <1>3, WhoAssumption DEF Attrs
  <2>2. QED
    BY <2>1 DEF Compared, Attr
<1>4. QED
  BY <1>1, <1>2, <1>3 DEF Who

LEMMA InitInv == Init => Inv
<1> SUFFICES ASSUME Init PROVE Inv
  OBVIOUS
<1>1. Zero \in [Attr -> Nat] /\ Nothing \in [Attr -> Nat \cup {Unknown}]
      /\ Zero["wep"] = 0 /\ \A a \in Attr : Nothing[a] = Unknown
  BY DEF Zero, Nothing, Attr, Unknown
<1>2. Zero \in Reading /\ Nothing \in Reading /\ Clock \in Who
  BY <1>1 DEF Reading, Who, Unknown
<1>3. TypeOK
  BY <1>1, <1>2 DEF Init, TypeOK, NoUpdate, Who
<1>4. Shape
  BY <1>1, <1>2, <1>3, ValueAssumption, WhoAssumption, AttrsFacts DEF Init, Shape, NoUpdate, Who
<1>5. OthersSettled
  <2> SUFFICES ASSUME NEW w \in Live, NEW a \in Compared(w)
               PROVE  /\ heard[w][a] \in {Unknown, saved[w][a]}
                      /\ w # Clock => seen[w][a] = Unknown
    BY DEF OthersSettled, Settled
  <2>1. w \in Who /\ a \in Attr
    BY AttrsFacts DEF Init, Live, Who
  <2>2. QED
    BY <1>1, <2>1 DEF Init, Live, Who
<1>6. NeverTold /\ NeverRead
  BY <1>1, AttrsFacts, WhoAssumption DEF Init, NeverTold, NeverRead, Subject, Who
<1>7. Handled
  BY DEF Init, Handled, Idle, NoUpdate
<1>8. QED
  BY <1>4, <1>5, <1>6, <1>7 DEF Inv

-------------------------------------------------------------------------------
LEMMA Constants ==
    /\ Zero \in [Attr -> Nat] /\ Zero["wep"] = 0
    /\ Healthy \in [Attr -> Nat]
    /\ Nothing \in Reading /\ \A a \in Attr : Nothing[a] = Unknown
    /\ \A f \in [Attr -> Nat] : f \in Reading /\ \A a \in Attr : f[a] # Unknown
    /\ \A w \in Who : w \in Player \/ w \in Vehicle \/ w = Clock
    /\ Clock \in Who /\ Subject \subseteq Who /\ Clock \notin Subject
  BY WhoAssumption DEF Zero, Healthy, Nothing, Reading, Unknown, Attr, Who, Subject

\* One value is stored, and nothing else changes.
LEMMA Store ==
    ASSUME NEW D, NEW S, NEW f \in [D -> [Attr -> S]], NEW w \in D, NEW a \in Attr, NEW x \in S,
           NEW g, g = [f EXCEPT ![w][a] = x]
    PROVE  /\ g \in [D -> [Attr -> S]]
           /\ g[w][a] = x
           /\ \A v \in D, b \in Attr : v # w \/ b # a => g[v][b] = f[v][b]
           /\ \A v \in D : v # w => g[v] = f[v]
  OBVIOUS

LEMMA SettledFrame ==
    ASSUME NEW w, Settled(w), saved'[w] = saved[w], heard'[w] = heard[w],
           w # Clock => seen'[w] = seen[w]
    PROVE  Settled(w)'
  BY DEF Settled, Compared, Attrs

LEMMA ChangesInv ==
    ASSUME Inv, NEW w \in Who, NEW a \in Attr, NEW x \in Value[a], Changes(w, a, x)
    PROVE  Inv'
<1>1. /\ current' = [current EXCEPT ![w][a] = x] /\ current \in [Who -> [Attr -> Nat]]
      /\ UNCHANGED <<saved, pool, map, update, seen, heard>>
  BY DEF Changes, Inv, Shape, TypeOK
<1>2. x \in Nat /\ (a = "wep" => x \in 0 .. Byte - 1)
  BY ValueAssumption
<1>3. current' \in [Who -> [Attr -> Nat]]
  BY <1>1, <1>2, Store
<1>4. \A v \in Who : current'[v]["wep"] \in 0 .. Byte - 1
  <2> SUFFICES ASSUME NEW v \in Who PROVE current'[v]["wep"] \in 0 .. Byte - 1
    OBVIOUS
  <2>1. "wep" \in Attr /\ current[v]["wep"] \in 0 .. Byte - 1
    BY DEF Attr, Inv, Shape
  <2>2. QED
    BY <1>1, <1>2, <2>1
<1>5. TypeOK'
  BY <1>1, <1>3 DEF Inv, Shape, TypeOK
<1>6. Shape'
  BY <1>1, <1>4, <1>5 DEF Inv, Shape, Attrs
<1>7. OthersSettled' /\ NeverTold' /\ NeverRead'
  BY <1>1 DEF Inv, OthersSettled, Settled, NeverTold, NeverRead, Live, Idle, Compared, Attrs
<1>8. Handled'
  BY <1>1 DEF Inv, Handled, AheadAt, BehindAt, Live, Idle, Attrs
<1>9. QED
  BY <1>6, <1>7, <1>8 DEF Inv

LEMMA OnPlayerConnectInv ==
    ASSUME Inv, NEW p \in Player, OnPlayerConnect(p)
    PROVE  Inv'
<1>1. /\ Idle /\ p \notin pool
      /\ saved' = [saved EXCEPT ![p] = Healthy]
      /\ pool' = pool \cup {p} /\ map' = map \cup {p}
      /\ heard' = [heard EXCEPT ![p] = Healthy]
      /\ UNCHANGED <<current, update, seen>>
  BY DEF OnPlayerConnect, Reset
<1>2. TypeOK /\ p \in Who /\ p # Clock
  BY WhoAssumption DEF Inv, Shape, Who
<1>3. Healthy \in [Attr -> Nat] /\ Healthy \in Reading
  BY Constants
<1>4. TypeOK'
  <2>1. saved' \in [Who -> [Attr -> Nat]] /\ heard' \in [Who -> Reading]
    BY <1>1, <1>2, <1>3 DEF TypeOK
  <2>2. pool' \subseteq Player \cup Vehicle /\ map' \subseteq pool'
    BY <1>1, <1>2 DEF TypeOK
  <2>3. QED
    BY <1>1, <1>2, <2>1, <2>2 DEF TypeOK
<1>5. Shape'
  BY <1>1, <1>4 DEF Inv, Shape, Attrs
<1>6. OthersSettled'
  <2> SUFFICES ASSUME NEW w \in Live' PROVE Settled(w)'
    BY DEF OthersSettled
  <2>1. CASE w = p
    <3>1. saved'[p] = Healthy /\ heard'[p] = Healthy
      BY <1>1, <1>2 DEF TypeOK
    <3>2. seen'[p] = Nothing
      BY <1>1 DEF Inv, NeverRead, Subject
    <3>3. Compared(p) \subseteq Attr
      BY <1>2, AttrsFacts
    <3>4. QED
      BY <2>1, <3>1, <3>2, <3>3, Constants DEF Settled, Compared, Attrs
  <2>2. CASE w # p
    <3>1. w \in Live /\ w \in Who
      BY <1>1, <1>2, <2>2, Constants DEF Live, TypeOK, Who
    <3>2. Settled(w)
      BY <1>1, <3>1 DEF Inv, OthersSettled
    <3>3. saved'[w] = saved[w] /\ heard'[w] = heard[w] /\ seen' = seen
      BY <1>1, <1>2, <2>2, <3>1 DEF TypeOK
    <3>4. QED
      BY <3>2, <3>3 DEF Settled, Compared, Attrs
  <2>3. QED
    BY <2>1, <2>2
<1>7. NeverTold' /\ NeverRead'
  BY <1>1, <1>2 DEF Inv, NeverTold, NeverRead, Subject, TypeOK, Who, Compared, Attrs
<1>8. Handled'
  BY <1>1 DEF Inv, Handled, Idle
<1>9. QED
  BY <1>5, <1>6, <1>7, <1>8 DEF Inv

LEMMA OnPlayerDisconnectInv ==
    ASSUME Inv, NEW p \in Player, OnPlayerDisconnect(p)
    PROVE  Inv'
<1>1. /\ p \in pool
      /\ saved' = [saved EXCEPT ![p] = Zero]
      /\ pool' = pool \ {p} /\ map' = map \ {p}
      /\ seen' = [seen EXCEPT ![p] = Nothing]
      /\ UNCHANGED <<current, update, heard>>
  BY DEF OnPlayerDisconnect
<1>2. TypeOK /\ p \in Who /\ p # Clock /\ p \in Subject
  BY WhoAssumption DEF Inv, Shape, Who, Subject
<1>3. TypeOK'
  <2>1. saved' \in [Who -> [Attr -> Nat]] /\ seen' \in [Player \cup Vehicle -> Reading]
    BY <1>1, <1>2, Constants DEF TypeOK
  <2>2. pool' \subseteq Player \cup Vehicle /\ map' \subseteq pool'
    BY <1>1, <1>2 DEF TypeOK
  <2>3. QED
    BY <1>1, <1>2, <2>1, <2>2 DEF TypeOK
<1>4. Shape'
  BY <1>1, <1>3 DEF Inv, Shape, Attrs
<1>5. OthersSettled'
  <2> SUFFICES ASSUME NEW w \in Live', Idle \/ w # update.who PROVE Settled(w)'
    BY <1>1 DEF OthersSettled, Idle
  <2>1. w # p /\ w \in Live /\ w \in Who
    BY <1>1, <1>2, Constants DEF Live, TypeOK, Who
  <2>2. Settled(w)
    BY <2>1 DEF Inv, OthersSettled
  <2>3. saved'[w] = saved[w] /\ heard' = heard /\ (w # Clock => seen'[w] = seen[w])
    BY <1>1, <1>2, <2>1 DEF TypeOK, Who
  <2>4. QED
    BY <2>2, <2>3 DEF Settled, Compared, Attrs
<1>6. NeverTold'
  BY <1>1 DEF Inv, NeverTold, Compared, Attrs
<1>7. NeverRead'
  BY <1>1, <1>2 DEF Inv, NeverRead, Subject, TypeOK
<1>8. Handled'
  <2>1. update'.calling => update'.who \notin pool' \ map'
    BY <1>1 DEF Inv, Handled
  <2>2. SUFFICES ASSUME ~Idle
                 PROVE  /\ \A j \in 1 .. Len(Attrs(update.who)) :
                              IF j < update.at THEN BehindAt(j)' ELSE AheadAt(j)'
                        /\ update.who # Clock =>
                              \A a \in Attr : seen'[update.who][a] \in {Unknown, update.now[a]}
    BY <1>1, <2>1 DEF Handled, Idle, Attrs
  <2>3. update.who \in Who
    BY <1>2 DEF TypeOK
  <2>4. CASE update.who = p
    <3>1. p \notin Live' /\ p \notin pool' /\ seen'[p] = Nothing
      BY <1>1, <1>2 DEF Live, TypeOK, Subject
    <3>2. ASSUME NEW j \in 1 .. Len(Attrs(p))
          PROVE  IF j < update.at THEN BehindAt(j)' ELSE AheadAt(j)'
      <4>1. CASE j < update.at
        BY <1>1, <2>4, <3>1, <4>1 DEF BehindAt, Attrs
      <4>2. CASE ~(j < update.at)
        <5>1. AheadAt(j)
          BY <2>2, <2>4, <4>2 DEF Inv, Handled
        <5>2. QED
          BY <1>1, <2>4, <3>1, <4>2, <5>1 DEF AheadAt, Attrs
      <4>3. QED
        BY <4>1, <4>2
    <3>3. QED
      BY <2>4, <3>1, <3>2, Constants
  <2>5. CASE update.who # p
    <3>1. saved'[update.who] = saved[update.who]
          /\ (update.who # Clock => seen'[update.who] = seen[update.who])
          /\ (update.who \in pool' <=> update.who \in pool)
          /\ (update.who \in Live' <=> update.who \in Live)
      BY <1>1, <1>2, <2>3, <2>5 DEF TypeOK, Live, Who
    <3>2. ASSUME NEW j \in 1 .. Len(Attrs(update.who))
          PROVE  IF j < update.at THEN BehindAt(j)' ELSE AheadAt(j)'
      <4>1. IF j < update.at THEN BehindAt(j) ELSE AheadAt(j)
        BY <2>2 DEF Inv, Handled
      <4>2. QED
        BY <1>1, <3>1, <4>1 DEF BehindAt, AheadAt, Attrs
    <3>3. QED
      BY <2>2, <3>1, <3>2 DEF Inv, Handled
  <2>6. QED
    BY <2>4, <2>5
<1>9. QED
  BY <1>4, <1>5, <1>6, <1>7, <1>8 DEF Inv

LEMMA VehicleCreatedInv ==
    ASSUME Inv, NEW w \in Vehicle, VehicleCreated(w)
    PROVE  Inv'
<1>1. /\ w \notin pool
      /\ pool' = pool \cup {w} /\ map' = map \cup {w}
      /\ heard' = [heard EXCEPT ![w] = Nothing]
      /\ UNCHANGED <<current, saved, update, seen>>
  BY DEF VehicleCreated
<1>2. TypeOK /\ w \in Who /\ w # Clock /\ w \notin Player
  BY WhoAssumption DEF Inv, Shape, Who
<1>3. /\ heard' \in [Who -> Reading] /\ heard'[w] = Nothing
      /\ \A v \in Who : v # w => heard'[v] = heard[v]
  BY <1>1, <1>2, Constants DEF TypeOK
<1>4. TypeOK'
  <2>1. pool' \subseteq Player \cup Vehicle /\ map' \subseteq pool'
    BY <1>1, <1>2 DEF TypeOK
  <2>2. QED
    BY <1>1, <1>2, <1>3, <2>1 DEF TypeOK
<1>5. Shape'
  BY <1>1, <1>2, <1>4 DEF Inv, Shape, Attrs
<1>6. OthersSettled'
  <2> SUFFICES ASSUME NEW v \in Live', Idle \/ v # update.who PROVE Settled(v)'
    BY <1>1 DEF OthersSettled, Idle
  <2>1. CASE v = w
    <3>1. \A a \in Compared(w) : heard'[w][a] = Unknown
      BY <1>2, <1>3, Constants, AttrsFacts
    <3>2. QED
      BY <2>1, <3>1 DEF Settled, Compared, Attrs
  <2>2. CASE v # w
    <3>1. v \in Live /\ v \in Who
      BY <1>1, <1>2, <2>2, Constants DEF Live, TypeOK, Who
    <3>2. Settled(v)
      BY <3>1 DEF Inv, OthersSettled
    <3>3. QED
      BY <1>1, <1>3, <2>2, <3>1, <3>2 DEF Settled, Compared, Attrs
  <2>3. QED
    BY <2>1, <2>2
<1>7. NeverTold'
  <2> SUFFICES ASSUME NEW v \in pool' \ map', NEW a \in Compared(v) PROVE heard'[v][a] = Unknown
    BY DEF NeverTold, Compared, Attrs
  <2>1. v \in pool \ map /\ v # w /\ v \in Who
    BY <1>1, <1>2 DEF TypeOK, Who
  <2>2. QED
    BY <1>3, <2>1 DEF Inv, NeverTold
<1>8. NeverRead'
  BY <1>1 DEF Inv, NeverRead, Subject
<1>9. Handled'
  <2>1. update'.calling => update'.who \notin pool' \ map'
    BY <1>1 DEF Inv, Handled
  <2>2. SUFFICES ASSUME ~Idle
                 PROVE  /\ \A j \in 1 .. Len(Attrs(update.who)) :
                              IF j < update.at THEN BehindAt(j)' ELSE AheadAt(j)'
                        /\ update.who # Clock =>
                              \A a \in Attr : seen'[update.who][a] \in {Unknown, update.now[a]}
    BY <1>1, <2>1 DEF Handled, Idle, Attrs
  <2>3. update.who \in Who
    BY <1>2 DEF TypeOK
  <2>4. ASSUME NEW j \in 1 .. Len(Attrs(update.who))
        PROVE  IF j < update.at THEN BehindAt(j)' ELSE AheadAt(j)'
    <3>1. IF j < update.at THEN BehindAt(j) ELSE AheadAt(j)
      BY <2>2 DEF Inv, Handled
    <3>2. update.who \in Player => (update.who \in pool' <=> update.who \in pool)
      BY <1>1, <1>2
    <3>3. CASE update.who = w
      <4>1. heard'[w][Attrs(w)[j]] = Unknown
        BY <1>2, <1>3, <2>4, <3>3, Constants, AttrsFacts
      <4>2. QED
        BY <1>1, <1>2, <3>1, <3>2, <3>3, <4>1 DEF BehindAt, AheadAt, Attrs
    <3>4. CASE update.who # w
      <4>1. heard'[update.who] = heard[update.who] /\ (update.who \in Live' <=> update.who \in Live)
        BY <1>1, <1>3, <2>3, <3>4 DEF Live
      <4>2. QED
        BY <1>1, <3>1, <3>2, <4>1 DEF BehindAt, AheadAt, Attrs
    <3>5. QED
      BY <3>3, <3>4
  <2>5. QED
    BY <1>1, <2>2, <2>4 DEF Inv, Handled
<1>10. QED
  BY <1>5, <1>6, <1>7, <1>8, <1>9 DEF Inv

LEMMA VehicleDeletedInv ==
    ASSUME Inv, NEW w \in Vehicle, VehicleDeleted(w)
    PROVE  Inv'
<1>1. /\ w \in pool
      /\ pool' = pool \ {w} /\ map' = map \ {w}
      /\ seen' = [seen EXCEPT ![w] = Nothing]
      /\ UNCHANGED <<current, saved, update, heard>>
  BY DEF VehicleDeleted
<1>2. TypeOK /\ w \in Who /\ w # Clock /\ w \in Subject /\ w \notin Player
  BY WhoAssumption DEF Inv, Shape, Who, Subject
<1>3. /\ seen' \in [Player \cup Vehicle -> Reading] /\ seen'[w] = Nothing
      /\ \A v \in Subject : v # w => seen'[v] = seen[v]
  BY <1>1, <1>2, Constants DEF TypeOK, Subject
<1>4. TypeOK'
  <2>1. pool' \subseteq Player \cup Vehicle /\ map' \subseteq pool'
    BY <1>1, <1>2 DEF TypeOK
  <2>2. QED
    BY <1>1, <1>2, <1>3, <2>1 DEF TypeOK
<1>5. Shape'
  BY <1>1, <1>2, <1>4 DEF Inv, Shape, Attrs
<1>6. OthersSettled'
  <2> SUFFICES ASSUME NEW v \in Live', Idle \/ v # update.who PROVE Settled(v)'
    BY <1>1 DEF OthersSettled, Idle
  <2>1. v # w /\ v \in Live /\ v \in Who /\ (v # Clock => v \in Subject)
    BY <1>1, <1>2, Constants DEF Live, TypeOK, Who, Subject
  <2>2. Settled(v)
    BY <2>1 DEF Inv, OthersSettled
  <2>3. QED
    BY <1>1, <1>3, <2>1, <2>2 DEF Settled, Compared, Attrs
<1>7. NeverTold'
  BY <1>1 DEF Inv, NeverTold, Compared, Attrs
<1>8. NeverRead'
  BY <1>1, <1>3 DEF Inv, NeverRead, Subject
<1>9. Handled'
  <2>1. update'.calling => update'.who \notin pool' \ map'
    BY <1>1 DEF Inv, Handled
  <2>2. SUFFICES ASSUME ~Idle
                 PROVE  /\ \A j \in 1 .. Len(Attrs(update.who)) :
                              IF j < update.at THEN BehindAt(j)' ELSE AheadAt(j)'
                        /\ update.who # Clock =>
                              \A a \in Attr : seen'[update.who][a] \in {Unknown, update.now[a]}
    BY <1>1, <2>1 DEF Handled, Idle, Attrs
  <2>3. update.who \in Who
    BY <1>2 DEF TypeOK
  <2>4. ASSUME NEW j \in 1 .. Len(Attrs(update.who))
        PROVE  IF j < update.at THEN BehindAt(j)' ELSE AheadAt(j)'
    <3>1. IF j < update.at THEN BehindAt(j) ELSE AheadAt(j)
      BY <2>2 DEF Inv, Handled
    <3>2. /\ update.who \in Player => (update.who \in pool' <=> update.who \in pool)
          /\ update.who \in Live' => update.who \in Live
      BY <1>1, <1>2 DEF Live
    <3>3. QED
      BY <1>1, <3>1, <3>2 DEF BehindAt, AheadAt, Attrs
  <2>5. ASSUME update.who # Clock, NEW a \in Attr
        PROVE  seen'[update.who][a] \in {Unknown, update.now[a]}
    <3>1. seen[update.who][a] \in {Unknown, update.now[a]} /\ update.who \in Subject
      BY <2>2, <2>3, <2>5 DEF Inv, Handled, Who, Subject
    <3>2. QED
      BY <1>3, <3>1, Constants
  <2>6. QED
    BY <2>4, <2>5
<1>10. QED
  BY <1>5, <1>6, <1>7, <1>8, <1>9 DEF Inv

LEMMA ScanInv == Inv /\ Scan => Inv'
<1> SUFFICES ASSUME Inv, Scan PROVE Inv'
  OBVIOUS
<1>1. map' = pool /\ UNCHANGED <<current, saved, pool, update, seen, heard>>
  BY DEF Scan
<1>2. Shape'
  BY <1>1 DEF Inv, Shape, TypeOK, Attrs
<1>3. OthersSettled' /\ NeverTold' /\ NeverRead'
  BY <1>1 DEF Inv, OthersSettled, Settled, NeverTold, NeverRead, Live, Idle, Compared, Attrs
<1>4. Handled'
  BY <1>1 DEF Inv, Handled, AheadAt, BehindAt, Live, Idle, Attrs
<1>5. QED
  BY <1>2, <1>3, <1>4 DEF Inv

LEMMA BeginsInv ==
    ASSUME Inv, NEW w \in Who, Begins(w)
    PROVE  Inv'
<1>1. /\ Idle /\ w \in Live
      /\ update' = [who |-> w, at |-> 1, calling |-> FALSE,
                    last |-> saved[w], now |-> current[w]]
      /\ seen' = IF w = Clock THEN seen ELSE [seen EXCEPT ![w] = current[w]]
      /\ UNCHANGED <<current, saved, pool, map, heard>>
  BY DEF Begins, Inv, Shape, TypeOK, Live
<1>2. TypeOK /\ saved[w] \in [Attr -> Nat] /\ current[w] \in [Attr -> Nat]
  BY DEF Inv, Shape, TypeOK
<1>3. Settled(w)
  BY <1>1 DEF Inv, OthersSettled
<1>4. /\ seen' \in [Player \cup Vehicle -> Reading]
      /\ w # Clock => seen'[w] = current[w]
      /\ \A v \in Subject : v # w => seen'[v] = seen[v]
  BY <1>1, <1>2, Constants DEF TypeOK, Subject, Who
<1>5. TypeOK'
  BY <1>1, <1>2, <1>4 DEF TypeOK
<1>6. Shape'
  <2>1. update'.at \in 0 .. Len(Attrs(update'.who)) + 1 /\ ~update'.calling
    BY <1>1, AttrsFacts
  <2>2. update'.now["wep"] \in 0 .. Byte - 1
    BY <1>1 DEF Inv, Shape
  <2>3. QED
    BY <1>1, <1>5, <2>1, <2>2 DEF Inv, Shape, Attrs
<1>7. OthersSettled'
  <2> SUFFICES ASSUME NEW v \in Live, v # w PROVE Settled(v)'
    BY <1>1 DEF OthersSettled, Idle, Live
  <2>1. Settled(v) /\ (v # Clock => v \in Subject)
    BY <1>1, <1>2 DEF Inv, OthersSettled, Live, TypeOK, Subject
  <2>2. v # Clock => seen'[v] = seen[v]
    BY <1>4, <2>1
  <2>3. saved' = saved /\ heard' = heard
    BY <1>1
  <2>4. QED
    BY <2>1, <2>2, <2>3, SettledFrame
<1>8. NeverTold'
  BY <1>1 DEF Inv, NeverTold, Compared, Attrs
<1>9. NeverRead'
  BY <1>1, <1>4, Constants DEF Inv, NeverRead, Live
<1>10. Handled'
  <2>1. ASSUME NEW j \in 1 .. Len(Attrs(w)) PROVE AheadAt(j)' /\ ~(j < 1)
    <3>1. Attrs(w)[j] \in Compared(w) /\ ~(j < 1)
      BY AttrsFacts
    <3>2. heard[w][Attrs(w)[j]] \in {Unknown, saved[w][Attrs(w)[j]]}
      BY <1>3, <3>1 DEF Settled
    <3>3. update'.who = w /\ update'.last = saved[w] /\ saved' = saved /\ heard' = heard
      BY <1>1
    <3>4. AheadAt(j)'
      BY <3>2, <3>3 DEF AheadAt, Attrs
    <3>5. QED
      BY <3>1, <3>4
  <2>2. update'.who = w /\ update'.at = 1 /\ ~update'.calling /\ update'.now = current[w]
    BY <1>1
  <2>3. \A j \in 1 .. Len(Attrs(w)) :
           IF j < update'.at THEN BehindAt(j)' ELSE AheadAt(j)'
    BY <2>1, <2>2
  <2>4. update'.who # Clock =>
           \A a \in Attr : seen'[update'.who][a] \in {Unknown, update'.now[a]}
    BY <1>4, <2>2
  <2>5. QED
    BY <2>2, <2>3, <2>4 DEF Handled, Idle, Attrs
<1>11. QED
  BY <1>6, <1>7, <1>8, <1>9, <1>10 DEF Inv

\* The handler moves on, or calls: its locals but at and calling stay.
LEMMA Moves ==
    ASSUME TypeOK, NEW i \in Nat, NEW c \in BOOLEAN,
           update' = [update EXCEPT !.at = i, !.calling = c]
    PROVE  /\ update'.who = update.who /\ update'.last = update.last
           /\ update'.now = update.now /\ update'.at = i /\ update'.calling = c
           /\ update' \in [who : Who, at : Nat, calling : BOOLEAN,
                          last : [Attr -> Nat], now : [Attr -> Nat]]
  BY DEF TypeOK

\* Where a handler that compares or calls stands.
LEMMA Standing ==
    ASSUME Inv, Comparing \/ update.calling
    PROVE  /\ update.at \in 1 .. Len(Attrs(update.who)) /\ ~Idle
           /\ update.at \in Nat /\ update.at + 1 \in Nat
           /\ update.who \in Who /\ AttrAt \in Attr /\ AttrAt \in Compared(update.who)
           /\ AheadAt(update.at)
<1>1. TypeOK /\ update.who \in Who /\ update.at \in Nat
  BY DEF Inv, Shape, TypeOK
<1>2. Len(Attrs(update.who)) \in Nat
  BY <1>1, AttrsFacts
<1>3. update.at \in 1 .. Len(Attrs(update.who)) /\ ~Idle
  <2>1. CASE Comparing
    BY <1>1, <1>2, <2>1 DEF Comparing, Idle
  <2>2. CASE update.calling
    <3>1. update.at \in 1 .. Len(Attrs(update.who))
      BY <2>2 DEF Inv, Shape
    <3>2. QED
      BY <3>1 DEF Idle
  <2>3. QED
    BY <2>1, <2>2
<1>4. AheadAt(update.at)
  <2>1. ~(update.at < update.at)
    BY <1>1
  <2>2. QED
    BY <1>3, <2>1 DEF Inv, Handled
<1>5. QED
  BY <1>1, <1>3, <1>4, AttrsFacts DEF AttrAt

LEMMA SameInv == Inv /\ Same => Inv'
<1> SUFFICES ASSUME Inv, Same PROVE Inv'
  OBVIOUS
<1>1. /\ Comparing /\ update.last[AttrAt] = update.now[AttrAt] /\ ~update.calling
      /\ UNCHANGED <<current, saved, pool, map, seen, heard>>
  BY DEF Same, Differs, Comparing
<1>2. TypeOK
  BY DEF Inv, Shape
<1>3. /\ update'.who = update.who /\ update'.last = update.last
      /\ update'.now = update.now /\ update'.at = update.at + 1 /\ ~update'.calling
      /\ update' \in [who : Who, at : Nat, calling : BOOLEAN,
                     last : [Attr -> Nat], now : [Attr -> Nat]]
  <2>1. update' = [update EXCEPT !.at = update.at + 1, !.calling = FALSE]
    BY <1>1, <1>2 DEF Same, TypeOK
  <2>2. QED
    BY <1>1, <1>2, <2>1, Moves, Standing
<1>4. Shape'
  <2>1. TypeOK'
    BY <1>1, <1>2, <1>3 DEF TypeOK
  <2>2. update'.at \in 0 .. Len(Attrs(update'.who)) + 1
    <3>1. Len(Attrs(update.who)) \in Nat /\ update.at \in 1 .. Len(Attrs(update.who))
      BY <1>1, Standing, AttrsFacts
    <3>2. update.at + 1 \in 0 .. Len(Attrs(update.who)) + 1
      BY <3>1
    <3>3. QED
      BY <1>3, <3>2
  <2>3. QED
    BY <1>1, <1>3, <2>1, <2>2 DEF Inv, Shape, Attrs
<1>5. OthersSettled' /\ NeverTold' /\ NeverRead'
  <2>1. OthersSettled'
    <3> SUFFICES ASSUME NEW w \in Live, w # update.who PROVE Settled(w)'
      BY <1>1, <1>3, Standing DEF OthersSettled, Idle, Live
    <3>1. Settled(w)
      BY DEF Inv, OthersSettled
    <3>2. saved' = saved /\ heard' = heard /\ seen' = seen
      BY <1>1
    <3>3. QED
      BY <3>1, <3>2, SettledFrame
  <2>2. NeverTold'
    BY <1>1 DEF Inv, NeverTold, Compared, Attrs
  <2>3. NeverRead'
    BY <1>1 DEF Inv, NeverRead
  <2>4. QED
    BY <2>1, <2>2, <2>3
<1>6. Handled'
  <2>1. ASSUME NEW j \in 1 .. Len(Attrs(update.who))
        PROVE  IF j < update'.at THEN BehindAt(j)' ELSE AheadAt(j)'
    <3>1. IF j < update.at THEN BehindAt(j) ELSE AheadAt(j)
      BY <1>1, Standing DEF Inv, Handled
    <3>2. CASE j = update.at
      <4>1. Attrs(update.who)[j] = AttrAt /\ j < update'.at
        BY <1>1, <1>3, <3>2, Standing DEF AttrAt
      <4>2. AheadAt(j)
        BY <1>1, <3>2, Standing
      <4>3. QED
        BY <1>1, <1>3, <4>1, <4>2 DEF AheadAt, BehindAt, Live, Attrs
    <3>3. CASE j # update.at
      <4>1. j < update'.at <=> j < update.at
        BY <1>1, <1>3, <3>3, Standing
      <4>2. QED
        BY <1>1, <1>3, <3>1, <4>1 DEF AheadAt, BehindAt, Live, Attrs
    <3>4. QED
      BY <3>2, <3>3
  <2>2. QED
    BY <1>1, <1>3, <2>1, Standing DEF Inv, Handled, Attrs
<1>7. QED
  BY <1>4, <1>5, <1>6 DEF Inv

LEMMA CalledInv == Inv /\ Called => Inv'
<1> SUFFICES ASSUME Inv, Called PROVE Inv'
  OBVIOUS
<1>1. /\ Comparing /\ HasObject
      /\ UNCHANGED <<current, saved, pool, map, seen, heard>>
  BY DEF Called
<1>2. TypeOK
  BY DEF Inv, Shape
<1>3. /\ update'.who = update.who /\ update'.last = update.last
      /\ update'.now = update.now /\ update'.at = update.at
      /\ update' \in [who : Who, at : Nat, calling : BOOLEAN,
                     last : [Attr -> Nat], now : [Attr -> Nat]]
  BY <1>2 DEF Called, TypeOK
<1>4. Shape'
  <2>1. TypeOK'
    BY <1>1, <1>2, <1>3 DEF TypeOK
  <2>2. QED
    BY <1>1, <1>3, <2>1, Standing DEF Inv, Shape, Attrs
<1>5. OthersSettled' /\ NeverTold' /\ NeverRead'
  <2>1. OthersSettled'
    <3> SUFFICES ASSUME NEW w \in Live, w # update.who PROVE Settled(w)'
      BY <1>1, <1>3, Standing DEF OthersSettled, Idle, Live
    <3>1. Settled(w)
      BY DEF Inv, OthersSettled
    <3>2. saved' = saved /\ heard' = heard /\ seen' = seen
      BY <1>1
    <3>3. QED
      BY <3>1, <3>2, SettledFrame
  <2>2. NeverTold'
    BY <1>1 DEF Inv, NeverTold, Compared, Attrs
  <2>3. NeverRead'
    BY <1>1 DEF Inv, NeverRead
  <2>4. QED
    BY <2>1, <2>2, <2>3
<1>6. Handled'
  <2>1. update.who \notin pool \ map
    BY <1>1, <1>2 DEF Inv, Shape, HasObject, TypeOK
  <2>2. QED
    BY <1>1, <1>3, <2>1, Standing DEF Inv, Handled, AheadAt, BehindAt, Live, Idle, Attrs
<1>7. QED
  BY <1>4, <1>5, <1>6 DEF Inv

\* What a report leaves alone: the other subjects, and the other attributes.
LEMMA Stored ==
    ASSUME Inv, Comparing \/ update.calling, Save
    PROVE  /\ update'.who = update.who /\ update'.last = update.last
           /\ update'.now = update.now /\ update'.at = update.at + 1 /\ ~update'.calling
           /\ update' \in [who : Who, at : Nat, calling : BOOLEAN,
                          last : [Attr -> Nat], now : [Attr -> Nat]]
           /\ saved' \in [Who -> [Attr -> Nat]]
           /\ saved'[update.who][AttrAt] = update.now[AttrAt]
           /\ \A a \in Attr : a # AttrAt => saved'[update.who][a] = saved[update.who][a]
           /\ \A w \in Who : w # update.who => saved'[w] = saved[w]
           /\ UNCHANGED <<current, pool, map, seen>>
<1>1. TypeOK /\ update.at + 1 \in Nat /\ update.who \in Who /\ AttrAt \in Attr
  BY Standing DEF Inv, Shape
<1>2. update.now[AttrAt] \in Nat
  BY <1>1 DEF TypeOK
<1>3. Narrowed(AttrAt, Read) = update.now[AttrAt]
  <2>1. AttrAt = "wep" => update.now[AttrAt] % Byte = update.now[AttrAt]
    BY <1>2, ValueAssumption DEF Inv, Shape
  <2>2. QED
    BY <2>1 DEF Narrowed, Read
<1>4. saved' = [saved EXCEPT ![update.who][AttrAt] = update.now[AttrAt]]
  BY <1>3 DEF Save
<1>5. saved \in [Who -> [Attr -> Nat]]
  BY <1>1 DEF TypeOK
<1>6. update' = [update EXCEPT !.at = update.at + 1, !.calling = FALSE]
  BY DEF Save
<1>7. UNCHANGED <<current, pool, map, seen>>
  BY DEF Save
<1>8. QED
  BY <1>1, <1>2, <1>4, <1>5, <1>6, <1>7, Moves, Store

\* After a report all is as it should be if scripts were told, or never were.
LEMMA ReportedInv ==
    ASSUME Inv, Comparing \/ update.calling, Save,
           heard' \in [Who -> Reading],
           \A w \in Who : w # update.who => heard'[w] = heard[w],
           \A a \in Attr : a # AttrAt => heard'[update.who][a] = heard[update.who][a],
           update.who \in Live => heard'[update.who][AttrAt] \in {Unknown, update.now[AttrAt]},
           update.who \in pool \ map => heard'[update.who][AttrAt] = Unknown
    PROVE  Inv'
<1> DEFINE u == update.who
<1>1. /\ u \in Who /\ AttrAt \in Attr /\ ~Idle /\ TypeOK
      /\ update.at \in 1 .. Len(Attrs(u)) /\ Len(Attrs(u)) \in Nat
  BY Standing, AttrsFacts DEF Inv, Shape
<1>2. UNCHANGED <<current, pool, map, seen>>
  BY Stored
<1>3. /\ update'.who = u /\ update'.last = update.last /\ update'.now = update.now
      /\ update'.at = update.at + 1 /\ ~update'.calling
  BY Stored
<1>4. Shape'
  <2>1. TypeOK'
    BY <1>1, <1>2, Stored DEF TypeOK
  <2>2. update.at + 1 \in 0 .. Len(Attrs(u)) + 1
    BY <1>1
  <2>3. update'.at \in 0 .. Len(Attrs(update'.who)) + 1
    BY <1>3, <2>2
  <2>4. QED
    BY <1>2, <1>3, <2>1, <2>3 DEF Inv, Shape, Attrs
<1>5. OthersSettled'
  <2> SUFFICES ASSUME NEW w \in Live, w # u PROVE Settled(w)'
    BY <1>1, <1>2, <1>3 DEF OthersSettled, Idle, Live
  <2>1. Settled(w) /\ w \in Who
    BY <1>1, Constants DEF Inv, OthersSettled, Live, TypeOK, Who
  <2>2. saved'[w] = saved[w] /\ heard'[w] = heard[w] /\ seen' = seen
    BY <1>2, <2>1, Stored
  <2>3. QED
    BY <2>1, <2>2, SettledFrame
<1>6. NeverTold'
  <2> SUFFICES ASSUME NEW w \in pool \ map, NEW a \in Compared(w) PROVE heard'[w][a] = Unknown
    BY <1>2 DEF NeverTold, Compared, Attrs
  <2>1. w \in Who /\ a \in Attr /\ heard[w][a] = Unknown
    BY <1>1, AttrsFacts DEF Inv, NeverTold, TypeOK, Who
  <2>2. QED
    BY <2>1
<1>7. NeverRead'
  BY <1>2 DEF Inv, NeverRead
<1>8. Handled'
  <2>1. ASSUME NEW j \in 1 .. Len(Attrs(u))
        PROVE  IF j < update'.at THEN BehindAt(j)' ELSE AheadAt(j)'
    <3>1. CASE j = update.at
      <4>1. Attrs(u)[j] = AttrAt /\ j < update'.at
        BY <1>1, <1>3, <3>1 DEF AttrAt
      <4>2. /\ u \in Live' => heard'[u][AttrAt] \in {Unknown, update'.now[AttrAt]}
            /\ saved'[u][AttrAt] = update'.now[AttrAt]
        BY <1>2, <1>3, Stored DEF Live
      <4>3. BehindAt(j)'
        BY <1>3, <4>1, <4>2 DEF BehindAt, Attrs
      <4>4. QED
        BY <4>1, <4>3
    <3>2. CASE j # update.at
      <4>1. j < update'.at <=> j < update.at
        BY <1>1, <1>3, <3>2
      <4>2. Attrs(u)[j] # AttrAt /\ Attrs(u)[j] \in Attr
        BY <1>1, <3>2, AttrsFacts DEF AttrAt
      <4>3. heard'[u][Attrs(u)[j]] = heard[u][Attrs(u)[j]]
            /\ saved'[u][Attrs(u)[j]] = saved[u][Attrs(u)[j]]
        BY <4>2, Stored
      <4>4. IF j < update.at THEN BehindAt(j) ELSE AheadAt(j)
        BY <1>1 DEF Inv, Handled
      <4>5. pool' = pool /\ Live' = Live
        BY <1>2 DEF Live
      <4>6. CASE j < update.at
        <5>1. BehindAt(j)'
          BY <1>3, <4>3, <4>4, <4>5, <4>6 DEF BehindAt, Attrs
        <5>2. QED
          BY <4>1, <4>6, <5>1
      <4>7. CASE ~(j < update.at)
        <5>1. AheadAt(j)'
          BY <1>3, <4>3, <4>4, <4>5, <4>7 DEF AheadAt, Attrs
        <5>2. QED
          BY <4>1, <4>7, <5>1
      <4>8. QED
        BY <4>6, <4>7
    <3>3. QED
      BY <3>1, <3>2
  <2>2. u # Clock => \A a \in Attr : seen[u][a] \in {Unknown, update.now[a]}
    BY <1>1 DEF Inv, Handled
  <2>3. QED
    BY <1>2, <1>3, <2>1, <2>2 DEF Handled, Attrs
<1>9. QED
  BY <1>4, <1>5, <1>6, <1>7, <1>8 DEF Inv

LEMMA UnreportedInv == Inv /\ Unreported => Inv'
<1> SUFFICES ASSUME Inv, Unreported PROVE Inv'
  OBVIOUS
<1>1. Comparing /\ Save /\ heard' = heard /\ update.who \in Vehicle \ map
  BY DEF Unreported, HasObject
<1>2. TypeOK /\ AttrAt \in Compared(update.who) /\ update.who # Clock
  BY <1>1, Standing, WhoAssumption DEF Inv, Shape
<1>3. update.who \in pool => heard[update.who][AttrAt] = Unknown
  BY <1>1, <1>2 DEF Inv, NeverTold
<1>4. heard \in [Who -> Reading]
  BY <1>2 DEF TypeOK
<1>5. QED
  BY <1>1, <1>2, <1>3, <1>4, ReportedInv DEF Live

LEMMA ReturnsInv == Inv /\ Returns => Inv'
<1> SUFFICES ASSUME Inv, Returns PROVE Inv'
  OBVIOUS
<1>1. /\ update.calling /\ Save
      /\ heard' = [heard EXCEPT ![update.who][AttrAt] = update.now[AttrAt]]
  BY DEF Returns
<1>2. TypeOK /\ update.who \in Who /\ AttrAt \in Attr
  BY <1>1, Standing DEF Inv, Shape
<1>3. update.now[AttrAt] \in Nat \cup {Unknown} /\ heard \in [Who -> [Attr -> Nat \cup {Unknown}]]
  BY <1>2 DEF TypeOK, Reading
<1>4. /\ heard' \in [Who -> Reading] /\ heard'[update.who][AttrAt] = update.now[AttrAt]
      /\ \A a \in Attr : a # AttrAt => heard'[update.who][a] = heard[update.who][a]
      /\ \A w \in Who : w # update.who => heard'[w] = heard[w]
  BY <1>1, <1>2, <1>3, Store DEF Reading
<1>5. update.who \notin pool \ map
  BY <1>1 DEF Inv, Handled
<1>6. QED
  BY <1>1, <1>4, <1>5, ReportedInv

LEMMA EndsInv == Inv /\ Ends => Inv'
<1> SUFFICES ASSUME Inv, Ends PROVE Inv'
  OBVIOUS
<1> DEFINE u == update.who
<1>1. /\ update.at > Len(Attrs(u)) /\ update' = NoUpdate
      /\ UNCHANGED <<current, saved, pool, map, seen, heard>>
  BY DEF Ends
<1>2. TypeOK /\ u \in Who /\ update.at \in Nat /\ Len(Attrs(u)) \in Nat \ {0}
  BY AttrsFacts DEF Inv, Shape, TypeOK
<1>3. ~Idle
  BY <1>1, <1>2 DEF Idle
<1>4. /\ update'.who = Clock /\ update'.at = 0 /\ ~update'.calling /\ update'.now = Zero
      /\ update'.last = Zero
  BY <1>1 DEF NoUpdate
<1>5. Shape'
  <2>1. update' \in [who : Who, at : Nat, calling : BOOLEAN,
                    last : [Attr -> Nat], now : [Attr -> Nat]]
    BY <1>1, Constants DEF NoUpdate
  <2>2. TypeOK'
    BY <1>1, <1>2, <2>1 DEF TypeOK
  <2>3. 0 \in 0 .. Len(Attrs(Clock)) + 1
    BY AttrsFacts, Constants
  <2>4. 0 \in 0 .. Byte - 1
    BY ValueAssumption
  <2>5. QED
    BY <1>1, <1>4, <2>2, <2>3, <2>4, Constants DEF Inv, Shape
<1>6. OthersSettled'
  <2> SUFFICES ASSUME NEW w \in Live PROVE Settled(w)
    <3>1. Live' = Live
      BY <1>1 DEF Live
    <3>2. ASSUME NEW w \in Live PROVE Settled(w)'
      <4>1. Settled(w) /\ saved' = saved /\ heard' = heard /\ seen' = seen
        BY <1>1
      <4>2. QED
        BY <4>1, SettledFrame
    <3>3. QED
      BY <3>1, <3>2 DEF OthersSettled
  <2>1. CASE w # u
    BY <1>3, <2>1 DEF Inv, OthersSettled
  <2>2. CASE w = u
    <3> SUFFICES ASSUME NEW a \in Compared(u)
                 PROVE  /\ heard[u][a] \in {Unknown, saved[u][a]}
                        /\ u # Clock => seen[u][a] = Unknown \/ heard[u][a] \in {Unknown, seen[u][a]}
      BY <2>2 DEF Settled
    <3>1. PICK j \in 1 .. Len(Attrs(u)) : a = Attrs(u)[j]
      BY <1>2, AttrsFacts
    <3>2. j < update.at
      BY <1>1, <1>2
    <3>3. BehindAt(j)
      BY <1>3, <3>2 DEF Inv, Handled
    <3>4. u \notin Player \/ u \in pool
      BY <1>2, <2>2, WhoAssumption DEF Live
    <3>5. heard[u][a] \in {Unknown, update.now[a]} /\ saved[u][a] = update.now[a]
      BY <2>2, <3>1, <3>3, <3>4 DEF BehindAt
    <3>6. a \in Attr
      BY <1>2, AttrsFacts
    <3>7. u # Clock => seen[u][a] \in {Unknown, update.now[a]}
      BY <1>3, <3>6 DEF Inv, Handled
    <3>8. QED
      BY <3>5, <3>7
  <2>3. QED
    BY <2>1, <2>2
<1>7. NeverTold' /\ NeverRead'
  <2>1. NeverTold'
    BY <1>1 DEF Inv, NeverTold, Compared, Attrs
  <2>2. NeverRead'
    BY <1>1 DEF Inv, NeverRead
  <2>3. QED
    BY <2>1, <2>2
<1>8. Handled'
  BY <1>4 DEF Handled, Idle
<1>9. QED
  BY <1>5, <1>6, <1>7, <1>8 DEF Inv

-------------------------------------------------------------------------------
LEMMA NextInv == Inv /\ [Next]_vars => Inv'
<1> SUFFICES ASSUME Inv, [Next]_vars PROVE Inv'
  OBVIOUS
<1>1. ASSUME NEW w \in Who, NEW a \in Attr, NEW x \in Value[a], Changes(w, a, x) PROVE Inv'
  BY <1>1, ChangesInv
<1>2. ASSUME NEW p \in Player, OnPlayerConnect(p) PROVE Inv'
  BY <1>2, OnPlayerConnectInv
<1>3. ASSUME NEW p \in Player, OnPlayerDisconnect(p) PROVE Inv'
  BY <1>3, OnPlayerDisconnectInv
<1>4. ASSUME NEW w \in Vehicle, VehicleCreated(w) PROVE Inv'
  BY <1>4, VehicleCreatedInv
<1>5. ASSUME NEW w \in Vehicle, VehicleDeleted(w) PROVE Inv'
  BY <1>5, VehicleDeletedInv
<1>6. ASSUME NEW w \in Who, Begins(w) PROVE Inv'
  BY <1>6, BeginsInv
<1>7. CASE UNCHANGED vars
  <2>1. UNCHANGED <<current, saved, pool, map, update, seen, heard>>
    BY <1>7 DEF vars
  <2>2. Shape' /\ NeverRead'
    BY <2>1 DEF Inv, Shape, TypeOK, NeverRead, Attrs
  <2>3. OthersSettled'
    <3> SUFFICES ASSUME NEW w \in Live, Idle \/ w # update.who PROVE Settled(w)'
      BY <2>1 DEF OthersSettled, Idle, Live
    <3>1. Settled(w)
      BY DEF Inv, OthersSettled
    <3>2. QED
      BY <2>1, <3>1, SettledFrame
  <2>4. NeverTold'
    BY <2>1 DEF Inv, NeverTold, Compared, Attrs
  <2>5. Handled'
    BY <2>1 DEF Inv, Handled, AheadAt, BehindAt, Live, Idle, Attrs
  <2>6. QED
    BY <2>2, <2>3, <2>4, <2>5 DEF Inv
<1>8. QED
  BY <1>1, <1>2, <1>3, <1>4, <1>5, <1>6, <1>7,
     ScanInv, SameInv, CalledInv, UnreportedInv, ReturnsInv, EndsInv DEF Next

\* What holds between any two steps: what was saved of a subject, what was read
\* of it and what scripts were told agree, but for the attributes the handler
\* that runs has not come to.
THEOREM Invariance == Spec => []Inv
  BY InitInv, NextInv, PTL DEF Spec

\* The state keeps its types.
THEOREM TypeCorrect == Spec => []TypeOK
<1>1. Inv => TypeOK
  BY DEF Inv, Shape
<1>2. QED
  BY <1>1, Invariance, PTL

\* The old value a function is told is the new value of the call before it,
\* whatever was done to the subject meanwhile.
THEOREM ChainedCorrect == Spec => []Chained
<1>1. Inv => Chained
  BY Standing DEF AheadAt, AttrAt, Chained
<1>2. QED
  BY <1>1, Invariance, PTL

\* Between two handlers no change that was read is still to be told.
THEOREM NothingMissedCorrect == Spec => []NothingMissed
<1>1. ASSUME Inv, Idle, NEW w \in pool, NEW a \in Compared(w),
             seen[w][a] # Unknown, heard[w][a] # Unknown
      PROVE  heard[w][a] = seen[w][a]
  <2>1. w \in Live /\ w # Clock
    BY <1>1, Constants DEF Inv, Shape, TypeOK, Live, Subject
  <2>2. Settled(w)
    BY <1>1, <2>1 DEF Inv, OthersSettled
  <2>3. QED
    BY <1>1, <2>1, <2>2 DEF Settled
<1>2. Inv => NothingMissed
  BY <1>1 DEF NothingMissed
<1>3. QED
  BY <1>2, Invariance, PTL

===============================================================================
