--------------------------- MODULE Entities_proofs ---------------------------
(***************************************************************************)
(* Proofs about Entities, for any kinds, any number of entities and any    *)
(* server.                                                                 *)
(***************************************************************************)
EXTENDS Entities, TLAPS

Inv == EntitiesTypeOK /\ NoStaleObject /\ OnlyOurs /\ Found

\* The two ranges every proof below turns on: what a loop skips is the last id
\* of the vehicles.
LEMMA Ranges ==
    ASSUME NEW k \in Kind
    PROVE  /\ Id(k) \subseteq Nat
           /\ \A id \in Id(k) : id < MAX[k] => id \in Looped(k)
           /\ \A id \in Looped(k) : id < MAX[k]
BY MaxAssumption DEF Id, Looped

\* The functions on one map keep its type, and say where an entry comes from.
LEMMA AllocateFacts ==
    ASSUME NEW k \in Kind, NEW m \in [Id(k) -> Entry], NEW ids, NEW owner \in Entry
    PROVE  LET a == Allocate(m, k, ids, owner)
           IN  /\ a \in [Id(k) -> Entry]
               /\ \A id \in Id(k) :
                    /\ a[id] = m[id] \/ (id \in ids /\ m[id] = "none" /\ a[id] = owner)
                    /\ m[id] # "none" => a[id] = m[id]
                    /\ owner # "none" /\ id \in ids => a[id] # "none"
BY DEF Allocate

LEMMA PoolDeletedFacts ==
    ASSUME NEW k \in Kind, NEW m \in [Id(k) -> Entry], NEW ids
    PROVE  LET d == PoolDeleted(m, k, ids)
           IN  /\ d \in [Id(k) -> Entry]
               /\ \A id \in Id(k) : d[id] = IF id \in ids THEN "none" ELSE m[id]
BY DEF PoolDeleted, DereferenceRange, Entry

LEMMA InitInv == EntitiesInit => Inv
<1> SUFFICES ASSUME EntitiesInit PROVE Inv
  OBVIOUS
<1>1. \A k \in Kind : pool[k] \in SUBSET Nat /\ pool[k] \subseteq Id(k)
  BY Ranges DEF EntitiesInit
<1>2. DOMAIN pool = Kind /\ pool = [k \in Kind |-> pool[k]]
  BY DEF EntitiesInit
<1>3. pool \in [Kind -> SUBSET Nat]
  BY <1>1, <1>2
<1>4. EntitiesTypeOK
  BY <1>1, <1>3 DEF EntitiesInit, EntitiesTypeOK, Entry
<1>5. QED
  BY <1>4 DEF EntitiesInit, Inv, NoStaleObject, OnlyOurs, Found

\* One kind changes: what has to be known of its new map.
LEMMA ChangeKeeps ==
    ASSUME Inv, phase # "down", phase' = phase,
           NEW k \in Kind, NEW ids \in SUBSET Id(k), NEW m \in [Id(k) -> Entry],
           NEW c \in SUBSET ids, Change(k, ids, m), created' = [created EXCEPT ![k] = c],
           \A id \in Id(k) : m[id] # "none" => id \in ids,
           \A id \in Id(k) : m[id] = "ours" => id \in c,
           phase = "up" => \A id \in ids : id < MAX[k] => m[id] # "none"
    PROVE  Inv'
<1>1. /\ pool' = [pool EXCEPT ![k] = ids] /\ map' = [map EXCEPT ![k] = m]
      /\ created' = [created EXCEPT ![k] = c]
      /\ pool \in [Kind -> SUBSET Nat] /\ map = [j \in Kind |-> map[j]]
      /\ created \in [Kind -> SUBSET Nat]
  BY DEF Change, Inv, EntitiesTypeOK
<1>2. /\ pool'[k] = ids /\ map'[k] = m /\ created'[k] = c
      /\ \A j \in Kind : j # k => /\ pool'[j] = pool[j] /\ map'[j] = map[j]
                                  /\ created'[j] = created[j]
  BY <1>1
<1>3. ids \in SUBSET Nat /\ c \in SUBSET Nat
  BY Ranges
<1>4. pool' \in [Kind -> SUBSET Nat] /\ created' \in [Kind -> SUBSET Nat]
  BY <1>1, <1>3
<1>5. map' = [j \in Kind |-> map'[j]]
  BY <1>1
<1>6. EntitiesTypeOK'
  BY <1>2, <1>4, <1>5 DEF Inv, EntitiesTypeOK
<1>7. NoStaleObject'
  BY <1>2 DEF Inv, NoStaleObject
<1>8. OnlyOurs'
  BY <1>2 DEF Inv, OnlyOurs
<1>9. Found'
  BY <1>2 DEF Inv, Found
<1>10. QED
  BY <1>6, <1>7, <1>8, <1>9 DEF Inv

LEMMA ServerCreatesInv ==
    ASSUME Inv, NEW k \in Kind, NEW id \in Id(k), ServerCreates(k, id)
    PROVE  Inv'
<1> DEFINE m == PoolCreated(map[k], k, id)
           ids == pool[k] \cup {id}
           c == created[k]
<1>1. /\ phase # "down" /\ phase' = phase /\ Change(k, ids, m)
      /\ map[k] \in [Id(k) -> Entry] /\ "theirs" \in Entry
      /\ ids \in SUBSET Id(k) /\ c \in SUBSET ids
  BY DEF ServerCreates, Inv, EntitiesTypeOK, Entry
<1>2. created' = [created EXCEPT ![k] = c]
  BY DEF ServerCreates, Inv, EntitiesTypeOK
<1>3. /\ m \in [Id(k) -> Entry]
      /\ \A i \in Id(k) : m[i] = map[k][i] \/ (i = id /\ m[i] = "theirs")
      /\ \A i \in Id(k) : map[k][i] # "none" => m[i] = map[k][i]
      /\ m[id] # "none"
  BY <1>1, AllocateFacts DEF PoolCreated
<1> HIDE DEF m
<1>4. \A i \in Id(k) : m[i] # "none" => i \in ids
  BY <1>1, <1>3 DEF Inv, NoStaleObject
<1>5. \A i \in Id(k) : m[i] = "ours" => i \in c
  BY <1>1, <1>3 DEF Inv, OnlyOurs
<1>6. phase = "up" => \A i \in ids : i < MAX[k] => m[i] # "none"
  BY <1>1, <1>3 DEF Inv, Found, EntitiesTypeOK
<1> HIDE DEF ids, c
<1>7. QED
  BY <1>1, <1>2, <1>3, <1>4, <1>5, <1>6, ChangeKeeps

LEMMA DeletesInv ==
    ASSUME Inv, NEW k \in Kind, NEW gone, Deletes(k, gone)
    PROVE  Inv'
<1> DEFINE m == PoolDeleted(map[k], k, gone)
           ids == pool[k] \ gone
           c == created[k] \ gone
<1>1. /\ phase # "down" /\ phase' = phase /\ Change(k, ids, m)
      /\ map[k] \in [Id(k) -> Entry]
      /\ ids \in SUBSET Id(k) /\ c \in SUBSET ids
  BY DEF Deletes, Inv, EntitiesTypeOK
<1>2. created' = [created EXCEPT ![k] = c]
  BY DEF Deletes
<1>3. /\ m \in [Id(k) -> Entry]
      /\ \A i \in Id(k) : m[i] = IF i \in gone THEN "none" ELSE map[k][i]
  BY <1>1, PoolDeletedFacts
<1> HIDE DEF m
<1>4. \A i \in Id(k) : m[i] # "none" => i \in ids
  BY <1>1, <1>3 DEF Inv, NoStaleObject
<1>5. \A i \in Id(k) : m[i] = "ours" => i \in c
  BY <1>1, <1>3 DEF Inv, OnlyOurs
<1>6. phase = "up" => \A i \in ids : i < MAX[k] => m[i] # "none"
  BY <1>1, <1>3 DEF Inv, Found, EntitiesTypeOK
<1> HIDE DEF ids, c
<1>7. QED
  BY <1>1, <1>2, <1>3, <1>4, <1>5, <1>6, ChangeKeeps

LEMMA ScriptCreatesInv ==
    ASSUME Inv, NEW k \in Kind, NEW id \in Id(k), ScriptCreates(k, id)
    PROVE  Inv'
<1>1. PICK first \in NotifyFirst :
        Change(k, pool[k] \cup {id},
               AllocateOurs(IF first THEN PoolCreated(map[k], k, id) ELSE map[k], k, id))
  BY DEF ScriptCreates
<1> DEFINE n == IF first THEN PoolCreated(map[k], k, id) ELSE map[k]
           m == AllocateOurs(n, k, id)
           ids == pool[k] \cup {id}
           c == created[k] \cup {id}
<1>2. /\ phase # "down" /\ phase' = phase /\ Change(k, ids, m)
      /\ map[k] \in [Id(k) -> Entry] /\ "theirs" \in Entry /\ "ours" \in Entry
      /\ ids \in SUBSET Id(k) /\ c \in SUBSET ids
  BY <1>1 DEF ScriptCreates, Inv, EntitiesTypeOK, Entry
<1>3. created' = [created EXCEPT ![k] = c]
  BY DEF ScriptCreates
<1>4. /\ n \in [Id(k) -> Entry]
      /\ \A i \in Id(k) : n[i] = map[k][i] \/ (i = id /\ n[i] = "theirs")
      /\ \A i \in Id(k) : map[k][i] # "none" => n[i] = map[k][i]
  BY <1>2, AllocateFacts DEF PoolCreated
<1> HIDE DEF n
<1>5. /\ m \in [Id(k) -> Entry]
      /\ \A i \in Id(k) : m[i] = n[i] \/ (i = id /\ m[i] = "ours")
      /\ \A i \in Id(k) : n[i] # "none" => m[i] = n[i]
      /\ m[id] # "none"
  BY <1>2, <1>4, AllocateFacts DEF AllocateOurs
<1> HIDE DEF m
<1>6. \A i \in Id(k) : m[i] # "none" => i \in ids
  BY <1>2, <1>4, <1>5 DEF Inv, NoStaleObject
<1>7. \A i \in Id(k) : m[i] = "ours" => i \in c
  BY <1>2, <1>4, <1>5 DEF Inv, OnlyOurs
<1>8. phase = "up" => \A i \in ids : i < MAX[k] => m[i] # "none"
  BY <1>2, <1>4, <1>5 DEF Inv, Found, EntitiesTypeOK
<1> HIDE DEF ids, c
<1>9. QED
  BY <1>2, <1>3, <1>5, <1>6, <1>7, <1>8, ChangeKeeps

\* ScanForEntities on a map that stands for the pool: every id below MAX is
\* found, nothing that is not in the pool is.
LEMMA ScanFacts ==
    ASSUME NEW k \in Kind, NEW m \in [Id(k) -> Entry], NEW ids \in SUBSET Id(k),
           \A i \in Id(k) : m[i] # "none" => i \in ids
    PROVE  LET s == Scan(m, k, ids)
           IN  /\ s \in [Id(k) -> Entry]
               /\ \A i \in Id(k) : s[i] # "none" => i \in ids
               /\ \A i \in Id(k) : s[i] = "ours" => m[i] = "ours"
               /\ \A i \in ids : i < MAX[k] => s[i] # "none"
<1> DEFINE s == Scan(m, k, ids)
<1>1. "theirs" \in Entry
  BY DEF Entry
<1>2. /\ s \in [Id(k) -> Entry]
      /\ \A i \in Id(k) :
           /\ s[i] = m[i] \/ (i \in ids \cap Looped(k) /\ m[i] = "none" /\ s[i] = "theirs")
           /\ i \in ids \cap Looped(k) => s[i] # "none"
  BY <1>1, AllocateFacts DEF Scan
<1> HIDE DEF s
<1>3. \A i \in ids : i < MAX[k] => i \in ids \cap Looped(k)
  BY Ranges
<1>4. QED
  BY <1>2, <1>3 DEF s

LEMMA FirstFrameInv ==
    ASSUME Inv, FirstFrame
    PROVE  Inv'
<1>1. /\ phase = "boot" /\ phase' = "up" /\ pool' = pool /\ created' = created
      /\ map' = [k \in Kind |-> Scan(map[k], k, pool[k])]
  BY DEF FirstFrame
<1>2. \A k \in Kind :
        /\ map'[k] \in [Id(k) -> Entry]
        /\ \A i \in Id(k) : map'[k][i] # "none" => i \in pool'[k]
        /\ \A i \in Id(k) : map'[k][i] = "ours" => i \in created'[k]
        /\ \A i \in pool'[k] : i < MAX[k] => map'[k][i] # "none"
  <2> SUFFICES ASSUME NEW k \in Kind
               PROVE  /\ map'[k] \in [Id(k) -> Entry]
                      /\ \A i \in Id(k) : map'[k][i] # "none" => i \in pool'[k]
                      /\ \A i \in Id(k) : map'[k][i] = "ours" => i \in created'[k]
                      /\ \A i \in pool'[k] : i < MAX[k] => map'[k][i] # "none"
    OBVIOUS
  <2>1. /\ map[k] \in [Id(k) -> Entry] /\ pool[k] \in SUBSET Id(k)
        /\ \A i \in Id(k) : map[k][i] # "none" => i \in pool[k]
        /\ \A i \in Id(k) : map[k][i] = "ours" => i \in created[k]
    BY <1>1 DEF Inv, EntitiesTypeOK, NoStaleObject, OnlyOurs
  <2>2. map'[k] = Scan(map[k], k, pool[k])
    BY <1>1
  <2>3. QED
    BY <1>1, <2>1, <2>2, ScanFacts
<1>3. map' = [k \in Kind |-> map'[k]]
  BY <1>1
<1>4. EntitiesTypeOK'
  BY <1>1, <1>2, <1>3 DEF Inv, EntitiesTypeOK
<1>5. QED
  BY <1>2, <1>4 DEF Inv, NoStaleObject, OnlyOurs, Found

LEMMA ReloadScriptsInv ==
    ASSUME Inv, ReloadScripts
    PROVE  Inv'
<1> DEFINE C(k) == Cleaned(map[k], k)
           D(k) == PoolDeleted(map[k], k, C(k))
<1>1. /\ phase = "up" /\ phase' = "up"
      /\ pool' = [k \in Kind |-> pool[k] \ C(k)]
      /\ created' = [k \in Kind |-> created[k] \ C(k)]
      /\ map' = [k \in Kind |-> Scan(D(k), k, pool'[k])]
  BY DEF ReloadScripts
<1>2. \A k \in Kind :
        /\ pool'[k] \in SUBSET Id(k) /\ created'[k] \subseteq pool'[k]
        /\ map'[k] \in [Id(k) -> Entry]
        /\ \A i \in Id(k) : map'[k][i] # "none" => i \in pool'[k]
        /\ \A i \in Id(k) : map'[k][i] = "ours" => i \in created'[k]
        /\ \A i \in pool'[k] : i < MAX[k] => map'[k][i] # "none"
  <2> SUFFICES ASSUME NEW k \in Kind
               PROVE  /\ pool'[k] \in SUBSET Id(k) /\ created'[k] \subseteq pool'[k]
                      /\ map'[k] \in [Id(k) -> Entry]
                      /\ \A i \in Id(k) : map'[k][i] # "none" => i \in pool'[k]
                      /\ \A i \in Id(k) : map'[k][i] = "ours" => i \in created'[k]
                      /\ \A i \in pool'[k] : i < MAX[k] => map'[k][i] # "none"
    OBVIOUS
  <2>1. /\ map[k] \in [Id(k) -> Entry] /\ pool[k] \in SUBSET Id(k)
        /\ created[k] \subseteq pool[k]
        /\ \A i \in Id(k) : map[k][i] # "none" => i \in pool[k]
        /\ \A i \in Id(k) : map[k][i] = "ours" => i \in created[k]
    BY <1>1 DEF Inv, EntitiesTypeOK, NoStaleObject, OnlyOurs
  <2>2. /\ D(k) \in [Id(k) -> Entry]
        /\ \A i \in Id(k) : D(k)[i] = IF i \in C(k) THEN "none" ELSE map[k][i]
    BY <2>1, PoolDeletedFacts
  <2>3. /\ pool'[k] = pool[k] \ C(k) /\ created'[k] = created[k] \ C(k)
        /\ map'[k] = Scan(D(k), k, pool'[k])
    BY <1>1
  <2> HIDE DEF D, C
  <2>4. pool'[k] \in SUBSET Id(k) /\ created'[k] \subseteq pool'[k]
    BY <2>1, <2>3
  <2>5. \A i \in Id(k) : D(k)[i] # "none" => i \in pool'[k]
    BY <2>1, <2>2, <2>3
  <2>6. \A i \in Id(k) : D(k)[i] = "ours" => i \in created'[k]
    BY <2>1, <2>2, <2>3
  <2>7. QED
    BY <2>2, <2>3, <2>4, <2>5, <2>6, ScanFacts
<1>3. map' = [k \in Kind |-> map'[k]] /\ pool' = [k \in Kind |-> pool'[k]]
      /\ created' = [k \in Kind |-> created'[k]]
  BY <1>1
<1> HIDE DEF D, C
<1>4. \A k \in Kind : pool'[k] \in SUBSET Nat /\ created'[k] \in SUBSET Nat
  BY <1>2, Ranges
<1>5. pool' \in [Kind -> SUBSET Nat] /\ created' \in [Kind -> SUBSET Nat]
  BY <1>3, <1>4
<1>6. EntitiesTypeOK'
  BY <1>1, <1>2, <1>3, <1>5 DEF EntitiesTypeOK
<1>7. QED
  BY <1>2, <1>6 DEF Inv, NoStaleObject, OnlyOurs, Found

LEMMA DestroyInv ==
    ASSUME Inv, Destroy
    PROVE  Inv'
<1>1. /\ phase' = "down" /\ pool' = pool /\ created' = created
      /\ map' = [k \in Kind |->
                   [id \in Id(k) |-> IF id \in Looped(k) THEN "none" ELSE map[k][id]]]
  BY DEF Destroy
<1>2. \A k \in Kind : map'[k] \in [Id(k) -> Entry]
  BY <1>1 DEF Inv, EntitiesTypeOK, Entry
<1>3. map' = [k \in Kind |-> map'[k]]
  BY <1>1
<1>4. EntitiesTypeOK'
  BY <1>1, <1>2, <1>3 DEF Inv, EntitiesTypeOK
<1>5. QED
  BY <1>1, <1>4 DEF Inv, NoStaleObject, OnlyOurs, Found

LEMMA Invariance == EntitiesSpec => []Inv
<1>1. Inv /\ [EntitiesNext]_entityVars => Inv'
  <2> SUFFICES ASSUME Inv, [EntitiesNext]_entityVars PROVE Inv'
    OBVIOUS
  <2>1. CASE \E k \in Kind : \E id \in Id(k) : ServerCreates(k, id)
    BY <2>1, ServerCreatesInv
  <2>2. CASE \E k \in Kind : \E id \in Id(k) : EntityDeleted(k, id)
    BY <2>2, DeletesInv DEF EntityDeleted
  <2>3. CASE \E k \in Kind : \E id \in Id(k) : ScriptCreates(k, id)
    BY <2>3, ScriptCreatesInv
  <2>4. CASE FirstFrame
    BY <2>4, FirstFrameInv
  <2>5. CASE ReloadScripts
    BY <2>5, ReloadScriptsInv
  <2>6. CASE Destroy
    BY <2>6, DestroyInv
  <2>7. CASE Unloaded \/ UNCHANGED entityVars
    BY <2>7 DEF Unloaded, entityVars, Inv, EntitiesTypeOK, NoStaleObject, OnlyOurs, Found
  <2>8. QED
    BY <2>1, <2>2, <2>3, <2>4, <2>5, <2>6, <2>7 DEF EntitiesNext
<1>2. QED
  BY InitInv, <1>1, PTL DEF EntitiesSpec

\* The maps and the pools keep their types, and what a script created and still
\* exists is in a pool.
THEOREM EntitiesTyped == EntitiesSpec => []EntitiesTypeOK
BY Invariance, PTL DEF Inv

\* However many entities there are of a kind, and whichever ids the server
\* reuses, a map never holds the object of an entity that is gone.
THEOREM NoStaleObjectCorrect == EntitiesSpec => []NoStaleObject
BY Invariance, PTL DEF Inv

\* Once a script is loaded, a map holds every entity but the vehicle with the
\* last id.
THEOREM FoundCorrect == EntitiesSpec => []Found
BY Invariance, PTL DEF Inv

\* CleanWorld deletes only what a script created.
THEOREM OnlyOursCorrect == EntitiesSpec => []OnlyOurs
BY Invariance, PTL DEF Inv

-------------------------------------------------------------------------------
(* A server that announces nothing before the function that creates it     *)
(* returns: what a script creates is ours until it is deleted, so CleanWorld *)
(* finds it.                                                               *)
Kept ==
    phase # "down" => \A k \in Kind : \A id \in created[k] : map[k][id] = "ours"

LEMMA ScanKeeps ==
    ASSUME NEW k \in Kind, NEW m \in [Id(k) -> Entry], NEW ids
    PROVE  \A i \in Id(k) : m[i] = "ours" => Scan(m, k, ids)[i] = "ours"
<1>1. "theirs" \in Entry
  BY DEF Entry
<1>2. QED
  BY <1>1, AllocateFacts DEF Scan

LEMMA ChangeKeepsOurs ==
    ASSUME Inv, Kept, phase # "down", phase' = phase,
           NEW k \in Kind, NEW ids, NEW m, NEW c,
           Change(k, ids, m), created' = [created EXCEPT ![k] = c],
           \A id \in c : m[id] = "ours"
    PROVE  Kept'
<1>1. map' = [map EXCEPT ![k] = m] /\ map = [j \in Kind |-> map[j]]
      /\ created \in [Kind -> SUBSET Nat]
  BY DEF Change, Inv, EntitiesTypeOK
<1>2. /\ map'[k] = m /\ created'[k] = c
      /\ \A j \in Kind : j # k => map'[j] = map[j] /\ created'[j] = created[j]
  BY <1>1
<1>3. QED
  BY <1>2 DEF Kept

LEMMA KeptStep ==
    ASSUME NotifyFirst \subseteq {FALSE}, Inv, Kept, [EntitiesNext]_entityVars
    PROVE  Kept'
<1>1. ASSUME NEW k \in Kind, NEW id \in Id(k), ServerCreates(k, id)
      PROVE  Kept'
  <2> DEFINE m == PoolCreated(map[k], k, id)
             ids == pool[k] \cup {id}
             c == created[k]
  <2>1. /\ phase # "down" /\ phase' = phase /\ Change(k, ids, m)
        /\ map[k] \in [Id(k) -> Entry] /\ "theirs" \in Entry /\ c \subseteq Id(k)
    BY <1>1 DEF ServerCreates, Inv, EntitiesTypeOK, Entry
  <2>2. created' = [created EXCEPT ![k] = c]
    BY <1>1 DEF ServerCreates, Inv, EntitiesTypeOK
  <2>3. \A i \in Id(k) : map[k][i] # "none" => m[i] = map[k][i]
    BY <2>1, AllocateFacts DEF PoolCreated
  <2> HIDE DEF m
  <2>4. \A i \in c : m[i] = "ours"
    BY <2>1, <2>3 DEF Kept
  <2> HIDE DEF ids, c
  <2>5. QED
    BY <2>1, <2>2, <2>4, ChangeKeepsOurs
<1>2. ASSUME NEW k \in Kind, NEW gone, Deletes(k, gone)
      PROVE  Kept'
  <2> DEFINE m == PoolDeleted(map[k], k, gone)
             ids == pool[k] \ gone
             c == created[k] \ gone
  <2>1. /\ phase # "down" /\ phase' = phase /\ Change(k, ids, m)
        /\ map[k] \in [Id(k) -> Entry] /\ c \subseteq Id(k)
        /\ created' = [created EXCEPT ![k] = c]
    BY <1>2 DEF Deletes, Inv, EntitiesTypeOK
  <2>2. \A i \in Id(k) : m[i] = IF i \in gone THEN "none" ELSE map[k][i]
    BY <2>1, PoolDeletedFacts
  <2> HIDE DEF m
  <2>3. \A i \in c : m[i] = "ours"
    BY <2>1, <2>2 DEF Kept
  <2> HIDE DEF ids, c
  <2>4. QED
    BY <2>1, <2>3, ChangeKeepsOurs
<1>3. ASSUME NEW k \in Kind, NEW id \in Id(k), ScriptCreates(k, id)
      PROVE  Kept'
  <2> DEFINE m == AllocateOurs(map[k], k, id)
             ids == pool[k] \cup {id}
             c == created[k] \cup {id}
  <2>1. /\ phase # "down" /\ phase' = phase /\ Change(k, ids, m)
        /\ map[k] \in [Id(k) -> Entry] /\ "ours" \in Entry /\ created[k] \subseteq Id(k)
        /\ created' = [created EXCEPT ![k] = c] /\ id \notin pool[k]
    BY <1>3 DEF ScriptCreates, Inv, EntitiesTypeOK, Entry
  <2>2. /\ \A i \in Id(k) : map[k][i] # "none" => m[i] = map[k][i]
        /\ m[id] = map[k][id] \/ m[id] = "ours"
        /\ m[id] # "none"
    BY <2>1, AllocateFacts DEF AllocateOurs
  <2> HIDE DEF m
  <2>3. map[k][id] = "none"
    BY <2>1 DEF Inv, NoStaleObject
  <2>4. \A i \in c : m[i] = "ours"
    BY <2>1, <2>2, <2>3 DEF Kept
  <2> HIDE DEF ids, c
  <2>5. QED
    BY <2>1, <2>4, ChangeKeepsOurs
<1>4. ASSUME FirstFrame
      PROVE  Kept'
  <2>1. \A k \in Kind : /\ map[k] \in [Id(k) -> Entry] /\ created'[k] = created[k]
                        /\ created[k] \subseteq Id(k)
                        /\ map'[k] = Scan(map[k], k, pool[k])
                        /\ \A id \in created[k] : map[k][id] = "ours"
    BY <1>4 DEF FirstFrame, Inv, EntitiesTypeOK, Kept
  <2>2. \A k \in Kind : \A id \in created'[k] : map'[k][id] = "ours"
    BY <2>1, ScanKeeps
  <2>3. QED
    BY <2>2 DEF Kept
<1>5. ASSUME ReloadScripts
      PROVE  Kept'
  <2> SUFFICES ASSUME NEW k \in Kind, NEW id \in created'[k]
               PROVE  map'[k][id] = "ours"
    BY DEF Kept
  <2> DEFINE C == Cleaned(map[k], k)
             D == PoolDeleted(map[k], k, C)
  <2>1. /\ map[k] \in [Id(k) -> Entry] /\ created[k] \subseteq Id(k)
        /\ \A i \in created[k] : map[k][i] = "ours"
        /\ created'[k] = created[k] \ C
        /\ map'[k] = Scan(D, k, pool'[k])
    BY <1>5 DEF ReloadScripts, Inv, EntitiesTypeOK, Kept
  <2>2. /\ D \in [Id(k) -> Entry]
        /\ \A i \in Id(k) : D[i] = IF i \in C THEN "none" ELSE map[k][i]
    BY <2>1, PoolDeletedFacts
  <2> HIDE DEF C, D
  <2>3. id \in Id(k) /\ D[id] = "ours"
    BY <2>1, <2>2
  <2>4. QED
    BY <2>1, <2>2, <2>3, ScanKeeps
<1>6. CASE Destroy
  BY <1>6 DEF Destroy, Kept
<1>7. CASE Unloaded \/ UNCHANGED entityVars
  BY <1>7 DEF Unloaded, entityVars, Kept
<1>8. QED
  BY <1>1, <1>2, <1>3, <1>4, <1>5, <1>6, <1>7 DEF EntitiesNext, EntityDeleted

\* CleanWorld leaves nothing of what the old scripts created but the vehicle
\* with the last id.
THEOREM WorldCleanedCorrect ==
    ASSUME NotifyFirst \subseteq {FALSE}
    PROVE  EntitiesSpec => WorldCleaned
<1>1. EntitiesInit => Kept
  BY DEF EntitiesInit, Kept
<1>2. Inv /\ Kept /\ [EntitiesNext]_entityVars => Kept'
  BY KeptStep
<1>3. Inv /\ Kept /\ [EntitiesNext]_entityVars =>
        [ReloadScripts => \A k \in Kind : \A id \in created'[k] : id = MAX[k]]_entityVars
  <2> SUFFICES ASSUME Inv, Kept, ReloadScripts, NEW k \in Kind, NEW id \in created'[k]
               PROVE  id = MAX[k]
    OBVIOUS
  <2>1. /\ created[k] \subseteq Id(k) /\ id \in created[k] /\ id \notin Cleaned(map[k], k)
        /\ map[k][id] = "ours"
    BY DEF ReloadScripts, Inv, EntitiesTypeOK, Kept
  <2>2. id \notin Looped(k) /\ id \in Id(k)
    BY <2>1 DEF Cleaned
  <2>3. QED
    BY <2>2, MaxAssumption DEF Id, Looped
<1>4. QED
  BY <1>1, <1>2, <1>3, Invariance, PTL DEF EntitiesSpec, WorldCleaned

==============================================================================
