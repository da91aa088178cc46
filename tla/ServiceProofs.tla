--------------------------- MODULE ServiceProofs ---------------------------
(***************************************************************************)
(* What the parts that serve clients keep, for every value of their        *)
(* constants: the collection manager (Collections), the client library     *)
(* and the server it talks to (ClientSdk), change data capture             *)
(* (ChangeStream), and the interfaces of other products (QdrantApi,        *)
(* CompatApis). Each part has an inductive invariant, a lemma for every    *)
(* action, and a theorem for the property its run checks.                  *)
(***************************************************************************)
EXTENDS Collections, ClientSdk, ChangeStream, CompatApis, FiniteSetTheorems,
        SequenceTheorems, WellFoundedInduction, TLAPS

-----------------------------------------------------------------------------
(* The collection manager                                                   *)

Objects == [name : CNames, gen : Nat, stored : [CIds -> 0..CMaxCalls], tombs : SUBSET CIds,
            index : [CIds -> 0..CMaxCalls], next_id : Nat, unbuilt : SUBSET CIds,
            mixed : SUBSET CIds, overlapped : BOOLEAN]
Dirs == [there : BOOLEAN, config : BOOLEAN, gen : Nat, data : [CIds -> 0..CMaxCalls],
         dead : SUBSET CIds, spoilt : BOOLEAN]

\* What a task may be doing.
Creating == [kind : {"create"}, name : CNames, at : {"dir", "open", "insert"}, object : Nat]
Dropping == [kind : {"drop"}, name : CNames]
Writing == [kind : {"upsert", "delete"}, name : CNames, object : Nat,
            ids : Seq(CIds) \ {<<>>}, at : {"storage", "index", "load", "store"},
            vector : 0..CMaxCalls, seen : Nat]
Jobs == {NoJob} \cup Creating \cup Dropping \cup Writing

CollectionsTyped ==
    /\ dirs \in [CNames -> Dirs] /\ cmap \in [CNames -> Nat] /\ objects \in Seq(Objects)
    /\ calls \in Nat /\ calls <= CMaxCalls /\ job \in [CTasks -> Jobs]
    /\ cacked \in SUBSET CNames /\ crossed \in SUBSET CNames /\ wild \in SUBSET CNames
    /\ unopened \in SUBSET CNames

\* The entry of a name is an object of that name, and so is what a job has.
EntriesRefer ==
    \A n \in CNames : cmap[n] # 0 =>
        cmap[n] \in 1..Len(objects) /\ objects[cmap[n]].name = n

JobRefers(j) ==
    /\ j.kind \in {"upsert", "delete"} =>
         /\ j.object \in 1..Len(objects)
         /\ j.at \in {"load", "store"} => j.kind = "upsert"
    /\ j.kind = "create" /\ j.at = "insert" =>
         j.object \in 1..Len(objects) /\ objects[j.object].name = j.name

ConfigsThere == \A n \in CNames : dirs[n].config => dirs[n].there

CollectionsBase ==
    CollectionsTyped /\ EntriesRefer /\ ConfigsThere /\ \A t \in CTasks : JobRefers(job[t])

\* Task t is at that point of writing id to the object k.
At(t, at, k, id) ==
    /\ job[t].kind \in {"upsert", "delete"} /\ job[t].at = at
    /\ job[t].object = k /\ Head(job[t].ids) = id

\* Index and storage of an id differ only until the index was written too.
Mirrored(k) ==
    \A i \in CIds \ objects[k].mixed :
        /\ i \notin objects[k].unbuilt =>
              \/ objects[k].index[i] = objects[k].stored[i]
              \/ \E t \in CTasks : At(t, "index", k, i)
        /\ \A t \in CTasks : At(t, "index", k, i) => objects[k].stored[i] = Written(job[t])

\* An upsert of id is between its write to the storage and the end of
\* its turn at the counter.
PendingBy(t, k, id) ==
    job[t].kind = "upsert" /\ (At(t, "index", k, id) \/ At(t, "load", k, id) \/ At(t, "store", k, id))

Pending(k, id) == \E t \in CTasks : PendingBy(t, k, id)

\* Every id that is stored and built is below the bound or pending.
Below(k, bound) ==
    \A i \in IdsOf(objects[k].stored) \ objects[k].unbuilt : i < bound \/ Pending(k, i)

\* The counter is above every id, and so is what a task read of it: the store
\* that follows does not lose another one, unless two were about to store.
Built(k) ==
    \A t \in CTasks, i \in CIds :
        /\ At(t, "load", k, i) \/ At(t, "store", k, i) => i \notin objects[k].unbuilt
        /\ At(t, "index", k, i) /\ job[t].kind = "delete" =>
              objects[k].stored[i] = 0 \/ i \notin objects[k].unbuilt \/ Pending(k, i)

Counted(k) ==
    /\ Below(k, objects[k].next_id)
    /\ \A t \in CTasks, i \in CIds : At(t, "store", k, i) =>
          job[t].seen <= objects[k].next_id /\ Below(k, job[t].seen)

Manages(t, n) == job[t].kind \in {"create", "drop"} /\ job[t].name = n

\* A name whose calls did not cross has one call at a time that makes it or
\* drops it, and map and directory agree with how far it came.
Uncrossed(n) ==
    /\ \A t, u \in CTasks : Manages(t, n) /\ Manages(u, n) => t = u
    /\ n \in cacked => dirs[n].there
    /\ n \in cacked \ unopened => /\ ~Managing(n) /\ cmap[n] # 0 /\ dirs[n].config
                                  /\ objects[cmap[n]].gen = dirs[n].gen
    /\ n \notin cacked => cmap[n] = 0 /\ (~Managing(n) => ~dirs[n].config)
    /\ \A t \in CTasks : Manages(t, n) /\ job[t].kind = "create" =>
         /\ job[t].at = "dir" /\ n \notin cacked => ~dirs[n].config
         /\ job[t].at # "dir" => dirs[n].config
         /\ job[t].at = "insert" => objects[job[t].object].gen = dirs[n].gen
    /\ \A t \in CTasks : Manages(t, n) /\ job[t].kind = "drop" => n \notin cacked

Sound(k) == Mirrored(k) /\ Built(k) /\ (~objects[k].overlapped => Counted(k))

CollectionsInv ==
    /\ CollectionsBase
    /\ \A k \in 1..Len(objects) : Sound(k)
    /\ \A n \in CNames \ crossed : Uncrossed(n)

LEMMA LeastOf ==
    ASSUME NEW S \in SUBSET Nat, S # {}
    PROVE  \E x \in S : \A y \in S : x <= y
<1>1. PICK x \in S : \A y \in S : <<y, x>> \notin OpToRel(<, Nat)
  BY NatLessThanWellFounded, WFMin, Zenon
<1>2. ASSUME NEW y \in S PROVE x <= y
  <2>1. <<y, x>> \notin {q \in Nat \X Nat : q[1] < q[2]}
    BY <1>1, Zenon DEF OpToRel
  <2>. QED  BY <2>1
<1>. QED  BY <1>2

\* A finite set of numbers has a bound.
LEMMA Bounded ==
    ASSUME NEW S \in SUBSET Nat, IsFiniteSet(S)
    PROVE  \E b \in Nat : \A x \in S : x <= b
<1>1. PICK n \in Nat : ExistsBijection(1..n, S)
  BY FS_NatBijection
<1>2. PICK f \in [1..n -> S] : \A x \in S : \E i \in 1..n : f[i] = x
  BY <1>1 DEF ExistsBijection, Bijection, Surjection
<1>. DEFINE Bound(k, b) == b \in Nat /\ \A i \in 1..k : f[i] <= b
            Bad == {k \in 0..n : ~ \E b : Bound(k, b)}
<1>3. Bad = {}
  <2>. SUFFICES ASSUME Bad # {} PROVE FALSE
    OBVIOUS
  <2>1. Bad \in SUBSET Nat
    OBVIOUS
  <2>2. PICK k \in Bad : \A j \in Bad : k <= j
    BY <2>1, LeastOf
  <2>3. k # 0
    <3>1. Bound(0, 0)
      OBVIOUS
    <3>. QED  BY <3>1
  <2>4. k - 1 \in 0..n /\ ~(k <= k - 1) /\ k \in 1..n
    BY <2>3
  <2>5. PICK b : Bound(k - 1, b)
    BY <2>2, <2>4
  <2>6. f[k] \in Nat
    BY <2>4
  <2>. DEFINE c == IF f[k] > b THEN f[k] ELSE b
  <2>7. Bound(k, c)
    <3>1. c \in Nat /\ c >= b /\ c >= f[k]
      BY <2>5, <2>6
    <3>2. \A i \in 1..k : i = k \/ i \in 1..(k - 1)
      BY <2>4
    <3>3. \A i \in 1..n : f[i] \in Nat
      OBVIOUS
    <3>4. \A i \in 1..k : i \in 1..n
      BY <2>4
    <3>. HIDE DEF c
    <3>5. ASSUME NEW i \in 1..k PROVE f[i] <= c
      <4>1. CASE i = k
        BY <3>1, <4>1
      <4>2. CASE i \in 1..(k - 1)
        <5>1. f[i] <= b /\ b \in Nat /\ f[i] \in Nat
          BY <2>5, <3>3, <3>4, <4>2
        <5>. QED  BY <3>1, <5>1
      <4>. QED  BY <3>2, <4>1, <4>2
    <3>. QED  BY <3>1, <3>5
  <2>8. \E d : Bound(k, d)
    BY <2>7
  <2>. HIDE DEF Bound
  <2>. QED  BY <2>2, <2>8
<1>4. \E b : Bound(n, b)
  <2>1. n \in 0..n
    OBVIOUS
  <2>. HIDE DEF Bound
  <2>. QED  BY <1>3, <2>1
<1>. QED  BY <1>2, <1>4

\* The largest number of a finite set.
LEMMA MaxOf ==
    ASSUME NEW S \in SUBSET Nat, IsFiniteSet(S), S # {}
    PROVE  Max(S) \in S /\ \A y \in S : y <= Max(S)
<1>1. PICK b \in Nat : \A x \in S : x <= b
  BY Bounded
<1>. DEFINE R == {b - x : x \in S}
<1>2. R \in SUBSET Nat /\ R # {}
  <2>1. \A x \in S : x \in Nat /\ b - x \in Nat
    BY <1>1
  <2>2. \A r \in R : r \in Nat
    BY <2>1
  <2>3. PICK x : x \in S
    OBVIOUS
  <2>4. b - x \in R
    BY <2>3
  <2>. QED  BY <2>2, <2>4
<1>3. PICK r \in R : \A y \in R : r <= y
  BY <1>2, LeastOf
<1>4. PICK x \in S : r = b - x
  BY <1>3
<1>5. \A y \in S : x >= y
  <2>1. ASSUME NEW y \in S PROVE x >= y
    <3>1. b - y \in R
      OBVIOUS
    <3>2. b - x <= b - y
      BY <1>3, <1>4, <3>1
    <3>. QED  BY <3>2
  <2>. QED  BY <2>1
<1>6. \E z \in S : \A y \in S : z >= y
  BY <1>5
<1>7. Max(S) \in S /\ \A y \in S : Max(S) >= y
  BY <1>6 DEF Max
<1>. QED  BY <1>7

\* SetToSeq lists a finite set, every member once.
LEMMA Listed ==
    ASSUME NEW S, IsFiniteSet(S)
    PROVE  /\ SetToSeq(S) \in Seq(S)
           /\ \A x \in S : \E i \in 1..Len(SetToSeq(S)) : SetToSeq(S)[i] = x
<1>. DEFINE n == Cardinality(S)
<1>1. n \in Nat /\ ExistsBijection(1..n, S)
  BY FS_CardinalityType
<1>2. \E f \in [1..n -> S] : IsInjective(f)
  BY <1>1 DEF ExistsBijection, Bijection, Injection
<1>3. SetToSeq(S) \in [1..n -> S] /\ IsInjective(SetToSeq(S))
  BY <1>2 DEF SetToSeq
<1>. DEFINE s == SetToSeq(S)
<1>. HIDE DEF s
<1>4. s \in Injection(1..n, S) /\ s \in [1..n -> S]
  BY <1>3 DEF s, Injection
<1>5. Cardinality(1..n) = n /\ IsFiniteSet(1..n)
  BY <1>1, FS_Interval
<1>6. s \in Surjection(1..n, S)
  BY <1>4, <1>5, FS_Injection
<1>7. \A x \in S : \E i \in 1..n : s[i] = x
  BY <1>6 DEF Surjection
<1>8. s \in Seq(S) /\ Len(s) = n
  BY <1>1, <1>4
<1>. QED  BY <1>7, <1>8 DEF s

\* The place of a name in a list.
LEMMA Selected ==
    ASSUME NEW S, NEW s \in Seq(S), NEW n
    PROVE  LET k == PlaceOf(n, s) IN
           /\ k \in Nat
           /\ k # 0 => k \in 1..Len(s) /\ s[k] = n
           /\ k = 0 => \A i \in 1..Len(s) : s[i] # n
<1>. DEFINE I == {i \in 1..Len(s) : s[i] = n}
<1>1. PlaceOf(n, s) = IF I # {} THEN Min(I) ELSE 0
  BY DEF PlaceOf, SelectInSeq
<1>2. CASE I = {}
  BY <1>1, <1>2
<1>3. CASE I # {}
  <2>1. I \in SUBSET Nat
    OBVIOUS
  <2>2. \E x \in I : \A y \in I : x <= y
    BY <1>3, <2>1, LeastOf
  <2>3. Min(I) \in I
    BY <2>2 DEF Min
  <2>. HIDE DEF I
  <2>4. PlaceOf(n, s) \in I
    BY <1>1, <1>3, <2>3
  <2>. QED  BY <2>4 DEF I
<1>. QED  BY <1>2, <1>3

-----------------------------------------------------------------------------
(* Frames: what a step has to leave alone                                  *)

\* What a name whose calls did not cross is told by.
SameName(n) ==
    /\ \A t \in CTasks : Manages(t, n) \/ Manages(t, n)' => job'[t] = job[t]
    /\ dirs'[n].config = dirs[n].config /\ dirs'[n].gen = dirs[n].gen
    /\ dirs'[n].there = dirs[n].there
    /\ cmap'[n] = cmap[n] /\ (n \in cacked' <=> n \in cacked)
    /\ (n \in unopened' <=> n \in unopened)
    /\ \A k \in 1..Len(objects) : objects'[k].gen = objects[k].gen

\* The jobs that are past the storage, on one object.
SameWriters(k) ==
    \A t \in CTasks : \A i \in CIds : \A at \in {"index", "load", "store"} :
        /\ At(t, at, k, i)' <=> At(t, at, k, i)
        /\ At(t, at, k, i) => /\ job'[t].kind = job[t].kind /\ job'[t].vector = job[t].vector
                              /\ job'[t].seen = job[t].seen

LEMMA JobKinds ==
    ASSUME NEW j \in Jobs
    PROVE  /\ j.kind = "create" => j \in Creating
           /\ j.kind = "drop" => j \in Dropping
           /\ j.kind \in {"upsert", "delete"} => j \in Writing
           /\ j.kind = "none" => j = NoJob
           /\ j.kind \in {"none", "create", "drop", "upsert", "delete"}
BY DEF Jobs, NoJob, Creating, Dropping, Writing

LEMMA NoJobIs == NoJob \in Jobs /\ NoJob.kind = "none"
BY DEF Jobs, NoJob

LEMMA CreatingFields ==
    ASSUME NEW j \in Creating
    PROVE  /\ j \in Jobs /\ j.kind = "create" /\ j.name \in CNames
           /\ j.at \in {"dir", "open", "insert"} /\ j.object \in Nat
BY DEF Creating, Jobs

LEMMA WritingFields ==
    ASSUME NEW j \in Writing
    PROVE  /\ j \in Jobs /\ j.kind \in {"upsert", "delete"} /\ j.name \in CNames
           /\ j.object \in Nat /\ j.ids \in Seq(CIds) /\ j.ids # <<>> /\ Head(j.ids) \in CIds
           /\ j.at \in {"storage", "index", "load", "store"}
           /\ j.vector \in 0..CMaxCalls /\ j.seen \in Nat
<1>1. j \in Jobs
  BY DEF Jobs
<1>2. /\ j.kind \in {"upsert", "delete"} /\ j.name \in CNames
      /\ j.object \in Nat /\ j.ids \in Seq(CIds) /\ j.ids # <<>>
      /\ j.at \in {"storage", "index", "load", "store"}
      /\ j.vector \in 0..CMaxCalls /\ j.seen \in Nat
  BY DEF Writing
<1>3. \A x \in Seq(CIds) : x # <<>> => Head(x) \in CIds
  OBVIOUS
<1>. QED  BY <1>1, <1>2, <1>3

LEMMA ObjectFields ==
    ASSUME NEW o \in Objects
    PROVE  /\ o.name \in CNames /\ o.gen \in Nat /\ o.next_id \in Nat
           /\ o.stored \in [CIds -> 0..CMaxCalls] /\ o.index \in [CIds -> 0..CMaxCalls]
           /\ o.tombs \in SUBSET CIds
           /\ o.unbuilt \in SUBSET CIds /\ o.mixed \in SUBSET CIds /\ o.overlapped \in BOOLEAN
BY DEF Objects

LEMMA UncrossedKept ==
    ASSUME CollectionsBase, NEW n \in CNames, Uncrossed(n), SameName(n)
    PROVE  Uncrossed(n)'
<1>2. \A t \in CTasks : /\ Manages(t, n)' <=> Manages(t, n)
                        /\ Manages(t, n) => job'[t] = job[t]
  BY DEF Manages, SameName
<1>3. Managing(n)' <=> Managing(n)
  BY <1>2 DEF Managing, Manages
<1>4. cmap[n] # 0 => cmap[n] \in 1..Len(objects)
  BY DEF CollectionsBase, EntriesRefer
<1>5. /\ dirs'[n].config = dirs[n].config /\ dirs'[n].gen = dirs[n].gen
      /\ dirs'[n].there = dirs[n].there /\ (n \in unopened' <=> n \in unopened)
      /\ cmap'[n] = cmap[n] /\ (n \in cacked' <=> n \in cacked)
      /\ \A k \in 1..Len(objects) : objects'[k].gen = objects[k].gen
  BY DEF SameName
<1>6. \A t \in CTasks : Manages(t, n) /\ job[t].kind = "create" /\ job[t].at = "insert" =>
          objects'[job[t].object].gen = objects[job[t].object].gen
  BY <1>5 DEF CollectionsBase, JobRefers
<1>7. cmap[n] # 0 => objects'[cmap[n]].gen = objects[cmap[n]].gen
  BY <1>4, <1>5
<1>8. /\ \A t, u \in CTasks : Manages(t, n)' /\ Manages(u, n)' => t = u
      /\ n \in cacked' => dirs'[n].there
      /\ n \in cacked' \ unopened' => /\ ~Managing(n)' /\ cmap'[n] # 0 /\ dirs'[n].config
                                      /\ objects'[cmap'[n]].gen = dirs'[n].gen
      /\ n \notin cacked' => cmap'[n] = 0 /\ (~Managing(n)' => ~dirs'[n].config)
  BY <1>2, <1>3, <1>5, <1>7 DEF Uncrossed
<1>9. ASSUME NEW t \in CTasks, Manages(t, n)', job'[t].kind = "create"
      PROVE  /\ job'[t].at = "dir" /\ n \notin cacked' => ~dirs'[n].config
             /\ job'[t].at # "dir" => dirs'[n].config
             /\ job'[t].at = "insert" => objects'[job'[t].object].gen = dirs'[n].gen
  BY <1>2, <1>5, <1>6, <1>9 DEF Uncrossed
<1>10. \A t \in CTasks : Manages(t, n)' /\ job'[t].kind = "drop" => n \notin cacked'
  BY <1>2, <1>5 DEF Uncrossed
<1>. QED  BY <1>8, <1>9, <1>10 DEF Uncrossed

\* What a step leaves of an object that it does not touch.
LEMMA SoundKept ==
    ASSUME CollectionsBase, NEW k, Sound(k), SameWriters(k),
           objects'[k].stored = objects[k].stored, objects'[k].index = objects[k].index,
           objects'[k].next_id = objects[k].next_id, objects'[k].unbuilt = objects[k].unbuilt,
           objects'[k].mixed = objects[k].mixed, objects'[k].overlapped = objects[k].overlapped
    PROVE  Sound(k)'
<1>1. \A t \in CTasks : \A i \in CIds : \A at \in {"index", "load", "store"} :
          /\ At(t, at, k, i)' <=> At(t, at, k, i)
          /\ At(t, at, k, i) => /\ job'[t].kind = job[t].kind /\ job'[t].vector = job[t].vector
                                /\ job'[t].seen = job[t].seen
  BY DEF SameWriters
<1>2. Mirrored(k)'
  <2>1. ASSUME NEW i \in CIds, i \notin objects'[k].mixed
        PROVE  /\ i \notin objects'[k].unbuilt =>
                     \/ objects'[k].index[i] = objects'[k].stored[i]
                     \/ \E t \in CTasks : At(t, "index", k, i)'
               /\ \A t \in CTasks : At(t, "index", k, i)' =>
                     objects'[k].stored[i] = Written(job'[t])
    BY <1>1, <2>1 DEF Sound, Mirrored, Written
  <2>. QED  BY <2>1 DEF Mirrored
<1>3. \A i \in CIds : Pending(k, i)' <=> Pending(k, i)
  BY <1>1 DEF Pending, PendingBy
<1>4. \A i \in IdsOf(objects[k].stored) : i \in CIds
  BY DEF IdsOf
<1>5. \A b : Below(k, b) => Below(k, b)'
  BY <1>3, <1>4 DEF Below
<1>6. Built(k)'
  <2>1. ASSUME NEW t \in CTasks, NEW i \in CIds
        PROVE  /\ At(t, "load", k, i)' \/ At(t, "store", k, i)' => i \notin objects'[k].unbuilt
               /\ At(t, "index", k, i)' /\ job'[t].kind = "delete" =>
                     objects'[k].stored[i] = 0 \/ i \notin objects'[k].unbuilt \/ Pending(k, i)'
    BY <1>1, <1>3 DEF Sound, Built
  <2>. QED  BY <2>1 DEF Built
<1>7. ASSUME Counted(k) PROVE Counted(k)'
  <2>1. Below(k, objects[k].next_id)'
    BY <1>3, <1>4, <1>7 DEF Counted, Below
  <2>2. ASSUME NEW t \in CTasks, NEW i \in CIds, At(t, "store", k, i)'
        PROVE  job'[t].seen <= objects'[k].next_id /\ Below(k, job[t].seen)'
    <3>1. At(t, "store", k, i) /\ job'[t].seen = job[t].seen
      BY <1>1, <2>2
    <3>2. job[t].seen <= objects[k].next_id /\ Below(k, job[t].seen)
      BY <1>7, <3>1 DEF Counted
    <3>. QED  BY <1>3, <1>4, <3>1, <3>2 DEF Below
  <2>. QED  BY <2>1, <2>2 DEF Counted
<1>. QED  BY <1>2, <1>6, <1>7 DEF Sound

\* A step that leaves the objects alone, and of the jobs only changes that of t,
\* which is not past the storage, before or after.
LEMMA AsideKeeps ==
    ASSUME CollectionsBase, \A k \in 1..Len(objects) : Sound(k), objects' = objects,
           NEW t \in CTasks, NEW j \in Jobs, job' = [job EXCEPT ![t] = j],
           job[t].kind \in {"upsert", "delete"} => job[t].at = "storage",
           j.kind \in {"upsert", "delete"} => j.at = "storage"
    PROVE  \A k \in 1..Len(objects') : Sound(k)'
<1>1. job'[t] = j /\ \A u \in CTasks : u # t => job'[u] = job[u]
  BY DEF CollectionsBase, CollectionsTyped
<1>2. ASSUME NEW k PROVE SameWriters(k)
  <2>1. ASSUME NEW u \in CTasks, NEW i \in CIds, NEW at \in {"index", "load", "store"}
        PROVE  /\ At(u, at, k, i)' <=> At(u, at, k, i)
               /\ At(u, at, k, i) => /\ job'[u].kind = job[u].kind
                                     /\ job'[u].vector = job[u].vector
                                     /\ job'[u].seen = job[u].seen
    <3>1. CASE u = t
      BY <1>1, <2>1, <3>1 DEF At
    <3>2. CASE u # t
      BY <1>1, <3>2 DEF At
    <3>. QED  BY <3>1, <3>2
  <2>. QED  BY <2>1 DEF SameWriters
<1>. QED  BY <1>2, SoundKept

\* The jobs still refer to objects.
LEMMA JobsRefer ==
    ASSUME CollectionsBase, Len(objects) \in Nat, Len(objects') \in Nat,
           Len(objects') >= Len(objects),
           \A k \in 1..Len(objects) : objects'[k].name = objects[k].name,
           NEW t \in CTasks, NEW j \in Jobs, job' = [job EXCEPT ![t] = j], JobRefers(j)'
    PROVE  job' \in [CTasks -> Jobs] /\ \A u \in CTasks : JobRefers(job[u])'
<1>1. /\ job'[t] = j /\ \A u \in CTasks : u # t => job'[u] = job[u]
      /\ job' \in [CTasks -> Jobs]
  BY DEF CollectionsBase, CollectionsTyped
<1>2. ASSUME NEW u \in CTasks, u # t PROVE JobRefers(job[u])'
  <2>1. JobRefers(job[u]) /\ \A k \in 1..Len(objects) : k \in 1..Len(objects')
    BY DEF CollectionsBase
  <2>. QED  BY <1>1, <1>2, <2>1 DEF JobRefers
<1>3. JobRefers(job[t])'
  BY <1>1 DEF JobRefers
<1>. QED  BY <1>1, <1>2, <1>3

LEMMA StartFacts ==
    ASSUME CollectionsInv, NEW t \in CTasks, NEW j \in Jobs, Start(t, j)
    PROVE  /\ job[t] = NoJob /\ calls' = calls + 1 /\ calls' \in Nat /\ calls' <= CMaxCalls
           /\ job' = [job EXCEPT ![t] = j] /\ objects' = objects /\ wild' = wild
           /\ unopened' = unopened /\ job'[t] = j /\ \A u \in CTasks : u # t => job'[u] = job[u]
           /\ crossed \subseteq crossed'
           /\ j.kind \in {"create", "drop"} /\ j.name \notin crossed' => ~Managing(j.name)
           /\ cacked' = IF j.kind = "drop" THEN cacked \ {j.name} ELSE cacked
<1>1. calls \in Nat /\ job \in [CTasks -> Jobs] /\ CMaxCalls \in Nat
  BY CollectionsAssumption DEF CollectionsInv, CollectionsBase, CollectionsTyped
<1>. QED  BY <1>1 DEF Start

LEMMA CreateKeeps ==
    ASSUME CollectionsInv, NEW t \in CTasks, NEW n \in CNames, create_collection(t, n)
    PROVE  CollectionsInv'
<1>. DEFINE j == [kind |-> "create", name |-> n, at |-> "dir", object |-> 0]
<1>1. /\ j \in Creating /\ j \in Jobs /\ j.kind = "create" /\ j.name = n /\ j.at = "dir"
  BY DEF Creating, Jobs
<1>2. Start(t, j) /\ cmap[n] = 0 /\ dirs' = dirs /\ cmap' = cmap
  BY DEF create_collection, NameFree
<1>. HIDE DEF j
<1>3. /\ job[t] = NoJob /\ calls' = calls + 1 /\ calls' \in Nat /\ calls' <= CMaxCalls
      /\ job' = [job EXCEPT ![t] = j] /\ objects' = objects /\ wild' = wild
      /\ unopened' = unopened /\ job'[t] = j /\ \A u \in CTasks : u # t => job'[u] = job[u]
      /\ crossed \subseteq crossed'
      /\ n \notin crossed' => ~Managing(n)
      /\ cacked' = cacked
  BY <1>1, <1>2, StartFacts
<1>4. crossed' \in SUBSET CNames
  BY <1>1, <1>2 DEF Start, CollectionsInv, CollectionsBase, CollectionsTyped
<1>5. CollectionsBase'
  <2>0. Len(objects) \in Nat
    BY DEF CollectionsInv, CollectionsBase, CollectionsTyped
  <2>1. JobRefers(j)'
    BY <1>1 DEF JobRefers
  <2>2. job' \in [CTasks -> Jobs] /\ \A u \in CTasks : JobRefers(job[u])'
    <3>1. /\ CollectionsBase /\ Len(objects') \in Nat /\ Len(objects') >= Len(objects)
          /\ \A k \in 1..Len(objects) : objects'[k].name = objects[k].name
      BY <1>3, <2>0 DEF CollectionsInv
    <3>. QED  BY <1>1, <1>3, <2>0, <2>1, <3>1, JobsRefer
  <2>3. CollectionsTyped'
    BY <1>2, <1>3, <1>4, <2>2 DEF CollectionsInv, CollectionsBase, CollectionsTyped
  <2>4. EntriesRefer' /\ ConfigsThere'
    BY <1>2, <1>3 DEF CollectionsInv, CollectionsBase, EntriesRefer, ConfigsThere
  <2>. QED  BY <2>2, <2>3, <2>4 DEF CollectionsBase
<1>6. \A k \in 1..Len(objects') : Sound(k)'
  <2>1. job[t].kind = "none" /\ j.kind = "create"
    BY <1>1, <1>3, NoJobIs
  <2>. QED  BY <1>1, <1>3, <2>1, AsideKeeps DEF CollectionsInv
<1>7. ASSUME NEW m \in CNames, m \notin crossed' PROVE Uncrossed(m)'
  <2>1. Uncrossed(m)
    BY <1>3, <1>7 DEF CollectionsInv
  <2>2. job[t].kind = "none"
    BY <1>3, NoJobIs
  <2>3. CASE m # n
    <3>1. \A u \in CTasks : Manages(u, m) \/ Manages(u, m)' => job'[u] = job[u]
      BY <1>1, <1>3, <2>2, <2>3 DEF Manages
    <3>2. SameName(m)
      BY <1>2, <1>3, <3>1 DEF SameName
    <3>. QED  BY <2>1, <3>2, UncrossedKept DEF CollectionsInv
  <2>4. CASE m = n
    <3>1. /\ ~Managing(n) /\ n \notin cacked \ unopened /\ (n \in cacked => dirs[n].there)
          /\ n \notin cacked => ~dirs[n].config
      BY <1>2, <1>3, <1>7, <2>1, <2>4 DEF Uncrossed
    <3>2. \A u \in CTasks : ~Manages(u, n)
      BY <3>1 DEF Managing, Manages
    <3>3. \A u \in CTasks : Manages(u, n)' => u = t
      BY <1>3, <3>2 DEF Manages
    <3>4. Managing(n)'
      BY <1>1, <1>3 DEF Managing
    <3>5. \A u \in CTasks : Manages(u, n)' => job'[u].at = "dir" /\ job'[u].kind = "create"
      BY <1>1, <1>3, <3>3
    <3>. QED  BY <1>2, <1>3, <2>4, <3>1, <3>3, <3>4, <3>5 DEF Uncrossed
  <2>. QED  BY <2>3, <2>4
<1>. QED  BY <1>5, <1>6, <1>7 DEF CollectionsInv

LEMMA DropKeeps ==
    ASSUME CollectionsInv, NEW t \in CTasks, NEW n \in CNames, delete_collection(t, n)
    PROVE  CollectionsInv'
<1>. DEFINE j == [kind |-> "drop", name |-> n]
<1>1. /\ j \in Dropping /\ j \in Jobs /\ j.kind = "drop" /\ j.name = n
  BY DEF Dropping, Jobs
<1>2. Start(t, j) /\ dirs' = dirs /\ cmap' = [cmap EXCEPT ![n] = 0]
  BY DEF delete_collection
<1>. HIDE DEF j
<1>3. /\ job[t] = NoJob /\ calls' = calls + 1 /\ calls' \in Nat /\ calls' <= CMaxCalls
      /\ job' = [job EXCEPT ![t] = j] /\ objects' = objects /\ wild' = wild
      /\ unopened' = unopened /\ job'[t] = j /\ \A u \in CTasks : u # t => job'[u] = job[u]
      /\ crossed \subseteq crossed'
      /\ n \notin crossed' => ~Managing(n)
      /\ cacked' = cacked \ {n}
  BY <1>1, <1>2, StartFacts
<1>4. crossed' \in SUBSET CNames
  BY <1>1, <1>2 DEF Start, CollectionsInv, CollectionsBase, CollectionsTyped
<1>8. /\ cmap \in [CNames -> Nat] /\ cmap' \in [CNames -> Nat] /\ cmap'[n] = 0
      /\ \A m \in CNames : m # n => cmap'[m] = cmap[m]
  BY <1>2 DEF CollectionsInv, CollectionsBase, CollectionsTyped
<1>5. CollectionsBase'
  <2>0. Len(objects) \in Nat
    BY DEF CollectionsInv, CollectionsBase, CollectionsTyped
  <2>1. JobRefers(j)'
    BY <1>1 DEF JobRefers
  <2>2. job' \in [CTasks -> Jobs] /\ \A u \in CTasks : JobRefers(job[u])'
    <3>1. /\ CollectionsBase /\ Len(objects') \in Nat /\ Len(objects') >= Len(objects)
          /\ \A k \in 1..Len(objects) : objects'[k].name = objects[k].name
      BY <1>3, <2>0 DEF CollectionsInv
    <3>. QED  BY <1>1, <1>3, <2>0, <2>1, <3>1, JobsRefer
  <2>3. CollectionsTyped'
    BY <1>2, <1>3, <1>4, <1>8, <2>2 DEF CollectionsInv, CollectionsBase, CollectionsTyped
  <2>4. EntriesRefer' /\ ConfigsThere'
    BY <1>2, <1>3, <1>8 DEF CollectionsInv, CollectionsBase, EntriesRefer, ConfigsThere
  <2>. QED  BY <2>2, <2>3, <2>4 DEF CollectionsBase
<1>6. \A k \in 1..Len(objects') : Sound(k)'
  <2>1. job[t].kind = "none" /\ j.kind = "drop"
    BY <1>1, <1>3, NoJobIs
  <2>. QED  BY <1>1, <1>3, <2>1, AsideKeeps DEF CollectionsInv
<1>7. ASSUME NEW m \in CNames, m \notin crossed' PROVE Uncrossed(m)'
  <2>1. Uncrossed(m)
    BY <1>3, <1>7 DEF CollectionsInv
  <2>2. job[t].kind = "none"
    BY <1>3, NoJobIs
  <2>3. CASE m # n
    <3>1. \A u \in CTasks : Manages(u, m) \/ Manages(u, m)' => job'[u] = job[u]
      BY <1>1, <1>3, <2>2, <2>3 DEF Manages
    <3>2. SameName(m)
      BY <1>2, <1>3, <1>8, <2>3, <3>1 DEF SameName
    <3>. QED  BY <2>1, <3>2, UncrossedKept DEF CollectionsInv
  <2>4. CASE m = n
    <3>2. \A u \in CTasks : ~Manages(u, n)
      BY <1>3, <1>7, <2>4 DEF Managing, Manages
    <3>3. \A u \in CTasks : Manages(u, n)' => u = t
      BY <1>3, <3>2 DEF Manages
    <3>4. Managing(n)'
      BY <1>1, <1>3 DEF Managing
    <3>5. \A u \in CTasks : Manages(u, n)' => job'[u].kind = "drop"
      BY <1>1, <1>3, <3>3
    <3>. QED  BY <1>3, <1>8, <2>4, <3>3, <3>4, <3>5 DEF Uncrossed
  <2>. QED  BY <2>3, <2>4
<1>. QED  BY <1>5, <1>6, <1>7 DEF CollectionsInv

\* A step of one task that leaves the objects as they are: what is left to
\* check are the new job, the map and the directories.
LEMMA BaseKept ==
    ASSUME CollectionsInv, objects' = objects,
           calls' \in Nat, calls' <= CMaxCalls, crossed' \in SUBSET CNames,
           cacked' \in SUBSET CNames, wild' \in SUBSET CNames, unopened' \in SUBSET CNames,
           dirs' \in [CNames -> Dirs], cmap' \in [CNames -> Nat],
           NEW t \in CTasks, NEW j \in Jobs, job' = [job EXCEPT ![t] = j],
           JobRefers(j)', EntriesRefer', ConfigsThere'
    PROVE  CollectionsBase'
<1>0. CollectionsBase /\ objects \in Seq(Objects) /\ Len(objects) \in Nat
  BY DEF CollectionsInv, CollectionsBase, CollectionsTyped
<1>1. /\ Len(objects') \in Nat /\ Len(objects') >= Len(objects)
      /\ \A k \in 1..Len(objects) : objects'[k].name = objects[k].name
  BY <1>0
<1>2. job' \in [CTasks -> Jobs] /\ \A u \in CTasks : JobRefers(job[u])'
  BY <1>0, <1>1, JobsRefer
<1>. QED  BY <1>0, <1>2 DEF CollectionsBase, CollectionsTyped

LEMMA CallKeeps ==
    ASSUME CollectionsInv, NEW t \in CTasks, NEW n \in CNames, NEW ids \in CBatches,
           NEW kind \in {"upsert", "delete"}, Call(t, kind, n, ids)
    PROVE  CollectionsInv'
<1>0. PICK j : j = [kind |-> kind, name |-> n, object |-> cmap[n], ids |-> ids,
                    at |-> "storage", vector |-> calls + 1, seen |-> 0]
  OBVIOUS
<1>1. Start(t, j) /\ cmap[n] # 0 /\ dirs' = dirs /\ cmap' = cmap
  BY <1>0 DEF Call
<1>2. /\ calls \in Nat /\ cmap \in [CNames -> Nat] /\ dirs \in [CNames -> Dirs]
      /\ cacked \in SUBSET CNames /\ crossed \in SUBSET CNames /\ wild \in SUBSET CNames
      /\ unopened \in SUBSET CNames
      /\ job \in [CTasks -> Jobs] /\ CMaxCalls \in Nat /\ ids \in Seq(CIds) \ {<<>>}
  BY CollectionsAssumption DEF CollectionsInv, CollectionsBase, CollectionsTyped
<1>3. calls < CMaxCalls
  BY <1>1 DEF Start
<1>4. j \in Writing /\ j.kind = kind /\ j.at = "storage" /\ j.object = cmap[n]
  BY <1>0, <1>2, <1>3 DEF Writing
<1>5. j \in Jobs
  BY <1>4 DEF Jobs
<1>6. /\ job[t] = NoJob /\ calls' \in Nat /\ calls' <= CMaxCalls
      /\ job' = [job EXCEPT ![t] = j] /\ objects' = objects /\ wild' = wild
      /\ unopened' = unopened /\ job'[t] = j /\ \A u \in CTasks : u # t => job'[u] = job[u]
      /\ crossed \subseteq crossed' /\ cacked' = cacked
  BY <1>1, <1>4, <1>5, StartFacts
<1>7. crossed' = crossed
  BY <1>1, <1>4 DEF Start
<1>8. CollectionsBase'
  <2>1. EntriesRefer /\ ConfigsThere
    BY DEF CollectionsInv, CollectionsBase
  <2>2. EntriesRefer' /\ ConfigsThere'
    BY <1>1, <1>6, <2>1 DEF EntriesRefer, ConfigsThere
  <2>3. cmap[n] \in 1..Len(objects)
    BY <1>1, <2>1 DEF EntriesRefer
  <2>4. JobRefers(j)'
    BY <1>4, <1>6, <2>3 DEF JobRefers
  <2>5. /\ crossed' \in SUBSET CNames /\ cacked' \in SUBSET CNames /\ wild' \in SUBSET CNames
        /\ unopened' \in SUBSET CNames
        /\ dirs' \in [CNames -> Dirs] /\ cmap' \in [CNames -> Nat]
    BY <1>1, <1>2, <1>6, <1>7
  <2>. QED  BY <1>5, <1>6, <2>2, <2>4, <2>5, BaseKept
<1>9. \A k \in 1..Len(objects') : Sound(k)'
  <2>1. job[t].kind = "none"
    BY <1>6, NoJobIs
  <2>. QED  BY <1>4, <1>5, <1>6, <2>1, AsideKeeps DEF CollectionsInv
<1>10. ASSUME NEW m \in CNames, m \notin crossed' PROVE Uncrossed(m)'
  <2>1. Uncrossed(m) /\ CollectionsBase
    BY <1>7, <1>10 DEF CollectionsInv
  <2>2. \A u \in CTasks : Manages(u, m) \/ Manages(u, m)' => job'[u] = job[u]
    BY <1>4, <1>6, NoJobIs DEF Manages
  <2>3. SameName(m)
    BY <1>1, <1>6, <2>2 DEF SameName
  <2>. QED  BY <2>1, <2>3, UncrossedKept
<1>. QED  BY <1>8, <1>9, <1>10 DEF CollectionsInv

LEMMA RecordAdded ==
    ASSUME CollectionsInv, NEW t \in CTasks, job[t].kind \in {"upsert", "delete"}, AddRecord(t)
    PROVE  /\ dirs' \in [CNames -> Dirs]
           /\ \A n \in CNames : /\ dirs'[n].there = dirs[n].there /\ dirs'[n].gen = dirs[n].gen
                                /\ dirs'[n].config = dirs[n].config
<1>1. /\ dirs \in [CNames -> Dirs] /\ job \in [CTasks -> Jobs] /\ objects \in Seq(Objects)
      /\ job[t].object \in 1..Len(objects)
  BY DEF CollectionsInv, CollectionsBase, CollectionsTyped, JobRefers
<1>2. PICK m, id, v, d : /\ m = Object(t).name /\ id = Head(job[t].ids) /\ v = Written(job[t])
                        /\ d = dirs[m]
  OBVIOUS
<1>3. job[t] \in Writing
  BY <1>1, JobKinds
<1>4. /\ m \in CNames /\ id \in CIds /\ v \in 0..CMaxCalls /\ d \in Dirs
  <2>1. objects[job[t].object] \in Objects
    BY <1>1
  <2>. QED  BY <1>1, <1>2, <1>3, <2>1, ObjectFields, WritingFields, CollectionsAssumption
            DEF Object, Written
<1>5. /\ d.data \in [CIds -> 0..CMaxCalls] /\ d.dead \in SUBSET CIds /\ d.spoilt \in BOOLEAN
  BY <1>4 DEF Dirs
<1>6. PICK c : c = Logged(d, job[t])
  OBVIOUS
<1>7. PICK e, f, g : /\ e = [d.data EXCEPT ![id] = v]
                     /\ f = IF job[t].kind = "upsert" THEN d.dead ELSE d.dead \cup {id}
                     /\ g = (d.spoilt \/ (job[t].kind = "upsert" /\ id \in d.dead))
  OBVIOUS
<1>8. e \in [CIds -> 0..CMaxCalls] /\ f \in SUBSET CIds /\ g \in BOOLEAN
  BY <1>4, <1>5, <1>7
<1>9. c = [d EXCEPT !.data = e, !.dead = f, !.spoilt = g]
  BY <1>2, <1>4, <1>6, <1>7 DEF Logged, Dirs
<1>10. c \in Dirs /\ c.there = d.there /\ c.gen = d.gen /\ c.config = d.config
  BY <1>4, <1>8, <1>9 DEF Dirs
<1>11. CASE dirs' = dirs
  BY <1>1, <1>11
<1>12. CASE dirs' = [dirs EXCEPT ![m] = c]
  BY <1>1, <1>2, <1>4, <1>10, <1>12
<1>13. dirs' = dirs \/ dirs' = [dirs EXCEPT ![m] = c]
  BY <1>2, <1>6 DEF AddRecord
<1>. QED  BY <1>11, <1>12, <1>13

LEMMA FailKeeps ==
    ASSUME CollectionsInv, NEW t \in CTasks, FailStorage(t)
    PROVE  CollectionsInv'
<1>1. /\ job[t].kind \in {"upsert", "delete"} /\ job[t].at = "storage"
      /\ job' = [job EXCEPT ![t] = NoJob]
      /\ cmap' = cmap /\ objects' = objects /\ calls' = calls
      /\ cacked' = cacked /\ crossed' = crossed /\ unopened' = unopened
      /\ dirs' = dirs \/ AddRecord(t)
      /\ wild' = wild \/ wild' = wild \cup {Object(t).name}
  BY DEF FailStorage, Working, FinishCall
<1>0. /\ wild' \in SUBSET CNames /\ dirs' \in [CNames -> Dirs]
      /\ \A n \in CNames : /\ dirs'[n].there = dirs[n].there /\ dirs'[n].gen = dirs[n].gen
                           /\ dirs'[n].config = dirs[n].config
  <2>1. Object(t).name \in CNames
    BY <1>1, ObjectFields DEF Object, CollectionsInv, CollectionsBase, CollectionsTyped, JobRefers
  <2>2. wild \in SUBSET CNames /\ dirs \in [CNames -> Dirs]
    BY DEF CollectionsInv, CollectionsBase, CollectionsTyped
  <2>. QED  BY <1>1, <2>1, <2>2, RecordAdded
<1>2. /\ NoJob \in Jobs /\ NoJob.kind = "none" /\ job'[t] = NoJob
      /\ \A u \in CTasks : u # t => job'[u] = job[u]
  BY <1>1, NoJobIs DEF CollectionsInv, CollectionsBase, CollectionsTyped
<1>3. CollectionsBase'
  <2>1. /\ calls' \in Nat /\ calls' <= CMaxCalls /\ crossed' \in SUBSET CNames
        /\ cacked' \in SUBSET CNames /\ wild' \in SUBSET CNames /\ unopened' \in SUBSET CNames
        /\ dirs' \in [CNames -> Dirs] /\ cmap' \in [CNames -> Nat]
    BY <1>0, <1>1 DEF CollectionsInv, CollectionsBase, CollectionsTyped
  <2>2. EntriesRefer' /\ ConfigsThere'
    BY <1>0, <1>1 DEF CollectionsInv, CollectionsBase, EntriesRefer, ConfigsThere
  <2>3. JobRefers(NoJob)'
    BY <1>2 DEF JobRefers
  <2>. QED  BY <1>1, <1>2, <2>1, <2>2, <2>3, BaseKept
<1>4. \A k \in 1..Len(objects') : Sound(k)'
  BY <1>1, <1>2, AsideKeeps DEF CollectionsInv
<1>5. ASSUME NEW m \in CNames, m \notin crossed' PROVE Uncrossed(m)'
  <2>1. Uncrossed(m) /\ CollectionsBase
    BY <1>1, <1>5 DEF CollectionsInv
  <2>2. \A u \in CTasks : Manages(u, m) \/ Manages(u, m)' => job'[u] = job[u]
    BY <1>1, <1>2 DEF Manages
  <2>3. SameName(m)
    BY <1>0, <1>1, <2>2 DEF SameName
  <2>. QED  BY <2>1, <2>3, UncrossedKept
<1>. QED  BY <1>3, <1>4, <1>5 DEF CollectionsInv

LEMMA CreateDirKeeps ==
    ASSUME CollectionsInv, NEW t \in CTasks, CreateDir(t)
    PROVE  CollectionsInv'
<1>. PICK n, d, opened : /\ n = job[t].name /\ d = dirs[n]
                         /\ opened = [job[t] EXCEPT !.at = "open"]
  OBVIOUS
<1>1. /\ n = job[t].name /\ d = dirs[n] /\ opened = [job[t] EXCEPT !.at = "open"]
      /\ job[t].kind = "create" /\ job[t].at = "dir"
      /\ cmap' = cmap /\ objects' = objects /\ calls' = calls
      /\ cacked' = cacked /\ crossed' = crossed /\ wild' = wild /\ unopened' = unopened
  BY DEF CreateDir
<1>3. /\ job \in [CTasks -> Jobs] /\ dirs \in [CNames -> Dirs] /\ cmap \in [CNames -> Nat]
      /\ calls \in Nat /\ calls <= CMaxCalls
      /\ cacked \in SUBSET CNames /\ crossed \in SUBSET CNames /\ wild \in SUBSET CNames
      /\ unopened \in SUBSET CNames
  BY DEF CollectionsInv, CollectionsBase, CollectionsTyped
<1>4. job[t] \in Creating /\ n \in CNames /\ d \in Dirs
  BY <1>1, <1>3, JobKinds, CreatingFields
<1>5. opened \in Creating /\ opened.kind = "create" /\ opened.name = n /\ opened.at = "open"
  BY <1>1, <1>4 DEF Creating
<1>6. PICK ok \in BOOLEAN :
        /\ dirs' \in [CNames -> Dirs] /\ \A m \in CNames : m # n => dirs'[m] = dirs[m]
        /\ d.there => dirs'[n].there
        /\ ok => dirs'[n].config
        /\ ~ok /\ ~d.config => ~dirs'[n].config
        /\ dirs'[n].config => dirs'[n].there
        /\ ok => job' = [job EXCEPT ![t].at = "open"]
        /\ ~ok => job' = [job EXCEPT ![t] = NoJob]
  <2>1. PICK g : g = IF d.there THEN d.gen ELSE d.gen + 1
    OBVIOUS
  <2>2. g \in Nat /\ d.config \in BOOLEAN /\ d.there \in BOOLEAN
    BY <1>4, <2>1 DEF Dirs
  <2>3. CASE /\ dirs' = [dirs EXCEPT ![n].there = TRUE, ![n].config = TRUE, ![n].gen = g]
             /\ job' = [job EXCEPT ![t].at = "open"]
    <3>1. PICK e : e = [d EXCEPT !.there = TRUE, !.config = TRUE, !.gen = g]
      OBVIOUS
    <3>2. e \in Dirs /\ e.there /\ e.config
      BY <1>4, <2>2, <3>1 DEF Dirs
    <3>3. dirs' = [dirs EXCEPT ![n] = e]
      BY <1>1, <1>3, <1>4, <2>3, <3>1 DEF Dirs
    <3>4. /\ dirs' \in [CNames -> Dirs] /\ \A m \in CNames : m # n => dirs'[m] = dirs[m]
          /\ dirs'[n].there /\ dirs'[n].config
      BY <1>3, <1>4, <3>2, <3>3
    <3>5. TRUE \in BOOLEAN
      OBVIOUS
    <3>. QED  BY <2>3, <3>4, <3>5
  <2>4. CASE (\E e \in Unmade(d) : dirs' = [dirs EXCEPT ![n] = e]) /\ FinishCall(t)
    <3>1. PICK e \in Unmade(d) : dirs' = [dirs EXCEPT ![n] = e]
      BY <2>4
    <3>2. \/ e = d
          \/ \E c \in {d.config, FALSE} : e = [d EXCEPT !.there = TRUE, !.config = c, !.gen = g]
      BY <2>1, <3>1 DEF Unmade
    <3>3. CASE e = d
      <4>1. d.config => d.there
        BY <1>1, <1>4 DEF CollectionsInv, CollectionsBase, ConfigsThere
      <4>2. dirs' = dirs
        BY <1>1, <1>3, <1>4, <3>1, <3>3
      <4>. QED  BY <1>1, <1>3, <2>4, <4>1, <4>2 DEF FinishCall
    <3>4. CASE \E c \in {d.config, FALSE} : e = [d EXCEPT !.there = TRUE, !.config = c, !.gen = g]
      <4>1. PICK c \in {d.config, FALSE} : e = [d EXCEPT !.there = TRUE, !.config = c, !.gen = g]
        BY <3>4
      <4>2. c \in BOOLEAN
        BY <2>2
      <4>3. e \in Dirs /\ e.there /\ e.config = c
        BY <1>4, <2>2, <4>1, <4>2 DEF Dirs
      <4>4. ~d.config => ~e.config
        BY <4>3
      <4>. QED  BY <1>3, <1>4, <2>4, <3>1, <4>3, <4>4 DEF FinishCall
    <3>. QED  BY <3>2, <3>3, <3>4
  <2>5. CreateDir(t)
    OBVIOUS
  <2>6. \/ /\ dirs' = [dirs EXCEPT ![n].there = TRUE, ![n].config = TRUE,
                                  ![n].gen = IF dirs[n].there THEN @ ELSE @ + 1]
           /\ job' = [job EXCEPT ![t].at = "open"]
        \/ (\E e \in Unmade(dirs[n]) : dirs' = [dirs EXCEPT ![n] = e]) /\ FinishCall(t)
    BY <1>1, <2>5 DEF CreateDir
  <2>7. CASE /\ dirs' = [dirs EXCEPT ![n].there = TRUE, ![n].config = TRUE,
                                    ![n].gen = IF dirs[n].there THEN @ ELSE @ + 1]
             /\ job' = [job EXCEPT ![t].at = "open"]
    <3>1. dirs' = [dirs EXCEPT ![n].there = TRUE, ![n].config = TRUE, ![n].gen = g]
      BY <1>1, <1>3, <1>4, <2>1, <2>7 DEF Dirs
    <3>. QED  BY <2>3, <2>7, <3>1
  <2>. QED  BY <1>1, <2>4, <2>6, <2>7
<1>. DEFINE j == IF ok THEN opened ELSE NoJob
<1>7. job' = [job EXCEPT ![t] = j]
  BY <1>1, <1>6
<1>9. job'[t] = j /\ \A u \in CTasks : u # t => job'[u] = job[u]
  BY <1>3, <1>7
<1>10. CollectionsBase'
  <2>1. EntriesRefer' /\ ConfigsThere'
    <3>1. EntriesRefer /\ ConfigsThere
      BY DEF CollectionsInv, CollectionsBase
    <3>. QED  BY <1>1, <1>6, <3>1 DEF EntriesRefer, ConfigsThere
  <2>2. JobRefers(j)'
    BY <1>5, NoJobIs DEF JobRefers
  <2>3. j \in Jobs
    BY <1>5, NoJobIs, CreatingFields
  <2>. HIDE DEF j
  <2>. QED  BY <1>1, <1>3, <1>6, <1>7, <2>1, <2>2, <2>3, BaseKept
<1>11. \A k \in 1..Len(objects') : Sound(k)'
  <2>1. j \in Jobs /\ j.kind \in {"none", "create"}
    BY <1>5, NoJobIs, CreatingFields
  <2>. HIDE DEF j
  <2>. QED  BY <1>1, <1>7, <2>1, AsideKeeps DEF CollectionsInv
<1>12. ASSUME NEW m \in CNames, m \notin crossed' PROVE Uncrossed(m)'
  <2>1. Uncrossed(m) /\ CollectionsBase
    BY <1>1, <1>12 DEF CollectionsInv
  <2>2. CASE m # n
    <3>1. \A u \in CTasks : Manages(u, m) \/ Manages(u, m)' => job'[u] = job[u]
      <4>1. ~Manages(t, m)
        BY <1>1, <2>2 DEF Manages
      <4>2. j.kind \in {"create", "drop"} => j.name = n
        BY <1>5, NoJobIs
      <4>3. ~Manages(t, m)'
        <5>. HIDE DEF j
        <5>. QED  BY <1>9, <2>2, <4>2 DEF Manages
      <4>. HIDE DEF j
      <4>. QED  BY <1>9, <4>1, <4>3
    <3>2. SameName(m)
      BY <1>1, <1>6, <2>2, <3>1 DEF SameName
    <3>. QED  BY <2>1, <3>2, UncrossedKept
  <2>3. CASE m = n
    <3>1. Manages(t, n) /\ Managing(n)
      BY <1>1 DEF Manages, Managing
    <3>2. /\ n \notin cacked \ unopened /\ \A u \in CTasks : Manages(u, n) => u = t
          /\ n \in cacked => dirs[n].there
          /\ n \notin cacked => cmap[n] = 0 /\ ~d.config
      BY <1>1, <2>1, <2>3, <3>1 DEF Uncrossed
    <3>3. \A u \in CTasks : Manages(u, n)' => u = t
      BY <1>9, <3>2 DEF Manages
    <3>4. Managing(n)' <=> ok
      BY <1>5, <1>9, <3>3, NoJobIs DEF Managing, Manages
    <3>5. \A u \in CTasks : Manages(u, n)' => job'[u].at = "open" /\ job'[u].kind = "create" /\ ok
      BY <1>5, <1>9, <3>3, NoJobIs DEF Manages
    <3>6. n \notin cacked' => cmap'[n] = 0 /\ (~Managing(n)' => ~dirs'[n].config)
      BY <1>1, <1>6, <3>2, <3>4
    <3>7. n \in cacked' => dirs'[n].there
      BY <1>1, <1>6, <3>2
    <3>8. n \notin cacked' \ unopened'
      BY <1>1, <3>2
    <3>. QED  BY <1>6, <2>3, <3>3, <3>5, <3>6, <3>7, <3>8 DEF Uncrossed
  <2>. QED  BY <2>2, <2>3
<1>. QED  BY <1>10, <1>11, <1>12 DEF CollectionsInv

LEMMA CreateInsertKeeps ==
    ASSUME CollectionsInv, NEW t \in CTasks, CreateInsert(t)
    PROVE  CollectionsInv'
<1>. PICK n, k : n = job[t].name /\ k = job[t].object
  OBVIOUS
<1>1. /\ n = job[t].name /\ k = job[t].object
      /\ job[t].kind = "create" /\ job[t].at = "insert"
      /\ cmap' = [cmap EXCEPT ![n] = k] /\ cacked' = cacked \cup {n}
      /\ job' = [job EXCEPT ![t] = NoJob]
      /\ dirs' = dirs /\ objects' = objects /\ calls' = calls
      /\ crossed' = crossed /\ wild' = wild /\ unopened' = unopened \ {n}
  BY DEF CreateInsert, FinishCall
<1>3. /\ job \in [CTasks -> Jobs] /\ dirs \in [CNames -> Dirs] /\ cmap \in [CNames -> Nat]
      /\ calls \in Nat /\ calls <= CMaxCalls /\ objects \in Seq(Objects)
      /\ cacked \in SUBSET CNames /\ crossed \in SUBSET CNames /\ wild \in SUBSET CNames
      /\ unopened \in SUBSET CNames
  BY DEF CollectionsInv, CollectionsBase, CollectionsTyped
<1>4. job[t] \in Creating /\ n \in CNames /\ k \in Nat
  BY <1>1, <1>3, JobKinds, CreatingFields
<1>5. k \in 1..Len(objects) /\ objects[k].name = n
  BY <1>1 DEF CollectionsInv, CollectionsBase, JobRefers
<1>6. /\ NoJob \in Jobs /\ NoJob.kind = "none" /\ job'[t] = NoJob
      /\ \A u \in CTasks : u # t => job'[u] = job[u]
  BY <1>1, <1>3, NoJobIs
<1>7. /\ cmap' \in [CNames -> Nat] /\ cmap'[n] = k
      /\ \A m \in CNames : m # n => cmap'[m] = cmap[m]
  BY <1>1, <1>3, <1>4
<1>8. CollectionsBase'
  <2>1. EntriesRefer' /\ ConfigsThere'
    <3>1. EntriesRefer /\ ConfigsThere
      BY DEF CollectionsInv, CollectionsBase
    <3>. QED  BY <1>1, <1>5, <1>7, <3>1 DEF EntriesRefer, ConfigsThere
  <2>2. JobRefers(NoJob)'
    BY <1>6 DEF JobRefers
  <2>3. cacked' \in SUBSET CNames /\ unopened' \in SUBSET CNames
    BY <1>1, <1>3, <1>4
  <2>. QED  BY <1>1, <1>3, <1>6, <1>7, <2>1, <2>2, <2>3, BaseKept
<1>9. \A i \in 1..Len(objects') : Sound(i)'
  BY <1>1, <1>6, AsideKeeps DEF CollectionsInv
<1>10. ASSUME NEW m \in CNames, m \notin crossed' PROVE Uncrossed(m)'
  <2>1. Uncrossed(m) /\ CollectionsBase
    BY <1>1, <1>10 DEF CollectionsInv
  <2>2. CASE m # n
    <3>1. \A u \in CTasks : Manages(u, m) \/ Manages(u, m)' => job'[u] = job[u]
      BY <1>1, <1>6, <2>2 DEF Manages
    <3>2. SameName(m)
      BY <1>1, <1>7, <2>2, <3>1 DEF SameName
    <3>. QED  BY <2>1, <3>2, UncrossedKept
  <2>3. CASE m = n
    <3>1. Manages(t, n)
      BY <1>1 DEF Manages
    <3>2. /\ dirs[n].config /\ objects[k].gen = dirs[n].gen
          /\ \A u \in CTasks : Manages(u, n) => u = t
      BY <1>1, <2>1, <2>3, <3>1 DEF Uncrossed
    <3>3. \A u \in CTasks : ~Manages(u, n)'
      BY <1>6, <3>2 DEF Manages
    <3>4. ~Managing(n)'
      BY <3>3 DEF Managing, Manages
    <3>5. cmap'[n] # 0 /\ n \in cacked'
      BY <1>1, <1>3, <1>5, <1>7
    <3>6. objects'[cmap'[n]].gen = dirs'[n].gen /\ dirs'[n].config /\ dirs'[n].there
      BY <1>1, <1>4, <1>7, <2>1, <3>2 DEF CollectionsBase, ConfigsThere
    <3>. QED  BY <2>3, <3>3, <3>4, <3>5, <3>6 DEF Uncrossed
  <2>. QED  BY <2>2, <2>3
<1>. QED  BY <1>8, <1>9, <1>10 DEF CollectionsInv

\* remove_dir_all: the directory goes, was not there, or stays in part.
LEMMA RemoveKeeps ==
    ASSUME CollectionsInv, NEW t \in CTasks, RemoveDir(t)
    PROVE  CollectionsInv'
<1>. PICK n : n = job[t].name
  OBVIOUS
<1>1. /\ n = job[t].name /\ job[t].kind = "drop"
      /\ cmap' = cmap /\ objects' = objects /\ calls' = calls /\ cacked' = cacked
      /\ unopened' = unopened
      /\ job' = [job EXCEPT ![t] = NoJob]
  BY DEF RemoveDir, FinishCall
<1>2. /\ job \in [CTasks -> Jobs] /\ dirs \in [CNames -> Dirs] /\ cmap \in [CNames -> Nat]
      /\ calls \in Nat /\ calls <= CMaxCalls
      /\ cacked \in SUBSET CNames /\ crossed \in SUBSET CNames /\ wild \in SUBSET CNames
      /\ unopened \in SUBSET CNames
  BY DEF CollectionsInv, CollectionsBase, CollectionsTyped
<1>3. n \in CNames /\ dirs[n] \in Dirs
  <2>1. job[t] \in Dropping
    BY <1>1, <1>2, JobKinds
  <2>. QED  BY <1>1, <1>2, <2>1 DEF Dropping
<1>4. /\ NoJob \in Jobs /\ NoJob.kind = "none" /\ job'[t] = NoJob
      /\ \A u \in CTasks : u # t => job'[u] = job[u]
  BY <1>1, <1>2, NoJobIs
<1>5. ConfigsThere /\ EntriesRefer /\ CollectionsBase
  BY DEF CollectionsInv, CollectionsBase
<1>6. /\ dirs' \in [CNames -> Dirs] /\ \A m \in CNames : m # n => dirs'[m] = dirs[m]
      /\ crossed' \in SUBSET CNames /\ wild' \in SUBSET CNames
      /\ dirs'[n].config => dirs'[n].there
      /\ crossed' = crossed \/ crossed' = crossed \cup {n}
      /\ ~dirs'[n].config \/ n \in crossed'
  <2>1. CASE \E d \in Removed(dirs[n]) : dirs' = [dirs EXCEPT ![n] = d]
                                         /\ wild' = wild /\ crossed' = crossed
    <3>1. PICK d \in Removed(dirs[n]) : dirs' = [dirs EXCEPT ![n] = d]
      BY <2>1
    <3>2. d = [dirs[n] EXCEPT !.there = FALSE, !.config = FALSE, !.data = Empty, !.dead = {},
                              !.spoilt = FALSE]
      BY <3>1 DEF Removed
    <3>3. Empty \in [CIds -> 0..CMaxCalls]
      BY CollectionsAssumption DEF Empty
    <3>4. d \in Dirs /\ ~d.config /\ ~d.there
      BY <1>3, <3>2, <3>3 DEF Dirs
    <3>. QED  BY <1>2, <1>3, <2>1, <3>1, <3>4
  <2>2. CASE ~dirs[n].there /\ dirs' = dirs /\ wild' = wild /\ crossed' = crossed
    BY <1>2, <1>3, <1>5, <2>2 DEF ConfigsThere
  <2>3. CASE /\ dirs[n].there /\ \E c \in BOOLEAN : dirs' = [dirs EXCEPT ![n].config = @ /\ c]
             /\ wild' = wild \cup {n} /\ crossed' = crossed \cup {n}
    <3>1. PICK c \in BOOLEAN : dirs' = [dirs EXCEPT ![n].config = @ /\ c]
      BY <2>3
    <3>2. PICK d : d = [dirs[n] EXCEPT !.config = @ /\ c]
      OBVIOUS
    <3>3. d \in Dirs /\ d.there = dirs[n].there
      BY <1>3, <3>2 DEF Dirs
    <3>4. dirs' = [dirs EXCEPT ![n] = d]
      BY <3>1, <3>2
    <3>. QED  BY <1>2, <1>3, <2>3, <3>3, <3>4
  <2>. QED  BY <1>1, <2>1, <2>2, <2>3 DEF RemoveDir
<1>7. CollectionsBase'
  <2>1. EntriesRefer' /\ ConfigsThere'
    BY <1>1, <1>5, <1>6 DEF EntriesRefer, ConfigsThere
  <2>2. JobRefers(NoJob)'
    BY <1>4 DEF JobRefers
  <2>3. /\ calls' \in Nat /\ calls' <= CMaxCalls /\ cacked' \in SUBSET CNames
        /\ cmap' \in [CNames -> Nat] /\ unopened' \in SUBSET CNames
    BY <1>1, <1>2
  <2>. QED  BY <1>1, <1>4, <1>6, <2>1, <2>2, <2>3, BaseKept
<1>8. \A i \in 1..Len(objects') : Sound(i)'
  <2>1. job[t].kind = "drop"
    BY <1>1
  <2>. QED  BY <1>1, <1>4, <2>1, AsideKeeps DEF CollectionsInv
<1>9. ASSUME NEW m \in CNames, m \notin crossed' PROVE Uncrossed(m)'
  <2>1. Uncrossed(m)
    BY <1>6, <1>9 DEF CollectionsInv
  <2>2. CASE m # n
    <3>1. \A u \in CTasks : Manages(u, m) \/ Manages(u, m)' => job'[u] = job[u]
      BY <1>1, <1>4, <2>2 DEF Manages
    <3>2. SameName(m)
      BY <1>1, <1>6, <2>2, <3>1 DEF SameName
    <3>. QED  BY <1>5, <2>1, <3>2, UncrossedKept
  <2>3. CASE m = n
    <3>1. Manages(t, n) /\ Managing(n)
      BY <1>1 DEF Manages, Managing
    <3>2. n \notin cacked /\ cmap[n] = 0 /\ \A u \in CTasks : Manages(u, n) => u = t
      BY <1>1, <2>1, <2>3, <3>1 DEF Uncrossed
    <3>3. \A u \in CTasks : ~Manages(u, n)'
      BY <1>4, <3>2 DEF Manages
    <3>4. ~Managing(n)' /\ ~dirs'[n].config
      BY <1>6, <1>9, <2>3, <3>3 DEF Managing, Manages
    <3>. QED  BY <1>1, <2>3, <3>2, <3>3, <3>4 DEF Uncrossed
  <2>. QED  BY <2>2, <2>3
<1>. QED  BY <1>7, <1>8, <1>9 DEF CollectionsInv

LEMMA CreateOpenKeeps ==
    ASSUME CollectionsInv, NEW t \in CTasks, CreateOpen(t)
    PROVE  CollectionsInv'
<1>n. PICK n : n = job[t].name
  OBVIOUS
<1>d. PICK d : d = IF dirs[n].there THEN dirs[n] ELSE [dirs[n] EXCEPT !.there = TRUE, !.gen = @ + 1]
  OBVIOUS
<1>o. PICK o, L : o = NewCollection(n, d) /\ L = Len(objects)
  OBVIOUS
<1>j. PICK j : j = [job[t] EXCEPT !.at = "insert", !.object = L + 1]
  OBVIOUS
<1>1. /\ job \in [CTasks -> Jobs] /\ dirs \in [CNames -> Dirs] /\ cmap \in [CNames -> Nat]
      /\ calls \in Nat /\ calls <= CMaxCalls /\ objects \in Seq(Objects) /\ L \in Nat
      /\ cacked \in SUBSET CNames /\ crossed \in SUBSET CNames /\ wild \in SUBSET CNames
      /\ unopened \in SUBSET CNames
  BY <1>o DEF CollectionsInv, CollectionsBase, CollectionsTyped
<1>2. /\ n = job[t].name /\ L = Len(objects)
      /\ job[t].kind = "create" /\ job[t].at = "open" /\ job[t] \in Creating /\ n \in CNames
  BY <1>n, <1>o, <1>1, JobKinds, CreatingFields DEF CreateOpen
<1>3. /\ d \in Dirs /\ d.config = dirs[n].config /\ d.there /\ d.data \in [CIds -> 0..CMaxCalls]
      /\ d.dead \in SUBSET CIds
      /\ dirs[n].there => d = dirs[n]
  <2>1. dirs[n] \in Dirs
    BY <1>1, <1>2
  <2>2. CASE dirs[n].there
    BY <1>d, <2>1, <2>2 DEF Dirs
  <2>3. CASE ~dirs[n].there
    <3>1. PICK e, g : e = dirs[n] /\ g = dirs[n].gen + 1
      OBVIOUS
    <3>2. /\ e \in Dirs /\ e.there \in BOOLEAN /\ e.config \in BOOLEAN /\ e.gen \in Nat
          /\ e.data \in [CIds -> 0..CMaxCalls] /\ g \in Nat /\ e.dead \in SUBSET CIds
          /\ e.spoilt \in BOOLEAN
      BY <2>1, <3>1 DEF Dirs
    <3>3. d = [e EXCEPT !.there = TRUE, !.gen = g]
      BY <1>d, <2>3, <3>1
    <3>5. d \in Dirs /\ d.config = e.config /\ d.there /\ d.data = e.data /\ d.dead = e.dead
      BY <3>2, <3>3 DEF Dirs
    <3>. QED  BY <2>3, <3>1, <3>2, <3>5
  <2>. QED  BY <2>2, <2>3
<1>4. /\ dirs' = [dirs EXCEPT ![n] = d] /\ objects' = Append(objects, o)
      /\ wild' \in SUBSET CNames
      /\ cmap' = cmap /\ calls' = calls /\ cacked' = cacked /\ crossed' = crossed
      /\ unopened' = unopened
  BY <1>n, <1>d, <1>o, <1>1, <1>2 DEF CreateOpen
<1>5. /\ o \in Objects /\ o.name = n /\ o.gen = d.gen /\ o.stored = d.data
      /\ o.unbuilt = IdsOf(d.data) /\ o.index = Empty /\ o.mixed = {}
  <2>1. IdsOf(d.data) \in SUBSET CIds /\ Empty \in [CIds -> 0..CMaxCalls]
    BY CollectionsAssumption DEF IdsOf, Empty
  <2>. QED  BY <1>o, <1>2, <1>3, <2>1 DEF NewCollection, Objects, Dirs
<1>6. /\ objects' \in Seq(Objects) /\ Len(objects') = L + 1 /\ objects'[L + 1] = o
      /\ \A k \in 1..L : objects'[k] = objects[k]
  <2>1. ASSUME NEW q \in Seq(Objects), NEW x \in Objects
        PROVE  /\ Append(q, x) \in Seq(Objects) /\ Len(Append(q, x)) = Len(q) + 1
               /\ Append(q, x)[Len(q) + 1] = x
               /\ \A k \in 1..Len(q) : Append(q, x)[k] = q[k]
    OBVIOUS
  <2>. QED  BY <1>1, <1>2, <1>4, <1>5, <2>1
<1>7. job' = [job EXCEPT ![t] = j]
  <2>1. job' = [job EXCEPT ![t].at = "insert", ![t].object = Len(objects')]
    BY DEF CreateOpen
  <2>. QED  BY <1>j, <1>6, <2>1
<1>8. j \in Creating /\ j.name = n /\ j.at = "insert" /\ j.object = L + 1 /\ j.kind = "create"
  <2>1. PICK e, l : e = job[t] /\ l = L + 1
    OBVIOUS
  <2>2. l \in Nat /\ e \in Creating /\ e.name = n /\ n \in CNames
    BY <1>1, <1>2, <2>1
  <2>3. j = [e EXCEPT !.at = "insert", !.object = l]
    BY <1>j, <2>1
  <2>4. j = [kind |-> "create", name |-> n, at |-> "insert", object |-> l]
    BY <2>2, <2>3 DEF Creating
  <2>. QED  BY <2>1, <2>2, <2>4 DEF Creating
<1>9. job'[t] = j /\ \A u \in CTasks : u # t => job'[u] = job[u]
  BY <1>1, <1>7
<1>10. /\ dirs' \in [CNames -> Dirs] /\ dirs'[n] = d
       /\ \A m \in CNames : m # n => dirs'[m] = dirs[m]
  BY <1>1, <1>2, <1>3, <1>4
<1>11. ConfigsThere /\ EntriesRefer /\ CollectionsBase
  BY DEF CollectionsInv, CollectionsBase
<1>12. CollectionsBase'
  <2>1. EntriesRefer'
    BY <1>2, <1>4, <1>6, <1>11 DEF EntriesRefer
  <2>2. ConfigsThere'
    BY <1>3, <1>10, <1>11 DEF ConfigsThere
  <2>3. JobRefers(j)'
    <3>1. L + 1 \in 1..Len(objects') /\ objects'[L + 1].name = n
      BY <1>1, <1>5, <1>6
    <3>. QED  BY <1>8, <3>1 DEF JobRefers
  <2>4. /\ Len(objects) \in Nat /\ Len(objects') \in Nat /\ Len(objects') >= Len(objects)
        /\ \A k \in 1..Len(objects) : objects'[k].name = objects[k].name
    BY <1>1, <1>2, <1>6
  <2>5. j \in Jobs
    BY <1>8, CreatingFields
  <2>6. job' \in [CTasks -> Jobs] /\ \A u \in CTasks : JobRefers(job[u])'
    BY <1>7, <1>11, <2>3, <2>4, <2>5, JobsRefer
  <2>. QED  BY <1>1, <1>4, <1>6, <1>10, <2>1, <2>2, <2>6 DEF CollectionsBase, CollectionsTyped
<1>13. ASSUME NEW k, NEW at, NEW i, NEW u \in CTasks
       PROVE  At(u, at, k, i)' <=> At(u, at, k, i)
  <2>1. CASE u = t
    BY <1>2, <1>8, <1>9, <2>1 DEF At
  <2>2. CASE u # t
    BY <1>9, <2>2 DEF At
  <2>. QED  BY <2>1, <2>2
<1>14. ASSUME NEW k \in 1..(L + 1) PROVE Sound(k)'
  <2>1. CASE k \in 1..L
    <3>1. \A u \in CTasks : job[u].kind \in {"upsert", "delete"} => job'[u] = job[u]
      BY <1>2, <1>9
    <3>2. SameWriters(k)
      <4>1. \A u \in CTasks, i \in CIds : \A at : At(u, at, k, i) => job'[u] = job[u]
        BY <3>1 DEF At
      <4>. QED  BY <1>13, <4>1 DEF SameWriters
    <3>. QED  BY <1>2, <1>6, <1>11, <2>1, <3>2, SoundKept DEF CollectionsInv
  <2>2. CASE k = L + 1
    <3>1. \A u \in CTasks, i \in CIds : \A at : ~At(u, at, k, i)'
      <4>1. \A u \in CTasks : job[u].kind \in {"upsert", "delete"} => job[u].object # k
        BY <1>1, <1>2, <1>11, <2>2 DEF CollectionsBase, JobRefers
      <4>2. \A u \in CTasks, i \in CIds : \A at : ~At(u, at, k, i)
        BY <4>1 DEF At
      <4>. QED  BY <1>13, <4>2
    <3>2. \A i \in CIds : i \notin o.unbuilt => o.index[i] = o.stored[i]
      BY <1>3, <1>5 DEF IdsOf, Empty
    <3>3. Mirrored(k)'
      BY <1>6, <2>2, <3>1, <3>2 DEF Mirrored
    <3>4. Built(k)'
      BY <3>1 DEF Built
    <3>5. IdsOf(o.stored) \ o.unbuilt = {}
      BY <1>5
    <3>6. Counted(k)'
      BY <1>6, <2>2, <3>1, <3>5 DEF Counted, Below
    <3>. QED  BY <3>3, <3>4, <3>6 DEF Sound
  <2>3. k \in 1..L \/ k = L + 1
    BY <1>1
  <2>. QED  BY <2>1, <2>2, <2>3
<1>15. ASSUME NEW m \in CNames, m \notin crossed' PROVE Uncrossed(m)'
  <2>1. Uncrossed(m)
    BY <1>4, <1>15 DEF CollectionsInv
  <2>2. CASE m # n
    <3>1. \A u \in CTasks : Manages(u, m) \/ Manages(u, m)' => job'[u] = job[u]
      BY <1>2, <1>8, <1>9, <2>2 DEF Manages
    <3>2. SameName(m)
      BY <1>2, <1>4, <1>6, <1>10, <2>2, <3>1 DEF SameName
    <3>. QED  BY <1>11, <2>1, <3>2, UncrossedKept
  <2>3. CASE m = n
    <3>1. Manages(t, n) /\ Managing(n)
      BY <1>2 DEF Manages, Managing
    <3>2. /\ n \notin cacked \ unopened /\ dirs[n].config
          /\ \A u \in CTasks : Manages(u, n) => u = t
          /\ n \notin cacked => cmap[n] = 0
      BY <1>2, <2>1, <2>3, <3>1 DEF Uncrossed
    <3>3. d = dirs[n]
      BY <1>2, <1>3, <1>11, <3>2 DEF ConfigsThere
    <3>4. \A u \in CTasks : Manages(u, n)' => u = t
      BY <1>9, <3>2 DEF Manages
    <3>5. Managing(n)'
      BY <1>8, <1>9 DEF Managing
    <3>6. \A u \in CTasks : Manages(u, n)' => /\ job'[u].at = "insert" /\ job'[u].object = L + 1
                                             /\ job'[u].kind = "create"
      BY <1>8, <1>9, <3>4
    <3>7. objects'[L + 1].gen = dirs'[n].gen /\ dirs'[n].config /\ dirs'[n].there
      BY <1>3, <1>5, <1>6, <1>10, <3>2, <3>3
    <3>. QED  BY <1>4, <2>3, <3>2, <3>4, <3>5, <3>6, <3>7 DEF Uncrossed
  <2>. QED  BY <2>2, <2>3
<1>. QED  BY <1>6, <1>12, <1>14, <1>15 DEF CollectionsInv

\* The engine does not open: the directory may have been made again.
LEMMA CreateFailsKeeps ==
    ASSUME CollectionsInv, NEW t \in CTasks, CreateFails(t)
    PROVE  CollectionsInv'
<1>. PICK n : n = job[t].name
  OBVIOUS
<1>1. /\ n = job[t].name /\ job[t].kind = "create" /\ job[t].at = "open"
      /\ cmap' = cmap /\ objects' = objects /\ calls' = calls /\ cacked' = cacked
      /\ unopened' = unopened /\ wild' = wild /\ crossed' = crossed \cup {n}
      /\ job' = [job EXCEPT ![t] = NoJob]
  BY DEF CreateFails, FinishCall
<1>2. /\ job \in [CTasks -> Jobs] /\ dirs \in [CNames -> Dirs] /\ cmap \in [CNames -> Nat]
      /\ calls \in Nat /\ calls <= CMaxCalls
      /\ cacked \in SUBSET CNames /\ crossed \in SUBSET CNames /\ wild \in SUBSET CNames
      /\ unopened \in SUBSET CNames
  BY DEF CollectionsInv, CollectionsBase, CollectionsTyped
<1>3. n \in CNames /\ dirs[n] \in Dirs
  <2>1. job[t] \in Creating
    BY <1>1, <1>2, JobKinds
  <2>. QED  BY <1>1, <1>2, <2>1, CreatingFields
<1>4. /\ NoJob \in Jobs /\ NoJob.kind = "none" /\ job'[t] = NoJob
      /\ \A u \in CTasks : u # t => job'[u] = job[u]
  BY <1>1, <1>2, NoJobIs
<1>5. ConfigsThere /\ EntriesRefer /\ CollectionsBase
  BY DEF CollectionsInv, CollectionsBase
<1>6. /\ dirs' \in [CNames -> Dirs] /\ \A m \in CNames : m # n => dirs'[m] = dirs[m]
      /\ dirs'[n].config => dirs'[n].there
  <2>1. CASE dirs' = dirs
    BY <1>2, <1>3, <1>5, <2>1 DEF ConfigsThere
  <2>2. CASE dirs' = [dirs EXCEPT ![n].there = TRUE, ![n].gen = @ + 1]
    <3>1. PICK d, g : d = dirs[n] /\ g = d.gen + 1
      OBVIOUS
    <3>2. d \in Dirs /\ g \in Nat
      BY <1>3, <3>1 DEF Dirs
    <3>3. PICK e : e = [d EXCEPT !.there = TRUE, !.gen = g]
      OBVIOUS
    <3>4. e \in Dirs /\ e.there
      BY <3>2, <3>3 DEF Dirs
    <3>5. dirs' = [dirs EXCEPT ![n] = e]
      BY <1>2, <1>3, <2>2, <3>1, <3>3 DEF Dirs
    <3>. QED  BY <1>2, <1>3, <3>4, <3>5
  <2>. QED  BY <1>1, <2>1, <2>2 DEF CreateFails
<1>7. CollectionsBase'
  <2>1. EntriesRefer' /\ ConfigsThere'
    BY <1>1, <1>5, <1>6 DEF EntriesRefer, ConfigsThere
  <2>2. JobRefers(NoJob)'
    BY <1>4 DEF JobRefers
  <2>3. /\ calls' \in Nat /\ calls' <= CMaxCalls /\ cacked' \in SUBSET CNames
        /\ cmap' \in [CNames -> Nat] /\ unopened' \in SUBSET CNames
        /\ wild' \in SUBSET CNames /\ crossed' \in SUBSET CNames
    BY <1>1, <1>2, <1>3
  <2>. QED  BY <1>1, <1>4, <1>6, <2>1, <2>2, <2>3, BaseKept
<1>8. \A i \in 1..Len(objects') : Sound(i)'
  <2>1. job[t].kind = "create"
    BY <1>1
  <2>. QED  BY <1>1, <1>4, <2>1, AsideKeeps DEF CollectionsInv
<1>9. ASSUME NEW m \in CNames, m \notin crossed' PROVE Uncrossed(m)'
  <2>1. Uncrossed(m) /\ m # n
    BY <1>1, <1>9 DEF CollectionsInv
  <2>2. \A u \in CTasks : Manages(u, m) \/ Manages(u, m)' => job'[u] = job[u]
    BY <1>1, <1>4, <2>1 DEF Manages
  <2>3. SameName(m)
    BY <1>1, <1>6, <2>1, <2>2 DEF SameName
  <2>. QED  BY <1>5, <2>1, <2>3, UncrossedKept
<1>. QED  BY <1>7, <1>8, <1>9 DEF CollectionsInv

-----------------------------------------------------------------------------
(* The steps of a writer: one object, and the job of one task, change       *)

\* The object a task writes to.
LEMMA ObjectReplaced ==
    ASSUME objects \in Seq(Objects), NEW k \in 1..Len(objects), NEW x \in Objects,
           objects' = [objects EXCEPT ![k] = x]
    PROVE  /\ objects' \in Seq(Objects) /\ Len(objects') = Len(objects) /\ objects'[k] = x
           /\ \A i \in 1..Len(objects) : i # k => objects'[i] = objects[i]
<1>1. ASSUME NEW q \in Seq(Objects), NEW i \in 1..Len(q), NEW y \in Objects
      PROVE  /\ [q EXCEPT ![i] = y] \in Seq(Objects) /\ Len([q EXCEPT ![i] = y]) = Len(q)
             /\ [q EXCEPT ![i] = y][i] = y
             /\ \A m \in 1..Len(q) : m # i => [q EXCEPT ![i] = y][m] = q[m]
  OBVIOUS
<1>. QED  BY <1>1

\* The object of a writer, and the step seen from the other tasks.
LEMMA WriterFacts ==
    ASSUME CollectionsInv, NEW t \in CTasks, job[t].kind \in {"upsert", "delete"}
    PROVE  /\ job[t] \in Writing /\ job[t].object \in 1..Len(objects)
           /\ objects[job[t].object] \in Objects /\ Head(job[t].ids) \in CIds
           /\ Sound(job[t].object) /\ job \in [CTasks -> Jobs]
           /\ job[t].at \in {"storage", "index", "load", "store"}
           /\ job[t].at \in {"load", "store"} => job[t].kind = "upsert"
           /\ objects \in Seq(Objects)
<1>1. job \in [CTasks -> Jobs] /\ objects \in Seq(Objects)
  BY DEF CollectionsInv, CollectionsBase, CollectionsTyped
<1>2. job[t] \in Writing
  BY <1>1, JobKinds
<1>3. /\ job[t].object \in 1..Len(objects)
      /\ job[t].at \in {"load", "store"} => job[t].kind = "upsert"
  BY DEF CollectionsInv, CollectionsBase, JobRefers
<1>4. Head(job[t].ids) \in CIds /\ job[t].at \in {"storage", "index", "load", "store"}
  BY <1>2, WritingFields
<1>5. Sound(job[t].object)
  BY <1>3 DEF CollectionsInv
<1>6. objects[job[t].object] \in Objects
  BY <1>1, <1>3
<1>. QED  BY <1>1, <1>2, <1>3, <1>4, <1>5, <1>6

LEMMA TurnKeeps ==
    ASSUME CollectionsInv, NEW t \in CTasks, NEW k \in 1..Len(objects),
           job[t].kind \in {"upsert", "delete"}, job[t].object = k,
           NEW x \in Objects, x.name = objects[k].name, x.gen = objects[k].gen,
           objects' = [objects EXCEPT ![k] = x],
           NEW j \in Jobs, job' = [job EXCEPT ![t] = j], j.kind \notin {"create", "drop"},
           j.kind \in {"upsert", "delete"} =>
               j.object = k /\ (j.at \in {"load", "store"} => j.kind = "upsert"),
           dirs' \in [CNames -> Dirs],
           \A n \in CNames : /\ dirs'[n].there = dirs[n].there /\ dirs'[n].gen = dirs[n].gen
                             /\ dirs'[n].config = dirs[n].config,
           cmap' = cmap, calls' = calls, cacked' = cacked, crossed' = crossed, wild' = wild,
           unopened' = unopened,
           Sound(k)'
    PROVE  CollectionsInv'
<1>1. /\ job \in [CTasks -> Jobs] /\ objects \in Seq(Objects) /\ Len(objects) \in Nat
      /\ CollectionsBase /\ EntriesRefer /\ ConfigsThere
  BY DEF CollectionsInv, CollectionsBase, CollectionsTyped
<1>2. /\ objects' \in Seq(Objects) /\ Len(objects') = Len(objects) /\ objects'[k] = x
      /\ \A i \in 1..Len(objects) : i # k => objects'[i] = objects[i]
  BY <1>1, ObjectReplaced
<1>3. job'[t] = j /\ \A u \in CTasks : u # t => job'[u] = job[u]
  BY <1>1
<1>4. \A i \in 1..Len(objects) : /\ objects'[i].name = objects[i].name
                                 /\ objects'[i].gen = objects[i].gen
  BY <1>2
<1>5. CollectionsBase'
  <2>1. JobRefers(j)'
    BY <1>2 DEF JobRefers
  <2>2. Len(objects') \in Nat /\ Len(objects') >= Len(objects)
    BY <1>1, <1>2
  <2>3. job' \in [CTasks -> Jobs] /\ \A u \in CTasks : JobRefers(job[u])'
    BY <1>1, <1>4, <2>1, <2>2, JobsRefer
  <2>4. EntriesRefer' /\ ConfigsThere'
    BY <1>1, <1>2, <1>4 DEF EntriesRefer, ConfigsThere
  <2>5. CollectionsTyped'
    BY <1>1, <1>2, <2>3 DEF CollectionsBase, CollectionsTyped
  <2>. QED  BY <2>3, <2>4, <2>5 DEF CollectionsBase
<1>6. ASSUME NEW i \in 1..Len(objects') PROVE Sound(i)'
  <2>1. CASE i = k
    BY <2>1
  <2>2. CASE i # k
    <3>1. SameWriters(i)
      <4>1. ASSUME NEW u \in CTasks, NEW id \in CIds, NEW at \in {"index", "load", "store"}
            PROVE  /\ At(u, at, i, id)' <=> At(u, at, i, id)
                   /\ At(u, at, i, id) => /\ job'[u].kind = job[u].kind
                                          /\ job'[u].vector = job[u].vector
                                          /\ job'[u].seen = job[u].seen
        <5>1. CASE u = t
          BY <1>3, <2>2, <5>1 DEF At
        <5>2. CASE u # t
          BY <1>3, <5>2 DEF At
        <5>. QED  BY <5>1, <5>2
      <4>. QED  BY <4>1 DEF SameWriters
    <3>2. Sound(i) /\ objects'[i] = objects[i]
      BY <1>2, <2>2 DEF CollectionsInv
    <3>. QED  BY <1>1, <3>1, <3>2, SoundKept
  <2>. QED  BY <2>1, <2>2
<1>7. ASSUME NEW m \in CNames, m \notin crossed' PROVE Uncrossed(m)'
  <2>1. Uncrossed(m)
    BY <1>7 DEF CollectionsInv
  <2>2. \A u \in CTasks : Manages(u, m) \/ Manages(u, m)' => job'[u] = job[u]
    BY <1>3 DEF Manages
  <2>3. SameName(m)
    BY <1>4, <2>2 DEF SameName
  <2>. QED  BY <1>1, <2>1, <2>3, UncrossedKept
<1>. QED  BY <1>5, <1>6, <1>7 DEF CollectionsInv

\* What the next point of its job makes of where task t is.
LEMMA TurnAt ==
    ASSUME job \in [CTasks -> Jobs], NEW t \in CTasks, NEW j, job' = [job EXCEPT ![t] = j],
           NEW k
    PROVE  /\ job'[t] = j
           /\ \A u \in CTasks : u # t =>
                /\ job'[u] = job[u]
                /\ \A at, i : At(u, at, k, i)' <=> At(u, at, k, i)
                /\ \A i : PendingBy(u, k, i)' <=> PendingBy(u, k, i)
<1>1. job'[t] = j /\ \A u \in CTasks : u # t => job'[u] = job[u]
  OBVIOUS
<1>. QED  BY <1>1 DEF At, PendingBy

LEMMA LoadKeeps ==
    ASSUME CollectionsInv, NEW t \in CTasks, LoadNextId(t)
    PROVE  CollectionsInv'
<1>k. PICK k, id, o : k = job[t].object /\ id = Head(job[t].ids) /\ o = objects[k]
  OBVIOUS
<1>j. PICK j : j = [job[t] EXCEPT !.at = "store", !.seen = o.next_id]
  OBVIOUS
<1>1. /\ job[t].kind \in {"upsert", "delete"} /\ job[t].at = "load"
      /\ job' = [job EXCEPT ![t] = j]
      /\ dirs' = dirs /\ cmap' = cmap /\ objects' = objects /\ calls' = calls
      /\ cacked' = cacked /\ crossed' = crossed /\ wild' = wild /\ unopened' = unopened
  BY <1>k, <1>j DEF LoadNextId, Working, Object
<1>2. /\ job[t] \in Writing /\ k \in 1..Len(objects) /\ o \in Objects /\ id \in CIds
      /\ Sound(k) /\ job \in [CTasks -> Jobs] /\ job[t].kind = "upsert"
      /\ objects \in Seq(Objects)
  BY <1>k, <1>1, WriterFacts
<1>3. /\ j \in Writing /\ j.kind = "upsert" /\ j.object = k /\ j.at = "store"
      /\ j.seen = o.next_id /\ Head(j.ids) = id /\ j.vector = job[t].vector
  <2>1. PICK e, l : e = job[t] /\ l = o.next_id
    OBVIOUS
  <2>2. l \in Nat /\ e \in Writing /\ e.kind = "upsert" /\ e.object = k /\ Head(e.ids) = id
    BY <1>k, <1>2, <2>1, ObjectFields
  <2>3. j = [e EXCEPT !.at = "store", !.seen = l]
    BY <1>j, <2>1
  <2>4. j = [kind |-> "upsert", name |-> e.name, object |-> e.object, ids |-> e.ids,
             at |-> "store", vector |-> e.vector, seen |-> l]
    BY <2>2, <2>3 DEF Writing
  <2>5. /\ e.name \in CNames /\ e.object \in Nat /\ e.ids \in Seq(CIds) \ {<<>>}
        /\ e.vector \in 0..CMaxCalls
    BY <2>2 DEF Writing
  <2>. QED  BY <2>1, <2>2, <2>4, <2>5 DEF Writing
<1>4. j \in Jobs
  BY <1>3 DEF Jobs
<1>5. /\ job'[t] = j
      /\ \A u \in CTasks : u # t =>
           /\ job'[u] = job[u] /\ \A at, i : At(u, at, k, i)' <=> At(u, at, k, i)
           /\ \A i : PendingBy(u, k, i)' <=> PendingBy(u, k, i)
  BY <1>1, <1>2, TurnAt
<1>6. /\ \A i : At(t, "load", k, i) <=> i = id
      /\ \A i : ~At(t, "store", k, i) /\ ~At(t, "index", k, i)
      /\ \A i : At(t, "store", k, i)' <=> i = id
      /\ \A i : ~At(t, "load", k, i)' /\ ~At(t, "index", k, i)'
  BY <1>k, <1>1, <1>2, <1>3, <1>5 DEF At
<1>7. objects' = [objects EXCEPT ![k] = o] /\ objects'[k] = o
  BY <1>k, <1>1, <1>2
<1>8. Sound(k)'
  <2>1. Mirrored(k)'
    <3>1. ASSUME NEW u \in CTasks, NEW i \in CIds
          PROVE  /\ At(u, "index", k, i)' <=> At(u, "index", k, i)
                 /\ At(u, "index", k, i) => Written(job'[u]) = Written(job[u])
      BY <1>5, <1>6
    <3>2. Mirrored(k)
      BY <1>2 DEF Sound
    <3>. QED  BY <1>1, <3>1, <3>2 DEF Mirrored
  <2>2. \A i \in CIds : Pending(k, i) => Pending(k, i)'
    <3>1. ASSUME NEW i \in CIds, Pending(k, i) PROVE Pending(k, i)'
      <4>1. PICK u \in CTasks : PendingBy(u, k, i)
        BY <3>1 DEF Pending
      <4>2. CASE u = t
        BY <1>3, <1>5, <1>6, <4>1, <4>2 DEF Pending, PendingBy
      <4>3. CASE u # t
        BY <1>5, <4>1, <4>3 DEF Pending
      <4>. QED  BY <4>2, <4>3
    <3>. QED  BY <3>1
  <2>3. Built(k)'
    <3>1. ASSUME NEW u \in CTasks, NEW i \in CIds
          PROVE  /\ At(u, "load", k, i)' \/ At(u, "store", k, i)' => i \notin objects'[k].unbuilt
                 /\ At(u, "index", k, i)' /\ job'[u].kind = "delete" =>
                      objects'[k].stored[i] = 0 \/ i \notin objects'[k].unbuilt \/ Pending(k, i)'
      <4>1. Built(k)
        BY <1>2 DEF Sound
      <4>2. CASE u = t
        BY <1>1, <1>6, <4>1, <4>2 DEF Built
      <4>3. CASE u # t
        BY <1>1, <1>5, <2>2, <4>1, <4>3 DEF Built
      <4>. QED  BY <4>2, <4>3
    <3>. QED  BY <3>1 DEF Built
  <2>4. ASSUME Counted(k) PROVE Counted(k)'
    <3>0. /\ \A i \in IdsOf(objects[k].stored) : i \in CIds
          /\ Below(k, o.next_id) /\ o.next_id \in Nat
      BY <1>k, <1>2, <2>4, ObjectFields DEF IdsOf, Counted
    <3>1. Below(k, objects[k].next_id)'
      BY <1>k, <1>1, <2>2, <3>0 DEF Below
    <3>2. ASSUME NEW u \in CTasks, NEW i \in CIds, At(u, "store", k, i)'
          PROVE  job'[u].seen <= objects'[k].next_id /\ Below(k, job[u].seen)'
      <4>1. CASE u = t
        BY <1>3, <1>5, <1>7, <3>0, <3>1, <4>1, <1>k, <1>1
      <4>2. CASE u # t
        <5>1. At(u, "store", k, i) /\ job'[u] = job[u]
          BY <1>5, <3>2, <4>2
        <5>2. job[u].seen <= objects[k].next_id /\ Below(k, job[u].seen)
          BY <2>4, <5>1 DEF Counted
        <5>. QED  BY <1>1, <2>2, <3>0, <5>1, <5>2 DEF Below
      <4>. QED  BY <4>1, <4>2
    <3>. QED  BY <3>1, <3>2 DEF Counted
  <2>. QED  BY <1>1, <1>2, <2>1, <2>3, <2>4 DEF Sound
<1>9. dirs \in [CNames -> Dirs]
  BY DEF CollectionsInv, CollectionsBase, CollectionsTyped
<1>10. o.name = objects[k].name /\ o.gen = objects[k].gen /\ job[t].object = k
  BY <1>k
<1>. QED  BY <1>1, <1>2, <1>3, <1>4, <1>7, <1>8, <1>9, <1>10, TurnKeeps

\* The job of a writer that is done with one id.
LEMMA NextJob ==
    ASSUME NEW t \in CTasks, job[t] \in Writing, NextVector(t)
    PROVE  \E j \in Jobs : /\ job' = [job EXCEPT ![t] = j]
                           /\ j.kind \notin {"create", "drop"}
                           /\ j.kind \in {"upsert", "delete"} =>
                                 j.object = job[t].object /\ j.at = "storage"
<1>1. PICK e : e = job[t]
  OBVIOUS
<1>2. PICK j : j = IF Len(e.ids) = 1 THEN NoJob ELSE [e EXCEPT !.ids = Tail(e.ids), !.at = "storage"]
  OBVIOUS
<1>3. job' = [job EXCEPT ![t] = j]
  <2>1. job' = [job EXCEPT ![t] = IF Len(job[t].ids) = 1 THEN NoJob
                                  ELSE [job[t] EXCEPT !.ids = Tail(job[t].ids), !.at = "storage"]]
    BY DEF NextVector
  <2>2. j = IF Len(job[t].ids) = 1 THEN NoJob
            ELSE [job[t] EXCEPT !.ids = Tail(job[t].ids), !.at = "storage"]
    BY <1>1, <1>2
  <2>. QED  BY <2>1, <2>2, Zenon
<1>4. CASE Len(e.ids) = 1
  BY <1>2, <1>3, <1>4, NoJobIs
<1>5. CASE Len(e.ids) # 1
  <2>1. /\ e \in Writing /\ e.kind \in {"upsert", "delete"} /\ e.name \in CNames
        /\ e.object \in Nat /\ e.ids \in Seq(CIds) /\ e.ids # <<>>
        /\ e.vector \in 0..CMaxCalls /\ e.seen \in Nat
    BY <1>1, WritingFields
  <2>2. ASSUME NEW q \in Seq(CIds), q # <<>>, Len(q) # 1
        PROVE  Tail(q) \in Seq(CIds) /\ Tail(q) # <<>>
    <3>1. Tail(q) \in Seq(CIds) /\ Len(Tail(q)) = Len(q) - 1 /\ Len(q) \in Nat /\ Len(q) # 0
      BY <2>2
    <3>2. Len(Tail(q)) # 0
      BY <2>2, <3>1
    <3>. QED  BY <3>1, <3>2
  <2>3. PICK rest : rest = Tail(e.ids)
    OBVIOUS
  <2>4. rest \in Seq(CIds) \ {<<>>}
    BY <1>5, <2>1, <2>2, <2>3
  <2>5. j = [e EXCEPT !.ids = rest, !.at = "storage"]
    BY <1>2, <1>5, <2>3
  <2>6. j = [kind |-> e.kind, name |-> e.name, object |-> e.object, ids |-> rest,
             at |-> "storage", vector |-> e.vector, seen |-> e.seen]
    BY <2>1, <2>5 DEF Writing
  <2>7. j \in Writing /\ j.object = e.object /\ j.at = "storage" /\ j.kind = e.kind
    BY <2>1, <2>4, <2>6 DEF Writing
  <2>8. j \in Jobs
    BY <2>7 DEF Jobs
  <2>. QED  BY <1>1, <1>3, <2>1, <2>7, <2>8
<1>. QED  BY <1>4, <1>5

LEMMA PutKeeps ==
    ASSUME CollectionsInv, NEW t \in CTasks, WriteStorage(t)
    PROVE  CollectionsInv'
<1>k. PICK k, id, o : k = job[t].object /\ id = Head(job[t].ids) /\ o = objects[k]
  OBVIOUS
<1>v. PICK v, w : /\ v = Written(job[t])
                  /\ w = IF job[t].kind = "upsert" THEN o.tombs ELSE o.tombs \cup {id}
  OBVIOUS
<1>x. PICK x : x = [o EXCEPT !.stored = [o.stored EXCEPT ![id] = v], !.tombs = w,
                             !.mixed = IF Others(t, id) # {} THEN o.mixed \cup {id} ELSE o.mixed]
  OBVIOUS
<1>j. PICK j : j = [job[t] EXCEPT !.at = "index"]
  OBVIOUS
<1>1. /\ job[t].kind \in {"upsert", "delete"} /\ job[t].at = "storage"
      /\ job' = [job EXCEPT ![t] = j]
      /\ cmap' = cmap /\ calls' = calls
      /\ cacked' = cacked /\ crossed' = crossed /\ wild' = wild /\ unopened' = unopened
  BY <1>j DEF WriteStorage, Working
<1>2. /\ job[t] \in Writing /\ k \in 1..Len(objects) /\ o \in Objects /\ id \in CIds
      /\ Sound(k) /\ job \in [CTasks -> Jobs] /\ objects \in Seq(Objects)
  BY <1>k, <1>1, WriterFacts
<1>3. /\ j \in Writing /\ j.kind = job[t].kind /\ j.object = k /\ j.at = "index"
      /\ Head(j.ids) = id /\ j.vector = job[t].vector
  BY <1>k, <1>j, <1>2 DEF Writing
<1>4. j \in Jobs
  BY <1>3 DEF Jobs
<1>5. /\ job'[t] = j
      /\ \A u \in CTasks : u # t =>
           /\ job'[u] = job[u] /\ \A at, i : At(u, at, k, i)' <=> At(u, at, k, i)
           /\ \A i : PendingBy(u, k, i)' <=> PendingBy(u, k, i)
  BY <1>1, <1>2, TurnAt
<1>6. /\ \A i : \A at \in {"index", "load", "store"} : ~At(t, at, k, i)
      /\ \A i : At(t, "index", k, i)' <=> i = id
      /\ \A i : ~At(t, "load", k, i)' /\ ~At(t, "store", k, i)'
  BY <1>k, <1>1, <1>2, <1>3, <1>5 DEF At
<1>7. /\ v \in 0..CMaxCalls /\ Written(j) = v
      /\ v # 0 => job[t].kind = "upsert"
  BY <1>v, <1>2, <1>3, WritingFields, CollectionsAssumption DEF Written
<1>8. /\ o.stored \in [CIds -> 0..CMaxCalls] /\ o.mixed \in SUBSET CIds /\ w \in SUBSET CIds
  BY <1>v, <1>2, ObjectFields
<1>9. /\ x \in Objects /\ x.name = o.name /\ x.gen = o.gen
      /\ x.index = o.index /\ x.next_id = o.next_id /\ x.unbuilt = o.unbuilt
      /\ x.overlapped = o.overlapped
      /\ x.stored = [o.stored EXCEPT ![id] = v]
      /\ x.mixed = IF Others(t, id) # {} THEN o.mixed \cup {id} ELSE o.mixed
  <2>1. PICK m, q : /\ m = IF Others(t, id) # {} THEN o.mixed \cup {id} ELSE o.mixed
                    /\ q = [o.stored EXCEPT ![id] = v]
    OBVIOUS
  <2>2. m \in SUBSET CIds /\ q \in [CIds -> 0..CMaxCalls]
    BY <1>2, <1>7, <1>8, <2>1
  <2>3. x = [o EXCEPT !.stored = q, !.tombs = w, !.mixed = m]
    BY <1>x, <2>1
  <2>4. x = [name |-> o.name, gen |-> o.gen, stored |-> q, tombs |-> w, index |-> o.index,
             next_id |-> o.next_id, unbuilt |-> o.unbuilt, mixed |-> m,
             overlapped |-> o.overlapped]
    BY <1>2, <2>3 DEF Objects
  <2>. QED  BY <1>2, <1>8, <2>1, <2>2, <2>4 DEF Objects
<1>10. objects' = [objects EXCEPT ![k] = x]
  <2>1. objects' = [objects EXCEPT ![k].stored[id] = v,
                        ![k].tombs = IF job[t].kind = "upsert" THEN @ ELSE @ \cup {id},
                        ![k].mixed = IF Others(t, id) # {} THEN @ \cup {id} ELSE @]
    BY <1>k, <1>v DEF WriteStorage
  <2>2. objects[k] \in Objects /\ k \in DOMAIN objects
    BY <1>k, <1>2
  <2>. QED  BY <1>k, <1>v, <1>x, <2>1, <2>2 DEF Objects
<1>11. objects'[k] = x
  BY <1>2, <1>9, <1>10, ObjectReplaced
<1>12. /\ \A i \in CIds : i # id => x.stored[i] = o.stored[i]
       /\ x.stored[id] = v
  BY <1>2, <1>8, <1>9
<1>13. \A i : Pending(k, i) => Pending(k, i)'
  <2>1. ASSUME NEW i, NEW u \in CTasks, PendingBy(u, k, i) PROVE Pending(k, i)'
    <3>1. u # t
      BY <1>6, <2>1 DEF PendingBy
    <3>. QED  BY <1>5, <2>1, <3>1 DEF Pending
  <2>. QED  BY <2>1 DEF Pending
<1>14. job[t].kind = "upsert" => Pending(k, id)'
  <2>1. job[t].kind = "upsert" => PendingBy(t, k, id)'
    BY <1>3, <1>5, <1>6 DEF PendingBy
  <2>. QED  BY <2>1 DEF Pending
<1>15. ASSUME id \notin x.mixed, NEW u \in CTasks, u # t PROVE ~At(u, "index", k, id)
  <2>1. Others(t, id) = {}
    BY <1>9, <1>15
  <2>2. SUFFICES ASSUME At(u, "index", k, id) PROVE FALSE
    OBVIOUS
  <2>3. job[u].ids # <<>>
    BY <1>2, <2>2, JobKinds, WritingFields DEF At
  <2>4. u \in Others(t, id)
    BY <1>k, <1>15, <2>2, <2>3 DEF Others, At
  <2>. QED  BY <2>1, <2>4
<1>16. Mirrored(k)'
  <2>1. ASSUME NEW i \in CIds, i \notin x.mixed
        PROVE  /\ i \notin x.unbuilt => \/ x.index[i] = x.stored[i]
                                        \/ \E u \in CTasks : At(u, "index", k, i)'
               /\ \A u \in CTasks : At(u, "index", k, i)' => x.stored[i] = Written(job'[u])
    <3>1. CASE i = id
      <4>1. At(t, "index", k, i)'
        BY <1>6, <3>1
      <4>2. \A u \in CTasks : At(u, "index", k, i)' => u = t
        BY <1>5, <1>15, <2>1, <3>1
      <4>. QED  BY <1>5, <1>7, <1>12, <3>1, <4>1, <4>2
    <3>2. CASE i # id
      <4>1. i \notin o.mixed
        BY <1>9, <2>1
      <4>2. /\ i \notin o.unbuilt => \/ o.index[i] = o.stored[i]
                                     \/ \E u \in CTasks : At(u, "index", k, i)
            /\ \A u \in CTasks : At(u, "index", k, i) => o.stored[i] = Written(job[u])
        BY <1>k, <1>2, <4>1 DEF Sound, Mirrored
      <4>3. \A u \in CTasks : At(u, "index", k, i)' <=> At(u, "index", k, i)
        BY <1>5, <1>6, <3>2
      <4>4. \A u \in CTasks : At(u, "index", k, i) => job'[u] = job[u]
        BY <1>5, <1>6
      <4>. QED  BY <1>9, <1>12, <3>2, <4>2, <4>3, <4>4
    <3>. QED  BY <3>1, <3>2
  <2>. QED  BY <1>11, <2>1 DEF Mirrored
<1>17. Built(k)'
  <2>1. ASSUME NEW u \in CTasks, NEW i \in CIds
        PROVE  /\ At(u, "load", k, i)' \/ At(u, "store", k, i)' => i \notin x.unbuilt
               /\ At(u, "index", k, i)' /\ job'[u].kind = "delete" =>
                    x.stored[i] = 0 \/ i \notin x.unbuilt \/ Pending(k, i)'
    <3>1. Built(k)
      BY <1>2 DEF Sound
    <3>2. CASE u = t
      <4>1. At(u, "index", k, i)' /\ job'[u].kind = "delete" => x.stored[i] = 0
        BY <1>3, <1>5, <1>6, <1>7, <1>12, <3>2
      <4>. QED  BY <1>6, <3>2, <4>1
    <3>3. CASE u # t /\ i # id
      <4>1. /\ At(u, "load", k, i)' <=> At(u, "load", k, i)
            /\ At(u, "store", k, i)' <=> At(u, "store", k, i)
            /\ At(u, "index", k, i)' <=> At(u, "index", k, i)
            /\ job'[u] = job[u] /\ x.unbuilt = o.unbuilt /\ x.stored[i] = o.stored[i]
        BY <1>5, <1>9, <1>12, <3>3
      <4>2. /\ At(u, "load", k, i) \/ At(u, "store", k, i) => i \notin o.unbuilt
            /\ At(u, "index", k, i) /\ job[u].kind = "delete" =>
                  o.stored[i] = 0 \/ i \notin o.unbuilt \/ Pending(k, i)
        BY <1>k, <3>1 DEF Built
      <4>. QED  BY <1>13, <4>1, <4>2
    <3>4. CASE u # t /\ i = id
      <4>1. x.stored[i] = 0 \/ Pending(k, i)'
        BY <1>7, <1>12, <1>14, <3>4
      <4>. QED  BY <1>k, <1>5, <1>9, <3>1, <3>4, <4>1 DEF Built
    <3>. QED  BY <3>2, <3>3, <3>4
  <2>. QED  BY <1>11, <2>1 DEF Built
<1>18. ASSUME NEW b, Below(k, b)
       PROVE  \A i \in IdsOf(x.stored) \ x.unbuilt : i < b \/ Pending(k, i)'
  <2>1. ASSUME NEW i \in IdsOf(x.stored), i \notin x.unbuilt PROVE i < b \/ Pending(k, i)'
    <3>1. i \in CIds /\ x.stored[i] # 0
      BY <2>1 DEF IdsOf
    <3>2. CASE i = id
      BY <1>7, <1>12, <1>14, <3>1, <3>2
    <3>3. CASE i # id
      <4>1. i \in IdsOf(o.stored) \ o.unbuilt
        BY <1>9, <1>12, <2>1, <3>1, <3>3 DEF IdsOf
      <4>. QED  BY <1>k, <1>13, <1>18, <4>1 DEF Below
    <3>. QED  BY <3>2, <3>3
  <2>. QED  BY <2>1
<1>19. ASSUME Counted(k) PROVE Counted(k)'
  <2>1. Below(k, objects[k].next_id)'
    BY <1>k, <1>9, <1>11, <1>18, <1>19 DEF Counted, Below
  <2>2. ASSUME NEW u \in CTasks, NEW i \in CIds, At(u, "store", k, i)'
        PROVE  job'[u].seen <= objects'[k].next_id /\ Below(k, job[u].seen)'
    <3>1. u # t /\ At(u, "store", k, i) /\ job'[u] = job[u]
      BY <1>5, <1>6, <2>2
    <3>2. job[u].seen <= objects[k].next_id /\ Below(k, job[u].seen)
      BY <1>19, <3>1 DEF Counted
    <3>. QED  BY <1>k, <1>9, <1>11, <1>18, <3>1, <3>2 DEF Below
  <2>. QED  BY <2>1, <2>2 DEF Counted
<1>20. Sound(k)'
  BY <1>k, <1>2, <1>9, <1>11, <1>16, <1>17, <1>19 DEF Sound
<1>21. /\ dirs' \in [CNames -> Dirs]
       /\ \A n \in CNames : /\ dirs'[n].there = dirs[n].there /\ dirs'[n].gen = dirs[n].gen
                            /\ dirs'[n].config = dirs[n].config
  <2>1. AddRecord(t)
    BY DEF WriteStorage
  <2>. QED  BY <1>1, <2>1, RecordAdded
<1>22. x.name = objects[k].name /\ x.gen = objects[k].gen /\ job[t].object = k
  BY <1>k, <1>9
<1>. QED  BY <1>1, <1>2, <1>3, <1>4, <1>9, <1>10, <1>20, <1>21, <1>22, TurnKeeps

\* A put that is refused: the memtable drops the tombstone.
LEMMA RefuseKeeps ==
    ASSUME CollectionsInv, NEW t \in CTasks, RefuseStorage(t)
    PROVE  CollectionsInv'
<1>k. PICK k, o, w : k = job[t].object /\ o = objects[k] /\ w = o.tombs \ {Head(job[t].ids)}
  OBVIOUS
<1>x. PICK x : x = [o EXCEPT !.tombs = w]
  OBVIOUS
<1>1. /\ job[t].kind \in {"upsert", "delete"} /\ job[t].at = "storage"
      /\ job' = [job EXCEPT ![t] = NoJob]
      /\ cmap' = cmap /\ calls' = calls
      /\ cacked' = cacked /\ crossed' = crossed /\ wild' = wild /\ unopened' = unopened
      /\ objects' = [objects EXCEPT ![k].tombs = w] /\ AddRecord(t)
  BY <1>k DEF RefuseStorage, Working, FinishCall
<1>2. /\ job[t] \in Writing /\ k \in 1..Len(objects) /\ o \in Objects
      /\ Sound(k) /\ job \in [CTasks -> Jobs] /\ objects \in Seq(Objects)
  BY <1>k, <1>1, WriterFacts
<1>3. w \in SUBSET CIds
  BY <1>k, <1>2, ObjectFields
<1>4. /\ x \in Objects /\ x.name = o.name /\ x.gen = o.gen /\ x.stored = o.stored
      /\ x.index = o.index /\ x.next_id = o.next_id /\ x.unbuilt = o.unbuilt
      /\ x.mixed = o.mixed /\ x.overlapped = o.overlapped
  BY <1>x, <1>2, <1>3 DEF Objects
<1>5. objects' = [objects EXCEPT ![k] = x] /\ objects'[k] = x
  <2>1. objects' = [objects EXCEPT ![k] = x]
    BY <1>k, <1>x, <1>1, <1>2 DEF Objects
  <2>. QED  BY <1>2, <1>4, <2>1, ObjectReplaced
<1>6. NoJob \in Jobs /\ NoJob.kind = "none" /\ job'[t] = NoJob
  BY <1>1, <1>2, NoJobIs
<1>7. SameWriters(k)
  <2>1. ASSUME NEW u \in CTasks, NEW i \in CIds, NEW at \in {"index", "load", "store"}
        PROVE  /\ At(u, at, k, i)' <=> At(u, at, k, i)
               /\ At(u, at, k, i) => /\ job'[u].kind = job[u].kind
                                     /\ job'[u].vector = job[u].vector
                                     /\ job'[u].seen = job[u].seen
    <3>1. CASE u = t
      BY <1>1, <1>6, <2>1, <3>1 DEF At
    <3>2. CASE u # t
      <4>1. job'[u] = job[u]
        BY <1>1, <1>2, <3>2
      <4>. QED  BY <4>1 DEF At
    <3>. QED  BY <3>1, <3>2
  <2>. QED  BY <2>1 DEF SameWriters
<1>8. Sound(k)'
  <2>1. CollectionsBase
    BY DEF CollectionsInv
  <2>. QED  BY <1>k, <1>2, <1>4, <1>5, <1>7, <2>1, SoundKept
<1>9. /\ dirs' \in [CNames -> Dirs]
      /\ \A n \in CNames : /\ dirs'[n].there = dirs[n].there /\ dirs'[n].gen = dirs[n].gen
                           /\ dirs'[n].config = dirs[n].config
  BY <1>1, RecordAdded
<1>10. x.name = objects[k].name /\ x.gen = objects[k].gen /\ job[t].object = k
  BY <1>k, <1>4
<1>. QED  BY <1>1, <1>2, <1>4, <1>5, <1>6, <1>8, <1>9, <1>10, TurnKeeps

LEMMA IndexKeeps ==
    ASSUME CollectionsInv, NEW t \in CTasks, WriteIndex(t)
    PROVE  CollectionsInv'
<1>k. PICK k, id, o : k = job[t].object /\ id = Head(job[t].ids) /\ o = objects[k]
  OBVIOUS
<1>v. PICK v : v = Written(job[t])
  OBVIOUS
<1>x. PICK x : x = [o EXCEPT !.index = [o.index EXCEPT ![id] = v],
                             !.unbuilt = o.unbuilt \ {id}]
  OBVIOUS
<1>1. /\ job[t].kind \in {"upsert", "delete"} /\ job[t].at = "index"
      /\ dirs' = dirs /\ cmap' = cmap /\ calls' = calls
      /\ cacked' = cacked /\ crossed' = crossed /\ wild' = wild /\ unopened' = unopened
  BY DEF WriteIndex, Working
<1>2. /\ job[t] \in Writing /\ k \in 1..Len(objects) /\ o \in Objects /\ id \in CIds
      /\ Sound(k) /\ job \in [CTasks -> Jobs] /\ objects \in Seq(Objects)
  BY <1>k, <1>1, WriterFacts
<1>j. PICK j \in Jobs :
         /\ job' = [job EXCEPT ![t] = j] /\ j.kind \notin {"create", "drop"}
         /\ job[t].kind = "upsert" =>
              j.kind = "upsert" /\ j.at = "load" /\ j.object = k /\ Head(j.ids) = id
         /\ job[t].kind # "upsert" =>
              (j.kind \in {"upsert", "delete"} => j.at = "storage" /\ j.object = k)
  <2>1. CASE job[t].kind = "upsert"
    <3>1. PICK j : j = [job[t] EXCEPT !.at = "load"]
      OBVIOUS
    <3>2. job' = [job EXCEPT ![t] = j]
      BY <2>1, <3>1 DEF WriteIndex
    <3>3. /\ j \in Writing /\ j.kind = "upsert" /\ j.at = "load" /\ j.object = k
          /\ Head(j.ids) = id
      BY <1>k, <1>2, <2>1, <3>1 DEF Writing
    <3>4. j \in Jobs
      BY <3>3 DEF Jobs
    <3>. QED  BY <2>1, <3>2, <3>3, <3>4
  <2>2. CASE job[t].kind # "upsert"
    <3>1. NextVector(t)
      BY <2>2 DEF WriteIndex
    <3>. QED  BY <1>k, <1>2, <2>2, <3>1, NextJob
  <2>. QED  BY <2>1, <2>2
<1>3. j.kind \in {"upsert", "delete"} =>
        j.object = k /\ (j.at \in {"load", "store"} => j.kind = "upsert")
  BY <1>1, <1>j
<1>5. /\ job'[t] = j
      /\ \A u \in CTasks : u # t =>
           /\ job'[u] = job[u] /\ \A at, i : At(u, at, k, i)' <=> At(u, at, k, i)
           /\ \A i : PendingBy(u, k, i)' <=> PendingBy(u, k, i)
  BY <1>j, <1>2, TurnAt
<1>6. /\ \A i : At(t, "index", k, i) <=> i = id
      /\ \A i : ~At(t, "load", k, i) /\ ~At(t, "store", k, i)
      /\ \A i : At(t, "load", k, i)' <=> i = id /\ job[t].kind = "upsert"
      /\ \A i : ~At(t, "index", k, i)' /\ ~At(t, "store", k, i)'
  BY <1>k, <1>1, <1>j, <1>5 DEF At
<1>7. v \in 0..CMaxCalls
  BY <1>v, <1>2, WritingFields, CollectionsAssumption DEF Written
<1>8. o.index \in [CIds -> 0..CMaxCalls] /\ o.unbuilt \in SUBSET CIds
  BY <1>2, ObjectFields
<1>9. /\ x \in Objects /\ x.name = o.name /\ x.gen = o.gen
      /\ x.stored = o.stored /\ x.next_id = o.next_id /\ x.mixed = o.mixed
      /\ x.overlapped = o.overlapped
      /\ x.index = [o.index EXCEPT ![id] = v] /\ x.unbuilt = o.unbuilt \ {id}
  <2>1. PICK m, q : m = o.unbuilt \ {id} /\ q = [o.index EXCEPT ![id] = v]
    OBVIOUS
  <2>2. m \in SUBSET CIds /\ q \in [CIds -> 0..CMaxCalls]
    BY <1>2, <1>7, <1>8, <2>1
  <2>3. x = [o EXCEPT !.index = q, !.unbuilt = m]
    BY <1>x, <2>1
  <2>4. x = [name |-> o.name, gen |-> o.gen, stored |-> o.stored, tombs |-> o.tombs, index |-> q,
             next_id |-> o.next_id, unbuilt |-> m, mixed |-> o.mixed,
             overlapped |-> o.overlapped]
    BY <1>2, <2>3 DEF Objects
  <2>. QED  BY <1>2, <2>1, <2>2, <2>4 DEF Objects
<1>10. objects' = [objects EXCEPT ![k] = x]
  <2>1. objects' = [objects EXCEPT ![k].index = [@ EXCEPT ![id] = v],
                        ![k].unbuilt = @ \ {id}]
    BY <1>k, <1>v DEF WriteIndex, Indexed, Written
  <2>2. objects[k] \in Objects /\ k \in DOMAIN objects
    BY <1>k, <1>2
  <2>. QED  BY <1>k, <1>x, <2>1, <2>2 DEF Objects
<1>11. objects'[k] = x
  BY <1>2, <1>9, <1>10, ObjectReplaced
<1>12. /\ \A i \in CIds : i # id => x.index[i] = o.index[i]
       /\ x.index[id] = v
  BY <1>2, <1>8, <1>9
<1>13. \A i : Pending(k, i) => Pending(k, i)'
  <2>1. ASSUME NEW i, NEW u \in CTasks, PendingBy(u, k, i) PROVE Pending(k, i)'
    <3>1. CASE u = t
      <4>1. job[t].kind = "upsert" /\ i = id
        BY <1>6, <2>1, <3>1 DEF PendingBy
      <4>2. PendingBy(t, k, i)'
        BY <1>j, <1>5, <1>6, <4>1 DEF PendingBy
      <4>. QED  BY <4>2 DEF Pending
    <3>2. CASE u # t
      BY <1>5, <2>1, <3>2 DEF Pending
    <3>. QED  BY <3>1, <3>2
  <2>. QED  BY <2>1 DEF Pending
<1>14. job[t].kind = "upsert" => Pending(k, id)'
  <2>1. job[t].kind = "upsert" => PendingBy(t, k, id)'
    BY <1>j, <1>5, <1>6 DEF PendingBy
  <2>. QED  BY <2>1 DEF Pending
<1>15. id \in o.unbuilt /\ o.stored[id] # 0 => Pending(k, id)'
  <2>1. Built(k) /\ At(t, "index", k, id)
    BY <1>2, <1>6 DEF Sound
  <2>2. job[t].kind = "delete" => o.stored[id] = 0 \/ id \notin o.unbuilt \/ Pending(k, id)
    BY <1>k, <1>2, <2>1 DEF Built
  <2>. QED  BY <1>1, <1>13, <1>14, <2>2
<1>16. Mirrored(k)'
  <2>1. ASSUME NEW i \in CIds, i \notin x.mixed
        PROVE  /\ i \notin x.unbuilt => \/ x.index[i] = x.stored[i]
                                        \/ \E u \in CTasks : At(u, "index", k, i)'
               /\ \A u \in CTasks : At(u, "index", k, i)' => x.stored[i] = Written(job'[u])
    <3>1. /\ i \notin o.unbuilt => \/ o.index[i] = o.stored[i]
                                   \/ \E u \in CTasks : At(u, "index", k, i)
          /\ \A u \in CTasks : At(u, "index", k, i) => o.stored[i] = Written(job[u])
      BY <1>k, <1>2, <1>9, <2>1 DEF Sound, Mirrored
    <3>2. \A u \in CTasks : At(u, "index", k, i)' => x.stored[i] = Written(job'[u])
      BY <1>5, <1>6, <1>9, <3>1
    <3>3. CASE i = id
      BY <1>v, <1>6, <1>9, <1>12, <3>1, <3>2, <3>3
    <3>4. CASE i # id
      <4>1. \A u \in CTasks : At(u, "index", k, i) => At(u, "index", k, i)'
        BY <1>5, <1>6, <3>4
      <4>. QED  BY <1>9, <1>12, <3>1, <3>2, <3>4, <4>1
    <3>. QED  BY <3>3, <3>4
  <2>. QED  BY <1>11, <2>1 DEF Mirrored
<1>17. Built(k)'
  <2>1. ASSUME NEW u \in CTasks, NEW i \in CIds
        PROVE  /\ At(u, "load", k, i)' \/ At(u, "store", k, i)' => i \notin x.unbuilt
               /\ At(u, "index", k, i)' /\ job'[u].kind = "delete" =>
                    x.stored[i] = 0 \/ i \notin x.unbuilt \/ Pending(k, i)'
    <3>1. Built(k)
      BY <1>2 DEF Sound
    <3>2. CASE u = t
      BY <1>6, <1>9, <3>2
    <3>3. CASE u # t
      BY <1>k, <1>5, <1>9, <1>13, <3>1, <3>3 DEF Built
    <3>. QED  BY <3>2, <3>3
  <2>. QED  BY <1>11, <2>1 DEF Built
<1>18. ASSUME NEW b, Below(k, b)
       PROVE  \A i \in IdsOf(x.stored) \ x.unbuilt : i < b \/ Pending(k, i)'
  <2>1. ASSUME NEW i \in IdsOf(x.stored), i \notin x.unbuilt PROVE i < b \/ Pending(k, i)'
    <3>1. i \in CIds /\ o.stored[i] # 0 /\ i \in IdsOf(o.stored)
      BY <1>9, <2>1 DEF IdsOf
    <3>2. CASE i \in o.unbuilt
      BY <1>9, <1>15, <2>1, <3>1, <3>2
    <3>3. CASE i \notin o.unbuilt
      BY <1>k, <1>13, <1>18, <3>1, <3>3 DEF Below
    <3>. QED  BY <3>2, <3>3
  <2>. QED  BY <2>1
<1>19. ASSUME Counted(k) PROVE Counted(k)'
  <2>1. Below(k, objects[k].next_id)'
    BY <1>k, <1>9, <1>11, <1>18, <1>19 DEF Counted, Below
  <2>2. ASSUME NEW u \in CTasks, NEW i \in CIds, At(u, "store", k, i)'
        PROVE  job'[u].seen <= objects'[k].next_id /\ Below(k, job[u].seen)'
    <3>1. u # t /\ At(u, "store", k, i) /\ job'[u] = job[u]
      BY <1>5, <1>6, <2>2
    <3>2. job[u].seen <= objects[k].next_id /\ Below(k, job[u].seen)
      BY <1>19, <3>1 DEF Counted
    <3>. QED  BY <1>k, <1>9, <1>11, <1>18, <3>1, <3>2 DEF Below
  <2>. QED  BY <2>1, <2>2 DEF Counted
<1>20. Sound(k)'
  BY <1>k, <1>2, <1>9, <1>11, <1>16, <1>17, <1>19 DEF Sound
<1>21. dirs \in [CNames -> Dirs]
  BY DEF CollectionsInv, CollectionsBase, CollectionsTyped
<1>22. x.name = objects[k].name /\ x.gen = objects[k].gen /\ job[t].object = k
  BY <1>k, <1>9
<1>. QED  BY <1>1, <1>2, <1>3, <1>j, <1>9, <1>10, <1>20, <1>21, <1>22, TurnKeeps

\* The store of the counter: nothing was stored since it was loaded, unless two
\* tasks were about to store at once.
LEMMA StoreKeeps ==
    ASSUME CollectionsInv, NEW t \in CTasks, StoreNextId(t)
    PROVE  CollectionsInv'
<1>k. PICK k, id, o : k = job[t].object /\ id = Head(job[t].ids) /\ o = objects[k]
  OBVIOUS
<1>v. PICK b, r : /\ b = IF Reached(id, job[t].seen) THEN id + 1 ELSE o.next_id
                  /\ r = (o.overlapped \/ \E u \in CTasks \ {t} :
                                              Working(u, "store") /\ job[u].object = k)
  OBVIOUS
<1>x. PICK x : x = [o EXCEPT !.next_id = b, !.overlapped = r]
  OBVIOUS
<1>1. /\ job[t].kind \in {"upsert", "delete"} /\ job[t].at = "store"
      /\ dirs' = dirs /\ cmap' = cmap /\ calls' = calls
      /\ cacked' = cacked /\ crossed' = crossed /\ wild' = wild /\ unopened' = unopened
      /\ NextVector(t)
  BY DEF StoreNextId, Working
<1>2. /\ job[t] \in Writing /\ k \in 1..Len(objects) /\ o \in Objects /\ id \in CIds
      /\ Sound(k) /\ job \in [CTasks -> Jobs] /\ job[t].kind = "upsert"
      /\ objects \in Seq(Objects)
  BY <1>k, <1>1, WriterFacts
<1>j. PICK j \in Jobs :
         /\ job' = [job EXCEPT ![t] = j] /\ j.kind \notin {"create", "drop"}
         /\ j.kind \in {"upsert", "delete"} => j.object = k /\ j.at = "storage"
  BY <1>k, <1>1, <1>2, NextJob
<1>5. /\ job'[t] = j
      /\ \A u \in CTasks : u # t =>
           /\ job'[u] = job[u] /\ \A at, i : At(u, at, k, i)' <=> At(u, at, k, i)
           /\ \A i : PendingBy(u, k, i)' <=> PendingBy(u, k, i)
  BY <1>j, <1>2, TurnAt
<1>6. /\ \A i : At(t, "store", k, i) <=> i = id
      /\ \A i : ~At(t, "load", k, i) /\ ~At(t, "index", k, i)
      /\ \A i : \A at \in {"index", "load", "store"} : ~At(t, at, k, i)'
  BY <1>k, <1>1, <1>j, <1>5 DEF At
<1>7. /\ b \in Nat /\ r \in BOOLEAN /\ id \in Nat /\ o.next_id \in Nat /\ job[t].seen \in Nat
      /\ o.overlapped \in BOOLEAN
  BY <1>v, <1>2, WritingFields, ObjectFields, CollectionsAssumption
<1>9. /\ x \in Objects /\ x.name = o.name /\ x.gen = o.gen /\ x.index = o.index
      /\ x.stored = o.stored /\ x.unbuilt = o.unbuilt /\ x.mixed = o.mixed
      /\ x.next_id = b /\ x.overlapped = r
  <2>1. x = [name |-> o.name, gen |-> o.gen, stored |-> o.stored, tombs |-> o.tombs, index |-> o.index,
             next_id |-> b, unbuilt |-> o.unbuilt, mixed |-> o.mixed, overlapped |-> r]
    BY <1>2, <1>x DEF Objects
  <2>. QED  BY <1>2, <1>7, <2>1 DEF Objects
<1>10. objects' = [objects EXCEPT ![k] = x]
  <2>1. PICK c : c = \E u \in CTasks \ {t} : Working(u, "store") /\ job[u].object = k
    OBVIOUS
  <2>2. objects' = [objects EXCEPT
                        ![k].next_id = IF Reached(id, job[t].seen) THEN id + 1 ELSE @,
                        ![k].overlapped = @ \/ c]
    BY <1>k, <2>1 DEF StoreNextId
  <2>3. x = [o EXCEPT !.next_id = IF Reached(id, job[t].seen) THEN id + 1 ELSE o.next_id,
                      !.overlapped = o.overlapped \/ c]
    BY <1>v, <1>x, <2>1
  <2>4. objects[k] \in Objects /\ k \in DOMAIN objects
    BY <1>k, <1>2
  <2>. QED  BY <1>k, <2>2, <2>3, <2>4 DEF Objects
<1>11. objects'[k] = x
  BY <1>2, <1>9, <1>10, ObjectReplaced
<1>13. \A i : Pending(k, i) => i = id \/ Pending(k, i)'
  <2>1. ASSUME NEW i, NEW u \in CTasks, PendingBy(u, k, i) PROVE i = id \/ Pending(k, i)'
    <3>1. CASE u = t
      BY <1>6, <2>1, <3>1 DEF PendingBy
    <3>2. CASE u # t
      BY <1>5, <2>1, <3>2 DEF Pending
    <3>. QED  BY <3>1, <3>2
  <2>. QED  BY <2>1 DEF Pending
<1>14. Built(k) /\ id \notin o.unbuilt
  BY <1>k, <1>2, <1>6 DEF Sound, Built
<1>16. Mirrored(k)'
  <2>1. ASSUME NEW u \in CTasks, NEW i \in CIds
        PROVE  /\ At(u, "index", k, i)' <=> At(u, "index", k, i)
               /\ At(u, "index", k, i) => Written(job'[u]) = Written(job[u])
    BY <1>5, <1>6
  <2>2. Mirrored(k)
    BY <1>2 DEF Sound
  <2>. QED  BY <1>k, <1>9, <1>11, <2>1, <2>2 DEF Mirrored
<1>17. Built(k)'
  <2>1. ASSUME NEW u \in CTasks, NEW i \in CIds
        PROVE  /\ At(u, "load", k, i)' \/ At(u, "store", k, i)' => i \notin x.unbuilt
               /\ At(u, "index", k, i)' /\ job'[u].kind = "delete" =>
                    x.stored[i] = 0 \/ i \notin x.unbuilt \/ Pending(k, i)'
    <3>2. CASE u = t
      BY <1>6, <3>2
    <3>3. CASE u # t
      BY <1>k, <1>5, <1>9, <1>13, <1>14, <3>3 DEF Built
    <3>. QED  BY <3>2, <3>3
  <2>. QED  BY <1>11, <2>1 DEF Built
<1>18. ASSUME ~r PROVE Counted(k)'
  <2>1. Counted(k)
    BY <1>k, <1>v, <1>2, <1>18 DEF Sound
  <2>2. /\ job[t].seen <= o.next_id /\ Below(k, job[t].seen)
    BY <1>k, <1>2, <1>6, <2>1 DEF Counted
  <2>3. \A i \in IdsOf(x.stored) \ x.unbuilt : i < b \/ Pending(k, i)'
    <3>1. ASSUME NEW i \in IdsOf(x.stored), i \notin x.unbuilt PROVE i < b \/ Pending(k, i)'
      <4>1. i \in CIds /\ i \in Nat /\ i \in IdsOf(o.stored) \ o.unbuilt
        BY <1>9, <3>1, CollectionsAssumption DEF IdsOf
      <4>2. i < job[t].seen \/ i = id \/ Pending(k, i)'
        BY <1>k, <1>13, <2>2, <4>1 DEF Below
      <4>3. id < b /\ job[t].seen <= b
        BY <1>v, <1>7, <2>2 DEF Reached
      <4>. QED  BY <1>7, <4>1, <4>2, <4>3
    <3>. QED  BY <3>1
  <2>4. \A u \in CTasks, i \in CIds : ~At(u, "store", k, i)'
    <3>1. ASSUME NEW u \in CTasks, NEW i \in CIds, At(u, "store", k, i)' PROVE FALSE
      <4>1. u # t /\ At(u, "store", k, i)
        BY <1>5, <1>6, <3>1
      <4>2. job[u].ids # <<>>
        BY <1>2, <4>1, JobKinds, WritingFields DEF At
      <4>3. Working(u, "store") /\ job[u].object = k
        BY <4>1, <4>2 DEF At, Working
      <4>. QED  BY <1>v, <1>18, <4>1, <4>3
    <3>. QED  BY <3>1
  <2>. QED  BY <1>9, <1>11, <2>3, <2>4 DEF Counted, Below
<1>20. Sound(k)'
  BY <1>9, <1>11, <1>16, <1>17, <1>18 DEF Sound
<1>21. dirs \in [CNames -> Dirs]
  BY DEF CollectionsInv, CollectionsBase, CollectionsTyped
<1>22. x.name = objects[k].name /\ x.gen = objects[k].gen /\ job[t].object = k
  BY <1>k, <1>9
<1>. QED  BY <1>1, <1>2, <1>j, <1>9, <1>10, <1>20, <1>21, <1>22, TurnKeeps

LEMMA CounterKeeps ==
    ASSUME CollectionsInv, NEW n \in CNames, next_id(n)
    PROVE  CollectionsInv'
<1>k. PICK k, o : k = cmap[n] /\ o = objects[k]
  OBVIOUS
<1>x. PICK x : x = [o EXCEPT !.next_id = o.next_id + 1]
  OBVIOUS
<1>1. /\ k # 0 /\ calls < CMaxCalls /\ calls' = calls + 1
      /\ dirs' = dirs /\ cmap' = cmap /\ job' = job
      /\ cacked' = cacked /\ crossed' = crossed /\ wild' = wild /\ unopened' = unopened
  BY <1>k DEF next_id
<1>2. /\ job \in [CTasks -> Jobs] /\ objects \in Seq(Objects) /\ calls \in Nat
      /\ CMaxCalls \in Nat /\ CollectionsBase /\ EntriesRefer /\ ConfigsThere
  BY CollectionsAssumption DEF CollectionsInv, CollectionsBase, CollectionsTyped
<1>3. k \in 1..Len(objects)
  BY <1>k, <1>1, <1>2 DEF EntriesRefer
<1>4. o \in Objects /\ Sound(k) /\ o.next_id \in Nat
  BY <1>k, <1>2, <1>3, ObjectFields DEF CollectionsInv
<1>5. /\ x \in Objects /\ x.name = o.name /\ x.gen = o.gen /\ x.index = o.index
      /\ x.stored = o.stored /\ x.unbuilt = o.unbuilt /\ x.mixed = o.mixed
      /\ x.next_id = o.next_id + 1 /\ x.overlapped = o.overlapped
  <2>1. PICK b : b = o.next_id + 1
    OBVIOUS
  <2>2. x = [name |-> o.name, gen |-> o.gen, stored |-> o.stored, tombs |-> o.tombs, index |-> o.index,
             next_id |-> b, unbuilt |-> o.unbuilt, mixed |-> o.mixed,
             overlapped |-> o.overlapped]
    BY <1>4, <1>x, <2>1 DEF Objects
  <2>3. b \in Nat
    BY <1>4, <2>1
  <2>. QED  BY <1>4, <2>1, <2>2, <2>3 DEF Objects
<1>6. objects' = [objects EXCEPT ![k] = x]
  <2>1. objects' = [objects EXCEPT ![k].next_id = @ + 1]
    BY <1>k DEF next_id
  <2>2. objects[k] \in Objects /\ k \in DOMAIN objects
    BY <1>2, <1>3
  <2>. QED  BY <1>k, <1>x, <2>1, <2>2 DEF Objects
<1>7. /\ objects' \in Seq(Objects) /\ Len(objects') = Len(objects) /\ objects'[k] = x
      /\ \A i \in 1..Len(objects) : i # k => objects'[i] = objects[i]
  BY <1>2, <1>3, <1>5, <1>6, ObjectReplaced
<1>8. \A i \in 1..Len(objects) : /\ objects'[i].name = objects[i].name
                                 /\ objects'[i].gen = objects[i].gen
  BY <1>k, <1>5, <1>7
<1>9. CollectionsBase'
  <2>1. \A u \in CTasks : JobRefers(job[u])'
    <3>1. \A u \in CTasks : JobRefers(job[u])
      BY <1>2 DEF CollectionsBase
    <3>. QED  BY <1>1, <1>7, <1>8, <3>1 DEF JobRefers
  <2>2. EntriesRefer' /\ ConfigsThere'
    BY <1>1, <1>2, <1>7, <1>8 DEF EntriesRefer, ConfigsThere
  <2>3. calls' \in Nat /\ calls' <= CMaxCalls
    BY <1>1, <1>2
  <2>4. CollectionsTyped'
    BY <1>1, <1>2, <1>7, <2>3 DEF CollectionsBase, CollectionsTyped
  <2>. QED  BY <2>1, <2>2, <2>4 DEF CollectionsBase
<1>10. \A u, at, m, i : At(u, at, m, i)' <=> At(u, at, m, i)
  BY <1>1 DEF At
<1>11. ASSUME NEW i \in 1..Len(objects') PROVE Sound(i)'
  <2>1. CASE i # k
    <3>1. SameWriters(i)
      BY <1>1, <1>10 DEF SameWriters
    <3>2. Sound(i) /\ objects'[i] = objects[i]
      BY <1>7, <2>1 DEF CollectionsInv
    <3>. QED  BY <1>2, <3>1, <3>2, SoundKept
  <2>2. CASE i = k
    <3>1. Mirrored(k)'
      <4>1. Mirrored(k)
        BY <1>4 DEF Sound
      <4>. QED  BY <1>k, <1>1, <1>5, <1>7, <1>10, <4>1 DEF Mirrored
    <3>2. \A m : Pending(k, m)' <=> Pending(k, m)
      BY <1>1, <1>10 DEF Pending, PendingBy
    <3>3. Built(k)'
      <4>1. Built(k)
        BY <1>4 DEF Sound
      <4>. QED  BY <1>k, <1>1, <1>5, <1>7, <1>10, <3>2, <4>1 DEF Built
    <3>4. ASSUME Counted(k) PROVE Counted(k)'
      <4>0. \A m \in IdsOf(o.stored) : m \in Nat
        BY CollectionsAssumption DEF IdsOf
      <4>1. Below(k, objects[k].next_id)'
        BY <1>k, <1>4, <1>5, <1>7, <3>2, <3>4, <4>0 DEF Counted, Below
      <4>2. ASSUME NEW u \in CTasks, NEW m \in CIds, At(u, "store", k, m)'
            PROVE  job'[u].seen <= objects'[k].next_id /\ Below(k, job[u].seen)'
        <5>1. At(u, "store", k, m) /\ job'[u] = job[u]
          BY <1>1, <1>10, <4>2
        <5>2. job[u].seen <= o.next_id /\ Below(k, job[u].seen)
          BY <1>k, <3>4, <5>1 DEF Counted
        <5>3. job[u].seen \in Nat
          BY <1>2, <5>1, JobKinds, WritingFields DEF At
        <5>4. job'[u].seen <= objects'[k].next_id
          BY <1>4, <1>5, <1>7, <5>1, <5>2, <5>3
        <5>. QED  BY <1>k, <1>5, <1>7, <3>2, <5>1, <5>2, <5>4 DEF Below
      <4>. QED  BY <4>1, <4>2 DEF Counted
    <3>. QED  BY <1>k, <1>4, <1>5, <1>7, <2>2, <3>1, <3>3, <3>4 DEF Sound
  <2>. QED  BY <2>1, <2>2
<1>12. ASSUME NEW m \in CNames, m \notin crossed' PROVE Uncrossed(m)'
  <2>1. Uncrossed(m)
    BY <1>1, <1>12 DEF CollectionsInv
  <2>2. SameName(m)
    BY <1>1, <1>8 DEF SameName
  <2>. QED  BY <1>2, <2>1, <2>2, UncrossedKept
<1>. QED  BY <1>9, <1>11, <1>12 DEF CollectionsInv

\* A collection that is opened holds what its directory does, in storage and
\* index, and its counter is above every id of it.
LEMMA DirOpened ==
    ASSUME NEW n \in CNames, NEW d \in Dirs
    PROVE  LET x == OpenCollection(n, d) IN
           /\ x \in Objects /\ x.name = n /\ x.gen = d.gen
           /\ x.index = x.stored
           /\ \A i \in IdsOf(x.stored) : i < x.next_id
<1>1. PICK b, x : /\ b = Max({0} \cup IdsOf(d.data)) + 1 /\ x = OpenCollection(n, d)
  OBVIOUS
<1>2. b \in Nat /\ \A i \in IdsOf(d.data) : i < b
  <2>1. PICK S : S = {0} \cup IdsOf(d.data)
    OBVIOUS
  <2>2. IdsOf(d.data) \subseteq CIds
    BY DEF IdsOf
  <2>3. IsFiniteSet(IdsOf(d.data))
    BY <2>2, CollectionsAssumption, FS_Subset
  <2>4. IsFiniteSet(S)
    BY <2>1, <2>3, FS_Singleton, FS_Union
  <2>0. CIds \subseteq Nat
    BY CollectionsAssumption
  <2>9. IdsOf(d.data) \subseteq Nat
    BY <2>0, <2>2
  <2>5. S \in SUBSET Nat /\ S # {}
    BY <2>1, <2>9
  <2>6. Max(S) \in S /\ \A y \in S : y <= Max(S)
    BY <2>4, <2>5, MaxOf
  <2>7. Max(S) \in Nat /\ b = Max(S) + 1
    BY <1>1, <2>1, <2>5, <2>6
  <2>8. \A i \in IdsOf(d.data) : i \in Nat /\ i <= Max(S)
    BY <2>1, <2>5, <2>6
  <2>. QED  BY <2>7, <2>8
<1>3. /\ d.gen \in Nat /\ d.data \in [CIds -> 0..CMaxCalls] /\ d.dead \in SUBSET CIds
  BY DEF Dirs
<1>4. x = [name |-> n, gen |-> d.gen, stored |-> d.data, tombs |-> d.dead, index |-> d.data,
           next_id |-> b, unbuilt |-> {}, mixed |-> {}, overlapped |-> FALSE]
  BY <1>1 DEF OpenCollection, NewCollection
<1>5. /\ x \in Objects /\ x.name = n /\ x.gen = d.gen /\ x.stored = d.data /\ x.index = d.data
      /\ x.next_id = b
  BY <1>2, <1>3, <1>4 DEF Objects
<1>. QED  BY <1>1, <1>2, <1>5

\* What a restart finds has the type of a directory.
LEMMA FoundIs ==
    ASSUME CollectionsInv, NEW n \in CNames, NEW d \in Found(n)
    PROVE  /\ d \in Dirs /\ d.there = dirs[n].there /\ d.config = dirs[n].config
           /\ d.gen = dirs[n].gen
<1>1. PICK e : e = dirs[n]
  OBVIOUS
<1>2. e \in Dirs /\ calls \in Nat /\ calls <= CMaxCalls /\ CMaxCalls \in Nat
  BY <1>1, CollectionsAssumption DEF CollectionsInv, CollectionsBase, CollectionsTyped
<1>3. CASE d = e
  BY <1>1, <1>2, <1>3
<1>4. CASE n \in wild
  <2>1. PICK log \in [CIds -> 0..calls] \X SUBSET CIds :
               d = [dirs[n] EXCEPT !.data = log[1], !.dead = log[2], !.spoilt = FALSE]
    BY <1>4 DEF Found
  <2>2. PICK f, dead : f = log[1] /\ dead = log[2]
    OBVIOUS
  <2>3. f \in [CIds -> 0..CMaxCalls] /\ dead \in SUBSET CIds
    BY <1>2, <2>2
  <2>4. d = [e EXCEPT !.data = f, !.dead = dead, !.spoilt = FALSE]
    BY <1>1, <2>1, <2>2
  <2>5. /\ d \in Dirs /\ d.there = e.there /\ d.config = e.config /\ d.gen = e.gen
    BY <1>2, <2>3, <2>4 DEF Dirs
  <2>. QED  BY <1>1, <2>5
<1>5. CASE n \notin wild
  BY <1>1, <1>3, <1>5 DEF Found
<1>. QED  BY <1>4, <1>5

LEMMA RestartKeeps ==
    ASSUME CollectionsInv, Restart
    PROVE  CollectionsInv'
<1>S. PICK S \in SUBSET {n \in CNames : dirs[n].there /\ dirs[n].config /\ EngineOpens(n)} :
         LET names == SetToSeq(S) IN
         /\ dirs' \in [CNames -> UNION {Found(n) : n \in CNames}]
         /\ \A n \in CNames : dirs'[n] \in IF n \in S THEN Found(n) ELSE {dirs[n]}
         /\ objects' = [k \in DOMAIN names |-> OpenCollection(names[k], dirs'[names[k]])]
         /\ cmap' = [n \in CNames |-> PlaceOf(n, names)]
         /\ unopened' = {n \in CNames : dirs[n].there} \ S
  BY DEF Restart
<1>n. PICK names : names = SetToSeq(S)
  OBVIOUS
<1>f. /\ DOMAIN dirs' = CNames /\ dirs' = [n \in CNames |-> dirs'[n]]
      /\ objects' = [k \in DOMAIN names |-> OpenCollection(names[k], dirs'[names[k]])]
      /\ cmap' = [n \in CNames |-> PlaceOf(n, names)]
      /\ unopened' = {n \in CNames : dirs[n].there} \ S
  BY <1>S, <1>n
<1>1. /\ job' = [t \in CTasks |-> NoJob] /\ calls' = calls /\ cacked' = cacked /\ wild' = wild
      /\ crossed' = crossed \cup {n \in CNames : Managing(n)}
  BY DEF Restart
<1>2. /\ dirs \in [CNames -> Dirs] /\ calls \in Nat /\ calls <= CMaxCalls /\ CMaxCalls \in Nat
      /\ cacked \in SUBSET CNames /\ crossed \in SUBSET CNames /\ wild \in SUBSET CNames
      /\ ConfigsThere /\ S \subseteq CNames
  BY CollectionsAssumption DEF CollectionsInv, CollectionsBase, CollectionsTyped
<1>3. IsFiniteSet(S)
  BY <1>2, CollectionsAssumption, FS_Subset
<1>4. /\ names \in Seq(S) /\ \A n \in S : \E i \in 1..Len(names) : names[i] = n
      /\ DOMAIN names = 1..Len(names) /\ Len(names) \in Nat
  <2>1. names \in Seq(S) /\ \A n \in S : \E i \in 1..Len(names) : names[i] = n
    BY <1>3, <1>n, Listed
  <2>. QED  BY <2>1
<1>6. ASSUME NEW n \in CNames
      PROVE  /\ dirs'[n] \in Dirs /\ dirs'[n].there = dirs[n].there
             /\ dirs'[n].config = dirs[n].config /\ dirs'[n].gen = dirs[n].gen
  <2>1. CASE n \in S
    <3>1. dirs'[n] \in Found(n)
      BY <1>S, <2>1
    <3>. QED  BY <3>1, FoundIs
  <2>2. CASE n \notin S
    <3>1. dirs'[n] = dirs[n]
      BY <1>S, <2>2
    <3>. QED  BY <1>2, <3>1
  <2>. QED  BY <2>1, <2>2
<1>7. dirs' \in [CNames -> Dirs]
  BY <1>f, <1>6
<1>8. ASSUME NEW k \in 1..Len(names)
      PROVE  /\ names[k] \in S /\ objects'[k] \in Objects /\ objects'[k].name = names[k]
             /\ objects'[k].gen = dirs[names[k]].gen
             /\ objects'[k].index = objects'[k].stored
             /\ \A i \in IdsOf(objects'[k].stored) : i < objects'[k].next_id
  <2>1. names[k] \in S /\ names[k] \in CNames
    BY <1>2, <1>4
  <2>2. PICK m, d : m = names[k] /\ d = dirs'[m]
    OBVIOUS
  <2>3. d \in Dirs /\ d.gen = dirs[m].gen /\ m \in CNames
    BY <1>6, <2>1, <2>2
  <2>4. objects'[k] = OpenCollection(m, d)
    BY <1>f, <1>4, <2>2
  <2>. QED  BY <2>1, <2>2, <2>3, <2>4, DirOpened
<1>9. objects' \in Seq(Objects) /\ Len(objects') = Len(names)
  <2>1. objects' \in [1..Len(names) -> Objects]
    BY <1>f, <1>4, <1>8
  <2>2. \A m \in Nat : \A q \in [1..m -> Objects] : q \in Seq(Objects) /\ Len(q) = m
    OBVIOUS
  <2>. QED  BY <1>4, <2>1, <2>2
<1>10. ASSUME NEW n \in CNames
       PROVE  /\ cmap'[n] \in Nat
              /\ cmap'[n] # 0 => cmap'[n] \in 1..Len(names) /\ names[cmap'[n]] = n
              /\ cmap'[n] = 0 => \A i \in 1..Len(names) : names[i] # n
  <2>1. cmap'[n] = PlaceOf(n, names)
    BY <1>f
  <2>. QED  BY <1>4, <2>1, Selected
<1>11. cmap' \in [CNames -> Nat]
  BY <1>f, <1>10
<1>12. /\ job' \in [CTasks -> Jobs]
       /\ \A t \in CTasks : job'[t] = NoJob /\ job'[t].kind = "none"
  BY <1>1, NoJobIs
<1>13. CollectionsBase'
  <2>1. EntriesRefer'
    BY <1>8, <1>9, <1>10 DEF EntriesRefer
  <2>2. ConfigsThere'
    BY <1>2, <1>6 DEF ConfigsThere
  <2>3. \A t \in CTasks : JobRefers(job[t])'
    BY <1>12 DEF JobRefers
  <2>4. crossed' \in SUBSET CNames /\ unopened' \in SUBSET CNames
    BY <1>f, <1>1, <1>2
  <2>. QED  BY <1>1, <1>2, <1>7, <1>9, <1>11, <1>12, <2>1, <2>2, <2>3, <2>4
            DEF CollectionsBase, CollectionsTyped
<1>14. \A t \in CTasks : \A at, k, i : ~At(t, at, k, i)'
  BY <1>12 DEF At
<1>15. ASSUME NEW k \in 1..Len(objects') PROVE Sound(k)'
  <2>1. k \in 1..Len(names)
    BY <1>9
  <2>2. Mirrored(k)'
    BY <1>8, <1>14, <2>1 DEF Mirrored
  <2>3. Built(k)'
    BY <1>14 DEF Built
  <2>4. Counted(k)'
    BY <1>8, <1>14, <2>1 DEF Counted, Below
  <2>. QED  BY <2>2, <2>3, <2>4 DEF Sound
<1>16. ASSUME NEW n \in CNames, n \notin crossed' PROVE Uncrossed(n)'
  <2>1. Uncrossed(n) /\ ~Managing(n)
    BY <1>1, <1>16 DEF CollectionsInv
  <2>2. \A t \in CTasks : ~Manages(t, n)'
    BY <1>12 DEF Manages
  <2>3. ~Managing(n)'
    BY <1>12 DEF Managing
  <2>4. CASE n \in cacked
    <3>1. dirs[n].there /\ dirs'[n].there
      BY <1>6, <2>1, <2>4 DEF Uncrossed
    <3>2. n \notin unopened' => n \in S
      BY <1>f, <3>1
    <3>3. ASSUME n \notin unopened'
          PROVE  cmap'[n] # 0 /\ objects'[cmap'[n]].gen = dirs'[n].gen /\ dirs'[n].config
      <4>1. n \in S /\ dirs[n].config
        BY <3>2, <3>3
      <4>2. cmap'[n] # 0 /\ cmap'[n] \in 1..Len(names) /\ names[cmap'[n]] = n
        BY <1>4, <1>10, <4>1
      <4>. QED  BY <1>6, <1>8, <4>1, <4>2
    <3>. QED  BY <1>1, <2>2, <2>3, <2>4, <3>1, <3>3 DEF Uncrossed
  <2>5. CASE n \notin cacked
    <3>1. ~dirs[n].config /\ n \notin S
      BY <2>1, <2>5 DEF Uncrossed
    <3>2. cmap'[n] = 0
      BY <1>8, <1>10, <3>1
    <3>. QED  BY <1>1, <1>6, <2>2, <2>3, <2>5, <3>1, <3>2 DEF Uncrossed
  <2>. QED  BY <2>4, <2>5
<1>. QED  BY <1>13, <1>15, <1>16 DEF CollectionsInv

-----------------------------------------------------------------------------
(* The specification                                                        *)

LEMMA CollectionsInitially == CollectionsInit => CollectionsInv
<1>. SUFFICES ASSUME CollectionsInit PROVE CollectionsInv
  OBVIOUS
<1>1. NoDir \in Dirs /\ ~NoDir.config
  BY CollectionsAssumption DEF NoDir, Dirs, Empty
<1>2. objects = <<>> /\ objects \in Seq(Objects) /\ Len(objects) = 0
  BY DEF CollectionsInit
<1>3. \A t \in CTasks : job[t] = NoJob /\ job[t].kind = "none"
  BY NoJobIs DEF CollectionsInit
<1>4. CollectionsBase
  <2>1. CollectionsTyped
    BY <1>1, <1>2, NoJobIs, CollectionsAssumption DEF CollectionsInit, CollectionsTyped
  <2>2. EntriesRefer /\ ConfigsThere
    BY <1>1 DEF CollectionsInit, EntriesRefer, ConfigsThere
  <2>. QED  BY <1>3, <2>1, <2>2 DEF CollectionsBase, JobRefers
<1>5. ASSUME NEW n \in CNames PROVE Uncrossed(n)
  <2>1. cmap[n] = 0 /\ ~dirs[n].config /\ n \notin cacked
    BY <1>1 DEF CollectionsInit
  <2>2. \A t \in CTasks : ~Manages(t, n)
    BY <1>3 DEF Manages
  <2>. QED  BY <2>1, <2>2 DEF Uncrossed
<1>. QED  BY <1>2, <1>4, <1>5 DEF CollectionsInv

LEMMA CollectionsStep == CollectionsInv /\ [CollectionsNext]_CollectionsVars => CollectionsInv'
<1>. SUFFICES ASSUME CollectionsInv, [CollectionsNext]_CollectionsVars PROVE CollectionsInv'
  OBVIOUS
<1>1. ASSUME NEW t \in CTasks, NEW n \in CNames, create_collection(t, n) PROVE CollectionsInv'
  BY <1>1, CreateKeeps
<1>2. ASSUME NEW t \in CTasks, NEW n \in CNames, delete_collection(t, n) PROVE CollectionsInv'
  BY <1>2, DropKeeps
<1>3. ASSUME NEW t \in CTasks, NEW n \in CNames, NEW ids \in CBatches,
             upsert(t, n, ids) \/ delete(t, n, ids)
      PROVE  CollectionsInv'
  BY <1>3, CallKeeps DEF upsert, delete
<1>4. ASSUME NEW t \in CTasks,
             \/ CreateDir(t) \/ CreateOpen(t) \/ CreateFails(t) \/ CreateInsert(t) \/ RemoveDir(t)
             \/ WriteStorage(t) \/ RefuseStorage(t) \/ FailStorage(t) \/ WriteIndex(t)
             \/ LoadNextId(t) \/ StoreNextId(t)
      PROVE  CollectionsInv'
  BY <1>4, CreateDirKeeps, CreateOpenKeeps, CreateInsertKeeps, RemoveKeeps, PutKeeps,
     FailKeeps, CreateFailsKeeps, RefuseKeeps, IndexKeeps, LoadKeeps, StoreKeeps
<1>5. ASSUME NEW n \in CNames, next_id(n) PROVE CollectionsInv'
  BY <1>5, CounterKeeps
<1>6. CASE Restart
  BY <1>6, RestartKeeps
<1>7. CASE UNCHANGED CollectionsVars
  BY <1>7 DEF CollectionsVars, CollectionsInv, CollectionsBase, CollectionsTyped,
     EntriesRefer, JobRefers, ConfigsThere, Uncrossed, Manages, Managing, Sound, Mirrored,
     Built, Counted, Below, Pending, PendingBy, At, Written
<1>. QED  BY <1>1, <1>2, <1>3, <1>4, <1>5, <1>6, <1>7 DEF CollectionsNext

\* What the invariant says of the three properties.
LEMMA CollectionsMeans == CollectionsInv => CollectionsSafe
<1>. SUFFICES ASSUME CollectionsInv PROVE CollectionsSafe
  OBVIOUS
<1>1. /\ CollectionsTyped /\ EntriesRefer /\ ConfigsThere
      /\ objects \in Seq(Objects) /\ Len(objects) \in Nat /\ job \in [CTasks -> Jobs]
  BY DEF CollectionsInv, CollectionsBase, CollectionsTyped
<1>2. \A n \in CNames : cmap[n] # 0 =>
        /\ cmap[n] \in 1..Len(objects) /\ Sound(cmap[n]) /\ objects[cmap[n]] \in Objects
        /\ objects[cmap[n]].name = n
  BY <1>1 DEF CollectionsInv, EntriesRefer
<1>3. \A t \in CTasks : job[t].kind \in {"upsert", "delete"} => job[t].ids # <<>>
  BY <1>1, JobKinds, WritingFields
<1>4. CollectionsTypeOK
  <2>1. cmap \in [CNames -> 0..Len(objects)]
    <3>1. \A n \in CNames : cmap[n] \in 0..Len(objects)
      BY <1>1, <1>2
    <3>. QED  BY <1>1, <3>1 DEF CollectionsTyped
  <2>2. \A k \in DOMAIN objects : /\ objects[k].index \in [CIds -> 0..CMaxCalls]
                                  /\ objects[k].next_id \in Nat
    BY <1>1, ObjectFields
  <2>. QED  BY <1>1, <2>1, <2>2 DEF CollectionsTypeOK, CollectionsTyped, Dirs
<1>5. IndexMirrorsStorage
  <2>1. ASSUME NEW n \in CNames, cmap[n] # 0,
               NEW i \in CIds \ (objects[cmap[n]].mixed \cup objects[cmap[n]].unbuilt)
        PROVE  \/ objects[cmap[n]].index[i] = objects[cmap[n]].stored[i]
               \/ \E t \in CTasks : /\ Working(t, "index") /\ job[t].object = cmap[n]
                                    /\ Head(job[t].ids) = i
    <3>1. \/ objects[cmap[n]].index[i] = objects[cmap[n]].stored[i]
          \/ \E t \in CTasks : At(t, "index", cmap[n], i)
      BY <1>2, <2>1 DEF Sound, Mirrored
    <3>. QED  BY <1>3, <3>1 DEF At, Working
  <2>. QED  BY <2>1 DEF IndexMirrorsStorage
<1>6. NextIdFresh
  <2>1. ASSUME NEW n \in CNames, cmap[n] # 0, ~objects[cmap[n]].overlapped,
               NEW i \in IdsOf(objects[cmap[n]].stored) \ objects[cmap[n]].unbuilt
        PROVE  \/ objects[cmap[n]].next_id > i
               \/ \E t \in CTasks : /\ job[t].kind = "upsert" /\ job[t].object = cmap[n]
                                    /\ Head(job[t].ids) = i
    <3>1. i < objects[cmap[n]].next_id \/ Pending(cmap[n], i)
      BY <1>2, <2>1 DEF Sound, Counted, Below
    <3>2. i \in Nat /\ objects[cmap[n]].next_id \in Nat
      BY <1>2, <2>1, ObjectFields, CollectionsAssumption DEF IdsOf
    <3>. QED  BY <3>1, <3>2 DEF Pending, PendingBy, At
  <2>. QED  BY <2>1 DEF NextIdFresh
<1>7. CollectionsKept
  <2>1. ASSUME NEW n \in CNames \ crossed
        PROVE  /\ n \in cacked => dirs[n].there
               /\ n \in cacked \ unopened =>
                     cmap[n] # 0 /\ Attached(objects[cmap[n]]) /\ dirs[n].config
               /\ n \notin cacked /\ ~Managing(n) => cmap[n] = 0 /\ ~dirs[n].config
    <3>1. Uncrossed(n)
      BY DEF CollectionsInv
    <3>. QED  BY <1>1, <1>2, <3>1 DEF Uncrossed, Attached, ConfigsThere
  <2>. QED  BY <2>1 DEF CollectionsKept
<1>. QED  BY <1>4, <1>5, <1>6, <1>7 DEF CollectionsSafe

\* Collections through concurrent calls, failing calls and restarts (Collection::
\* upsert, delete, next_id; CollectionManager): index and storage agree but on
\* ids at work, next_id is above every id, and a collection that was created is
\* on disk until it is deleted, and in the map unless its engine did not open.
THEOREM CollectionsSound == CollectionsSpec => []CollectionsSafe
<1>1. CollectionsInit => CollectionsInv
  BY CollectionsInitially
<1>2. CollectionsInv /\ [CollectionsNext]_CollectionsVars => CollectionsInv'
  BY CollectionsStep
<1>3. CollectionsInv => CollectionsSafe
  BY CollectionsMeans
<1>. QED  BY <1>1, <1>2, <1>3, PTL DEF CollectionsSpec

-----------------------------------------------------------------------------
(* The client library                                                       *)

Ops == Writes \cup {"create_collection", "create_multimodal", "get", "search", "cas"}
Hows == {"done", "vector", "append", "refused"}
Sent == [task : ETasks, op : Ops, id : EIds, expected : {0, 1}, at : {"waiting", "ok", "err"},
         leg : {1, 2}, flying : 0..1, reply : {"none", "refused", "envelope"},
         turn : Nat, how : Hows \cup {"none"}, there : BOOLEAN, before : SUBSET Nat]

SdkTyped ==
    /\ sdkServer \in [there : BOOLEAN, points : [ENumerals -> 0..Len(sdkCalls)],
                      tombs : SUBSET ENumerals, turn : Nat]
    /\ sdkCalls \in Seq(Sent)

\* A call that has an answer has no request on its way, one that was handled
\* neither, and a write that is told of success was handled.
Told(c) ==
    /\ c.reply # "none" \/ c.at = "ok" \/ c.turn # 0 => c.flying = 0
    /\ c.op = "cas" /\ c.leg = 1 => c.turn = 0
    /\ c.turn <= sdkServer.turn /\ (c.how # "none" <=> c.turn # 0)
    /\ c.op \in Writes /\ c.there /\ (c.reply = "envelope" \/ c.at = "ok") => c.turn # 0
    /\ c.there => sdkServer.there

\* What a write leaves where it reached.
Leaves(c, k) == IF c.op = "delete_point" THEN 0 ELSE k

\* The calls before one were answered, and their vectors are not where it wrote.
After(k) ==
    \A i \in sdkCalls[k].before :
        /\ i \in 1..(k - 1) /\ sdkCalls[i].at = "ok"
        /\ sdkCalls[k].how = "done" =>
              \A id \in ENumerals \cap Touched(sdkCalls[k]) : sdkServer.points[id] # i

\* What was carried out stays until a later write.
Lasting(k) ==
    sdkCalls[k].how = "done" =>
        \A i \in Touched(sdkCalls[k]) :
            \/ sdkServer.points[i] = Leaves(sdkCalls[k], k)
            \/ \E j \in 1..Len(sdkCalls) : /\ sdkCalls[j].turn > sdkCalls[k].turn
                                           /\ i \in Touched(sdkCalls[j])

\* The deletion of id that was handled before a turn.
Deleted(id, turn) ==
    \E j \in 1..Len(sdkCalls) : /\ sdkCalls[j].op = "delete_point" /\ sdkCalls[j].turn \in 1..turn
                                /\ id \in Touched(sdkCalls[j])

\* A put is refused for a deletion.
Justified(k) ==
    sdkCalls[k].how = "refused" =>
        \E id \in Touched(sdkCalls[k]) : Deleted(id, sdkCalls[k].turn - 1)

SdkInv ==
    /\ SdkTyped
    /\ \A k \in 1..Len(sdkCalls) : Told(sdkCalls[k]) /\ After(k) /\ Lasting(k) /\ Justified(k)
    /\ \A id \in sdkServer.tombs : Deleted(id, sdkServer.turn)

LEMMA Replaced ==
    ASSUME NEW T, NEW q \in Seq(T), NEW k \in 1..Len(q), NEW x \in T
    PROVE  /\ [q EXCEPT ![k] = x] \in Seq(T) /\ Len([q EXCEPT ![k] = x]) = Len(q)
           /\ [q EXCEPT ![k] = x][k] = x
           /\ \A m \in 1..Len(q) : m # k => [q EXCEPT ![k] = x][m] = q[m]
OBVIOUS

\* A sequence with one more element.
LEMMA Added ==
    ASSUME NEW T, NEW q \in Seq(T), NEW x \in T
    PROVE  /\ Append(q, x) \in Seq(T) /\ Len(Append(q, x)) = Len(q) + 1
           /\ Append(q, x)[Len(q) + 1] = x
           /\ \A m \in 1..Len(q) : Append(q, x)[m] = q[m]
OBVIOUS

\* What a call that is written carries.
TakesEffect(d, k) ==
    /\ sdkCalls[k].turn = 0 /\ sdkCalls[k].at # "ok"
    /\ d.turn = sdkServer.turn + 1 /\ d.how # "none" /\ sdkServer'.turn = d.turn
    /\ sdkServer'.points \in [ENumerals -> 0..Len(sdkCalls)]
    /\ \A id \in ENumerals : sdkServer'.points[id] # sdkServer.points[id] =>
          id \in Touched(d) /\ sdkServer'.points[id] = Leaves(d, k)
    /\ d.how = "done" => \A id \in Touched(d) : sdkServer'.points[id] = Leaves(d, k)
    /\ d.how = "refused" => Touched(d) \cap sdkServer.tombs # {}
    /\ sdkServer'.tombs \in SUBSET ENumerals
    /\ \A id \in sdkServer'.tombs : id \in sdkServer.tombs \/ (d.op = "delete_point" /\ id \in Touched(d))

\* A call that is not: neither its record nor the collection changes in these.
Unwritten(d, k) ==
    /\ d.turn = sdkCalls[k].turn /\ d.how = sdkCalls[k].how
    /\ sdkServer'.points = sdkServer.points /\ sdkServer'.tombs = sdkServer.tombs
    /\ sdkServer'.turn = sdkServer.turn

\* One call goes on: what a step has to establish of it.
LEMMA CallGoesOn ==
    ASSUME SdkInv, NEW k \in 1..Len(sdkCalls), NEW d \in Sent,
           sdkCalls' = [sdkCalls EXCEPT ![k] = d],
           d.op = sdkCalls[k].op, d.id = sdkCalls[k].id, d.there = sdkCalls[k].there,
           d.before = sdkCalls[k].before,
           sdkCalls[k].at = "ok" => d.at = "ok",
           sdkServer' = [there |-> sdkServer'.there, points |-> sdkServer'.points,
                         tombs |-> sdkServer'.tombs, turn |-> sdkServer'.turn],
           sdkServer'.there \in BOOLEAN, sdkServer.there => sdkServer'.there,
           Told(d)', TakesEffect(d, k) \/ Unwritten(d, k)
    PROVE  SdkInv'
<1>. PICK L : L = Len(sdkCalls)
  OBVIOUS
<1>1. /\ sdkCalls \in Seq(Sent) /\ L \in Nat /\ sdkServer.turn \in Nat
      /\ sdkServer.points \in [ENumerals -> 0..L] /\ sdkServer.tombs \in SUBSET ENumerals
  BY DEF SdkInv, SdkTyped
<1>2. /\ sdkCalls' \in Seq(Sent) /\ Len(sdkCalls') = L /\ sdkCalls'[k] = d
      /\ \A m \in 1..L : m # k => sdkCalls'[m] = sdkCalls[m]
  BY <1>1, Replaced
<1>t. /\ \A m \in 1..L : sdkCalls[m].turn \in Nat /\ sdkCalls[m].turn <= sdkServer.turn
      /\ d.turn \in Nat
  <2>1. \A m \in 1..L : sdkCalls[m] \in Sent /\ Told(sdkCalls[m])
    BY <1>1 DEF SdkInv
  <2>. QED  BY <2>1 DEF Told, Sent
<1>s. sdkServer'.turn \in Nat /\ sdkServer'.turn >= sdkServer.turn
  BY <1>1, <1>t DEF TakesEffect, Unwritten
<1>3. SdkTyped'
  <2>1. sdkServer'.points \in [ENumerals -> 0..L] /\ sdkServer'.tombs \in SUBSET ENumerals
    BY <1>1 DEF TakesEffect, Unwritten
  <2>. QED  BY <1>2, <1>s, <2>1 DEF SdkTyped
<1>4. ASSUME NEW m \in 1..L PROVE Told(sdkCalls[m])'
  <2>1. CASE m = k
    BY <1>2, <2>1 DEF Told
  <2>2. CASE m # k
    <3>1. Told(sdkCalls[m])
      BY DEF SdkInv
    <3>2. sdkCalls[m].turn <= sdkServer'.turn
      BY <1>1, <1>s, <1>t
    <3>. QED  BY <1>2, <2>2, <3>1, <3>2 DEF Told
  <2>. QED  BY <2>1, <2>2
<1>5. \A m \in 1..L :
        /\ sdkCalls'[m].before = sdkCalls[m].before
        /\ sdkCalls[m].at = "ok" => sdkCalls'[m].at = "ok"
        /\ Touched(sdkCalls'[m]) = Touched(sdkCalls[m])
        /\ sdkCalls'[m].op = sdkCalls[m].op
        /\ Leaves(sdkCalls'[m], m) = Leaves(sdkCalls[m], m)
        /\ m # k \/ sdkCalls[m].turn # 0 =>
              sdkCalls'[m].turn = sdkCalls[m].turn /\ sdkCalls'[m].how = sdkCalls[m].how
  BY <1>2 DEF Touched, Leaves, TakesEffect, Unwritten
<1>n. \A m \in 1..L : sdkCalls[m].how # "none" => sdkCalls[m].turn # 0
  <2>1. \A m \in 1..L : Told(sdkCalls[m])
    BY DEF SdkInv
  <2>. QED  BY <2>1 DEF Told
<1>w. \A m \in 1..L : sdkCalls'[m].how # "none" /\ sdkCalls'[m].how # sdkCalls[m].how
                         => m = k /\ TakesEffect(d, k)
  BY <1>2, <1>5 DEF Unwritten
<1>e. ASSUME NEW id, NEW turn, Deleted(id, turn)
      PROVE  Deleted(id, turn)'
  <2>1. PICK j \in 1..L : /\ sdkCalls[j].op = "delete_point" /\ sdkCalls[j].turn \in 1..turn
                          /\ id \in Touched(sdkCalls[j])
    BY <1>e DEF Deleted
  <2>2. sdkCalls[j].turn # 0
    BY <2>1
  <2>3. /\ sdkCalls'[j].op = "delete_point" /\ sdkCalls'[j].turn \in 1..turn
        /\ id \in Touched(sdkCalls'[j])
    BY <1>5, <2>1, <2>2
  <2>. QED  BY <1>2, <2>3 DEF Deleted
<1>6. ASSUME NEW m \in 1..L, NEW i \in sdkCalls[m].before
      PROVE  /\ i \in 1..(m - 1) /\ sdkCalls'[i].at = "ok"
             /\ sdkCalls'[m].how = "done" =>
                   \A id \in ENumerals \cap Touched(sdkCalls[m]) : sdkServer'.points[id] # i
  <2>1. /\ i \in 1..(m - 1) /\ sdkCalls[i].at = "ok"
        /\ sdkCalls[m].how = "done" =>
              \A id \in ENumerals \cap Touched(sdkCalls[m]) : sdkServer.points[id] # i
    BY DEF SdkInv, After
  <2>2. i \in 1..L /\ i # m /\ i # 0
    BY <1>1, <2>1
  <2>3. sdkCalls'[i].at = "ok"
    BY <1>5, <2>1, <2>2
  <2>4. ASSUME sdkCalls'[m].how = "done", NEW id \in ENumerals \cap Touched(sdkCalls[m])
        PROVE  sdkServer'.points[id] # i
    <3>1. CASE sdkServer'.points[id] = sdkServer.points[id] /\ sdkCalls[m].how = "done"
      BY <2>1, <2>4, <3>1
    <3>2. CASE sdkServer'.points[id] # sdkServer.points[id]
      <4>1. TakesEffect(d, k)
        BY <3>2 DEF Unwritten
      <4>2. i # k /\ sdkServer'.points[id] \in {0, k}
        BY <2>1, <3>2, <4>1 DEF TakesEffect, Leaves
      <4>. QED  BY <2>2, <4>2
    <3>3. CASE sdkCalls[m].how # "done"
      <4>1. m = k /\ TakesEffect(d, k)
        BY <1>w, <2>4, <3>3
      <4>2. sdkServer'.points[id] = Leaves(d, k)
        BY <1>2, <1>5, <2>4, <4>1 DEF TakesEffect
      <4>. QED  BY <2>2, <4>1, <4>2 DEF Leaves
    <3>. QED  BY <3>1, <3>2, <3>3
  <2>. QED  BY <2>1, <2>3, <2>4
<1>7. \A m \in 1..L : After(m)'
  BY <1>5, <1>6 DEF After
<1>8. ASSUME NEW m \in 1..L PROVE Lasting(m)'
  <2>. SUFFICES ASSUME sdkCalls'[m].how = "done", NEW i \in Touched(sdkCalls[m])
                PROVE  \/ sdkServer'.points[i] = Leaves(sdkCalls[m], m)
                       \/ \E j \in 1..L : /\ sdkCalls'[j].turn > sdkCalls'[m].turn
                                          /\ i \in Touched(sdkCalls'[j])
    BY <1>2, <1>5 DEF Lasting
  <2>0. i \in ENumerals
    <3>0. sdkCalls[m] \in Sent
      BY <1>1
    <3>1. sdkCalls[m].id \in EIds
      BY <3>0 DEF Sent
    <3>. QED  BY <3>1, SdkAssumption DEF Touched, EIds, ENumerals, TextId
  <2>1. CASE sdkCalls[m].how # "done"
    <3>1. m = k /\ TakesEffect(d, k)
      BY <1>w, <2>1
    <3>. QED  BY <1>2, <1>5, <3>1 DEF TakesEffect
  <2>2. CASE sdkCalls[m].how = "done"
    <3>0. sdkCalls[m].turn # 0 /\ sdkCalls'[m].turn = sdkCalls[m].turn
      BY <1>5, <1>n, <2>2
    <3>1. CASE \E j \in 1..L : sdkCalls[j].turn > sdkCalls[m].turn /\ i \in Touched(sdkCalls[j])
      <4>1. PICK j \in 1..L : sdkCalls[j].turn > sdkCalls[m].turn /\ i \in Touched(sdkCalls[j])
        BY <3>1
      <4>2. sdkCalls[j].turn # 0
        BY <1>t, <4>1
      <4>. QED  BY <1>5, <3>0, <4>1, <4>2
    <3>2. CASE sdkServer'.points[i] # sdkServer.points[i]
      <4>1. TakesEffect(d, k) /\ i \in Touched(d)
        BY <2>0, <3>2 DEF TakesEffect, Unwritten
      <4>2. sdkCalls'[k].turn > sdkCalls[m].turn
        BY <1>1, <1>2, <1>t, <4>1 DEF TakesEffect
      <4>. QED  BY <1>2, <3>0, <4>1, <4>2
    <3>3. CASE /\ sdkServer'.points[i] = sdkServer.points[i]
               /\ ~\E j \in 1..L : sdkCalls[j].turn > sdkCalls[m].turn /\ i \in Touched(sdkCalls[j])
      <4>1. sdkServer.points[i] = Leaves(sdkCalls[m], m)
        BY <2>2, <3>3 DEF SdkInv, Lasting
      <4>. QED  BY <3>3, <4>1
    <3>. QED  BY <3>1, <3>2, <3>3
  <2>. QED  BY <2>1, <2>2
<1>9. ASSUME NEW m \in 1..L PROVE Justified(m)'
  <2>. PICK turn : turn = sdkCalls'[m].turn - 1
    OBVIOUS
  <2>. SUFFICES ASSUME sdkCalls'[m].how = "refused"
                PROVE  \E id \in Touched(sdkCalls[m]) : Deleted(id, turn)'
    BY <1>2, <1>5 DEF Justified, Deleted
  <2>1. CASE sdkCalls[m].how # "refused"
    <3>1. m = k /\ TakesEffect(d, k)
      BY <1>w, <2>1
    <3>2. PICK id \in Touched(d) : id \in sdkServer.tombs
      BY <1>2, <3>1 DEF TakesEffect
    <3>a. turn = d.turn - 1 /\ d.turn = sdkServer.turn + 1
      BY <1>2, <3>1 DEF TakesEffect
    <3>3. turn = sdkServer.turn /\ Touched(d) = Touched(sdkCalls[m])
      BY <1>1, <1>2, <1>5, <3>1, <3>a
    <3>4. Deleted(id, turn)
      BY <3>2, <3>3 DEF SdkInv
    <3>. QED  BY <1>e, <3>2, <3>3, <3>4
  <2>2. CASE sdkCalls[m].how = "refused"
    <3>1. turn = sdkCalls[m].turn - 1
      BY <1>5, <1>n, <2>2
    <3>2. \E id \in Touched(sdkCalls[m]) : Deleted(id, turn)
      BY <2>2, <3>1 DEF SdkInv, Justified
    <3>. QED  BY <1>e, <3>2
  <2>. QED  BY <2>1, <2>2
<1>10. ASSUME NEW id \in sdkServer'.tombs PROVE Deleted(id, sdkServer.turn)'
  <2>1. CASE id \in sdkServer.tombs
    <3>1. PICK j \in 1..L : /\ sdkCalls[j].op = "delete_point" /\ sdkCalls[j].turn \in 1..sdkServer.turn
                            /\ id \in Touched(sdkCalls[j])
      BY <2>1 DEF SdkInv, Deleted
    <3>2. sdkCalls'[j].turn \in 1..sdkServer'.turn
      BY <1>1, <1>5, <1>s, <1>t, <3>1
    <3>. QED  BY <1>2, <1>5, <3>1, <3>2 DEF Deleted
  <2>2. CASE id \notin sdkServer.tombs
    <3>1. /\ TakesEffect(d, k) /\ d.op = "delete_point" /\ id \in Touched(d)
      BY <1>10, <2>2 DEF TakesEffect, Unwritten
    <3>2. sdkCalls'[k].turn \in 1..sdkServer'.turn
      BY <1>1, <1>2, <1>s, <1>t, <3>1 DEF TakesEffect
    <3>. QED  BY <1>2, <3>1, <3>2 DEF Deleted
  <2>. QED  BY <2>1, <2>2
<1>. QED  BY <1>2, <1>3, <1>4, <1>7, <1>8, <1>9, <1>10 DEF SdkInv

\* A call begins: those it finds answered stay so.
LEMMA IssueKeeps ==
    ASSUME SdkInv, NEW t \in ETasks, NEW op \in Ops, NEW id \in EIds, NEW expected \in {0, 1},
           Issue(t, op, id, expected)
    PROVE  SdkInv'
<1>. PICK c : c = SdkCall(t, op, id, expected)
  OBVIOUS
<1>. PICK L : L = Len(sdkCalls)
  OBVIOUS
<1>1. /\ sdkCalls \in Seq(Sent) /\ L \in Nat /\ DOMAIN sdkCalls = 1..L
      /\ sdkServer.there \in BOOLEAN /\ sdkServer.points \in [ENumerals -> 0..L]
      /\ sdkServer.tombs \in SUBSET ENumerals /\ sdkServer.turn \in Nat
  BY DEF SdkInv, SdkTyped
<1>2. sdkCalls' = Append(sdkCalls, c) /\ sdkServer' = sdkServer
  BY DEF Issue
<1>3. /\ c.task = t /\ c.op = op /\ c.id = id /\ c.at = "waiting" /\ c.reply = "none"
      /\ c.turn = 0 /\ c.how = "none" /\ c.there = sdkServer.there
      /\ c.before = {m \in 1..L : sdkCalls[m].at = "ok"}
  BY <1>1 DEF SdkCall
<1>4. c \in Sent
  <2>1. PICK b : b = {m \in DOMAIN sdkCalls : sdkCalls[m].at = "ok"}
    OBVIOUS
  <2>2. b \in SUBSET Nat
    BY <1>1, <2>1
  <2>. QED  BY <1>1, <2>1, <2>2 DEF SdkCall, Sent
<1>5. /\ sdkCalls' \in Seq(Sent) /\ Len(sdkCalls') = L + 1 /\ sdkCalls'[L + 1] = c
      /\ \A m \in 1..L : sdkCalls'[m] = sdkCalls[m]
  BY <1>1, <1>2, <1>4, Added
<1>6. SdkTyped'
  <2>1. /\ sdkServer \in [there : BOOLEAN, points : [ENumerals -> 0..L], tombs : SUBSET ENumerals,
                          turn : Nat]
    BY DEF SdkInv, SdkTyped
  <2>2. 0..L \subseteq 0..(L + 1)
    BY <1>1
  <2>3. sdkServer \in [there : BOOLEAN, points : [ENumerals -> 0..(L + 1)], tombs : SUBSET ENumerals,
                       turn : Nat]
    BY <2>1, <2>2
  <2>. QED  BY <1>2, <1>5, <2>3 DEF SdkTyped
<1>7. ASSUME NEW m \in 1..(L + 1)
      PROVE  Told(sdkCalls[m])' /\ After(m)' /\ Lasting(m)' /\ Justified(m)'
  <2>1. CASE m = L + 1
    <3>1. Told(c)'
      BY <1>1, <1>2, <1>3 DEF Told
    <3>2. \A i \in c.before : i \in 1..L /\ sdkCalls'[i].at = "ok"
      BY <1>3, <1>5
    <3>. QED  BY <1>1, <1>3, <1>5, <2>1, <3>1, <3>2 DEF Told, After, Lasting, Justified
  <2>2. CASE m \in 1..L
    <3>1. Told(sdkCalls[m]) /\ After(m) /\ Lasting(m) /\ Justified(m)
      BY <2>2 DEF SdkInv
    <3>2. Told(sdkCalls[m])'
      BY <1>2, <1>5, <2>2, <3>1 DEF Told
    <3>3. \A i \in 1..(m - 1) : i \in 1..L
      BY <1>1, <2>2
    <3>4. After(m)'
      BY <1>2, <1>5, <2>2, <3>1, <3>3 DEF After
    <3>5. 1..L \subseteq 1..(L + 1)
      BY <1>1
    <3>6. Lasting(m)'
      BY <1>2, <1>5, <2>2, <3>1, <3>5 DEF Lasting, Leaves, Touched
    <3>8. Justified(m)'
      BY <1>5, <2>2, <3>1, <3>5 DEF Justified, Deleted, Touched
    <3>. QED  BY <3>2, <3>4, <3>6, <3>8
  <2>. QED  BY <1>1, <2>1, <2>2
<1>8. \A x \in sdkServer'.tombs : Deleted(x, sdkServer.turn)'
  <2>1. 1..L \subseteq 1..(L + 1)
    BY <1>1
  <2>2. \A x \in sdkServer.tombs : Deleted(x, sdkServer.turn)
    BY DEF SdkInv
  <2>. QED  BY <1>2, <1>5, <2>1, <2>2 DEF Deleted, Touched
<1>. QED  BY <1>5, <1>6, <1>7, <1>8 DEF SdkInv

LEMMA SentFields ==
    ASSUME NEW c \in Sent
    PROVE  /\ c.op \in Ops /\ c.id \in EIds /\ c.expected \in {0, 1}
           /\ c.at \in {"waiting", "ok", "err"} /\ c.leg \in {1, 2} /\ c.flying \in 0..1
           /\ c.reply \in {"none", "refused", "envelope"}
           /\ c.turn \in Nat /\ c.how \in Hows \cup {"none"}
           /\ c.there \in BOOLEAN /\ c.before \in SUBSET Nat
BY DEF Sent

\* The request is handled: the record of the call then.
LEMMA AnswerIs ==
    ASSUME SdkInv, NEW k \in 1..Len(sdkCalls), sdkCalls[k].flying > 0,
           NEW turn \in Nat, NEW how \in Hows \cup {"none"}, Answer(k, turn, how)
    PROVE  LET c == sdkCalls[k] IN
           /\ c.flying = 1 /\ c.reply = "none" /\ c.at # "ok" /\ c.turn = 0 /\ c.how = "none"
           /\ \E d \in Sent : /\ sdkCalls' = [sdkCalls EXCEPT ![k] = d]
                              /\ d.op = c.op /\ d.id = c.id /\ d.there = c.there
                              /\ d.before = c.before /\ d.at = c.at /\ d.flying = 0
                              /\ d.leg = c.leg /\ d.turn = turn /\ d.how = how
<1>. PICK c : c = sdkCalls[k]
  OBVIOUS
<1>f. PICK f, r : /\ f = c.flying - 1
                  /\ r = IF c.at = "waiting" THEN StatusOf(c) ELSE c.reply
  OBVIOUS
<1>d. PICK d : d = [c EXCEPT !.flying = f, !.reply = r, !.turn = turn, !.how = how]
  OBVIOUS
<1>1. sdkCalls \in Seq(Sent) /\ Len(sdkCalls) \in Nat /\ Told(c) /\ c \in Sent
  BY DEF SdkInv, SdkTyped
<1>2. /\ c.op \in Ops /\ c.id \in EIds /\ c.expected \in {0, 1}
      /\ c.at \in {"waiting", "ok", "err"} /\ c.leg \in {1, 2} /\ c.flying \in 0..1
      /\ c.reply \in {"none", "refused", "envelope"}
      /\ c.turn \in Nat /\ c.how \in Hows \cup {"none"}
      /\ c.there \in BOOLEAN /\ c.before \in SUBSET Nat
  BY <1>1, SentFields
<1>3. c.flying = 1 /\ c.reply = "none" /\ c.at # "ok" /\ c.turn = 0 /\ c.how = "none"
  BY <1>1, <1>2 DEF Told
<1>4. f = 0 /\ f \in 0..1 /\ r \in {"none", "refused", "envelope"}
  BY <1>f, <1>2, <1>3 DEF StatusOf
<1>5. /\ d \in Sent /\ d.op = c.op /\ d.id = c.id /\ d.there = c.there /\ d.before = c.before
      /\ d.at = c.at /\ d.flying = 0 /\ d.leg = c.leg /\ d.turn = turn /\ d.how = how
  <2>1. d = [task |-> c.task, op |-> c.op, id |-> c.id, expected |-> c.expected, at |-> c.at,
             leg |-> c.leg, flying |-> f, reply |-> r, turn |-> turn, how |-> how,
             there |-> c.there, before |-> c.before]
    BY <1>d, <1>1 DEF Sent
  <2>2. c.task \in ETasks
    BY <1>1 DEF Sent
  <2>. QED  BY <1>2, <1>4, <2>1, <2>2 DEF Sent
<1>6. sdkCalls' = [sdkCalls EXCEPT ![k] = d]
  <2>1. sdkCalls' = [sdkCalls EXCEPT
            ![k].flying = @ - 1,
            ![k].reply = IF c.at = "waiting" THEN StatusOf(c) ELSE @,
            ![k].turn = turn, ![k].how = how]
    BY DEF Answer
  <2>2. sdkCalls[k] \in Sent /\ k \in DOMAIN sdkCalls
    BY <1>1
  <2>. QED  BY <1>f, <1>d, <2>1, <2>2 DEF Sent
<1>. QED  BY <1>3, <1>5, <1>6

\* The ids of a write are numerals, and all before the last.
LEMMA TouchedIds ==
    ASSUME NEW c \in Sent
    PROVE  Touched(c) \subseteq ENumerals /\ Carried(c, TextId) = Touched(c)
<1>1. c.id \in EIds
  BY DEF Sent
<1>2. Touched(c) \subseteq ENumerals
  BY <1>1, SdkAssumption DEF Touched, EIds, ENumerals, TextId
<1>. QED  BY <1>2, SdkAssumption DEF Carried, ENumerals, TextId

LEMMA ServeKeeps ==
    ASSUME SdkInv, NEW k \in 1..Len(sdkCalls), Serve(k)
    PROVE  SdkInv'
<1>. PICK c : c = sdkCalls[k]
  OBVIOUS
<1>1. /\ sdkCalls \in Seq(Sent) /\ Len(sdkCalls) \in Nat /\ sdkServer.there \in BOOLEAN
      /\ sdkServer.points \in [ENumerals -> 0..Len(sdkCalls)]
      /\ sdkServer.tombs \in SUBSET ENumerals /\ sdkServer.turn \in Nat
      /\ Told(c) /\ c \in Sent /\ c.turn \in Nat /\ c.how \in Hows \cup {"none"}
  BY SentFields DEF SdkInv, SdkTyped
<1>2. c.flying > 0
  BY DEF Serve
<1>3. ASSUME sdkServer.there, IsWrite(c), NEW stop \in EIds, NEW how \in Hows,
             IF c.op = "delete_point" THEN Deletes(c, stop, how) ELSE Upserts(c, stop, how),
             sdkServer' = [sdkServer EXCEPT !.points = ServedPoints(k, stop), !.turn = @ + 1,
                                           !.tombs = ServedTombs(c, stop, how)],
             Answer(k, sdkServer'.turn, how)
      PROVE  SdkInv'
  <2>. PICK points, tombs, turn : /\ points = ServedPoints(k, stop)
                                  /\ tombs = ServedTombs(c, stop, how)
                                  /\ turn = sdkServer.turn + 1
    OBVIOUS
  <2>1. /\ sdkServer'.there = sdkServer.there /\ sdkServer'.points = points
        /\ sdkServer'.tombs = tombs /\ sdkServer'.turn = turn /\ turn \in Nat /\ turn # 0
        /\ sdkServer' = [there |-> sdkServer'.there, points |-> sdkServer'.points,
                         tombs |-> sdkServer'.tombs, turn |-> sdkServer'.turn]
    <3>1. sdkServer' = [sdkServer EXCEPT !.points = points, !.turn = turn, !.tombs = tombs]
      BY <1>3
    <3>2. turn \in Nat /\ turn # 0
      BY <1>1
    <3>3. sdkServer = [there |-> sdkServer.there, points |-> sdkServer.points,
                       tombs |-> sdkServer.tombs, turn |-> sdkServer.turn]
      BY DEF SdkInv, SdkTyped
    <3>. QED  BY <3>1, <3>2, <3>3
  <2>2. Answer(k, turn, how)
    BY <1>3, <2>1
  <2>3. PICK d \in Sent : /\ sdkCalls' = [sdkCalls EXCEPT ![k] = d]
                          /\ d.op = c.op /\ d.id = c.id /\ d.there = c.there
                          /\ d.before = c.before /\ d.at = c.at /\ d.flying = 0
                          /\ d.leg = c.leg /\ d.turn = turn /\ d.how = how
                          /\ c.at # "ok" /\ c.turn = 0
    BY <1>2, <2>1, <2>2, AnswerIs
  <2>4. /\ Touched(d) = Touched(c) /\ Touched(c) \subseteq ENumerals
        /\ Carried(c, TextId) = Touched(c) /\ Carried(c, stop) \subseteq Touched(c)
    BY <1>1, <2>3, TouchedIds DEF Touched, Carried
  <2>5. \A i \in ENumerals : points[i] = IF i \notin Carried(c, stop) THEN sdkServer.points[i]
                                         ELSE Leaves(d, k)
    BY <2>3 DEF ServedPoints, Leaves
  <2>6. points \in [ENumerals -> 0..Len(sdkCalls)]
    <3>1. Leaves(d, k) \in 0..Len(sdkCalls)
      BY <1>1 DEF Leaves
    <3>2. \A i \in ENumerals : points[i] \in 0..Len(sdkCalls)
      BY <1>1, <2>5, <3>1
    <3>3. points = [i \in ENumerals |-> points[i]]
      BY DEF ServedPoints
    <3>. QED  BY <3>2, <3>3
  <2>7. how = "done" => Carried(c, stop) = Touched(c)
    BY <1>3, <2>4 DEF Deletes, Upserts
  <2>8. how = "refused" => Touched(c) \cap sdkServer.tombs # {}
    BY <1>3 DEF Deletes, Upserts
  <2>9. /\ tombs \in SUBSET ENumerals
        /\ \A id \in tombs : id \in sdkServer.tombs \/ (d.op = "delete_point" /\ id \in Touched(d))
    BY <1>1, <2>3, <2>4 DEF ServedTombs
  <2>10. TakesEffect(d, k)
    BY <1>1, <2>1, <2>3, <2>4, <2>5, <2>6, <2>7, <2>8, <2>9 DEF TakesEffect, Hows
  <2>11. Told(d)'
    BY <1>1, <1>3, <2>1, <2>3 DEF Told, Hows, IsWrite, Writes
  <2>. QED  BY <1>1, <1>3, <2>1, <2>3, <2>10, <2>11, CallGoesOn
<1>4. ASSUME ~(sdkServer.there /\ IsWrite(c)), NEW there \in BOOLEAN, sdkServer.there => there,
             sdkServer' = [sdkServer EXCEPT !.there = there], Answer(k, c.turn, c.how)
      PROVE  SdkInv'
  <2>1. /\ sdkServer'.points = sdkServer.points /\ sdkServer'.tombs = sdkServer.tombs
        /\ sdkServer'.turn = sdkServer.turn /\ sdkServer'.there = there
        /\ sdkServer' = [there |-> sdkServer'.there, points |-> sdkServer'.points,
                         tombs |-> sdkServer'.tombs, turn |-> sdkServer'.turn]
    BY <1>4 DEF SdkInv, SdkTyped
  <2>t. sdkServer'.there \in BOOLEAN /\ (sdkServer.there => sdkServer'.there)
    BY <1>4, <2>1
  <2>3. PICK d \in Sent : /\ sdkCalls' = [sdkCalls EXCEPT ![k] = d]
                          /\ d.op = c.op /\ d.id = c.id /\ d.there = c.there
                          /\ d.before = c.before /\ d.at = c.at /\ d.flying = 0
                          /\ d.leg = c.leg /\ d.turn = c.turn /\ d.how = c.how
                          /\ c.at # "ok" /\ c.turn = 0
    BY <1>1, <1>2, <1>4, AnswerIs
  <2>4. Unwritten(d, k)
    BY <2>1, <2>3 DEF Unwritten
  <2>5. d.op \in Writes /\ d.there => FALSE
    BY <1>1, <1>4, <2>3 DEF Told, IsWrite
  <2>6. Told(d)'
    BY <1>1, <2>1, <2>3, <2>5, <2>t DEF Told
  <2>. QED  BY <1>1, <2>1, <2>3, <2>4, <2>6, <2>t, CallGoesOn
<1>5. CASE sdkServer.there /\ IsWrite(c)
  <2>1. \E stop \in EIds, how \in Hows :
             /\ IF c.op = "delete_point" THEN Deletes(c, stop, how) ELSE Upserts(c, stop, how)
             /\ sdkServer' = [sdkServer EXCEPT !.points = ServedPoints(k, stop), !.turn = @ + 1,
                                              !.tombs = ServedTombs(c, stop, how)]
             /\ Answer(k, sdkServer'.turn, how)
    BY <1>5 DEF Serve, Hows
  <2>. QED  BY <1>3, <1>5, <2>1
<1>6. CASE ~(sdkServer.there /\ IsWrite(c))
  <2>1. \E there \in {sdkServer.there, sdkServer.there \/ c.op = "create_collection"} :
             sdkServer' = [sdkServer EXCEPT !.there = there]
    BY <1>6 DEF Serve
  <2>2. PICK there : /\ there \in BOOLEAN /\ (sdkServer.there => there)
                     /\ sdkServer' = [sdkServer EXCEPT !.there = there]
    BY <1>1, <2>1
  <2>3. Answer(k, c.turn, c.how)
    BY <1>6 DEF Serve
  <2>. QED  BY <1>4, <1>6, <2>2, <2>3
<1>. QED  BY <1>5, <1>6

LEMMA LoseKeeps ==
    ASSUME SdkInv, NEW k \in 1..Len(sdkCalls), Lose(k)
    PROVE  SdkInv'
<1>. PICK c : c = sdkCalls[k]
  OBVIOUS
<1>d. PICK f, d : f = c.flying - 1 /\ d = [c EXCEPT !.flying = f]
  OBVIOUS
<1>1. /\ sdkCalls \in Seq(Sent) /\ Len(sdkCalls) \in Nat /\ sdkServer.there \in BOOLEAN
      /\ sdkServer.points \in [ENumerals -> 0..Len(sdkCalls)]
      /\ Told(c) /\ c \in Sent
  BY DEF SdkInv, SdkTyped
<1>2. f = 0
  <2>1. c.flying \in 0..1 /\ c.flying > 0
    BY <1>1, SentFields DEF Lose
  <2>. QED  BY <1>d, <2>1
<1>3. /\ d \in Sent /\ d.op = c.op /\ d.id = c.id /\ d.there = c.there /\ d.before = c.before
      /\ d.at = c.at /\ d.flying = 0 /\ d.leg = c.leg /\ d.reply = c.reply /\ d.turn = c.turn /\ d.how = c.how
  <2>1. d = [task |-> c.task, op |-> c.op, id |-> c.id, expected |-> c.expected, at |-> c.at,
             leg |-> c.leg, flying |-> f, reply |-> c.reply, turn |-> c.turn, how |-> c.how,
             there |-> c.there, before |-> c.before]
    BY <1>d, <1>1 DEF Sent
  <2>2. c.task \in ETasks /\ f \in 0..1
    BY <1>1, <1>2 DEF Sent
  <2>3. /\ c.op \in Ops /\ c.id \in EIds /\ c.expected \in {0, 1}
        /\ c.at \in {"waiting", "ok", "err"} /\ c.leg \in {1, 2}
        /\ c.reply \in {"none", "refused", "envelope"}
        /\ c.turn \in Nat /\ c.how \in Hows \cup {"none"} /\ c.there \in BOOLEAN /\ c.before \in SUBSET Nat
    BY <1>1, SentFields
  <2>. QED  BY <1>2, <2>1, <2>2, <2>3 DEF Sent
<1>4. sdkCalls' = [sdkCalls EXCEPT ![k] = d] /\ sdkServer' = sdkServer
  BY <1>d DEF Lose
<1>5. Told(d)'
  BY <1>1, <1>3, <1>4 DEF Told
<1>6. Unwritten(d, k)
  BY <1>3, <1>4 DEF Unwritten
<1>7. sdkServer' = [there |-> sdkServer'.there, points |-> sdkServer'.points,
                    tombs |-> sdkServer'.tombs, turn |-> sdkServer'.turn]
  BY <1>4 DEF SdkInv, SdkTyped
<1>. QED  BY <1>1, <1>3, <1>4, <1>5, <1>6, <1>7, CallGoesOn

\* What the client makes of an answer or of none.
LEMMA ClosedKeeps ==
    ASSUME SdkInv, NEW k \in 1..Len(sdkCalls), NEW e \in Sent,
           e.op = sdkCalls[k].op, e.id = sdkCalls[k].id, e.there = sdkCalls[k].there,
           e.before = sdkCalls[k].before, e.turn = sdkCalls[k].turn, e.how = sdkCalls[k].how,
           sdkCalls[k].at # "ok", Told(e), sdkServer' = sdkServer,
           sdkCalls' = [sdkCalls EXCEPT ![k] = Closed(e)]
    PROVE  SdkInv'
<1>1. PICK d : d = Closed(e)
  OBVIOUS
<1>2. /\ d \in Sent /\ d.op = e.op /\ d.id = e.id /\ d.there = e.there /\ d.before = e.before
      /\ d.at = e.at /\ d.leg = e.leg /\ d.flying = e.flying /\ d.turn = e.turn /\ d.how = e.how
      /\ d.reply = "none" \/ d.reply = e.reply
  BY <1>1 DEF Closed, Sent
<1>3. Told(d)'
  BY <1>2 DEF Told
<1>4. sdkServer.there \in BOOLEAN
  BY DEF SdkInv, SdkTyped
<1>5. Unwritten(d, k)
  BY <1>2 DEF Unwritten
<1>6. sdkServer' = [there |-> sdkServer'.there, points |-> sdkServer'.points,
                    tombs |-> sdkServer'.tombs, turn |-> sdkServer'.turn]
  BY DEF SdkInv, SdkTyped
<1>. QED  BY <1>1, <1>2, <1>3, <1>4, <1>5, <1>6, CallGoesOn

LEMMA AfterGetIs ==
    ASSUME NEW c \in Sent, c.flying = 0, c.at = "waiting", c.op = "cas", c.leg = 1, Told(c)
    PROVE  LET e == AfterGet(c) IN
           /\ e \in Sent /\ e.op = c.op /\ e.id = c.id /\ e.there = c.there
           /\ e.before = c.before /\ e.turn = c.turn /\ e.how = c.how /\ Told(e)
<1>1. PICK e : e = AfterGet(c)
  OBVIOUS
<1>2. CASE c.reply = "refused" /\ c.expected = 0
  <2>1. e = [c EXCEPT !.leg = 2, !.flying = 1, !.reply = "none"]
    BY <1>1, <1>2 DEF AfterGet
  <2>2. /\ e \in Sent /\ e.op = c.op /\ e.id = c.id /\ e.there = c.there
        /\ e.before = c.before /\ e.turn = c.turn /\ e.how = c.how /\ e.reply = "none" /\ e.at = "waiting"
        /\ e.leg = 2
    <3>1. PICK f, l, r : f = 1 /\ l = 2 /\ r = "none"
      OBVIOUS
    <3>2. f \in 0..1 /\ l \in {1, 2} /\ r \in {"none", "refused", "envelope"}
      BY <3>1
    <3>3. e = [task |-> c.task, op |-> c.op, id |-> c.id, expected |-> c.expected, at |-> c.at,
               leg |-> l, flying |-> f, reply |-> r, turn |-> c.turn, how |-> c.how,
               there |-> c.there, before |-> c.before]
      BY <2>1, <3>1 DEF Sent
    <3>4. /\ c.op \in Ops /\ c.id \in EIds /\ c.expected \in {0, 1}
          /\ c.at \in {"waiting", "ok", "err"} /\ c.task \in ETasks
          /\ c.turn \in Nat /\ c.how \in Hows \cup {"none"} /\ c.there \in BOOLEAN /\ c.before \in SUBSET Nat
      BY SentFields DEF Sent
    <3>5. e \in Sent
      BY <3>2, <3>3, <3>4 DEF Sent
    <3>. QED  BY <3>1, <3>3, <3>5
  <2>. QED  BY <1>1, <2>2 DEF Told, Writes
<1>3. CASE ~(c.reply = "refused" /\ c.expected = 0)
  <2>1. e = [c EXCEPT !.at = "err"]
    BY <1>1, <1>3 DEF AfterGet
  <2>2. /\ e \in Sent /\ e.op = c.op /\ e.id = c.id /\ e.there = c.there
        /\ e.before = c.before /\ e.turn = c.turn /\ e.how = c.how /\ e.flying = 0 /\ e.leg = 1
        /\ e.at = "err" /\ e.reply = c.reply
    BY <2>1 DEF Sent
  <2>3. c.op \notin Writes
    BY DEF Writes
  <2>. QED  BY <1>1, <2>2, <2>3 DEF Told
<1>. QED  BY <1>2, <1>3

LEMMA ReceiveKeeps ==
    ASSUME SdkInv, NEW k \in 1..Len(sdkCalls), ReceiveReply(k)
    PROVE  SdkInv'
<1>. PICK c, e : c = sdkCalls[k] /\ e = Answered(c)
  OBVIOUS
<1>1. /\ c \in Sent /\ Told(c) /\ c.at = "waiting" /\ c.reply # "none" /\ c.flying = 0
      /\ sdkServer' = sdkServer /\ sdkCalls' = [sdkCalls EXCEPT ![k] = Closed(e)]
  BY DEF SdkInv, SdkTyped, ReceiveReply, Told
<1>2. /\ e \in Sent /\ e.op = c.op /\ e.id = c.id /\ e.there = c.there
      /\ e.before = c.before /\ e.turn = c.turn /\ e.how = c.how /\ Told(e)
  <2>1. CASE c.op = "cas" /\ c.leg = 1
    <3>1. e = AfterGet(c)
      BY <2>1 DEF Answered
    <3>. QED  BY <1>1, <2>1, <3>1, AfterGetIs
  <2>2. CASE ~(c.op = "cas" /\ c.leg = 1)
    <3>1. PICK at : at = IF c.op # "search" /\ c.reply = "envelope" THEN "ok" ELSE "err"
      OBVIOUS
    <3>2. e = [c EXCEPT !.at = at]
      BY <2>2, <3>1 DEF Answered
    <3>3. /\ e \in Sent /\ e.op = c.op /\ e.id = c.id /\ e.there = c.there /\ e.at = at
          /\ e.before = c.before /\ e.turn = c.turn /\ e.how = c.how /\ e.flying = 0 /\ e.reply = c.reply
          /\ e.leg = c.leg
      BY <1>1, <3>1, <3>2 DEF Sent
    <3>. QED  BY <1>1, <3>1, <3>3 DEF Told
  <2>. QED  BY <2>1, <2>2
<1>. QED  BY <1>1, <1>2, ClosedKeeps

LEMMA GiveUpKeeps ==
    ASSUME SdkInv, NEW k \in 1..Len(sdkCalls), GiveUp(k)
    PROVE  SdkInv'
<1>. PICK c, e : c = sdkCalls[k] /\ e = GivenUp(c)
  OBVIOUS
<1>1. /\ c \in Sent /\ Told(c) /\ c.at = "waiting" /\ c.reply = "none"
      /\ sdkServer' = sdkServer /\ sdkCalls' = [sdkCalls EXCEPT ![k] = Closed(e)]
  BY DEF SdkInv, SdkTyped, GiveUp
<1>2. /\ e \in Sent /\ e.op = c.op /\ e.id = c.id /\ e.there = c.there
      /\ e.before = c.before /\ e.turn = c.turn /\ e.how = c.how /\ Told(e)
  <2>1. CASE c.op = "cas" /\ c.leg = 1
    <3>1. PICK b : b = [c EXCEPT !.reply = "refused", !.flying = 0]
      OBVIOUS
    <3>2. e = AfterGet(b)
      BY <2>1, <3>1 DEF GivenUp
    <3>3. /\ b \in Sent /\ b.op = c.op /\ b.id = c.id /\ b.there = c.there /\ b.at = c.at
          /\ b.before = c.before /\ b.turn = c.turn /\ b.how = c.how /\ b.flying = 0 /\ b.leg = c.leg
          /\ b.reply = "refused"
      <4>1. PICK f, r : f = 0 /\ r = "refused"
        OBVIOUS
      <4>2. f \in 0..1 /\ r \in {"none", "refused", "envelope"}
        BY <4>1
      <4>3. b = [c EXCEPT !.reply = r, !.flying = f]
        BY <3>1, <4>1
      <4>. QED  BY <1>1, <4>1, <4>2, <4>3 DEF Sent
    <3>4. Told(b)
      BY <1>1, <2>1, <3>3 DEF Told, Writes
    <3>. QED  BY <1>1, <2>1, <3>2, <3>3, <3>4, AfterGetIs
  <2>2. CASE ~(c.op = "cas" /\ c.leg = 1)
    <3>1. e = [c EXCEPT !.at = "err"]
      BY <2>2 DEF GivenUp
    <3>2. /\ e \in Sent /\ e.op = c.op /\ e.id = c.id /\ e.there = c.there /\ e.at = "err"
          /\ e.before = c.before /\ e.turn = c.turn /\ e.how = c.how /\ e.reply = "none"
          /\ e.leg = c.leg /\ e.flying = c.flying
      BY <1>1, <3>1 DEF Sent
    <3>. QED  BY <1>1, <3>2 DEF Told
  <2>. QED  BY <2>1, <2>2
<1>. QED  BY <1>1, <1>2, ClosedKeeps

LEMMA SdkStep == SdkInv /\ [SdkNext]_SdkVars => SdkInv'
<1>. SUFFICES ASSUME SdkInv, [SdkNext]_SdkVars PROVE SdkInv'
  OBVIOUS
<1>1. ASSUME NEW t \in ETasks, NEW op \in Ops, NEW id \in EIds, NEW expected \in {0, 1},
             Issue(t, op, id, expected)
      PROVE  SdkInv'
  BY <1>1, IssueKeeps
<1>2. TextId \in EIds /\ 0 \in EIds
  BY SdkAssumption DEF EIds, TextId
<1>3. ASSUME NEW t \in ETasks,
             \/ create_collection_call(t) \/ create_multimodal_collection(t)
             \/ insert_batch(t) \/ insert_with_metadata(t)
             \/ client_search(t) \/ search_with_metadata(t)
      PROVE  SdkInv'
  <2>1. \E op \in Ops, id \in EIds : Issue(t, op, id, 0)
    BY <1>2, <1>3 DEF create_collection_call, create_multimodal_collection, insert_batch,
       insert_with_metadata, client_search, search_with_metadata, Ops, Writes
  <2>. QED  BY <1>1, <2>1
<1>4. ASSUME NEW t \in ETasks, NEW id \in EIds,
             \/ insert_with_id(t, id) \/ delete_point_call(t, id) \/ get_point_by_id(t, id)
             \/ \E e \in {0, 1} : compare_and_swap(t, id, e)
      PROVE  SdkInv'
  <2>1. \E op \in Ops, e \in {0, 1} : Issue(t, op, id, e)
    BY <1>4 DEF insert_with_id, delete_point_call, get_point_by_id, compare_and_swap, Ops, Writes
  <2>. QED  BY <1>1, <2>1
<1>5. ASSUME NEW k \in DOMAIN sdkCalls, Serve(k) \/ Lose(k) \/ ReceiveReply(k) \/ GiveUp(k)
      PROVE  SdkInv'
  <2>1. k \in 1..Len(sdkCalls)
    BY DEF SdkInv, SdkTyped
  <2>. QED  BY <1>5, <2>1, ServeKeeps, LoseKeeps, ReceiveKeeps, GiveUpKeeps
<1>6. CASE UNCHANGED SdkVars
  BY <1>6 DEF SdkVars, SdkInv, SdkTyped, Told, After, Lasting, Leaves, Justified, Deleted, Touched
<1>. QED  BY <1>3, <1>4, <1>5, <1>6 DEF SdkNext

LEMMA SdkMeans == SdkInv => SdkSafe
<1>. SUFFICES ASSUME SdkInv PROVE SdkSafe
  OBVIOUS
<1>1. /\ sdkCalls \in Seq(Sent) /\ DOMAIN sdkCalls = 1..Len(sdkCalls) /\ Len(sdkCalls) \in Nat
      /\ sdkServer.there \in BOOLEAN /\ sdkServer.points \in [ENumerals -> 0..Len(sdkCalls)]
      /\ sdkServer.tombs \in SUBSET ENumerals /\ sdkServer.turn \in Nat
  BY DEF SdkInv, SdkTyped
<1>2. \A k \in DOMAIN sdkCalls : /\ sdkCalls[k] \in Sent /\ Told(sdkCalls[k]) /\ After(k)
                                 /\ Lasting(k) /\ Justified(k)
  BY <1>1 DEF SdkInv
<1>3. SdkTypeOK
  <2>1. ASSUME NEW k \in DOMAIN sdkCalls
        PROVE  /\ sdkCalls[k].at \in {"waiting", "ok", "err"} /\ sdkCalls[k].flying \in Nat
               /\ sdkCalls[k].before \subseteq DOMAIN sdkCalls
    <3>1. \A i \in sdkCalls[k].before : i \in 1..(k - 1)
      BY <1>2 DEF After
    <3>2. sdkCalls[k].flying \in 0..1 /\ sdkCalls[k].at \in {"waiting", "ok", "err"}
      BY <1>2, SentFields
    <3>. QED  BY <1>1, <3>1, <3>2
  <2>. QED  BY <1>1, <2>1 DEF SdkTypeOK
<1>4. AckedApplied
  <2>. SUFFICES ASSUME NEW k \in DOMAIN sdkCalls,
                       sdkCalls[k].at = "ok", sdkCalls[k].op \in Writes, sdkCalls[k].there
                PROVE  LET c == sdkCalls[k] IN
                       /\ c.how \in Hows
                       /\ c.how = "done" => \A i \in Touched(c) :
                             \/ sdkServer.points[i] = Leaves(c, k)
                             \/ \E j \in DOMAIN sdkCalls : sdkCalls[j].turn > c.turn /\ i \in Touched(sdkCalls[j])
                       /\ c.how = "refused" => \E j \in DOMAIN sdkCalls :
                             /\ sdkCalls[j].op = "delete_point" /\ sdkCalls[j].turn \in 1..(c.turn - 1)
                             /\ Touched(sdkCalls[j]) \cap Touched(c) # {}
    BY DEF AckedApplied, Hows, Leaves
  <2>1. sdkCalls[k].how \in Hows
    BY <1>2, SentFields DEF Told
  <2>2. sdkCalls[k].how = "refused" => \E j \in DOMAIN sdkCalls :
                             /\ sdkCalls[j].op = "delete_point"
                             /\ sdkCalls[j].turn \in 1..(sdkCalls[k].turn - 1)
                             /\ Touched(sdkCalls[j]) \cap Touched(sdkCalls[k]) # {}
    BY <1>1, <1>2 DEF Justified, Deleted
  <2>. QED  BY <1>1, <1>2, <2>1, <2>2 DEF Lasting
<1>5. NeverRevived
  BY <1>2 DEF NeverRevived, After
<1>. QED  BY <1>3, <1>4, <1>5 DEF SdkSafe

\* A write that is reported as done was handled; what the server carried out of
\* it stays until a later write, a put that was refused comes after a deletion,
\* and a vector that a later call replaced does not come back, whatever requests
\* are still on their way: a request is sent once (client/mod.rs).
THEOREM ClientSound == SdkSpec => []SdkSafe
<1>1. SdkInit => SdkInv
  BY SdkAssumption DEF SdkInit, SdkInv, SdkTyped, ENumerals
<1>2. SdkInv /\ [SdkNext]_SdkVars => SdkInv'
  BY SdkStep
<1>3. SdkInv => SdkSafe
  BY SdkMeans
<1>. QED  BY <1>1, <1>2, <1>3, PTL DEF SdkSpec

-----------------------------------------------------------------------------
(* Change data capture                                                      *)

Events == [by : KTasks, batch : BOOLEAN, seq : Nat]
Emitting == [pc : {"idle", "numbered", "batch"}, n : Nat]
Subs == [state : {"none", "live", "stalled", "ended", "left"}, gen : Nat, at : Nat, from : Nat,
         wire : Seq(Nat), buffer : Seq(Nat), got : Seq(Nat)]

Pubs == [Generations -> Seq(Events)]

CdcTyped ==
    /\ kchan \in Generations \cup {0} /\ kpub \in Pubs
    /\ ktask \in [KTasks -> Emitting] /\ ksub \in [KClients -> Subs]
    /\ kused \in [events : Nat, closes : Nat] /\ kcount \in Nat
    /\ kcount <= kused.events /\ kused.events <= KMaxEvents /\ kused.closes <= KMaxCloses

\* A number that was given out is held by one emitter, or by one event.
Spent(n, pub) ==
    \E g \in Generations : \E i \in 1..Len(pub[g]) : ~pub[g][i].batch /\ pub[g][i].seq = n

\* The channels pub after event e is sent to channel ch.
Joined(ch, pub, e) == IF ch = 0 THEN pub ELSE [pub EXCEPT ![ch] = Append(@, e)]

Unique(pub) ==
    \A g, h \in Generations : \A i \in 1..Len(pub[g]), j \in 1..Len(pub[h]) :
        (<<g, i>> # <<h, j>> /\ ~pub[g][i].batch /\ ~pub[h][j].batch) =>
            pub[g][i].seq # pub[h][j].seq

Numbering ==
    /\ \A n \in Nat : Spent(n, kpub) => n <= kcount
    /\ \A t \in KTasks :
          ktask[t].pc = "numbered" => ktask[t].n <= kcount /\ ~Spent(ktask[t].n, kpub)
    /\ \A t, u \in KTasks :
          t # u /\ ktask[t].pc = "numbered" /\ ktask[u].pc = "numbered" => ktask[t].n # ktask[u].n

\* The messages q, keep-alives aside, are the numbers from lo to hi - 1 in order:
\* f is the number that is due after each of them.
Due(f, q, lo, hi) ==
    /\ f \in [0..Len(q) -> Nat] /\ f[0] = lo /\ f[Len(q)] = hi
    /\ \A i \in 1..Len(q) :
         \/ q[i] = KeepAlive /\ f[i] = f[i - 1]
         \/ q[i] = f[i - 1] /\ q[i] # KeepAlive /\ q[i] < hi /\ f[i] = f[i - 1] + 1

\* A subscriber has got what it was to get, and the rest is on its way.
Following(kind, s, pub) ==
    /\ s \in Subs
    /\ s.state = "none" => s.got = <<>> /\ s.wire = <<>>
    /\ s.state # "none" => s.gen \in Generations /\ s.at <= Len(pub[s.gen]) + 1
    /\ s.from # 0 /\ s.at # 0
    /\ \A i \in 1..Len(s.got) : /\ s.got[i] # 0 /\ s.got[i] < s.at
                                /\ i > 1 => s.got[i] > s.got[i - 1]
                                /\ kind = "sse" => s.got[i] = s.from + i - 1
    /\ kind = "sse" => \E f : Due(f, s.buffer \o s.wire, s.from + Len(s.got), s.at)

CdcInv == CdcTyped /\ Numbering /\ Unique(kpub) /\ \A c \in KClients : Following(KKind[c], ksub[c], kpub)

-----------------------------------------------------------------------------
(* Sequences of messages                                                    *)

\* One more message: the one that is due, or a keep-alive.
LEMMA DueMore ==
    ASSUME NEW q \in Seq(Nat), NEW lo \in Nat, NEW hi \in Nat, hi # KeepAlive,
           \E f : Due(f, q, lo, hi), NEW x \in Nat, NEW top \in Nat,
           (x = KeepAlive /\ top = hi) \/ (x = hi /\ top = hi + 1)
    PROVE  \E f : Due(f, Append(q, x), lo, top)
<1>1. PICK f : Due(f, q, lo, hi)
  OBVIOUS
<1>2. PICK p, L : p = Append(q, x) /\ L = Len(q)
  OBVIOUS
<1>3. /\ L \in Nat /\ p \in Seq(Nat) /\ Len(p) = L + 1 /\ p[L + 1] = x
      /\ \A i \in 1..L : p[i] = q[i]
  BY <1>2, Added
<1>4. /\ f \in [0..L -> Nat] /\ f[0] = lo /\ f[L] = hi
      /\ \A i \in 1..L :
           \/ q[i] = KeepAlive /\ f[i] = f[i - 1]
           \/ q[i] = f[i - 1] /\ q[i] # KeepAlive /\ q[i] < hi /\ f[i] = f[i - 1] + 1
  BY <1>1, <1>2 DEF Due
<1>5. PICK g : g = [i \in 0..(L + 1) |-> IF i = L + 1 THEN top ELSE f[i]]
  OBVIOUS
<1>6. /\ g[L + 1] = top /\ \A i \in 0..L : g[i] = f[i] /\ f[i] \in Nat
      /\ g \in [0..(L + 1) -> Nat]
  BY <1>3, <1>4, <1>5
<1>7. ASSUME NEW i \in 1..(L + 1)
      PROVE  \/ p[i] = KeepAlive /\ g[i] = g[i - 1]
             \/ p[i] = g[i - 1] /\ p[i] # KeepAlive /\ p[i] < top /\ g[i] = g[i - 1] + 1
  <2>1. CASE i = L + 1
    <3>1. g[i - 1] = hi /\ p[i] = x /\ g[i] = top
      BY <1>3, <1>4, <1>6, <2>1
    <3>. QED  BY <3>1
  <2>2. CASE i \in 1..L
    <3>1. i - 1 \in 0..L /\ i \in 0..L
      BY <1>3, <2>2
    <3>2. p[i] = q[i] /\ g[i] = f[i] /\ g[i - 1] = f[i - 1] /\ q[i] \in Nat
      <4>1. i # L + 1 /\ i \in 1..Len(q) /\ i - 1 # L + 1
        BY <1>2, <1>3, <2>2
      <4>2. q[i] \in Nat
        BY <4>1, ElementOfSeq
      <4>3. g[i] = f[i] /\ g[i - 1] = f[i - 1]
        BY <1>6, <3>1
      <4>4. p[i] = q[i]
        BY <1>3, <2>2
      <4>. QED  BY <4>2, <4>3, <4>4
    <3>3. \/ q[i] = KeepAlive /\ f[i] = f[i - 1]
          \/ q[i] = f[i - 1] /\ q[i] # KeepAlive /\ q[i] < hi /\ f[i] = f[i - 1] + 1
      BY <1>4, <2>2
    <3>4. hi <= top
      OBVIOUS
    <3>. QED  BY <3>2, <3>3, <3>4
  <2>. QED  BY <1>3, <2>1, <2>2
<1>8. g[0] = lo
  BY <1>3, <1>4, <1>6
<1>9. Due(g, p, lo, top)
  BY <1>3, <1>6, <1>7, <1>8 DEF Due
<1>. QED  BY <1>2, <1>9

\* The first message is taken out.
LEMMA DueTail ==
    ASSUME NEW q \in Seq(Nat), q # <<>>, NEW lo \in Nat, NEW hi \in Nat, \E f : Due(f, q, lo, hi)
    PROVE  \/ Head(q) = KeepAlive /\ \E f : Due(f, Tail(q), lo, hi)
           \/ /\ Head(q) = lo /\ lo # KeepAlive /\ lo < hi
              /\ \E f : Due(f, Tail(q), lo + 1, hi)
<1>1. PICK f : Due(f, q, lo, hi)
  OBVIOUS
<1>2. PICK p, L : p = Tail(q) /\ L = Len(q)
  OBVIOUS
<1>3. L \in Nat \ {0} /\ Head(q) = q[1] /\ Head(q) \in Nat
  BY <1>2
<1>4. p \in Seq(Nat) /\ Len(p) = L - 1 /\ \A i \in 1..(L - 1) : p[i] = q[i + 1]
  BY <1>2, <1>3
<1>5. /\ f \in [0..L -> Nat] /\ f[0] = lo /\ f[L] = hi
      /\ \A i \in 1..L :
           \/ q[i] = KeepAlive /\ f[i] = f[i - 1]
           \/ q[i] = f[i - 1] /\ q[i] # KeepAlive /\ q[i] < hi /\ f[i] = f[i - 1] + 1
  BY <1>1, <1>2 DEF Due
<1>6. PICK g : g = [i \in 0..(L - 1) |-> f[i + 1]]
  OBVIOUS
<1>7. g \in [0..(L - 1) -> Nat] /\ \A i \in 0..(L - 1) : g[i] = f[i + 1]
  BY <1>3, <1>5, <1>6
<1>8. ASSUME NEW i \in 1..(L - 1)
      PROVE  \/ p[i] = KeepAlive /\ g[i] = g[i - 1]
             \/ p[i] = g[i - 1] /\ p[i] # KeepAlive /\ p[i] < hi /\ g[i] = g[i - 1] + 1
  <2>1. i + 1 \in 1..L /\ i \in 0..(L - 1) /\ i - 1 \in 0..(L - 1) /\ (i + 1) - 1 = i
    BY <1>3
  <2>2. g[i] = f[i + 1] /\ g[i - 1] = f[i] /\ p[i] = q[i + 1]
    BY <1>4, <1>7, <2>1
  <2>. QED  BY <1>5, <2>1, <2>2
<1>9. g[0] = f[1] /\ g[L - 1] = hi /\ 1 \in 1..L
  BY <1>3, <1>5, <1>7
<1>10. Due(g, p, f[1], hi)
  BY <1>4, <1>7, <1>8, <1>9 DEF Due
<1>11. \/ q[1] = KeepAlive /\ f[1] = lo
       \/ q[1] = lo /\ q[1] # KeepAlive /\ q[1] < hi /\ f[1] = lo + 1
  BY <1>5, <1>9
<1>. QED  BY <1>2, <1>3, <1>10, <1>11

LEMMA TailConcat ==
    ASSUME NEW q \in Seq(Nat), NEW r \in Seq(Nat), q # <<>>
    PROVE  /\ q \o r \in Seq(Nat) /\ q \o r # <<>> /\ Head(q \o r) = Head(q)
           /\ Tail(q \o r) = Tail(q) \o r
<1>1. PICK p : p = q \o r
  OBVIOUS
<1>2. /\ p \in Seq(Nat) /\ Len(p) = Len(q) + Len(r)
      /\ \A i \in 1..(Len(q) + Len(r)) : p[i] = IF i <= Len(q) THEN q[i] ELSE r[i - Len(q)]
  BY <1>1, ConcatProperties
<1>3. Len(q) \in Nat \ {0} /\ Len(r) \in Nat
  BY EmptySeq, LenProperties
<1>4. p # <<>>
  BY <1>2, <1>3
<1>5. Head(p) = p[1] /\ Head(q) = q[1]
  BY <1>2, <1>4
<1>6. Head(p) = Head(q)
  BY <1>2, <1>3, <1>5
<1>7. PICK t, u : t = Tail(p) /\ u = Tail(q)
  OBVIOUS
<1>8. /\ t \in Seq(Nat) /\ Len(t) = Len(p) - 1 /\ \A i \in 1..Len(t) : t[i] = p[i + 1]
      /\ u \in Seq(Nat) /\ Len(u) = Len(q) - 1 /\ \A i \in 1..Len(u) : u[i] = q[i + 1]
  BY <1>2, <1>4, <1>7, HeadTailProperties
<1>9. PICK v : v = u \o r
  OBVIOUS
<1>10. /\ v \in Seq(Nat) /\ Len(v) = Len(u) + Len(r)
       /\ \A i \in 1..(Len(u) + Len(r)) : v[i] = IF i <= Len(u) THEN u[i] ELSE r[i - Len(u)]
  BY <1>8, <1>9, ConcatProperties
<1>11. Len(v) = Len(t)
  BY <1>2, <1>3, <1>8, <1>10
<1>12. ASSUME NEW i \in 1..Len(t) PROVE t[i] = v[i]
  <2>1. i + 1 \in 1..(Len(q) + Len(r)) /\ i \in 1..(Len(u) + Len(r)) /\ i \in Nat
    BY <1>2, <1>3, <1>8
  <2>2. t[i] = IF i + 1 <= Len(q) THEN q[i + 1] ELSE r[i + 1 - Len(q)]
    <3>1. t[i] = p[i + 1]
      BY <1>8
    <3>2. p[i + 1] = IF i + 1 <= Len(q) THEN q[i + 1] ELSE r[(i + 1) - Len(q)]
      BY <1>2, <2>1
    <3>. QED  BY <3>1, <3>2
  <2>3. v[i] = IF i <= Len(u) THEN u[i] ELSE r[i - Len(u)]
    BY <1>10, <2>1
  <2>4. CASE i <= Len(u)
    <3>1. i \in 1..Len(u) /\ i + 1 <= Len(q)
      BY <1>3, <1>8, <2>1, <2>4
    <3>. QED  BY <1>8, <2>2, <2>3, <2>4, <3>1
  <2>5. CASE ~(i <= Len(u))
    <3>1. ~(i + 1 <= Len(q)) /\ i - Len(u) = i + 1 - Len(q)
      BY <1>3, <1>8, <2>1, <2>5
    <3>. QED  BY <2>2, <2>3, <2>5, <3>1
  <2>. QED  BY <2>4, <2>5
<1>13. t = v
  BY <1>8, <1>10, <1>11, <1>12, SeqEqual
<1>. QED  BY <1>1, <1>2, <1>4, <1>6, <1>7, <1>9, <1>13

\* What a chunk moves from the wire to the buffer does not change what is to come.
Chunk(b, w, all, rest) ==
    /\ all \in Seq(Nat) /\ all # <<>> /\ Tail(all) \in Seq(Nat) /\ rest \in Seq(Nat)
    /\ b \o w \in Seq(Nat) /\ b \o w # <<>>
    /\ Head(b \o w) = Head(all) /\ Tail(b \o w) = Tail(all) \o rest

LEMMA Moved ==
    ASSUME NEW b \in Seq(Nat), NEW w \in Seq(Nat), NEW n \in 1..Len(w),
           NEW all, NEW rest, b \o SubSeq(w, 1, n) = all, SubSeq(w, n + 1, Len(w)) = rest
    PROVE  Chunk(b, w, all, rest)
<1>1. PICK c, rs, al : /\ c = SubSeq(w, 1, n) /\ rs = SubSeq(w, n + 1, Len(w))
                       /\ al = b \o c
  OBVIOUS
<1>2. Len(b) \in Nat /\ Len(w) \in Nat /\ n \in Nat /\ n <= Len(w) /\ n >= 1
  BY LenProperties
<1>3. \A i \in 1..Len(w) : w[i] \in Nat
  BY ElementOfSeq
<1>4. c \in Seq(Nat) /\ Len(c) = n
  <2>1. \A i \in 1..n : w[i] \in Nat
    BY <1>2, <1>3
  <2>. QED  BY <1>1, <1>2, <2>1, SubSeqProperties
<1>5. rs \in Seq(Nat)
  <2>1. \A i \in (n + 1)..Len(w) : w[i] \in Nat
    BY <1>2, <1>3
  <2>. QED  BY <1>1, <1>2, <2>1, SubSeqProperties
<1>6. c \o rs = w
  <2>1. 1 \in 1..(Len(w) + 1) /\ n \in (1 - 1)..Len(w) /\ Len(w) \in n..Len(w)
    BY <1>2
  <2>2. c \o rs = SubSeq(w, 1, Len(w))
    BY <1>1, <2>1, ConcatAdjacentSubSeq
  <2>. QED  BY <2>2, SubSeqFull
<1>7. al \in Seq(Nat) /\ Len(al) = Len(b) + n
  BY <1>1, <1>4, ConcatProperties
<1>8. al # <<>>
  BY <1>2, <1>7
<1>9. al \o rs = b \o w
  <2>1. PICK p, q : p = al \o rs /\ q = b \o w
    OBVIOUS
  <2>2. /\ Len(rs) = Len(w) - n
        /\ \A i \in 1..Len(w) : w[i] = IF i <= n THEN c[i] ELSE rs[i - n]
    <3>1. PICK v : v = c \o rs
      OBVIOUS
    <3>2. /\ v = w /\ Len(v) = n + Len(rs)
          /\ \A i \in 1..(n + Len(rs)) : v[i] = IF i <= n THEN c[i] ELSE rs[i - n]
      BY <1>4, <1>5, <1>6, <3>1, ConcatProperties
    <3>3. Len(rs) \in Nat
      BY <1>5, LenProperties
    <3>. QED  BY <1>2, <3>2, <3>3
  <2>3. /\ p \in Seq(Nat) /\ Len(p) = Len(b) + n + (Len(w) - n)
        /\ \A i \in 1..(Len(b) + n + (Len(w) - n)) :
              p[i] = IF i <= Len(b) + n THEN al[i] ELSE rs[i - (Len(b) + n)]
    <3>1. /\ p \in Seq(Nat) /\ Len(p) = Len(al) + Len(rs)
          /\ \A i \in 1..(Len(al) + Len(rs)) :
                p[i] = IF i <= Len(al) THEN al[i] ELSE rs[i - Len(al)]
      BY <1>5, <1>7, <2>1, ConcatProperties
    <3>2. Len(al) = Len(b) + n /\ Len(rs) = Len(w) - n
      BY <1>7, <2>2
    <3>. QED  BY <3>1, <3>2
  <2>4. /\ q \in Seq(Nat) /\ Len(q) = Len(b) + Len(w)
        /\ \A i \in 1..(Len(b) + Len(w)) : q[i] = IF i <= Len(b) THEN b[i] ELSE w[i - Len(b)]
    BY <2>1, ConcatProperties
  <2>5. \A i \in 1..(Len(b) + n) : al[i] = IF i <= Len(b) THEN b[i] ELSE c[i - Len(b)]
    BY <1>1, <1>4, ConcatProperties
  <2>6. ASSUME NEW i \in 1..Len(p) PROVE p[i] = q[i]
    <3>1. i \in Nat /\ i \in 1..(Len(b) + Len(w))
      BY <1>2, <2>3
    <3>2. CASE i <= Len(b)
      <4>1. i \in 1..(Len(b) + n)
        BY <1>2, <3>1, <3>2
      <4>2. i <= Len(b) + n /\ i \in 1..(Len(b) + n + (Len(w) - n))
        BY <1>2, <3>1, <3>2
      <4>3. p[i] = al[i]
        BY <2>3, <4>2
      <4>4. al[i] = b[i]
        BY <2>5, <3>2, <4>1
      <4>5. q[i] = b[i]
        BY <2>4, <3>1, <3>2
      <4>. QED  BY <4>3, <4>4, <4>5
    <3>3. CASE ~(i <= Len(b))
      <4>1. PICK j : j = i - Len(b)
        OBVIOUS
      <4>2. j \in 1..Len(w) /\ j \in Nat
        BY <1>2, <3>1, <3>3, <4>1
      <4>3. q[i] = IF j <= n THEN c[j] ELSE rs[j - n]
        BY <2>2, <2>4, <3>1, <3>3, <4>1, <4>2
      <4>4. CASE j <= n
        <5>1. i \in 1..(Len(b) + n) /\ i <= Len(b) + n
          BY <1>2, <3>1, <4>1, <4>2, <4>4
        <5>. QED  BY <2>3, <2>5, <3>3, <4>1, <4>3, <4>4, <5>1
      <4>5. CASE ~(j <= n)
        <5>1. ~(i <= Len(b) + n) /\ i - (Len(b) + n) = j - n
          BY <1>2, <3>1, <4>1, <4>2, <4>5
        <5>. QED  BY <2>3, <4>3, <4>5, <5>1
      <4>. QED  BY <4>4, <4>5
    <3>. QED  BY <3>2, <3>3
  <2>7. Len(p) = Len(q)
    BY <1>2, <2>3, <2>4
  <2>8. p = q
    BY <2>3, <2>4, <2>6, <2>7, SeqEqual
  <2>. QED  BY <2>1, <2>8
<1>10. Tail(al) \in Seq(Nat)
  BY <1>7, <1>8, HeadTailProperties
<1>11. /\ al \o rs \in Seq(Nat) /\ al \o rs # <<>> /\ Head(al \o rs) = Head(al)
       /\ Tail(al \o rs) = Tail(al) \o rs
  BY <1>5, <1>7, <1>8, TailConcat
<1>12. /\ b \o w \in Seq(Nat) /\ b \o w # <<>> /\ Head(b \o w) = Head(al)
       /\ Tail(b \o w) = Tail(al) \o rs
  BY <1>9, <1>11, Zenon
<1>13. al = all /\ rs = rest
  BY <1>1, Zenon
<1>. QED  BY <1>5, <1>7, <1>8, <1>10, <1>12, <1>13, Zenon DEF Chunk

LEMMA OneMore ==
    ASSUME NEW b \in Seq(Nat), NEW w \in Seq(Nat), NEW x \in Nat
    PROVE  /\ Append(w, x) \in Seq(Nat) /\ b \o w \in Seq(Nat)
           /\ b \o Append(w, x) = Append(b \o w, x)
<1>1. PICK v, p, q, r : v = Append(w, x) /\ r = b \o w /\ p = b \o v /\ q = Append(r, x)
  OBVIOUS
<1>2. /\ v \in Seq(Nat) /\ Len(v) = Len(w) + 1 /\ v[Len(w) + 1] = x
      /\ \A m \in 1..Len(w) : v[m] = w[m]
  BY <1>1, Added
<1>3. /\ r \in Seq(Nat) /\ Len(r) = Len(b) + Len(w)
      /\ \A i \in 1..(Len(b) + Len(w)) : r[i] = IF i <= Len(b) THEN b[i] ELSE w[i - Len(b)]
  BY <1>1, ConcatProperties
<1>4. /\ q \in Seq(Nat) /\ Len(q) = Len(r) + 1 /\ q[Len(r) + 1] = x
      /\ \A m \in 1..Len(r) : q[m] = r[m]
  BY <1>1, <1>3, Added
<1>5. /\ p \in Seq(Nat) /\ Len(p) = Len(b) + Len(v)
      /\ \A i \in 1..(Len(b) + Len(v)) : p[i] = IF i <= Len(b) THEN b[i] ELSE v[i - Len(b)]
  BY <1>1, <1>2, ConcatProperties
<1>6. Len(b) \in Nat /\ Len(w) \in Nat
  BY LenProperties
<1>7. Len(p) = Len(q)
  BY <1>2, <1>3, <1>4, <1>5
<1>8. ASSUME NEW i \in 1..Len(p) PROVE p[i] = q[i]
  <2>1. i \in 1..(Len(b) + Len(v)) /\ i \in Nat /\ i <= Len(b) + Len(w) + 1
    BY <1>2, <1>5, <1>6
  <2>2. p[i] = IF i <= Len(b) THEN b[i] ELSE v[i - Len(b)]
    BY <1>5, <2>1
  <2>3. CASE i <= Len(b)
    <3>1. i \in 1..Len(r) /\ i \in 1..(Len(b) + Len(w))
      BY <1>3, <1>6, <2>1, <2>3
    <3>. QED  BY <1>3, <1>4, <2>2, <2>3, <3>1
  <2>4. CASE ~(i <= Len(b)) /\ i <= Len(b) + Len(w)
    <3>1. i \in 1..Len(r) /\ i \in 1..(Len(b) + Len(w)) /\ i - Len(b) \in 1..Len(w)
      BY <1>3, <1>6, <2>1, <2>4
    <3>2. q[i] = w[i - Len(b)]
      BY <1>3, <1>4, <2>4, <3>1
    <3>3. p[i] = w[i - Len(b)]
      BY <1>2, <2>2, <2>4, <3>1
    <3>. QED  BY <3>2, <3>3
  <2>5. CASE i = Len(b) + Len(w) + 1
    <3>1. i = Len(r) + 1 /\ ~(i <= Len(b)) /\ i - Len(b) = Len(w) + 1
      BY <1>3, <1>6, <2>5
    <3>. QED  BY <1>2, <1>4, <2>2, <3>1
  <2>. QED  BY <1>6, <2>1, <2>3, <2>4, <2>5
<1>9. p = q
  BY <1>4, <1>5, <1>7, <1>8, SeqEqual
<1>. QED  BY <1>1, <1>2, <1>3, <1>9

-----------------------------------------------------------------------------
(* The emitters                                                             *)

\* A publication adds at most its own event, and its own number.
Adds(pub, e, p) ==
    /\ p \in Pubs /\ \A g \in Generations : Len(p[g]) >= Len(pub[g])
    /\ \A n \in Nat : Spent(n, p) => Spent(n, pub) \/ (~e.batch /\ n = e.seq)
    /\ (Unique(pub) /\ (e.batch \/ ~Spent(e.seq, pub))) => Unique(p)

LEMMA PublishedAdds ==
    ASSUME NEW ch \in Generations \cup {0}, NEW pub \in Pubs, NEW e \in Events,
           NEW p, p = Joined(ch, pub, e)
    PROVE  Adds(pub, e, p)
<1>1. CASE ch = 0
  <2>1. p = pub
    BY <1>1 DEF Joined
  <2>2. \A g \in Generations : Len(pub[g]) \in Nat
    BY DEF Pubs
  <2>3. \A g \in Generations : Len(pub[g]) >= Len(pub[g])
    BY <2>2
  <2>. QED  BY <2>1, <2>3 DEF Adds
<1>2. CASE ch \in Generations
  <2>1. 0 \notin Generations
    BY ChangeStreamAssumption DEF Generations
  <2>2. PICK a, L : a = Append(pub[ch], e) /\ L = Len(pub[ch])
    OBVIOUS
  <2>3. /\ L \in Nat /\ a \in Seq(Events) /\ Len(a) = L + 1 /\ a[L + 1] = e
        /\ \A m \in 1..L : a[m] = pub[ch][m]
    <3>1. pub[ch] \in Seq(Events)
      BY <1>2 DEF Pubs
    <3>. QED  BY <2>2, <3>1, Added
  <2>4. p[ch] = a /\ (\A g \in Generations : g # ch => p[g] = pub[g]) /\ p \in Pubs
    BY <1>2, <2>1, <2>2, <2>3 DEF Pubs, Joined
  <2>5. \A g \in Generations : Len(p[g]) >= Len(pub[g]) /\ Len(p[g]) \in Nat /\ Len(pub[g]) \in Nat
    <3>1. \A g \in Generations : Len(pub[g]) \in Nat
      BY DEF Pubs
    <3>. QED  BY <2>2, <2>3, <2>4, <3>1
  <2>6. ASSUME NEW g \in Generations, NEW i \in 1..Len(p[g])
        PROVE  \/ i \in 1..Len(pub[g]) /\ p[g][i] = pub[g][i]
               \/ g = ch /\ i = L + 1 /\ p[g][i] = e
    <3>1. CASE g = ch
      <4>1. i \in 1..(L + 1)
        BY <2>3, <2>4, <3>1
      <4>2. i \in 1..L \/ i = L + 1
        BY <2>3, <4>1
      <4>. QED  BY <2>2, <2>3, <2>4, <3>1, <4>2
    <3>2. CASE g # ch
      BY <2>4, <3>2
    <3>. QED  BY <3>1, <3>2
  <2>7. ASSUME NEW n \in Nat, Spent(n, p)
        PROVE  Spent(n, pub) \/ (~e.batch /\ n = e.seq)
    <3>1. PICK g \in Generations : \E i \in 1..Len(p[g]) : ~p[g][i].batch /\ p[g][i].seq = n
      BY <2>7 DEF Spent
    <3>2. PICK i \in 1..Len(p[g]) : ~p[g][i].batch /\ p[g][i].seq = n
      BY <3>1
    <3>3. \/ i \in 1..Len(pub[g]) /\ p[g][i] = pub[g][i]
          \/ g = ch /\ i = L + 1 /\ p[g][i] = e
      BY <2>6
    <3>. QED  BY <3>2, <3>3 DEF Spent
  <2>8. ASSUME Unique(pub), e.batch \/ ~Spent(e.seq, pub)
        PROVE  Unique(p)
    <3>1. SUFFICES ASSUME NEW g \in Generations, NEW h \in Generations,
                          NEW i \in 1..Len(p[g]), NEW j \in 1..Len(p[h]),
                          <<g, i>> # <<h, j>>, ~p[g][i].batch, ~p[h][j].batch
                   PROVE  p[g][i].seq # p[h][j].seq
      BY DEF Unique
    <3>2. \/ i \in 1..Len(pub[g]) /\ p[g][i] = pub[g][i]
          \/ g = ch /\ i = L + 1 /\ p[g][i] = e
      BY <2>6
    <3>3. \/ j \in 1..Len(pub[h]) /\ p[h][j] = pub[h][j]
          \/ h = ch /\ j = L + 1 /\ p[h][j] = e
      BY <2>6
    <3>4. CASE i \in 1..Len(pub[g]) /\ p[g][i] = pub[g][i] /\ j \in 1..Len(pub[h]) /\ p[h][j] = pub[h][j]
      BY <2>8, <3>1, <3>4 DEF Unique
    <3>5. CASE i \in 1..Len(pub[g]) /\ p[g][i] = pub[g][i] /\ h = ch /\ j = L + 1 /\ p[h][j] = e
      BY <2>8, <3>1, <3>5 DEF Spent
    <3>6. CASE g = ch /\ i = L + 1 /\ p[g][i] = e /\ j \in 1..Len(pub[h]) /\ p[h][j] = pub[h][j]
      BY <2>8, <3>1, <3>6 DEF Spent
    <3>7. ~(g = ch /\ i = L + 1 /\ h = ch /\ j = L + 1)
      BY <3>1
    <3>. QED  BY <3>2, <3>3, <3>4, <3>5, <3>6, <3>7
  <2>. QED  BY <2>4, <2>5, <2>7, <2>8 DEF Adds
<1>. QED  BY <1>1, <1>2

\* More events do not change what a subscriber has got.
LEMMA StillFollowing ==
    ASSUME NEW kind, NEW s, NEW pub \in Pubs, NEW p \in Pubs, Following(kind, s, pub),
           \A g \in Generations : Len(p[g]) >= Len(pub[g])
    PROVE  Following(kind, s, p)
<1>1. s.state # "none" => s.at <= Len(p[s.gen]) + 1
  <2>1. SUFFICES ASSUME s.state # "none" PROVE s.at <= Len(p[s.gen]) + 1
    OBVIOUS
  <2>2. s.gen \in Generations /\ s.at <= Len(pub[s.gen]) + 1 /\ s.at \in Nat
    BY <2>1 DEF Following, Subs
  <2>3. Len(p[s.gen]) \in Nat /\ Len(pub[s.gen]) \in Nat /\ Len(p[s.gen]) >= Len(pub[s.gen])
    BY <2>2 DEF Pubs
  <2>. QED  BY <2>2, <2>3
<1>. QED  BY <1>1 DEF Following

LEMMA EmitKeeps ==
    ASSUME CdcInv, NEW t \in KTasks, emit(t)
    PROVE  CdcInv'
<1>1. PICK k, ev, tk : k = kcount /\ ev = kused.events /\ tk = ktask'
  OBVIOUS
<1>2. k \in Nat /\ ev \in Nat /\ k <= ev /\ ev + 1 <= KMaxEvents /\ KMaxEvents \in Nat
  BY <1>1, ChangeStreamAssumption DEF CdcInv, CdcTyped, emit
<1>3. /\ kcount' = k + 1 /\ kpub' = kpub /\ ksub' = ksub /\ kchan' = kchan
      /\ kused' = [events |-> ev + 1, closes |-> kused.closes]
  BY <1>1 DEF CdcInv, CdcTyped, emit, Numbered
<1>4. /\ tk[t] = [pc |-> "numbered", n |-> k + 1] /\ tk \in [KTasks -> Emitting]
      /\ \A u \in KTasks : u # t => tk[u] = ktask[u]
  <2>1. [pc |-> "numbered", n |-> k + 1] \in Emitting
    BY <1>2 DEF Emitting
  <2>2. tk = [ktask EXCEPT ![t] = [pc |-> "numbered", n |-> k + 1]]
    BY <1>1 DEF emit
  <2>. QED  BY <2>1, <2>2 DEF CdcInv, CdcTyped
<1>5. CdcTyped'
  BY <1>1, <1>2, <1>3, <1>4 DEF CdcInv, CdcTyped
<1>6. Numbering'
  <2>1. \A n \in Nat : Spent(n, kpub) => n <= k
    BY <1>1 DEF CdcInv, Numbering
  <2>2. \A n \in Nat : Spent(n, kpub) => n <= k + 1 /\ n # k + 1
    BY <1>2, <2>1
  <2>3. \A u \in KTasks : u # t /\ tk[u].pc = "numbered" =>
            tk[u].n <= k /\ ~Spent(tk[u].n, kpub) /\ tk[u].n \in Nat
    BY <1>1, <1>4 DEF CdcInv, CdcTyped, Numbering, Emitting
  <2>4. \A u \in KTasks : tk[u].pc = "numbered" => tk[u].n <= k + 1 /\ ~Spent(tk[u].n, kpub)
    BY <1>2, <1>4, <2>2, <2>3
  <2>5. \A u, v \in KTasks :
          u # v /\ tk[u].pc = "numbered" /\ tk[v].pc = "numbered" => tk[u].n # tk[v].n
    <3>1. \A u, v \in KTasks :
          u # v /\ u # t /\ v # t /\ tk[u].pc = "numbered" /\ tk[v].pc = "numbered" => tk[u].n # tk[v].n
      BY <1>4 DEF CdcInv, Numbering
    <3>2. \A u \in KTasks : u # t /\ tk[u].pc = "numbered" => tk[u].n # tk[t].n
      BY <1>2, <1>4, <2>3
    <3>. QED  BY <3>1, <3>2
  <2>. QED  BY <1>1, <1>3, <2>2, <2>4, <2>5 DEF Numbering
<1>. QED  BY <1>3, <1>5, <1>6 DEF CdcInv

\* A publication: the event of an emitter, and the emitter goes on.
LEMMA PublishKeeps ==
    ASSUME CdcInv, NEW t \in KTasks, NEW e \in Events, NEW k \in Emitting, k.pc # "numbered",
           kpub' = Published(e), ktask' = [ktask EXCEPT ![t] = k],
           \/ e.batch
           \/ ktask[t].pc = "numbered" /\ e.seq = ktask[t].n,
           kcount' = kcount, ksub' = ksub, kchan' = kchan,
           kused' \in [events : Nat, closes : Nat], kused'.events >= kused.events,
           kused'.events <= KMaxEvents, kused'.closes = kused.closes
    PROVE  CdcInv'
<1>1. PICK p, b, tk, ch : p = kpub' /\ b = kpub /\ tk = ktask' /\ ch = kchan
  OBVIOUS
<1>2. ch \in Generations \cup {0} /\ b \in Pubs
      /\ p = Joined(ch, b, e)
  BY <1>1 DEF CdcInv, CdcTyped, Published, Joined
<1>3. /\ p \in Pubs /\ \A g \in Generations : Len(p[g]) >= Len(b[g])
      /\ \A n \in Nat : Spent(n, p) => Spent(n, b) \/ (~e.batch /\ n = e.seq)
      /\ Unique(b) /\ (e.batch \/ ~Spent(e.seq, b)) => Unique(p)
  <2>1. ch \in Generations \cup {0}
    BY <1>2
  <2>2. b \in Pubs
    BY <1>2
  <2>3. p = Joined(ch, b, e)
    BY <1>2
  <2>4. Adds(b, e, p)
    BY <2>1, <2>2, <2>3, PublishedAdds
  <2>. QED  BY <2>4 DEF Adds
<1>4. Unique(b) /\ (e.batch \/ ~Spent(e.seq, b))
  BY <1>1 DEF CdcInv, Numbering
<1>5. /\ tk[t] = k /\ tk \in [KTasks -> Emitting] /\ \A u \in KTasks : u # t => tk[u] = ktask[u]
  BY <1>1 DEF CdcInv, CdcTyped
<1>6. CdcTyped'
  <2>1. kcount \in Nat /\ kcount <= kused.events /\ kused.events \in Nat /\ kused.closes \in Nat
        /\ kused.closes <= KMaxCloses
    BY DEF CdcInv, CdcTyped
  <2>2. kused'.events \in Nat
    OBVIOUS
  <2>3. kcount <= kused'.events
    BY <2>1, <2>2
  <2>. QED  BY <1>1, <1>3, <1>5, <2>1, <2>3 DEF CdcInv, CdcTyped
<1>7. Numbering'
  <2>1. ~e.batch => e.seq <= kcount
    BY DEF CdcInv, Numbering
  <2>2. \A n \in Nat : Spent(n, p) => n <= kcount
    BY <1>1, <1>3, <2>1 DEF CdcInv, Numbering
  <2>3. ASSUME NEW u \in KTasks, tk[u].pc = "numbered"
        PROVE  u # t /\ tk[u] = ktask[u] /\ tk[u].n <= kcount /\ ~Spent(tk[u].n, p)
    <3>1. u # t /\ tk[u] = ktask[u] /\ ktask[u].pc = "numbered"
      BY <1>5, <2>3
    <3>2. tk[u].n <= kcount /\ ~Spent(tk[u].n, b) /\ tk[u].n \in Nat
      BY <1>1, <1>5, <3>1 DEF CdcInv, Numbering, Emitting
    <3>3. ~e.batch => e.seq # tk[u].n
      BY <3>1 DEF CdcInv, Numbering
    <3>. QED  BY <1>3, <3>1, <3>2, <3>3
  <2>4. \A u, v \in KTasks :
          u # v /\ tk[u].pc = "numbered" /\ tk[v].pc = "numbered" => tk[u].n # tk[v].n
    BY <2>3 DEF CdcInv, Numbering
  <2>. QED  BY <1>1, <2>2, <2>3, <2>4 DEF Numbering
<1>8. ASSUME NEW c \in KClients PROVE Following(KKind[c], ksub[c], p)
  <2>1. Following(KKind[c], ksub[c], b)
    BY <1>1 DEF CdcInv
  <2>. QED  BY <1>2, <1>3, <2>1, StillFollowing
<1>. QED  BY <1>1, <1>3, <1>4, <1>6, <1>7, <1>8 DEF CdcInv

LEMMA NumberedKeeps ==
    ASSUME CdcInv, NEW t \in KTasks, PublishNumbered(t)
    PROVE  CdcInv'
<1>1. PICK e : e = [by |-> t, batch |-> FALSE, seq |-> ktask[t].n]
  OBVIOUS
<1>2. e \in Events /\ e.seq = ktask[t].n /\ ktask[t].pc = "numbered"
  BY <1>1 DEF CdcInv, CdcTyped, Events, Emitting, PublishNumbered
<1>3. NotEmitting \in Emitting /\ NotEmitting.pc # "numbered"
  BY DEF NotEmitting, Emitting
<1>4. /\ kpub' = Published(e) /\ ktask' = [ktask EXCEPT ![t] = NotEmitting]
      /\ kcount' = kcount /\ ksub' = ksub /\ kchan' = kchan /\ kused' = kused
  BY <1>1 DEF PublishNumbered
<1>5. /\ kused \in [events : Nat, closes : Nat] /\ kused.events >= kused.events
      /\ kused.events <= KMaxEvents
  BY DEF CdcInv, CdcTyped
<1>. QED  BY <1>2, <1>3, <1>4, <1>5, PublishKeeps

LEMMA BatchKeeps ==
    ASSUME CdcInv, NEW t \in KTasks, emit_batch(t)
    PROVE  CdcInv'
<1>1. PICK e, ev : e = [by |-> t, batch |-> TRUE, seq |-> ktask[t].n] /\ ev = kused.events
  OBVIOUS
<1>2. e \in Events /\ e.batch
  BY <1>1 DEF CdcInv, CdcTyped, Events, Emitting
<1>3. PICK more \in BOOLEAN :
        ktask' = [ktask EXCEPT ![t] = IF more THEN [pc |-> "batch", n |-> @.n + 1] ELSE NotEmitting]
  BY DEF emit_batch
<1>4. PICK k : k = IF more THEN [pc |-> "batch", n |-> ktask[t].n + 1] ELSE NotEmitting
  OBVIOUS
<1>5. k \in Emitting /\ k.pc # "numbered"
  BY <1>4 DEF CdcInv, CdcTyped, NotEmitting, Emitting
<1>6. ktask' = [ktask EXCEPT ![t] = k]
  BY <1>3, <1>4 DEF CdcInv, CdcTyped
<1>7. /\ kpub' = Published(e) /\ kcount' = kcount /\ ksub' = ksub /\ kchan' = kchan
  BY <1>1 DEF emit_batch
<1>8. ev \in Nat /\ ev < KMaxEvents /\ kused' = [events |-> ev + 1, closes |-> kused.closes]
      /\ kused.closes \in Nat
  BY <1>1 DEF CdcInv, CdcTyped, emit_batch
<1>9. /\ kused' \in [events : Nat, closes : Nat] /\ kused'.events >= ev
      /\ kused'.events <= KMaxEvents /\ kused'.closes = kused.closes
  BY <1>8, ChangeStreamAssumption
<1>. QED  BY <1>1, <1>2, <1>5, <1>6, <1>7, <1>9, PublishKeeps

LEMMA CloseKeeps ==
    ASSUME CdcInv, close_collection
    PROVE  CdcInv'
<1>1. PICK cl : cl = kused.closes
  OBVIOUS
<1>2. cl \in Nat /\ cl < KMaxCloses /\ kused' = [events |-> kused.events, closes |-> cl + 1]
      /\ kchan' = 0 /\ kpub' = kpub /\ kcount' = kcount /\ ktask' = ktask /\ ksub' = ksub
  BY <1>1 DEF CdcInv, CdcTyped, close_collection
<1>3. CdcTyped'
  BY <1>2, ChangeStreamAssumption DEF CdcInv, CdcTyped
<1>4. Numbering'
  BY <1>2 DEF CdcInv, Numbering
<1>. QED  BY <1>2, <1>3, <1>4 DEF CdcInv

-----------------------------------------------------------------------------
(* The subscribers                                                          *)

\* A step of one subscriber keeps the invariant when it goes on as it should.
LEMMA Reseated ==
    ASSUME CdcInv, NEW c \in KClients, NEW s, ksub' = [ksub EXCEPT ![c] = s],
           Following(KKind[c], s, kpub), kpub' = kpub, kcount' = kcount, ktask' = ktask,
           kused' = kused, kchan' \in Generations \cup {0}
    PROVE  CdcInv'
<1>1. s \in Subs
  BY DEF Following
<1>2. CdcTyped'
  BY <1>1 DEF CdcInv, CdcTyped
<1>3. Numbering'
  BY DEF CdcInv, Numbering
<1>4. PICK su : su = ksub'
  OBVIOUS
<1>5. \A d \in KClients : su[d] = IF d = c THEN s ELSE ksub[d]
  BY <1>4 DEF CdcInv, CdcTyped
<1>6. \A d \in KClients : Following(KKind[d], su[d], kpub)
  BY <1>5 DEF CdcInv
<1>. QED  BY <1>2, <1>3, <1>4, <1>6 DEF CdcInv

LEMMA SubscribeKeeps ==
    ASSUME CdcInv, NEW c \in KClients, subscribe(c)
    PROVE  CdcInv'
<1>1. PICK g, L : g = (IF kchan = 0 THEN kused.closes + 1 ELSE kchan) /\ L = Len(kpub[g])
  OBVIOUS
<1>2. g \in Generations
  BY <1>1, ChangeStreamAssumption DEF CdcInv, CdcTyped, Generations
<1>3. L \in Nat
  BY <1>1, <1>2 DEF CdcInv, CdcTyped, Pubs
<1>4. PICK at, s : at = L + 1 /\ s = [Detached EXCEPT !.state = "live", !.gen = g, !.at = at, !.from = at]
  OBVIOUS
<1>5. ksub' = [ksub EXCEPT ![c] = s]
  BY <1>1, <1>4 DEF subscribe
<1>6. /\ s \in Subs /\ s.state = "live" /\ s.gen = g /\ s.at = at /\ s.from = at
      /\ s.wire = <<>> /\ s.buffer = <<>> /\ s.got = <<>>
  <2>1. g \in Nat /\ at \in Nat
    BY <1>2, <1>3, <1>4 DEF Generations
  <2>2. <<>> \in Seq(Nat)
    OBVIOUS
  <2>3. s = [state |-> "live", gen |-> g, at |-> at, from |-> at, wire |-> <<>>, buffer |-> <<>>, got |-> <<>>]
    BY <1>4 DEF Detached
  <2>. QED  BY <2>1, <2>2, <2>3 DEF Subs
<1>7. Following(KKind[c], s, kpub)
  <2>1. \E f : Due(f, <<>> \o <<>>, L + 1 + 0, L + 1)
    <3>1. PICK f : f = [i \in 0..0 |-> L + 1]
      OBVIOUS
    <3>2. f \in [0..0 -> Nat] /\ f[0] = L + 1
      BY <1>3, <3>1
    <3>3. PICK e : e = <<>> \o <<>>
      OBVIOUS
    <3>4. e = <<>> /\ Len(e) = 0
      BY <3>3
    <3>5. \A i \in 1..0 : FALSE
      OBVIOUS
    <3>6. L + 1 + 0 = L + 1
      BY <1>3
    <3>7. Due(f, e, L + 1 + 0, L + 1)
      BY <3>2, <3>4, <3>5, <3>6 DEF Due
    <3>. QED  BY <3>3, <3>7
  <2>2. \A i \in 1..Len(s.got) : FALSE
    BY <1>6
  <2>3. Len(s.got) = 0 /\ s.from = L + 1 /\ s.at = L + 1 /\ s.buffer \o s.wire = <<>> \o <<>>
        /\ s.gen = g /\ s.state = "live"
    BY <1>4, <1>6
  <2>4. s.from # 0 /\ s.at # 0 /\ s.at <= Len(kpub[s.gen]) + 1
    BY <1>1, <1>3, <2>3
  <2>. QED  BY <1>2, <1>6, <2>1, <2>2, <2>3, <2>4 DEF Following
<1>8. kpub' = kpub /\ kcount' = kcount /\ ktask' = ktask /\ kused' = kused /\ kchan' = g
  BY <1>1 DEF subscribe
<1>. QED  BY <1>2, <1>5, <1>7, <1>8, Reseated

\* A message is sent: the event that is due, or a keep-alive.
LEMMA SentFollows ==
    ASSUME NEW s, NEW pub \in Pubs, Following("sse", s, pub), s.state = "live",
           NEW x \in Nat, NEW at \in Nat,
           (x = KeepAlive /\ at = s.at) \/ (x = s.at /\ at = s.at + 1 /\ s.at <= Len(pub[s.gen])),
           NEW z, z = [s EXCEPT !.at = at, !.wire = Append(@, x)]
    PROVE  Following("sse", z, pub)
<1>1. PICK v, w, b, got, g, from, old : /\ v = Append(s.wire, x) /\ w = s.wire /\ b = s.buffer
                                        /\ got = s.got /\ g = s.gen /\ from = s.from /\ old = s.at
  OBVIOUS
<1>2. /\ w \in Seq(Nat) /\ b \in Seq(Nat) /\ got \in Seq(Nat) /\ from \in Nat /\ old \in Nat
      /\ g \in Generations /\ from # 0 /\ old # 0 /\ old <= Len(pub[g]) + 1
      /\ Len(got) \in Nat
  BY <1>1 DEF Following, Subs
<1>3. Len(pub[g]) \in Nat
  BY <1>2 DEF Pubs
<1>4. v \in Seq(Nat) /\ b \o w \in Seq(Nat) /\ b \o v = Append(b \o w, x)
  <2>1. b \in Seq(Nat) /\ w \in Seq(Nat) /\ x \in Nat
    BY <1>2
  <2>2. /\ Append(w, x) \in Seq(Nat) /\ b \o w \in Seq(Nat)
        /\ b \o Append(w, x) = Append(b \o w, x)
    BY <2>1, OneMore, Zenon
  <2>3. v = Append(w, x)
    BY <1>1
  <2>. QED  BY <2>2, <2>3, Zenon
<1>5. z = [state |-> "live", gen |-> g, at |-> at, from |-> from, wire |-> v, buffer |-> b, got |-> got]
  BY <1>1 DEF Following, Subs
<1>6. g \in Nat
  BY <1>2 DEF Generations
<1>7. z \in Subs
  BY <1>2, <1>4, <1>5, <1>6 DEF Subs
<1>8. (x = KeepAlive /\ at = old) \/ (x = old /\ at = old + 1)
  BY <1>1
<1>9. at <= Len(pub[g]) + 1 /\ at # 0 /\ old <= at
  BY <1>1, <1>2, <1>3
<1>10. \E f : Due(f, b \o v, from + Len(got), at)
  <2>1. \E f : Due(f, b \o w, from + Len(got), old)
    BY <1>1 DEF Following
  <2>2. old # KeepAlive
    BY <1>2 DEF KeepAlive
  <2>3. PICK q, lo : q = b \o w /\ lo = from + Len(got)
    OBVIOUS
  <2>4. q \in Seq(Nat) /\ lo \in Nat /\ \E f : Due(f, q, lo, old)
    BY <1>2, <1>4, <2>1, <2>3
  <2>5. \E f : Due(f, Append(q, x), lo, at)
    BY <1>2, <1>8, <2>2, <2>4, DueMore
  <2>. QED  BY <1>4, <2>3, <2>5
<1>11. \A i \in 1..Len(got) : /\ got[i] # 0 /\ got[i] < old
                              /\ i > 1 => got[i] > got[i - 1]
                              /\ got[i] = from + i - 1
  BY <1>1 DEF Following
<1>12. \A i \in 1..Len(got) : got[i] < at
  <2>1. SUFFICES ASSUME NEW i \in 1..Len(got) PROVE got[i] < at
    OBVIOUS
  <2>2. got[i] \in Nat
    BY <1>2, ElementOfSeq
  <2>3. got[i] < old
    BY <1>11
  <2>. QED  BY <1>2, <1>9, <2>2, <2>3
<1>13. /\ z.state = "live" /\ z.gen = g /\ z.at = at /\ z.from = from /\ z.wire = v
       /\ z.buffer = b /\ z.got = got
  <2>1. PICK y : y = [state |-> "live", gen |-> g, at |-> at, from |-> from, wire |-> v,
                      buffer |-> b, got |-> got]
    OBVIOUS
  <2>2. /\ y.state = "live" /\ y.gen = g /\ y.at = at /\ y.from = from /\ y.wire = v
        /\ y.buffer = b /\ y.got = got
    BY <2>1
  <2>3. y = z
    BY <1>5, <2>1, Zenon
  <2>. QED  BY <2>2, <2>3, Zenon
<1>. QED  BY <1>2, <1>7, <1>9, <1>10, <1>11, <1>12, <1>13 DEF Following

\* What the receiver answers.
LEMMA ReceivedIs ==
    ASSUME CdcInv, NEW s \in Subs, s.gen \in Generations, s.at # 0
    PROVE  /\ Received(s) = "event" => s.at <= Len(kpub[s.gen])
           /\ Received(s) = "lagged" => s.at < Oldest(s)
           /\ Oldest(s) \in Nat /\ Oldest(s) <= Len(kpub[s.gen]) + 1
<1>1. Len(kpub[s.gen]) \in Nat /\ s.at \in Nat /\ KCapacity \in Nat \ {0}
  BY ChangeStreamAssumption DEF CdcInv, CdcTyped, Pubs, Subs
<1>2. Oldest(s) \in Nat /\ Oldest(s) <= Len(kpub[s.gen]) + 1
  BY <1>1 DEF Oldest
<1>3. CASE s.at < Oldest(s)
  <2>1. Received(s) = "lagged"
    BY <1>1, <1>2, <1>3 DEF Received
  <2>. QED  BY <1>2, <1>3, <2>1
<1>4. CASE s.at >= Oldest(s) /\ s.at <= Len(kpub[s.gen])
  <2>1. Received(s) = "event"
    BY <1>1, <1>2, <1>4 DEF Received
  <2>. QED  BY <1>2, <1>4, <2>1
<1>5. CASE s.at > Len(kpub[s.gen]) /\ ~(s.at < Oldest(s))
  <2>1. Received(s) \in {"closed", "wait"}
    BY <1>1, <1>2, <1>5 DEF Received
  <2>. QED  BY <1>2, <2>1
<1>. QED  BY <1>1, <1>2, <1>3, <1>4, <1>5

LEMMA SseKeeps ==
    ASSUME CdcInv, NEW c \in KClients, sse_handler(c)
    PROVE  CdcInv'
<1>1. PICK s, z : s = ksub[c] /\ z = FedSse(s)
  OBVIOUS
<1>2. /\ KKind[c] = "sse" /\ s.state = "live" /\ Following("sse", s, kpub)
      /\ s \in Subs /\ s.gen \in Generations /\ s.at # 0 /\ s.at \in Nat /\ kpub \in Pubs
  BY <1>1 DEF CdcInv, CdcTyped, Following, Subs, sse_handler
<1>3. Following("sse", z, kpub)
  <2>1. CASE Received(s) = "event"
    <3>1. z = [s EXCEPT !.at = s.at + 1, !.wire = Append(@, s.at)]
      BY <1>1, <1>2, <2>1 DEF FedSse, Subs
    <3>2. s.at <= Len(kpub[s.gen])
      BY <1>2, <2>1, ReceivedIs
    <3>3. s.at + 1 \in Nat
      BY <1>2
    <3>. QED  BY <1>2, <3>1, <3>2, <3>3, SentFollows
  <2>2. CASE Received(s) # "event"
    <3>1. z = [s EXCEPT !.state = "ended"]
      BY <1>1, <2>2 DEF FedSse
    <3>2. /\ z \in Subs /\ z.state = "ended" /\ z.gen = s.gen /\ z.at = s.at /\ z.from = s.from
          /\ z.wire = s.wire /\ z.buffer = s.buffer /\ z.got = s.got
      BY <1>2, <3>1 DEF Subs
    <3>. QED  BY <1>2, <3>2 DEF Following
  <2>. QED  BY <2>1, <2>2
<1>4. /\ ksub' = [ksub EXCEPT ![c] = z] /\ kpub' = kpub /\ kcount' = kcount /\ ktask' = ktask
      /\ kused' = kused /\ kchan' \in Generations \cup {0}
  BY <1>1 DEF sse_handler, CdcInv, CdcTyped
<1>. QED  BY <1>2, <1>3, <1>4, Reseated

LEMMA KeepAliveKeeps ==
    ASSUME CdcInv, NEW c \in KClients, SendKeepAlive(c)
    PROVE  CdcInv'
<1>1. PICK s, z : s = ksub[c] /\ z = [s EXCEPT !.at = s.at, !.wire = Append(@, KeepAlive)]
  OBVIOUS
<1>2. /\ KKind[c] = "sse" /\ s.state = "live" /\ Following("sse", s, kpub)
      /\ s \in Subs /\ s.at \in Nat /\ kpub \in Pubs /\ s.wire = <<>> /\ KeepAlive \in Nat
  BY <1>1 DEF CdcInv, CdcTyped, Following, Subs, SendKeepAlive, KeepAlive
<1>3. Following("sse", z, kpub)
  <2>1. PICK x, at : x = KeepAlive /\ at = s.at
    OBVIOUS
  <2>2. x \in Nat /\ at \in Nat /\ z = [s EXCEPT !.at = at, !.wire = Append(@, x)]
    BY <1>1, <1>2, <2>1
  <2>3. (x = KeepAlive /\ at = s.at) \/ (x = s.at /\ at = s.at + 1 /\ s.at <= Len(kpub[s.gen]))
    BY <2>1
  <2>. QED  BY <1>2, <2>2, <2>3, SentFollows
<1>4. z = [s EXCEPT !.wire = <<KeepAlive>>]
  <2>1. Append(s.wire, KeepAlive) = <<KeepAlive>>
    BY <1>2
  <2>. QED  BY <1>1, <1>2, <2>1 DEF Subs
<1>5. /\ ksub' = [ksub EXCEPT ![c] = z] /\ kpub' = kpub /\ kcount' = kcount /\ ktask' = ktask
      /\ kused' = kused /\ kchan' \in Generations \cup {0}
  BY <1>1, <1>4 DEF SendKeepAlive, CdcInv, CdcTyped
<1>. QED  BY <1>2, <1>3, <1>5, Reseated

LEMMA RecvKeeps ==
    ASSUME CdcInv, NEW c \in KClients, sse_recv(c)
    PROVE  CdcInv'
<1>1. PICK s, b, w, got, at, from : /\ s = ksub[c] /\ b = s.buffer /\ w = s.wire /\ got = s.got
                                    /\ at = s.at /\ from = s.from
  OBVIOUS
<1>2. /\ KKind[c] = "sse" /\ Following("sse", s, kpub) /\ s \in Subs /\ w # <<>>
      /\ b \in Seq(Nat) /\ w \in Seq(Nat) /\ got \in Seq(Nat) /\ at \in Nat /\ from \in Nat
  BY <1>1 DEF CdcInv, CdcTyped, Subs, sse_recv
<1>3. PICK n \in 1..Len(w) :
        LET all == b \o SubSeq(w, 1, n)
        IN  ksub' = [ksub EXCEPT ![c].wire = SubSeq(@, n + 1, Len(@)),
                                 ![c].buffer = Tail(all),
                                 ![c].got = IF Head(all) = KeepAlive THEN @ ELSE Append(@, Head(all))]
  BY <1>1 DEF sse_recv
<1>4. PICK all, rest, h, tl, g2, z :
        /\ all = b \o SubSeq(w, 1, n) /\ rest = SubSeq(w, n + 1, Len(w))
        /\ h = Head(all) /\ tl = Tail(all)
        /\ g2 = (IF h = KeepAlive THEN got ELSE Append(got, h))
        /\ z = [s EXCEPT !.wire = rest, !.buffer = tl, !.got = g2]
  OBVIOUS
<1>5. ksub' = [ksub EXCEPT ![c] = z]
  <2>1. ksub[c] \in Subs /\ ksub \in [KClients -> Subs]
    BY DEF CdcInv, CdcTyped
  <2>2. ksub' = [ksub EXCEPT ![c].wire = rest, ![c].buffer = tl, ![c].got = g2]
    BY <1>1, <1>3, <1>4, <2>1
  <2>. QED  BY <1>1, <1>4, <2>1, <2>2 DEF Subs
<1>6. /\ all \in Seq(Nat) /\ all # <<>> /\ tl \in Seq(Nat) /\ rest \in Seq(Nat)
      /\ b \o w \in Seq(Nat) /\ b \o w # <<>> /\ Head(b \o w) = h /\ Tail(b \o w) = tl \o rest
  <2>1. b \o SubSeq(w, 1, n) = all /\ SubSeq(w, n + 1, Len(w)) = rest /\ n \in 1..Len(w)
    BY <1>3, <1>4
  <2>2. /\ all \in Seq(Nat) /\ all # <<>> /\ Tail(all) \in Seq(Nat) /\ rest \in Seq(Nat)
        /\ b \o w \in Seq(Nat) /\ b \o w # <<>>
        /\ Head(b \o w) = Head(all) /\ Tail(b \o w) = Tail(all) \o rest
    <3>1. b \in Seq(Nat) /\ w \in Seq(Nat)
      BY <1>2
    <3>2. Chunk(b, w, all, rest)
      BY <2>1, <3>1, Moved
    <3>. QED  BY <3>2 DEF Chunk
  <2>3. h = Head(all) /\ tl = Tail(all)
    BY <1>4
  <2>. QED  BY <2>2, <2>3, Zenon
<1>7. PICK q, lo, L : q = b \o w /\ L = Len(got) /\ lo = from + L
  OBVIOUS
<1>8. /\ L \in Nat /\ lo \in Nat /\ q \in Seq(Nat) /\ q # <<>> /\ Head(q) = h
      /\ Tail(q) = tl \o rest /\ \E f : Due(f, q, lo, at)
  <2>1. L \in Nat /\ lo \in Nat
    BY <1>2, <1>7
  <2>2. q \in Seq(Nat) /\ q # <<>> /\ Head(q) = h /\ Tail(q) = tl \o rest
    BY <1>6, <1>7, Zenon
  <2>3. \E f : Due(f, s.buffer \o s.wire, s.from + Len(s.got), s.at)
    BY <1>2 DEF Following
  <2>4. \E f : Due(f, q, lo, at)
    BY <1>1, <1>7, <2>3
  <2>. QED  BY <2>1, <2>2, <2>4
<1>9. \/ h = KeepAlive /\ \E f : Due(f, tl \o rest, lo, at)
      \/ h = lo /\ lo # KeepAlive /\ lo < at /\ \E f : Due(f, tl \o rest, lo + 1, at)
  <2>1. \/ Head(q) = KeepAlive /\ \E f : Due(f, Tail(q), lo, at)
        \/ /\ Head(q) = lo /\ lo # KeepAlive /\ lo < at
           /\ \E f : Due(f, Tail(q), lo + 1, at)
    BY <1>2, <1>8, DueTail
  <2>. QED  BY <1>8, <2>1
<1>10. \A i \in 1..L : /\ got[i] # 0 /\ got[i] < at
                       /\ i > 1 => got[i] > got[i - 1]
                       /\ got[i] = from + i - 1
  BY <1>1, <1>2, <1>7 DEF Following
<1>11. /\ s.state # "none" /\ s.gen \in Generations /\ at <= Len(kpub[s.gen]) + 1
       /\ from # 0 /\ at # 0
  BY <1>1, <1>2 DEF Following
<1>14. /\ kpub' = kpub /\ kcount' = kcount /\ ktask' = ktask
       /\ kused' = kused /\ kchan' \in Generations \cup {0}
  BY DEF sse_recv, CdcInv, CdcTyped
<1>12. CASE h = KeepAlive
  <2>1. g2 = got /\ \E f : Due(f, tl \o rest, lo, at)
    BY <1>4, <1>9, <1>12
  <2>2. z \in Subs
    BY <1>2, <1>4, <1>6, <2>1 DEF Subs
  <2>3. /\ z.state = s.state /\ z.gen = s.gen /\ z.at = at /\ z.from = from /\ z.got = got
        /\ z.wire = rest /\ z.buffer = tl
    BY <1>1, <1>2, <1>4, <2>1 DEF Subs
  <2>4. Following("sse", z, kpub)
    BY <1>7, <1>10, <1>11, <2>1, <2>2, <2>3 DEF Following
  <2>. QED  BY <1>2, <1>5, <1>14, <2>4, Reseated
<1>13. CASE h # KeepAlive
  <2>1. /\ g2 = Append(got, lo) /\ lo < at /\ lo # 0 /\ \E f : Due(f, tl \o rest, lo + 1, at)
    BY <1>4, <1>9, <1>13 DEF KeepAlive
  <2>2. /\ g2 \in Seq(Nat) /\ Len(g2) = L + 1 /\ g2[L + 1] = lo
        /\ \A m \in 1..L : g2[m] = got[m]
    BY <1>2, <1>7, <1>8, <2>1, Added
  <2>3. z \in Subs
    BY <1>2, <1>4, <1>6, <2>2 DEF Subs
  <2>4. /\ z.state = s.state /\ z.gen = s.gen /\ z.at = at /\ z.from = from /\ z.got = g2
        /\ z.wire = rest /\ z.buffer = tl
    BY <1>1, <1>2, <1>4 DEF Subs
  <2>5. ASSUME NEW i \in 1..(L + 1)
        PROVE  /\ g2[i] # 0 /\ g2[i] < at
               /\ i > 1 => g2[i] > g2[i - 1]
               /\ g2[i] = from + i - 1
    <3>1. CASE i \in 1..L
      <4>1. i > 1 => i - 1 \in 1..L
        BY <1>8, <3>1
      <4>. QED  BY <1>10, <2>2, <3>1, <4>1
    <3>2. CASE i = L + 1
      <4>1. g2[i] = lo /\ lo = from + L /\ lo = from + i - 1
        BY <1>2, <1>7, <1>8, <2>2, <3>2
      <4>2. i > 1 => L \in 1..L /\ i - 1 = L /\ g2[i - 1] = from + L - 1
        BY <1>8, <1>10, <2>2, <3>2
      <4>3. from + L - 1 < from + L
        BY <1>2, <1>8
      <4>. QED  BY <2>1, <4>1, <4>2, <4>3, <1>2, <1>8
    <3>. QED  BY <1>8, <3>1, <3>2
  <2>6. lo + 1 = from + (L + 1)
    BY <1>2, <1>7, <1>8
  <2>7. Following("sse", z, kpub)
    BY <1>11, <2>1, <2>2, <2>3, <2>4, <2>5, <2>6 DEF Following
  <2>. QED  BY <1>2, <1>5, <1>14, <2>7, Reseated
<1>. QED  BY <1>12, <1>13

LEMMA SocketKeeps ==
    ASSUME CdcInv, NEW c \in KClients, handle_websocket(c)
    PROVE  CdcInv'
<1>1. PICK s, z : s = ksub[c] /\ z = FedSocket(s)
  OBVIOUS
<1>2. /\ KKind[c] = "ws" /\ s.state = "live" /\ Following("ws", s, kpub)
      /\ s \in Subs /\ kpub \in Pubs
  BY <1>1 DEF CdcInv, CdcTyped, handle_websocket
<1>3. PICK got, at, g, L : got = s.got /\ at = s.at /\ g = s.gen /\ L = Len(got)
  OBVIOUS
<1>4. /\ got \in Seq(Nat) /\ at \in Nat /\ g \in Generations /\ g \in Nat /\ s.from # 0 /\ at # 0
      /\ L \in Nat /\ at <= Len(kpub[g]) + 1
      /\ \A i \in 1..L : /\ got[i] # 0 /\ got[i] < at
                         /\ i > 1 => got[i] > got[i - 1]
  <2>1. got \in Seq(Nat) /\ at \in Nat /\ L \in Nat
    BY <1>2, <1>3 DEF Subs
  <2>2. g \in Generations /\ s.from # 0 /\ at # 0 /\ at <= Len(kpub[g]) + 1
    BY <1>2, <1>3 DEF Following
  <2>3. g \in Nat
    BY <2>2 DEF Generations
  <2>4. \A i \in 1..L : /\ got[i] # 0 /\ got[i] < at
                        /\ i > 1 => got[i] > got[i - 1]
    BY <1>2, <1>3 DEF Following
  <2>. QED  BY <2>1, <2>2, <2>3, <2>4
<1>5. Len(kpub[g]) \in Nat
  BY <1>2, <1>4 DEF Pubs
<1>6. \A i \in 1..L : got[i] \in Nat
  BY <1>3, <1>4, ElementOfSeq
<1>7. Following("ws", z, kpub)
  <2>1. CASE Received(s) = "event"
    <3>1. at <= Len(kpub[g])
      BY <1>2, <1>3, <1>4, <2>1, ReceivedIs
    <3>2. PICK h : h = Append(got, at)
      OBVIOUS
    <3>3. /\ h \in Seq(Nat) /\ Len(h) = L + 1 /\ h[L + 1] = at
          /\ \A m \in 1..L : h[m] = got[m]
      BY <1>3, <1>4, <3>2, Added
    <3>4. z = [s EXCEPT !.got = h, !.at = at + 1]
      BY <1>1, <1>2, <1>3, <2>1, <3>2 DEF FedSocket, Subs
    <3>5. /\ z \in Subs /\ z.state = "live" /\ z.gen = g /\ z.at = at + 1 /\ z.from = s.from
          /\ z.got = h
      <4>1. z = [state |-> "live", gen |-> g, at |-> at + 1, from |-> s.from,
                 wire |-> s.wire, buffer |-> s.buffer, got |-> h]
        BY <1>2, <1>3, <3>4 DEF Subs
      <4>2. s.from \in Nat /\ s.wire \in Seq(Nat) /\ s.buffer \in Seq(Nat) /\ at + 1 \in Nat
        BY <1>2, <1>4 DEF Subs
      <4>. QED  BY <1>4, <3>3, <4>1, <4>2 DEF Subs
    <3>6. ASSUME NEW i \in 1..(L + 1)
          PROVE  h[i] # 0 /\ h[i] < at + 1 /\ (i > 1 => h[i] > h[i - 1])
      <4>1. CASE i \in 1..L
        <5>1. i > 1 => i - 1 \in 1..L
          BY <1>4, <4>1
        <5>. QED  BY <1>4, <1>6, <3>3, <4>1, <5>1
      <4>2. CASE i = L + 1
        <5>1. i > 1 => L \in 1..L /\ i - 1 = L
          BY <1>4, <4>2
        <5>2. h[i] = at
          BY <3>3, <4>2
        <5>3. i > 1 => h[i - 1] = got[L] /\ got[L] < at /\ got[L] \in Nat
          BY <1>4, <1>6, <3>3, <5>1
        <5>. QED  BY <1>4, <5>2, <5>3
      <4>. QED  BY <1>4, <4>1, <4>2
    <3>7. at + 1 <= Len(kpub[g]) + 1 /\ at + 1 # 0
      BY <1>4, <1>5, <3>1
    <3>. QED  BY <1>4, <3>3, <3>5, <3>6, <3>7 DEF Following
  <2>2. CASE Received(s) = "lagged"
    <3>1. PICK o : o = Oldest(s)
      OBVIOUS
    <3>2. at < o /\ o \in Nat /\ o <= Len(kpub[g]) + 1
      BY <1>2, <1>3, <1>4, <2>2, <3>1, ReceivedIs
    <3>3. z = [s EXCEPT !.at = o, !.state = "stalled"]
      BY <1>1, <2>2, <3>1 DEF FedSocket
    <3>4. /\ z \in Subs /\ z.state = "stalled" /\ z.gen = g /\ z.at = o /\ z.from = s.from
          /\ z.got = got
      BY <1>2, <1>3, <3>2, <3>3 DEF Subs
    <3>5. o # 0 /\ \A i \in 1..L : got[i] < o
      BY <1>4, <1>6, <3>2
    <3>. QED  BY <1>3, <1>4, <3>2, <3>4, <3>5 DEF Following
  <2>3. CASE Received(s) # "event" /\ Received(s) # "lagged"
    <3>1. z = [s EXCEPT !.state = "stalled"]
      BY <1>1, <2>3 DEF FedSocket
    <3>2. /\ z \in Subs /\ z.state = "stalled" /\ z.gen = g /\ z.at = at /\ z.from = s.from
          /\ z.got = got
      BY <1>2, <1>3, <3>1 DEF Subs
    <3>. QED  BY <1>3, <1>4, <3>2 DEF Following
  <2>. QED  BY <2>1, <2>2, <2>3
<1>8. /\ ksub' = [ksub EXCEPT ![c] = z] /\ kpub' = kpub /\ kcount' = kcount /\ ktask' = ktask
      /\ kused' = kused /\ kchan' \in Generations \cup {0}
  BY <1>1 DEF handle_websocket, CdcInv, CdcTyped
<1>. QED  BY <1>2, <1>7, <1>8, Reseated

LEMMA MessageKeeps ==
    ASSUME CdcInv, NEW c \in KClients, ClientMessage(c)
    PROVE  CdcInv'
<1>1. PICK st \in {"live", "left"} : ksub' = [ksub EXCEPT ![c].state = st]
  BY DEF ClientMessage
<1>2. PICK s, z : s = ksub[c] /\ z = [s EXCEPT !.state = st]
  OBVIOUS
<1>3. s \in Subs /\ Following("ws", s, kpub) /\ KKind[c] = "ws" /\ s.state = "stalled"
  BY <1>2 DEF CdcInv, CdcTyped, ClientMessage
<1>4. /\ z \in Subs /\ z.state = st /\ z.gen = s.gen /\ z.at = s.at /\ z.from = s.from
      /\ z.got = s.got
  BY <1>2, <1>3 DEF Subs
<1>5. Following("ws", z, kpub)
  BY <1>3, <1>4 DEF Following
<1>6. /\ ksub' = [ksub EXCEPT ![c] = z] /\ kpub' = kpub /\ kcount' = kcount /\ ktask' = ktask
      /\ kused' = kused /\ kchan' \in Generations \cup {0}
  BY <1>1, <1>2 DEF ClientMessage, CdcInv, CdcTyped
<1>. QED  BY <1>3, <1>5, <1>6, Reseated

-----------------------------------------------------------------------------
LEMMA CdcStart ==
    ASSUME CdcInit
    PROVE  CdcInv
<1>1. \A g \in Generations : kpub[g] = <<>> /\ Len(kpub[g]) = 0
  BY DEF CdcInit
<1>2. Detached \in Subs /\ NotEmitting \in Emitting
  BY DEF Detached, Subs, NotEmitting, Emitting
<1>3. CdcTyped
  BY <1>2, ChangeStreamAssumption DEF CdcInit, CdcTyped, Pubs
<1>4. \A n : ~Spent(n, kpub)
  BY <1>1 DEF Spent
<1>5. Numbering /\ Unique(kpub)
  BY <1>1, <1>4 DEF CdcInit, Numbering, NotEmitting, Unique
<1>6. ASSUME NEW c \in KClients PROVE Following(KKind[c], ksub[c], kpub)
  <2>1. PICK s : s = ksub[c]
    OBVIOUS
  <2>2. s = Detached
    BY <2>1 DEF CdcInit
  <2>3. PICK f, e : f = [i \in 0..0 |-> 1] /\ e = <<>> \o <<>>
    OBVIOUS
  <2>4. f \in [0..0 -> Nat] /\ f[0] = 1 /\ e = <<>> /\ Len(e) = 0 /\ 1 + 0 = 1
    BY <2>3
  <2>5. Due(f, e, 1 + 0, 1)
    BY <2>4 DEF Due
  <2>6. /\ s.got = <<>> /\ Len(s.got) = 0 /\ s.from = 1 /\ s.at = 1 /\ s.state = "none"
        /\ s.wire = <<>> /\ s.buffer = <<>>
    BY <2>2 DEF Detached
  <2>7. \E g : Due(g, s.buffer \o s.wire, s.from + Len(s.got), s.at)
    BY <2>3, <2>5, <2>6
  <2>8. s \in Subs
    BY <1>2, <2>2
  <2>9. Following(KKind[c], s, kpub)
    BY <2>6, <2>7, <2>8 DEF Following
  <2>. QED  BY <2>1, <2>9
<1>. QED  BY <1>3, <1>5, <1>6 DEF CdcInv

LEMMA CdcStep ==
    ASSUME CdcInv, [CdcNext]_CdcVars
    PROVE  CdcInv'
<1>1. ASSUME NEW t \in KTasks, emit(t) \/ PublishNumbered(t) \/ emit_batch(t)
      PROVE  CdcInv'
  BY <1>1, EmitKeeps, NumberedKeeps, BatchKeeps
<1>2. ASSUME NEW c \in KClients,
             \/ subscribe(c) \/ sse_handler(c) \/ SendKeepAlive(c) \/ sse_recv(c)
             \/ handle_websocket(c) \/ ClientMessage(c)
      PROVE  CdcInv'
  BY <1>2, SubscribeKeeps, SseKeeps, KeepAliveKeeps, RecvKeeps, SocketKeeps, MessageKeeps
<1>3. CASE close_collection
  BY <1>3, CloseKeeps
<1>4. CASE UNCHANGED CdcVars
  <2>1. kchan' = kchan /\ kpub' = kpub /\ kcount' = kcount /\ ktask' = ktask /\ ksub' = ksub
        /\ kused' = kused
    BY <1>4 DEF CdcVars
  <2>. QED  BY <2>1 DEF CdcInv, CdcTyped, Numbering
<1>. QED  BY <1>1, <1>2, <1>3, <1>4 DEF CdcNext

LEMMA CdcMeans ==
    ASSUME CdcInv
    PROVE  StreamOrdered
<1>1. \A c \in KClients : Following(KKind[c], ksub[c], kpub) /\ ksub[c].got \in Seq(Nat)
                          /\ ksub[c] \in Subs
  BY DEF CdcInv, CdcTyped, Subs
<1>2. \A g \in Generations : kpub[g] \in Seq(Events)
  BY DEF CdcInv, CdcTyped, Pubs
<1>3. \A g \in Generations : DOMAIN kpub[g] = 1..Len(kpub[g]) /\ Len(kpub[g]) \in Nat
  BY <1>2
<1>4. \A c \in KClients : DOMAIN ksub[c].got = 1..Len(ksub[c].got)
  BY <1>1
<1>5. kcount \in 0..KMaxEvents
  BY ChangeStreamAssumption DEF CdcInv, CdcTyped
<1>6. ASSUME NEW c \in KClients, NEW i \in DOMAIN ksub[c].got
      PROVE  /\ ksub[c].got[i] \in DOMAIN kpub[ksub[c].gen]
             /\ KKind[c] = "sse" => ksub[c].got[i] = ksub[c].from + i - 1
             /\ i > 1 => ksub[c].got[i] > ksub[c].got[i - 1]
  <2>1. PICK s : s = ksub[c]
    OBVIOUS
  <2>2. /\ s \in Subs /\ Following(KKind[c], s, kpub) /\ i \in 1..Len(s.got) /\ s.got \in Seq(Nat)
    BY <1>1, <1>4, <2>1
  <2>3. s.got # <<>>
    BY <2>2
  <2>4. s.state # "none" /\ s.gen \in Generations /\ s.at <= Len(kpub[s.gen]) + 1 /\ s.at \in Nat
    BY <2>2, <2>3 DEF Following, Subs
  <2>5. s.got[i] \in Nat /\ s.got[i] # 0 /\ s.got[i] < s.at
    <3>1. s.got[i] \in Nat
      BY <2>2, ElementOfSeq
    <3>. QED  BY <2>2, <3>1 DEF Following
  <2>6. s.got[i] \in 1..Len(kpub[s.gen])
    BY <1>3, <2>4, <2>5
  <2>. QED  BY <1>3, <2>1, <2>2, <2>4, <2>6 DEF Following
<1>7. CdcTypeOK
  BY <1>5, <1>6 DEF CdcTypeOK, CdcInv, CdcTyped, Subs
<1>8. NumbersUnique
  BY <1>3 DEF NumbersUnique, CdcInv, Unique
<1>9. ClientsSeeOrder
  BY <1>6 DEF ClientsSeeOrder
<1>. QED  BY <1>7, <1>8, <1>9 DEF StreamOrdered

\* Events outside batches have numbers of their own, and each client sees those
\* it receives once and in the order of their publication, an SSE client without
\* a gap (streaming/mod.rs, server.rs).
THEOREM StreamSound == CdcSpec => []StreamOrdered
<1>1. CdcInit => CdcInv
  BY CdcStart
<1>2. CdcInv /\ [CdcNext]_CdcVars => CdcInv'
  BY CdcStep
<1>3. CdcInv => StreamOrdered
  BY CdcMeans
<1>. QED  BY <1>1, <1>2, <1>3, PTL DEF CdcSpec

-----------------------------------------------------------------------------
(* The Qdrant interface                                                     *)

\* Collections whose points are in P, with tombstones of ids in I.
Cols(P, I) == [there : BOOLEAN, log : {"none", "sound", "spoilt", "damaged"}, points : P,
               tombs : SUBSET I, count : Nat, found : P]
QCollections == Cols(SUBSET QIds, QIds)

\* The places that an upsert has put, and the ids that are stored then.
Puts(ids, m) == {k \in 1..m : ids[k] # {}}
PutIds(ids, m) == UNION {ids[k] : k \in 1..m}
QScrolls == [at : {"none"}] \cup [name : QNames, at : {"more", "done"}, next : SUBSET Nat,
                                  seen : Seq(QIds), stable : SUBSET QIds]
QSnaps == [at : {"none"}] \cup [at : {"none", "running"}, todo : SUBSET QNames, failed : SUBSET QNames,
                                wrote : SUBSET QNames, blind : SUBSET QNames,
                                stable : SUBSET [name : QNames, id : QIds]]

QdrantTyped ==
    /\ qcols \in [QNames -> QCollections]
    /\ qscroll \in QScrolls
    /\ qsnap \in QSnaps
    /\ qsnapshots \in SUBSET [name : QNames, points : SUBSET QIds]

\* The count of a collection may be too high, never too low for the points that
\* were put since it was opened.
CountedSince(c) == Cardinality(c.points \ c.found) <= c.count
PointsCounted == \A n \in QNames : CountedSince(qcols[n])

\* The client has each point below its next page that stayed, each once.
Scrolled ==
    qscroll.at \in {"more", "done"} =>
        /\ IsInjective(qscroll.seen)
        /\ qscroll.stable \subseteq Visible(qcols[qscroll.name])
        /\ qscroll.at = "more" =>
             \E o \in Nat : /\ qscroll.next = {o}
                            /\ \A k \in DOMAIN qscroll.seen : qscroll.seen[k] < o
                            /\ \A i \in qscroll.stable : i < o => i \in ToSet(qscroll.seen)
        /\ qscroll.at = "done" =>
             \A i \in qscroll.stable \ ToSet(qscroll.seen) :
                 \E s \in QIds : /\ s + QWindow < i
                                /\ Cardinality({k \in qscroll.stable : k \in s..(s + QWindow)}) < QLimit

\* What is to stay for the snapshot is there, and in the snapshots taken of its collection.
Snapped ==
    qsnap.at = "running" =>
        /\ \A s \in qsnap.stable : s.id \in Visible(qcols[s.name])
        /\ FullSnapshotComplete

QdrantInv == QdrantTyped /\ PointsCounted /\ Scrolled /\ Snapped

LEMMA IdsFinite == \A S \in SUBSET QIds : IsFiniteSet(S) /\ Cardinality(S) \in Nat /\ S \in SUBSET Nat
<1>1. IsFiniteSet(QIds) /\ QIds \in SUBSET Nat
  BY FS_Interval, QdrantAssumption DEF QIds
<1>. QED  BY <1>1, FS_Subset, FS_CardinalityType

\* The list of a finite set has each member once.
LEMMA ListedOnce ==
    ASSUME NEW S \in SUBSET QIds
    PROVE  SetToSeq(S) \in Seq(S) /\ IsInjective(SetToSeq(S)) /\ ToSet(SetToSeq(S)) = S
<1>1. Cardinality(S) \in Nat /\ ExistsBijection(1..Cardinality(S), S) /\ IsFiniteSet(S)
  BY IdsFinite, FS_CardinalityType
<1>2. \E f \in [1..Cardinality(S) -> S] : IsInjective(f)
  BY <1>1 DEF ExistsBijection, Bijection, Injection
<1>3. IsInjective(SetToSeq(S))
  BY <1>2 DEF SetToSeq
<1>4. SetToSeq(S) \in Seq(S) /\ \A x \in S : \E i \in 1..Len(SetToSeq(S)) : SetToSeq(S)[i] = x
  BY <1>1, Listed
<1>5. PICK s \in Seq(S) : s = SetToSeq(S)
  BY <1>4
<1>6. ToSet(s) = S
  BY <1>4, <1>5 DEF ToSet
<1>. QED  BY <1>3, <1>4, <1>5, <1>6

\* A page is the beginning of its window: all of it, and fewer than the limit, or as
\* many as the limit and everything up to the next offset.
LEMMA PageIs ==
    ASSUME NEW points \in SUBSET QIds, NEW start \in Nat
    PROVE  LET p == ScrollPage(points, start)
               window == {i \in points : i >= start /\ i <= start + QWindow} IN
           /\ p.points \subseteq window
           /\ p.next = {} => p.points = window /\ Cardinality(window) < QLimit
           /\ p.next # {} => \E o \in Nat :
                /\ p.next = {o} /\ o > start
                /\ \A i \in p.points : i < o
                /\ \A i \in points : i >= start /\ i < o => i \in p.points
<1>. DEFINE window == {i \in points : i >= start /\ i <= start + QWindow}
            upto(i) == {k \in window : k <= i}
            page == {i \in window : Cardinality(upto(i)) <= QLimit}
            p == ScrollPage(points, start)
<1>1. p.points = page /\ p.next = IF Cardinality(page) = QLimit THEN {Max(page) + 1} ELSE {}
  BY DEF ScrollPage
<1>2. /\ window \in SUBSET QIds /\ page \in SUBSET QIds /\ page \subseteq window
      /\ \A i : upto(i) \in SUBSET QIds
  OBVIOUS
<1>3. /\ IsFiniteSet(window) /\ Cardinality(window) \in Nat /\ window \in SUBSET Nat
      /\ IsFiniteSet(page) /\ Cardinality(page) \in Nat /\ page \in SUBSET Nat
      /\ \A i : IsFiniteSet(upto(i)) /\ Cardinality(upto(i)) \in Nat
  BY <1>2, IdsFinite
<1>4. QLimit \in Nat \ {0} /\ QWindow \in Nat
  BY QdrantAssumption
<1>. HIDE DEF p, page, upto, window
<1>5. Cardinality(page) <= QLimit
  <2>1. CASE page = {}
    <3>1. Cardinality(page) = 0
      BY <2>1, FS_EmptySet
    <3>. QED  BY <1>4, <3>1
  <2>2. CASE page # {}
    <3>1. PICK m \in page : \A i \in page : i <= m
      BY <1>3, <2>2, MaxOf
    <3>2. page \subseteq upto(m)
      BY <1>2, <3>1 DEF upto
    <3>3. Cardinality(page) <= Cardinality(upto(m))
      BY <1>3, <3>2, FS_Subset
    <3>4. Cardinality(upto(m)) <= QLimit
      BY <3>1 DEF page
    <3>. QED  BY <1>3, <1>4, <3>3, <3>4
  <2>. QED  BY <2>1, <2>2
<1>6. page # window => Cardinality(page) = QLimit
  <2>. SUFFICES ASSUME page # window PROVE Cardinality(page) >= QLimit
    BY <1>3, <1>4, <1>5
  <2>. DEFINE over == window \ page
  <2>1. over \in SUBSET Nat /\ over # {}
    BY <1>2, <1>3
  <2>2. PICK m \in over : \A i \in over : m <= i
    BY <2>1, LeastOf
  <2>3. upto(m) \ {m} \subseteq page
    <3>. SUFFICES ASSUME NEW i \in window, i <= m, i # m, i \notin page PROVE FALSE
      BY DEF upto
    <3>1. m <= i /\ i \in Nat /\ m \in Nat
      BY <1>3, <2>2
    <3>. QED  BY <3>1
  <2>4. m \in upto(m) /\ ~(Cardinality(upto(m)) <= QLimit)
    BY <1>3, <2>2 DEF upto, page
  <2>5. Cardinality(upto(m) \ {m}) = Cardinality(upto(m)) - 1
    BY <1>3, <2>4, FS_RemoveElement
  <2>6. Cardinality(upto(m) \ {m}) <= Cardinality(page)
    BY <1>3, <2>3, FS_Subset
  <2>. QED  BY <1>3, <1>4, <2>4, <2>5, <2>6
<1>7. CASE Cardinality(page) = QLimit
  <2>1. page # {}
    BY <1>4, <1>7, FS_EmptySet
  <2>2. PICK m \in page : m = Max(page) /\ \A i \in page : i <= m
    BY <1>3, <2>1, MaxOf
  <2>3. p.next = {m + 1} /\ m \in Nat /\ m \in window /\ m >= start
    BY <1>1, <1>2, <1>3, <1>7, <2>2 DEF window
  <2>4. ASSUME NEW i \in points, i >= start, i < m + 1 PROVE i \in page
    <3>0. points \in SUBSET Nat
      BY IdsFinite
    <3>1. i \in Nat /\ i <= m
      BY <2>3, <2>4, <3>0
    <3>2. i \in window
      BY <1>4, <2>3, <2>4, <3>1 DEF window
    <3>3. upto(i) \subseteq upto(m)
      <4>. SUFFICES ASSUME NEW k \in window, k <= i PROVE k <= m
        BY DEF upto
      <4>1. k \in Nat
        BY <1>3
      <4>. QED  BY <2>3, <3>1, <4>1
    <3>4. Cardinality(upto(i)) <= Cardinality(upto(m))
      BY <1>3, <3>3, FS_Subset
    <3>5. Cardinality(upto(m)) <= QLimit
      BY <2>2 DEF page
    <3>6. Cardinality(upto(i)) <= QLimit
      BY <1>3, <1>4, <3>4, <3>5
    <3>. QED  BY <3>2, <3>6 DEF page
  <2>5. \A i \in page : i < m + 1
    <3>1. \A i \in page : i \in Nat /\ i <= m
      BY <1>3, <2>2
    <3>. QED  BY <2>3, <3>1
  <2>6. m + 1 \in Nat /\ m + 1 > start
    BY <2>3
  <2>7. \E o \in Nat : /\ p.next = {o} /\ o > start
                       /\ \A i \in p.points : i < o
                       /\ \A i \in points : i >= start /\ i < o => i \in p.points
    BY <1>1, <2>3, <2>4, <2>5, <2>6
  <2>8. p.next # {} /\ p.points \subseteq window
    BY <1>1, <1>2, <2>3
  <2>. QED  BY <2>7, <2>8 DEF p, window
<1>8. CASE Cardinality(page) # QLimit
  <2>1. page = window /\ Cardinality(window) < QLimit
    BY <1>3, <1>4, <1>5, <1>6, <1>8
  <2>2. p.next = {} /\ p.points = window
    BY <1>1, <1>8, <2>1
  <2>. QED  BY <2>1, <2>2 DEF p, window
<1>. QED  BY <1>7, <1>8

\* Two lists with different members, each once, make one.
LEMMA Appended ==
    ASSUME NEW s \in Seq(QIds), NEW r \in Seq(QIds), IsInjective(s), IsInjective(r),
           \A j \in DOMAIN s, k \in DOMAIN r : s[j] # r[k]
    PROVE  /\ s \o r \in Seq(QIds) /\ IsInjective(s \o r)
           /\ ToSet(s \o r) = ToSet(s) \cup ToSet(r)
<1>. DEFINE t == s \o r
            ls == Len(s)
            lr == Len(r)
<1>1. /\ t \in Seq(QIds) /\ DOMAIN t = 1..(ls + lr) /\ ls \in Nat /\ lr \in Nat
      /\ DOMAIN s = 1..ls /\ DOMAIN r = 1..lr
      /\ \A k \in 1..ls : t[k] = s[k]
      /\ \A k \in (ls + 1)..(ls + lr) : t[k] = r[k - ls]
  OBVIOUS
<1>. HIDE DEF t, ls, lr
<1>2. \A k \in 1..(ls + lr) : k \in 1..ls \/ (k \in (ls + 1)..(ls + lr) /\ k - ls \in 1..lr)
  BY <1>1
<1>3. IsInjective(t)
  <2>. SUFFICES ASSUME NEW j \in 1..(ls + lr), NEW k \in 1..(ls + lr), t[j] = t[k] PROVE j = k
    BY <1>1 DEF IsInjective
  <2>1. CASE j \in 1..ls /\ k \in 1..ls
    BY <1>1, <2>1 DEF IsInjective
  <2>2. CASE j \in 1..ls /\ ~(k \in 1..ls)
    BY <1>1, <1>2, <2>2
  <2>3. CASE ~(j \in 1..ls) /\ k \in 1..ls
    <3>1. t[k] = s[k] /\ t[j] = r[j - ls] /\ k \in DOMAIN s /\ j - ls \in DOMAIN r
      BY <1>1, <1>2, <2>3
    <3>. QED  BY <3>1
  <2>4. CASE ~(j \in 1..ls) /\ ~(k \in 1..ls)
    <3>1. r[j - ls] = r[k - ls] /\ j - ls \in 1..lr /\ k - ls \in 1..lr
      BY <1>1, <1>2, <2>4
    <3>2. j - ls = k - ls
      BY <1>1, <3>1 DEF IsInjective
    <3>. QED  BY <1>1, <3>2
  <2>. QED  BY <2>1, <2>2, <2>3, <2>4
<1>4. ToSet(t) = ToSet(s) \cup ToSet(r)
  <2>1. ASSUME NEW k \in 1..(ls + lr) PROVE t[k] \in ToSet(s) \cup ToSet(r)
    <3>1. CASE k \in 1..ls
      BY <1>1, <3>1 DEF ToSet
    <3>2. CASE k \in (ls + 1)..(ls + lr) /\ k - ls \in 1..lr
      BY <1>1, <3>2 DEF ToSet
    <3>. QED  BY <1>2, <3>1, <3>2
  <2>2. ASSUME NEW k \in 1..ls PROVE s[k] \in ToSet(t)
    <3>1. k \in 1..(ls + lr)
      BY <1>1
    <3>. QED  BY <1>1, <3>1 DEF ToSet
  <2>3. ASSUME NEW k \in 1..lr PROVE r[k] \in ToSet(t)
    <3>1. ls + k \in (ls + 1)..(ls + lr) /\ ls + k \in 1..(ls + lr) /\ (ls + k) - ls = k
      BY <1>1
    <3>2. t[ls + k] = r[k]
      BY <1>1, <3>1
    <3>. QED  BY <1>1, <3>1, <3>2 DEF ToSet
  <2>4. /\ \A x \in ToSet(t) : \E k \in 1..(ls + lr) : x = t[k]
        /\ \A x \in ToSet(s) : \E k \in 1..ls : x = s[k]
        /\ \A x \in ToSet(r) : \E k \in 1..lr : x = r[k]
    BY <1>1 DEF ToSet
  <2>. QED  BY <2>1, <2>2, <2>3, <2>4
<1>. QED  BY <1>1, <1>3, <1>4 DEF t

\* A page read at the offset of the page before it.
LEMMA PageRead ==
    ASSUME NEW points \in SUBSET QIds, NEW stable \in SUBSET points, NEW start \in Nat,
           NEW s \in Seq(QIds), IsInjective(s), \A k \in DOMAIN s : s[k] < start,
           \A i \in stable : i < start => i \in ToSet(s)
    PROVE  LET p == ScrollPage(points, start)
               t == s \o SetToSeq(p.points) IN
           /\ t \in Seq(QIds) /\ IsInjective(t)
           /\ p.next # {} => \E o \in Nat :
                /\ p.next = {o}
                /\ \A k \in DOMAIN t : t[k] < o
                /\ \A i \in stable : i < o => i \in ToSet(t)
           /\ p.next = {} => \A i \in stable \ ToSet(t) :
                \E f \in QIds : /\ f + QWindow < i
                               /\ Cardinality({k \in stable : k \in f..(f + QWindow)}) < QLimit
<1>. DEFINE p == ScrollPage(points, start)
            r == SetToSeq(p.points)
            t == s \o r
            window == {i \in points : i >= start /\ i <= start + QWindow}
<1>1. /\ p.points \subseteq window
      /\ p.next = {} => p.points = window /\ Cardinality(window) < QLimit
      /\ p.next # {} => \E o \in Nat :
            /\ p.next = {o} /\ o > start
            /\ \A i \in p.points : i < o
            /\ \A i \in points : i >= start /\ i < o => i \in p.points
  BY PageIs
<1>2. points \in SUBSET Nat /\ window \in SUBSET QIds /\ QWindow \in Nat /\ QLimit \in Nat \ {0}
  BY IdsFinite, QdrantAssumption
<1>3. p.points \in SUBSET QIds
  BY <1>1, <1>2
<1>4. r \in Seq(QIds) /\ IsInjective(r) /\ ToSet(r) = p.points
  <2>1. r \in Seq(p.points) /\ IsInjective(r) /\ ToSet(r) = p.points
    BY <1>3, ListedOnce
  <2>. QED  BY <1>3, <2>1
<1>. HIDE DEF p, r
<1>5. \A k \in DOMAIN r : r[k] \in p.points /\ r[k] >= start /\ r[k] \in Nat
  BY <1>1, <1>2, <1>4 DEF ToSet
<1>6. \A k \in DOMAIN s : s[k] \in Nat
  <2>1. \A k \in DOMAIN s : s[k] \in QIds
    OBVIOUS
  <2>. QED  BY <2>1, IdsFinite
<1>7. t \in Seq(QIds) /\ IsInjective(t) /\ ToSet(t) = ToSet(s) \cup p.points
  <2>1. \A j \in DOMAIN s, k \in DOMAIN r : s[j] # r[k]
    BY <1>5, <1>6
  <2>. QED  BY <1>4, <2>1, Appended
<1>8. \A x \in ToSet(s) : x < start /\ x \in Nat
  BY <1>6 DEF ToSet
<1>. HIDE DEF t
<1>9. ASSUME p.next # {}
      PROVE  \E o \in Nat : /\ p.next = {o}
                            /\ \A k \in DOMAIN t : t[k] < o
                            /\ \A i \in stable : i < o => i \in ToSet(t)
  <2>1. PICK o \in Nat : /\ p.next = {o} /\ o > start
                         /\ \A i \in p.points : i < o
                         /\ \A i \in points : i >= start /\ i < o => i \in p.points
    BY <1>1, <1>9
  <2>2. ASSUME NEW k \in DOMAIN t PROVE t[k] < o
    <3>1. t[k] \in ToSet(s) \cup p.points
      BY <1>7 DEF ToSet
    <3>. QED  BY <1>8, <2>1, <3>1
  <2>3. ASSUME NEW i \in stable, i < o PROVE i \in ToSet(t)
    <3>1. i \in points /\ i \in Nat
      BY <1>2
    <3>2. CASE i < start
      BY <1>7, <3>2
    <3>3. CASE i >= start
      BY <1>7, <2>1, <2>3, <3>1, <3>3
    <3>. QED  BY <3>1, <3>2, <3>3
  <2>. QED  BY <2>1, <2>2, <2>3
<1>10. ASSUME p.next = {}, NEW i \in stable \ ToSet(t)
       PROVE  \E f \in QIds : /\ f + QWindow < i
                              /\ Cardinality({k \in stable : k \in f..(f + QWindow)}) < QLimit
  <2>1. p.points = window /\ Cardinality(window) < QLimit
    BY <1>1, <1>10
  <2>2. i \in points /\ i \in Nat /\ i \in QIds /\ i \notin ToSet(s) /\ i \notin window
    BY <1>2, <1>7, <1>10, <2>1
  <2>3. i >= start /\ start + QWindow < i
    BY <1>2, <2>2
  <2>4. start \in QIds
    BY <1>2, <2>2, <2>3, QdrantAssumption DEF QIds
  <2>. DEFINE few == {k \in stable : k \in start..(start + QWindow)}
  <2>5. few \subseteq window
    <3>1. \A k : k \in start..(start + QWindow) => k >= start /\ k <= start + QWindow
      BY <1>2
    <3>. QED  BY <3>1
  <2>6. Cardinality(few) <= Cardinality(window)
    BY <1>2, <2>5, IdsFinite, FS_Subset
  <2>7. Cardinality(few) \in Nat /\ Cardinality(window) \in Nat
    BY <1>2, <2>5, IdsFinite
  <2>8. Cardinality(few) < QLimit
    BY <1>2, <2>1, <2>6, <2>7
  <2>. QED  BY <2>3, <2>4, <2>8
<1>. QED  BY <1>7, <1>9, <1>10 DEF p, r, t

LEMMA QdrantStart == QdrantInit => QdrantInv
<1>. SUFFICES ASSUME QdrantInit PROVE QdrantInv
  OBVIOUS
<1>1. QdrantTyped
  BY DEF QdrantInit, QdrantTyped, QCollections, Cols, QScrolls, QSnaps, NoCollection, NoScroll, NoSnap
<1>2. PointsCounted
  BY FS_EmptySet DEF QdrantInit, PointsCounted, CountedSince, NoCollection
<1>3. Scrolled /\ Snapped
  BY DEF QdrantInit, Scrolled, Snapped, NoScroll, NoSnap
<1>. QED  BY <1>1, <1>2, <1>3 DEF QdrantInv

\* The client that scrolls keeps what it has of the points that stay.
LEMMA ScrollStays ==
    ASSUME QdrantTyped, Scrolled, qcols' \in [QNames -> QCollections],
           \/ qscroll' = IF qscroll.at = "none" THEN qscroll
                         ELSE [qscroll EXCEPT !.stable = qscroll.stable \cap Visible(qcols'[qscroll.name])]
           \/ qscroll' = qscroll /\ \A n \in QNames : Visible(qcols[n]) \subseteq Visible(qcols'[n])
    PROVE  qscroll' \in QScrolls /\ Scrolled'
<1>1. CASE qscroll.at = "none"
  <2>1. qscroll' = qscroll
    BY <1>1
  <2>. QED  BY <1>1, <2>1 DEF Scrolled, QdrantTyped
<1>2. CASE qscroll.at # "none"
  <2>1. /\ qscroll \in [name : QNames, at : {"more", "done"}, next : SUBSET Nat, seen : Seq(QIds), stable : SUBSET QIds]
        /\ qscroll.name \in QNames /\ qscroll.stable \in SUBSET QIds /\ qscroll.at \in {"more", "done"}
    BY <1>2 DEF QdrantTyped, QScrolls
  <2>2. qscroll.stable \subseteq Visible(qcols[qscroll.name])
    BY <2>1 DEF Scrolled
  <2>3. PICK there : there = Visible(qcols'[qscroll.name])
    OBVIOUS
  <2>4. PICK stay \in SUBSET QIds : /\ qscroll' = [qscroll EXCEPT !.stable = stay]
                                   /\ stay \subseteq qscroll.stable /\ stay \subseteq there
    <3>1. CASE qscroll' = [qscroll EXCEPT !.stable = qscroll.stable \cap Visible(qcols'[qscroll.name])]
      <4>. DEFINE left == qscroll.stable \cap there
      <4>1. qscroll' = [qscroll EXCEPT !.stable = left]
        BY <2>3, <3>1
      <4>2. left \in SUBSET QIds /\ left \subseteq qscroll.stable /\ left \subseteq there
        BY <2>1
      <4>. HIDE DEF left
      <4>. QED  BY <4>1, <4>2
    <3>2. CASE qscroll' = qscroll /\ \A n \in QNames : Visible(qcols[n]) \subseteq Visible(qcols'[n])
      <4>1. qscroll' = [qscroll EXCEPT !.stable = qscroll.stable]
        BY <2>1, <3>2
      <4>2. Visible(qcols[qscroll.name]) \subseteq there
        BY <2>1, <2>3, <3>2
      <4>. QED  BY <2>1, <2>2, <4>1, <4>2
    <3>. QED  BY <1>2, <3>1, <3>2
  <2>5. /\ qscroll' \in [name : QNames, at : {"more", "done"}, next : SUBSET Nat, seen : Seq(QIds), stable : SUBSET QIds]
        /\ qscroll'.name = qscroll.name /\ qscroll'.at = qscroll.at /\ qscroll'.next = qscroll.next
        /\ qscroll'.seen = qscroll.seen /\ qscroll'.stable = stay
    BY <2>1, <2>4
  <2>6. \A s : Cardinality({k \in stay : k \in s..(s + QWindow)})
                  <= Cardinality({k \in qscroll.stable : k \in s..(s + QWindow)})
    <3>. TAKE s
    <3>. DEFINE A == {k \in stay : k \in s..(s + QWindow)}
                B == {k \in qscroll.stable : k \in s..(s + QWindow)}
    <3>1. A \subseteq B /\ B \in SUBSET QIds
      BY <2>1, <2>4
    <3>2. IsFiniteSet(B)
      BY <3>1, IdsFinite
    <3>. QED  BY <3>1, <3>2, FS_Subset
  <2>7. \A s : /\ Cardinality({k \in stay : k \in s..(s + QWindow)}) \in Nat
               /\ Cardinality({k \in qscroll.stable : k \in s..(s + QWindow)}) \in Nat
    <3>. TAKE s
    <3>1. /\ {k \in stay : k \in s..(s + QWindow)} \in SUBSET QIds
          /\ {k \in qscroll.stable : k \in s..(s + QWindow)} \in SUBSET QIds
      BY <2>1
    <3>. QED  BY <3>1, IdsFinite
  <2>8. /\ IsInjective(qscroll.seen)
        /\ qscroll.at = "more" =>
             \E o \in Nat : /\ qscroll.next = {o}
                            /\ \A k \in DOMAIN qscroll.seen : qscroll.seen[k] < o
                            /\ \A i \in qscroll.stable : i < o => i \in ToSet(qscroll.seen)
        /\ qscroll.at = "done" =>
             \A i \in qscroll.stable \ ToSet(qscroll.seen) :
                 \E s \in QIds : /\ s + QWindow < i
                                /\ Cardinality({k \in qscroll.stable : k \in s..(s + QWindow)}) < QLimit
    BY <2>1 DEF Scrolled
  <2>9. qscroll.at = "more" =>
             \E o \in Nat : /\ qscroll'.next = {o}
                            /\ \A k \in DOMAIN qscroll'.seen : qscroll'.seen[k] < o
                            /\ \A i \in qscroll'.stable : i < o => i \in ToSet(qscroll'.seen)
    BY <2>4, <2>5, <2>8
  <2>10. qscroll.at = "done" =>
             \A i \in stay \ ToSet(qscroll.seen) :
                 \E s \in QIds : /\ s + QWindow < i
                                /\ Cardinality({k \in stay : k \in s..(s + QWindow)}) < QLimit
    <3>. SUFFICES ASSUME qscroll.at = "done", NEW i \in stay \ ToSet(qscroll.seen)
                  PROVE  \E s \in QIds : /\ s + QWindow < i
                                        /\ Cardinality({k \in stay : k \in s..(s + QWindow)}) < QLimit
      OBVIOUS
    <3>1. PICK s \in QIds : /\ s + QWindow < i
                            /\ Cardinality({k \in qscroll.stable : k \in s..(s + QWindow)}) < QLimit
      BY <2>4, <2>8
    <3>. DEFINE a == Cardinality({k \in stay : k \in s..(s + QWindow)})
                b == Cardinality({k \in qscroll.stable : k \in s..(s + QWindow)})
    <3>2. a <= b /\ a \in Nat /\ b \in Nat /\ b < QLimit
      BY <2>6, <2>7, <3>1
    <3>. HIDE DEF a, b
    <3>3. a < QLimit
      BY <3>2, QdrantAssumption
    <3>. QED  BY <3>1, <3>3 DEF a
  <2>11. stay \subseteq Visible(qcols'[qscroll'.name])
    BY <2>3, <2>4, <2>5
  <2>12. /\ IsInjective(qscroll'.seen)
         /\ qscroll'.stable \subseteq Visible(qcols'[qscroll'.name])
         /\ qscroll'.at = "more" =>
             \E o \in Nat : /\ qscroll'.next = {o}
                            /\ \A k \in DOMAIN qscroll'.seen : qscroll'.seen[k] < o
                            /\ \A i \in qscroll'.stable : i < o => i \in ToSet(qscroll'.seen)
    BY <2>5, <2>8, <2>9, <2>11
  <2>13. qscroll'.at = "done" =>
             \A i \in qscroll'.stable \ ToSet(qscroll'.seen) :
                 \E s \in QIds : /\ s + QWindow < i
                                /\ Cardinality({k \in qscroll'.stable : k \in s..(s + QWindow)}) < QLimit
    BY <2>5, <2>10
  <2>14. Scrolled'
    BY <2>12, <2>13 DEF Scrolled
  <2>. QED  BY <2>5, <2>14 DEF QScrolls
<1>. QED  BY <1>1, <1>2

\* So does a running snapshot.
LEMMA SnapStays ==
    ASSUME QdrantTyped, Snapped, qcols' \in [QNames -> QCollections], qsnapshots' = qsnapshots,
           \/ qsnap' = IF qsnap.at = "none" THEN qsnap
                       ELSE [qsnap EXCEPT !.stable = {s \in qsnap.stable : s.id \in Visible(qcols'[s.name])}]
           \/ qsnap' = qsnap /\ \A n \in QNames : Visible(qcols[n]) \subseteq Visible(qcols'[n])
    PROVE  qsnap' \in QSnaps /\ Snapped'
<1>1. CASE qsnap.at = "none"
  <2>1. qsnap' = qsnap
    BY <1>1
  <2>. QED  BY <1>1, <2>1 DEF Snapped, QdrantTyped
<1>2. CASE qsnap.at # "none"
  <2>. DEFINE Snaps == [at : {"none", "running"}, todo : SUBSET QNames, failed : SUBSET QNames,
                        wrote : SUBSET QNames, blind : SUBSET QNames,
                        stable : SUBSET [name : QNames, id : QIds]]
  <2>1. qsnap \in Snaps /\ qsnap.at = "running" /\ qsnap.stable \in SUBSET [name : QNames, id : QIds]
    BY <1>2 DEF QdrantTyped, QSnaps
  <2>2. \A s \in qsnap.stable : s.id \in Visible(qcols[s.name]) /\ s.name \in QNames
    BY <2>1 DEF Snapped
  <2>3. PICK stay \in SUBSET qsnap.stable : /\ qsnap' = [qsnap EXCEPT !.stable = stay]
                                           /\ \A s \in stay : s.id \in Visible(qcols'[s.name])
    <3>1. CASE qsnap' = [qsnap EXCEPT !.stable = {s \in qsnap.stable : s.id \in Visible(qcols'[s.name])}]
      <4>. DEFINE left == {s \in qsnap.stable : s.id \in Visible(qcols'[s.name])}
      <4>1. qsnap' = [qsnap EXCEPT !.stable = left]
        BY <3>1
      <4>2. left \in SUBSET qsnap.stable /\ \A s \in left : s.id \in Visible(qcols'[s.name])
        OBVIOUS
      <4>. HIDE DEF left
      <4>. QED  BY <4>1, <4>2
    <3>2. CASE qsnap' = qsnap /\ \A n \in QNames : Visible(qcols[n]) \subseteq Visible(qcols'[n])
      <4>1. qsnap' = [qsnap EXCEPT !.stable = qsnap.stable]
        BY <2>1, <3>2
      <4>2. \A s \in qsnap.stable : s.id \in Visible(qcols'[s.name])
        BY <2>2, <3>2
      <4>. QED  BY <4>1, <4>2
    <3>. QED  BY <1>2, <3>1, <3>2
  <2>4. /\ qsnap' \in Snaps /\ qsnap'.at = qsnap.at /\ qsnap'.wrote = qsnap.wrote
        /\ qsnap'.blind = qsnap.blind /\ qsnap'.stable = stay
    BY <2>1, <2>3
  <2>. HIDE DEF Snaps
  <2>5. FullSnapshotComplete'
    BY <2>1, <2>3, <2>4 DEF Snapped, FullSnapshotComplete
  <2>. QED  BY <2>3, <2>4, <2>5 DEF Snapped, QSnaps, Snaps
<1>. QED  BY <1>1, <1>2

\* A change of the collections: what no longer stays is forgotten by those who wait.
LEMMA ChangeKeeps ==
    ASSUME QdrantInv, qcols' \in [QNames -> QCollections], PointsCounted', qsnapshots' = qsnapshots,
           \/ Stay(qcols')
           \/ UNCHANGED <<qscroll, qsnap>> /\ \A n \in QNames : Visible(qcols[n]) \subseteq Visible(qcols'[n])
    PROVE  QdrantInv'
<1>1. QdrantTyped /\ Scrolled /\ Snapped
  BY DEF QdrantInv
<1>2. qscroll' \in QScrolls /\ Scrolled'
  BY <1>1, ScrollStays DEF Stay
<1>3. qsnap' \in QSnaps /\ Snapped'
  BY <1>1, SnapStays DEF Stay
<1>4. QdrantTyped'
  BY <1>1, <1>2, <1>3 DEF QdrantTyped
<1>. QED  BY <1>2, <1>3, <1>4 DEF QdrantInv

\* A change of one of them.
LEMMA OneChange ==
    ASSUME QdrantInv, NEW n \in QNames, NEW c \in QCollections, qcols' = [qcols EXCEPT ![n] = c],
           CountedSince(c), qsnapshots' = qsnapshots,
           Stay(qcols') \/ (UNCHANGED <<qscroll, qsnap>> /\ Visible(qcols[n]) \subseteq Visible(c))
    PROVE  QdrantInv'
<1>1. QdrantTyped /\ PointsCounted
  BY DEF QdrantInv
<1>2. /\ qcols' \in [QNames -> QCollections] /\ qcols'[n] = c
      /\ \A m \in QNames \ {n} : qcols'[m] = qcols[m]
  BY <1>1 DEF QdrantTyped
<1>3. \A m \in QNames : CountedSince(qcols'[m])
  <2>. TAKE m \in QNames
  <2>1. CASE m = n
    BY <1>2, <2>1
  <2>2. CASE m # n
    BY <1>1, <1>2, <2>2 DEF PointsCounted
  <2>. QED  BY <2>1, <2>2
<1>4. PointsCounted'
  BY <1>3 DEF PointsCounted, CountedSince
<1>5. ASSUME Visible(qcols[n]) \subseteq Visible(c)
      PROVE  \A m \in QNames : Visible(qcols[m]) \subseteq Visible(qcols'[m])
  <2>. TAKE m \in QNames
  <2>1. CASE m = n
    BY <1>2, <1>5, <2>1
  <2>2. CASE m # n
    BY <1>2, <2>2
  <2>. QED  BY <2>1, <2>2
<1>. QED  BY <1>2, <1>4, <1>5, ChangeKeeps

\* A numeric id is one number.
LEMMA OneId == \A p \in QPoints : as_u64(p.id) \in SUBSET QIds /\ (as_u64(p.id) # {} => as_u64(p.id) = {p.id.n})
<1>1. \A p \in QPoints : p.id.n \in QIds
  BY DEF QPoints, QIds
<1>. QED  BY <1>1 DEF as_u64

\* An upsert counts every point it stores, one that was there too.
LEMMA UpsertCounts ==
    ASSUME NEW I, IsFiniteSet(I), NEW old \in SUBSET I, NEW m \in Nat, NEW ids,
           \A k \in 1..m : ids[k] # {} => \E i \in I : ids[k] = {i}
    PROVE  /\ PutIds(ids, m) \in SUBSET I /\ Cardinality(Puts(ids, m)) \in Nat
           /\ Cardinality(old \cup PutIds(ids, m)) <= Cardinality(old) + Cardinality(Puts(ids, m))
<1>. DEFINE done == {k \in 1..m : ids[k] # {}}
            one(k) == CHOOSE i \in I : ids[k] = {i}
            f == [k \in done |-> one(k)]
            T == {one(k) : k \in done}
            stored == UNION {ids[k] : k \in 1..m}
<1>1. \A k \in done : ids[k] = {one(k)} /\ one(k) \in I
  OBVIOUS
<1>2. stored = T /\ T \in SUBSET I
  <2>. HIDE DEF one
  <2>1. \A k \in 1..m : k \notin done => ids[k] = {}
    OBVIOUS
  <2>2. ASSUME NEW x \in stored PROVE x \in T
    <3>1. PICK k \in 1..m : x \in ids[k]
      OBVIOUS
    <3>. QED  BY <1>1, <3>1
  <2>3. ASSUME NEW x \in T PROVE x \in stored
    <3>1. PICK k \in done : x = one(k)
      OBVIOUS
    <3>. QED  BY <1>1, <3>1
  <2>4. T \in SUBSET I
    BY <1>1
  <2>. HIDE DEF stored, T, done
  <2>. QED  BY <2>2, <2>3, <2>4
<1>3. IsFiniteSet(done) /\ Cardinality(done) \in Nat
  <2>1. IsFiniteSet(1..m)
    BY FS_Interval
  <2>. QED  BY <2>1, FS_Subset, FS_CardinalityType
<1>4. f \in Surjection(done, T)
  BY DEF Surjection
<1>5. Cardinality(T) <= Cardinality(done) /\ IsFiniteSet(T)
  BY <1>3, <1>4, FS_Surjection
<1>6. Cardinality(old \cup T) = Cardinality(old) + Cardinality(T) - Cardinality(old \cap T)
  BY <1>5, FS_Subset, FS_Union
<1>. HIDE DEF T, stored, done
<1>7. Cardinality(old) \in Nat /\ Cardinality(T) \in Nat /\ Cardinality(old \cap T) \in Nat
  <2>1. IsFiniteSet(old) /\ IsFiniteSet(T) /\ IsFiniteSet(old \cap T)
    BY <1>2, FS_Subset
  <2>. QED  BY <2>1, FS_CardinalityType
<1>8. Cardinality(old \cup stored) <= Cardinality(old) + Cardinality(done)
  BY <1>2, <1>3, <1>5, <1>6, <1>7
<1>. QED  BY <1>2, <1>3, <1>8 DEF stored, done, Puts, PutIds

\* A collection that was opened, created, loaded again or dropped has the points
\* its log gave it, and counts none of them.
LEMMA OpenedCounted ==
    ASSUME NEW c \in QCollections, CountedSince(c)
    PROVE  \A d \in Created(c, QFound) \cup Reloaded(c, QFound) \cup Dropped(c, NoCollection) :
             d \in QCollections /\ CountedSince(d)
<1>. DEFINE open(l, d) == [there |-> TRUE, log |-> l, points |-> d.points, tombs |-> d.tombs,
                           count |-> 0, found |-> d.points]
<1>1. /\ c = [there |-> c.there, log |-> c.log, points |-> c.points, tombs |-> c.tombs,
              count |-> c.count, found |-> c.found]
      /\ c.there \in BOOLEAN /\ c.log \in {"none", "sound", "spoilt", "damaged"} /\ c.count \in Nat
      /\ c.points \in SUBSET QIds /\ c.tombs \in SUBSET QIds /\ c.found \in SUBSET QIds
  BY DEF QCollections, Cols
<1>2. ASSUME NEW l \in {"sound", "spoilt", "damaged"}, NEW p \in SUBSET QIds, NEW t \in SUBSET QIds
      PROVE  LET d == [there |-> TRUE, log |-> l, points |-> p, tombs |-> t, count |-> 0, found |-> p] IN
             d \in QCollections /\ CountedSince(d)
  <2>. DEFINE d == [there |-> TRUE, log |-> l, points |-> p, tombs |-> t, count |-> 0, found |-> p]
  <2>1. d \in QCollections
    BY DEF QCollections, Cols
  <2>2. d.points \ d.found = {} /\ d.count = 0
    OBVIOUS
  <2>. HIDE DEF d
  <2>3. CountedSince(d)
    BY <2>2, FS_EmptySet DEF CountedSince
  <2>. QED  BY <2>1, <2>3 DEF d
<1>3. ASSUME NEW d \in Opened(c, QFound) PROVE d \in QCollections /\ CountedSince(d)
  <2>1. PICK s \in QFound \cup {c} :
          d = [there |-> TRUE, log |-> IF c.log = "none" THEN "sound" ELSE c.log, points |-> s.points,
               tombs |-> s.tombs, count |-> 0, found |-> s.points]
    BY DEF Opened
  <2>2. s.points \in SUBSET QIds /\ s.tombs \in SUBSET QIds
    BY <1>1, QdrantAssumption DEF QIds
  <2>. QED  BY <1>1, <1>2, <2>1, <2>2
<1>4. ASSUME NEW b \in BOOLEAN, NEW l \in {"none", "sound", "spoilt", "damaged"}
      PROVE  LET d == [c EXCEPT !.there = b, !.log = l] IN d \in QCollections /\ CountedSince(d)
  <2>. DEFINE d == [c EXCEPT !.there = b, !.log = l]
  <2>1. d \in QCollections /\ d.points = c.points /\ d.found = c.found /\ d.count = c.count
    BY DEF QCollections, Cols
  <2>. HIDE DEF d
  <2>2. CountedSince(d)
    BY <2>1 DEF CountedSince
  <2>. QED  BY <2>1, <2>2 DEF d
<1>5. ASSUME NEW l \in {"none", "sound", "spoilt", "damaged"}
      PROVE  [c EXCEPT !.log = l] \in QCollections /\ CountedSince([c EXCEPT !.log = l])
  <2>1. [c EXCEPT !.log = l] = [c EXCEPT !.there = c.there, !.log = l]
    BY <1>1
  <2>. QED  BY <1>1, <1>4, <2>1
<1>6. [c EXCEPT !.there = FALSE] \in QCollections /\ CountedSince([c EXCEPT !.there = FALSE])
  <2>1. [c EXCEPT !.there = FALSE] = [c EXCEPT !.there = FALSE, !.log = c.log]
    BY <1>1
  <2>. QED  BY <1>1, <1>4, <2>1
<1>7. NoCollection \in QCollections /\ CountedSince(NoCollection)
  <2>1. NoCollection \in QCollections /\ NoCollection.points \ NoCollection.found = {} /\ NoCollection.count = 0
    BY DEF QCollections, Cols, NoCollection
  <2>. QED  BY <2>1, FS_EmptySet DEF CountedSince
<1>8. ASSUME NEW d \in Created(c, QFound) PROVE d \in QCollections /\ CountedSince(d)
  <2>1. \/ d \in Opened(c, QFound)
        \/ d = c
        \/ \E l \in {"none", "sound", "spoilt", "damaged"} : d = [c EXCEPT !.log = l]
    BY <1>1 DEF Created
  <2>. QED  BY <1>3, <1>5, <2>1
<1>9. ASSUME NEW d \in Reloaded(c, QFound) PROVE d \in QCollections /\ CountedSince(d)
  <2>1. d = [c EXCEPT !.there = FALSE] \/ d \in Opened(c, QFound)
    BY DEF Reloaded
  <2>. QED  BY <1>3, <1>6, <2>1
<1>10. ASSUME NEW d \in Dropped(c, NoCollection) PROVE d \in QCollections /\ CountedSince(d)
  <2>1. d = NoCollection \/ d = [c EXCEPT !.there = FALSE, !.log = "damaged"]
    BY DEF Dropped
  <2>. QED  BY <1>4, <1>7, <2>1
<1>. QED  BY <1>8, <1>9, <1>10

\* Creating and deleting collections.
LEMMA CollectionKeeps ==
    ASSUME QdrantInv, NEW n \in QNames, qdrant_create_collection(n) \/ qdrant_delete_collection(n)
    PROVE  QdrantInv'
<1>1. qcols[n] \in QCollections /\ CountedSince(qcols[n])
  BY DEF QdrantInv, QdrantTyped, PointsCounted
<1>2. PICK c \in Created(qcols[n], QFound) \cup Dropped(qcols[n], NoCollection) :
        qcols' = [qcols EXCEPT ![n] = c] /\ Stay(qcols') /\ qsnapshots' = qsnapshots
  <2>1. CASE qdrant_create_collection(n)
    BY <2>1 DEF qdrant_create_collection
  <2>2. CASE qdrant_delete_collection(n)
    BY <2>2 DEF qdrant_delete_collection
  <2>. QED  BY <2>1, <2>2
<1>3. c \in QCollections /\ CountedSince(c)
  BY <1>1, OpenedCounted
<1>. QED  BY <1>2, <1>3, OneChange

\* The process starts again: the client that scrolls keeps what is opened.
LEMMA QdrantRestarts ==
    ASSUME QdrantInv, qdrant_restart
    PROVE  QdrantInv'
<1>1. QdrantTyped /\ PointsCounted /\ Scrolled
  BY DEF QdrantInv
<1>2. \A n \in QNames : qcols'[n] \in QCollections /\ CountedSince(qcols'[n])
  <2>. TAKE n \in QNames
  <2>1. qcols[n] \in QCollections /\ CountedSince(qcols[n])
    BY <1>1 DEF QdrantTyped, PointsCounted
  <2>2. qcols'[n] \in Reloaded(qcols[n], QFound)
    BY DEF qdrant_restart
  <2>. QED  BY <2>1, <2>2, OpenedCounted
<1>3. qcols' \in [QNames -> QCollections]
  <2>1. PICK S : qcols' \in [QNames -> S]
    BY DEF qdrant_restart
  <2>. QED  BY <1>2, <2>1
<1>4. PointsCounted'
  BY <1>2 DEF PointsCounted, CountedSince
<1>5. qscroll' \in QScrolls /\ Scrolled'
  BY <1>1, <1>3, ScrollStays DEF qdrant_restart
<1>6. qsnap' = NoSnap /\ qsnapshots' = {}
  BY DEF qdrant_restart
<1>7. qsnap' \in QSnaps /\ Snapped'
  BY <1>6 DEF QSnaps, NoSnap, Snapped
<1>8. QdrantTyped'
  BY <1>3, <1>5, <1>6, <1>7 DEF QdrantTyped
<1>. QED  BY <1>4, <1>5, <1>7, <1>8 DEF QdrantInv

\* What an upsert and a deletion leave of the record of a collection, whatever its
\* points are.
LEMMA UpsertedIs ==
    ASSUME NEW P, NEW I, NEW c \in Cols(P, I),
           NEW points \in P, NEW ids, NEW m \in Nat, NEW answer
    PROVE  LET d == Upserted(c, points, ids, m, answer) IN
           /\ d \in Cols(P, I)
           /\ d.there = c.there /\ d.points = points /\ d.found = c.found
           /\ Cardinality(Puts(ids, m)) \in Nat
           /\ d.count = c.count + Cardinality(Puts(ids, m))
<1>. DEFINE done == Puts(ids, m)
<1>1. Cardinality(done) \in Nat
  <2>1. IsFiniteSet(1..m)
    BY FS_Interval
  <2>2. done \in SUBSET (1..m)
    BY DEF Puts
  <2>. QED  BY <2>1, <2>2, FS_Subset, FS_CardinalityType
<1>. HIDE DEF done
<1>2. PICK t : t = IF answer = "refused" THEN c.tombs \ ids[m + 1] ELSE c.tombs
  OBVIOUS
<1>3. PICK l : l = IF answer = "append" THEN "damaged"
                   ELSE IF answer = "refused" /\ c.log = "sound" THEN "spoilt" ELSE c.log
  OBVIOUS
<1>4. t \in SUBSET I /\ l \in {"none", "sound", "spoilt", "damaged"} /\ c.count + Cardinality(done) \in Nat
  BY <1>1, <1>2, <1>3 DEF Cols
<1>5. Upserted(c, points, ids, m, answer) =
        [c EXCEPT !.points = points, !.count = c.count + Cardinality(done), !.tombs = t, !.log = l]
  BY <1>2, <1>3 DEF Upserted, done, Puts
<1>. QED  BY <1>1, <1>4, <1>5 DEF done, Cols

LEMMA ErasedIs ==
    ASSUME NEW P, NEW I, NEW c \in Cols(P, I),
           NEW points \in P, NEW ids \in SUBSET I, NEW answer
    PROVE  LET d == Erased(c, points, ids, answer) IN
           /\ d \in Cols(P, I)
           /\ d.there = c.there /\ d.points = points /\ d.found = c.found /\ d.count = c.count
<1>1. PICK l : l = IF answer = "append" THEN "damaged" ELSE c.log
  OBVIOUS
<1>2. l \in {"none", "sound", "spoilt", "damaged"} /\ c.tombs \cup ids \in SUBSET I
  BY <1>1 DEF Cols
<1>3. Erased(c, points, ids, answer) = [c EXCEPT !.points = points, !.tombs = c.tombs \cup ids, !.log = l]
  BY <1>1 DEF Erased
<1>. QED  BY <1>2, <1>3 DEF Cols

\* Upserts and deletions of points.
LEMMA PointsKeep ==
    ASSUME QdrantInv, NEW n \in QNames,
           \/ \E r \in QRequests : \E a : qdrant_upsert_points(n, r, a)
           \/ \E ids : (\A id \in ids : as_u64(id) \in SUBSET QIds) /\ qdrant_delete_points(n, ids)
    PROVE  QdrantInv'
<1>1. QdrantTyped /\ PointsCounted
  BY DEF QdrantInv
<1>2. PICK c : c = qcols[n]
  OBVIOUS
<1>3. /\ c \in QCollections /\ c.points \in SUBSET QIds /\ c.found \in SUBSET QIds /\ c.count \in Nat
      /\ Cardinality(c.points \ c.found) <= c.count /\ Cardinality(c.points \ c.found) \in Nat
  <2>1. c \in QCollections /\ CountedSince(c)
    BY <1>1, <1>2 DEF QdrantTyped, PointsCounted
  <2>2. c.points \in SUBSET QIds /\ c.found \in SUBSET QIds /\ c.count \in Nat
    BY <2>1 DEF QCollections, Cols
  <2>. QED  BY <2>1, <2>2, IdsFinite DEF CountedSince
<1>4. ASSUME NEW r \in QRequests, NEW a, qdrant_upsert_points(n, r, a) PROVE QdrantInv'
  <2>. DEFINE batch == PointsOf(r)
              ids == [k \in DOMAIN batch |-> as_u64(batch[k].id)]
  <2>1. batch \in Seq(QPoints)
    BY QdrantAssumption
  <2>2. \A k \in DOMAIN batch : ids[k] = as_u64(batch[k].id)
    OBVIOUS
  <2>3. PICK m \in 0..Len(ids) :
          qcols' = [qcols EXCEPT ![n] = Upserted(@, @.points \cup UNION {ids[k] : k \in 1..m}, ids, m, a)]
    BY <1>4 DEF qdrant_upsert_points
  <2>4. UNCHANGED <<qscroll, qsnap, qsnapshots>> /\ c.there
    BY <1>2, <1>4 DEF qdrant_upsert_points
  <2>5. m \in Nat /\ DOMAIN ids = DOMAIN batch /\ DOMAIN batch = 1..Len(batch) /\ Len(ids) = Len(batch)
    BY <2>1, <2>2
  <2>. HIDE DEF batch, ids
  <2>6. \A k \in 1..m : ids[k] \in SUBSET QIds /\ (ids[k] # {} => \E i \in QIds : ids[k] = {i})
    <3>. TAKE k \in 1..m
    <3>1. k \in DOMAIN batch /\ batch[k] \in QPoints /\ ids[k] = as_u64(batch[k].id)
      BY <2>1, <2>2, <2>5
    <3>2. batch[k].id.n \in QIds
      BY <3>1 DEF QPoints, QIds
    <3>. QED  BY <3>1, <3>2, OneId
  <2>7. PICK stored, done : stored = PutIds(ids, m) /\ done = Puts(ids, m)
    OBVIOUS
  <2>8. PICK points : points = c.points \cup stored
    OBVIOUS
  <2>9. PICK d : d = Upserted(c, points, ids, m, a) /\ qcols' = [qcols EXCEPT ![n] = d]
    BY <1>2, <2>3, <2>7, <2>8 DEF PutIds
  <2>10. /\ stored \in SUBSET QIds /\ Cardinality(done) \in Nat
         /\ Cardinality((c.points \ c.found) \cup stored) <= Cardinality(c.points \ c.found) + Cardinality(done)
    <3>1. PICK old \in SUBSET QIds : old = c.points \ c.found
      BY <1>3
    <3>2. IsFiniteSet(QIds)
      BY IdsFinite
    <3>3. \A k \in 1..m : ids[k] # {} => \E i \in QIds : ids[k] = {i}
      BY <2>6
    <3>4. /\ PutIds(ids, m) \in SUBSET QIds /\ Cardinality(Puts(ids, m)) \in Nat
          /\ Cardinality(old \cup PutIds(ids, m)) <= Cardinality(old) + Cardinality(Puts(ids, m))
      BY ONLY <2>5, <3>1, <3>2, <3>3, UpsertCounts
    <3>. QED  BY <2>7, <3>1, <3>4
  <2>11. PICK P : P = SUBSET QIds
    OBVIOUS
  <2>12. /\ d \in QCollections /\ d.there /\ d.points = points /\ d.found = c.found
         /\ d.count = c.count + Cardinality(done)
    <3>1. c \in Cols(P, QIds) /\ points \in P
      BY <1>3, <2>8, <2>10, <2>11 DEF QCollections
    <3>2. /\ d \in Cols(P, QIds) /\ d.there = c.there /\ d.points = points /\ d.found = c.found
          /\ d.count = c.count + Cardinality(done)
      BY <2>5, <2>7, <2>9, <3>1, UpsertedIs
    <3>. QED  BY <2>4, <2>11, <3>2 DEF QCollections
  <2>13. CountedSince(d)
    <3>1. d.points \ d.found \subseteq (c.points \ c.found) \cup stored
      BY <2>8, <2>12
    <3>2. (c.points \ c.found) \cup stored \in SUBSET QIds
      BY <1>3, <2>10
    <3>3. /\ Cardinality(d.points \ d.found) <= Cardinality((c.points \ c.found) \cup stored)
          /\ Cardinality(d.points \ d.found) \in Nat /\ Cardinality((c.points \ c.found) \cup stored) \in Nat
      BY <3>1, <3>2, IdsFinite, FS_Subset
    <3>. QED  BY <1>3, <2>10, <2>12, <3>3 DEF CountedSince
  <2>14. Visible(qcols[n]) \subseteq Visible(d)
    BY <1>2, <2>8, <2>12 DEF Visible
  <2>. QED  BY <2>4, <2>9, <2>12, <2>13, <2>14, OneChange
<1>5. ASSUME NEW ids, \A id \in ids : as_u64(id) \in SUBSET QIds, qdrant_delete_points(n, ids) PROVE QdrantInv'
  <2>1. PICK gone \in SUBSET QIds, answer \in {"ok", "append"} :
          qcols' = [qcols EXCEPT ![n] = Erased(@, @.points \ gone, gone, answer)]
    <3>1. UNION {as_u64(id) : id \in ids} \in SUBSET QIds
      BY <1>5
    <3>. QED  BY <1>5, <3>1 DEF qdrant_delete_points
  <2>2. Stay(qcols') /\ qsnapshots' = qsnapshots
    BY <1>5 DEF qdrant_delete_points
  <2>3. PICK d : d = Erased(c, c.points \ gone, gone, answer)
    OBVIOUS
  <2>4. qcols' = [qcols EXCEPT ![n] = d]
    BY <1>2, <2>1, <2>3
  <2>5. d \in QCollections /\ d.points = c.points \ gone /\ d.found = c.found /\ d.count = c.count
    <3>1. PICK P : P = SUBSET QIds
      OBVIOUS
    <3>2. PICK left \in P : left = c.points \ gone
      BY <1>3, <3>1
    <3>3. c \in Cols(P, QIds)
      BY <1>3, <3>1 DEF QCollections
    <3>4. d \in Cols(P, QIds) /\ d.points = left /\ d.found = c.found /\ d.count = c.count
      BY <2>1, <2>3, <3>2, <3>3, ErasedIs
    <3>. QED  BY <3>1, <3>2, <3>4 DEF QCollections
  <2>6. CountedSince(d)
    <3>1. d.points \ d.found \subseteq c.points \ c.found /\ c.points \ c.found \in SUBSET QIds
      BY <1>3, <2>5
    <3>2. Cardinality(d.points \ d.found) <= Cardinality(c.points \ c.found) /\ Cardinality(d.points \ d.found) \in Nat
      BY <3>1, IdsFinite, FS_Subset
    <3>. QED  BY <1>3, <2>5, <3>2 DEF CountedSince
  <2>. QED  BY <2>2, <2>4, <2>5, <2>6, OneChange
<1>. QED  BY <1>4, <1>5

\* A page, or the next one.
LEMMA ScrollKeeps ==
    ASSUME QdrantInv, NEW n \in QNames, qdrant_scroll_points(n)
    PROVE  QdrantInv'
<1>1. QdrantTyped /\ PointsCounted /\ Scrolled /\ Snapped
  BY DEF QdrantInv
<1>. DEFINE Scrolls == [name : QNames, at : {"more", "done"}, next : SUBSET Nat,
                        seen : Seq(QIds), stable : SUBSET QIds]
<1>2. UNCHANGED <<qcols, qsnap, qsnapshots>> /\ qcols[n].there /\ qcols[n].points \in SUBSET QIds
  BY <1>1 DEF qdrant_scroll_points, QdrantTyped, QCollections, Cols
<1>3. PICK unread \in SUBSET qcols[n].points :
       LET points == qcols[n].points \ unread IN
       \/ /\ Request /\ qscroll.at = "none"
          /\ LET p == ScrollPage(points, 0) IN
             qscroll' = [name |-> n, at |-> IF p.next = {} THEN "done" ELSE "more", next |-> p.next,
                         seen |-> SetToSeq(p.points), stable |-> points]
       \/ /\ qscroll.at = "more" /\ qscroll.name = n /\ UNCHANGED qcalls
          /\ LET p == ScrollPage(points, CHOOSE o \in qscroll.next : TRUE) IN
             qscroll' = [qscroll EXCEPT !.at = IF p.next = {} THEN "done" ELSE "more",
                                        !.next = p.next, !.seen = @ \o SetToSeq(p.points),
                                        !.stable = @ \ unread]
  BY DEF qdrant_scroll_points
<1>4. PICK points \in SUBSET QIds : points = qcols[n].points \ unread
  BY <1>2
<1>5. PICK start \in Nat, s \in Seq(QIds), stable \in SUBSET points :
        /\ IsInjective(s) /\ \A k \in DOMAIN s : s[k] < start
        /\ \A i \in stable : i < start => i \in ToSet(s)
        /\ LET p == ScrollPage(points, start) IN
           qscroll' = [name |-> n, at |-> IF p.next = {} THEN "done" ELSE "more", next |-> p.next,
                       seen |-> s \o SetToSeq(p.points), stable |-> stable]
  <2>1. CASE qscroll.at = "none"
    <3>. DEFINE p == ScrollPage(points, 0)
    <3>1. qscroll' = [name |-> n, at |-> IF p.next = {} THEN "done" ELSE "more", next |-> p.next,
                      seen |-> SetToSeq(p.points), stable |-> points]
      BY <1>3, <1>4, <2>1
    <3>2. p.points \in SUBSET QIds
      BY <1>4, PageIs
    <3>3. SetToSeq(p.points) \in Seq(QIds)
      <4>1. SetToSeq(p.points) \in Seq(p.points)
        BY <3>2, ListedOnce
      <4>. QED  BY <3>2, <4>1
    <3>4. <<>> \o SetToSeq(p.points) = SetToSeq(p.points)
      BY <3>3
    <3>5. \A i \in points : ~(i < 0)
      BY <1>4, IdsFinite
    <3>6. IsInjective(<<>>) /\ <<>> \in Seq(QIds) /\ points \in SUBSET points /\ \A k \in DOMAIN <<>> : FALSE
      BY DEF IsInjective
    <3>. HIDE DEF p
    <3>7. qscroll' = [name |-> n, at |-> IF p.next = {} THEN "done" ELSE "more", next |-> p.next,
                      seen |-> <<>> \o SetToSeq(p.points), stable |-> points]
      BY <3>1, <3>4
    <3>. QED  BY <3>5, <3>6, <3>7 DEF p
  <2>2. CASE qscroll.at # "none"
    <3>1. /\ qscroll.at = "more" /\ qscroll.name = n
          /\ qscroll \in [name : QNames, at : {"more", "done"}, next : SUBSET Nat, seen : Seq(QIds), stable : SUBSET QIds]
      BY <1>1, <1>3, <2>2 DEF QdrantTyped, QScrolls
    <3>2. PICK o \in Nat : /\ qscroll.next = {o}
                           /\ \A k \in DOMAIN qscroll.seen : qscroll.seen[k] < o
                           /\ \A i \in qscroll.stable : i < o => i \in ToSet(qscroll.seen)
      BY <1>1, <3>1 DEF Scrolled
    <3>3. (CHOOSE x \in qscroll.next : TRUE) = o
      BY <3>2
    <3>. DEFINE p == ScrollPage(points, o)
                left == qscroll.stable \ unread
    <3>4. qscroll' = [qscroll EXCEPT !.at = IF p.next = {} THEN "done" ELSE "more",
                                     !.next = p.next, !.seen = qscroll.seen \o SetToSeq(p.points),
                                     !.stable = left]
      BY <1>3, <1>4, <2>2, <3>3
    <3>5. /\ qscroll.seen \in Seq(QIds) /\ IsInjective(qscroll.seen) /\ left \in SUBSET points
      BY <1>1, <1>2, <1>4, <3>1 DEF Scrolled, Visible
    <3>6. \A i \in left : i < o => i \in ToSet(qscroll.seen)
      BY <3>2
    <3>. HIDE DEF p, left
    <3>7. qscroll' = [name |-> n, at |-> IF p.next = {} THEN "done" ELSE "more", next |-> p.next,
                      seen |-> qscroll.seen \o SetToSeq(p.points), stable |-> left]
      BY <3>1, <3>4
    <3>. QED  BY <3>2, <3>5, <3>6, <3>7 DEF p
  <2>. QED  BY <2>1, <2>2
<1>. DEFINE p == ScrollPage(points, start)
            t == s \o SetToSeq(p.points)
<1>6. /\ t \in Seq(QIds) /\ IsInjective(t)
      /\ p.next # {} => \E o \in Nat :
           /\ p.next = {o}
           /\ \A k \in DOMAIN t : t[k] < o
           /\ \A i \in stable : i < o => i \in ToSet(t)
      /\ p.next = {} => \A i \in stable \ ToSet(t) :
           \E f \in QIds : /\ f + QWindow < i
                          /\ Cardinality({k \in stable : k \in f..(f + QWindow)}) < QLimit
  BY <1>4, <1>5, PageRead
<1>7. qscroll' = [name |-> n, at |-> IF p.next = {} THEN "done" ELSE "more", next |-> p.next,
                  seen |-> t, stable |-> stable]
  BY <1>5
<1>8. stable \in SUBSET QIds /\ stable \subseteq qcols[n].points
  BY <1>4
<1>. HIDE DEF p, t
<1>9. p.next \in SUBSET Nat
  BY <1>6
<1>10. qscroll' \in Scrolls
  BY <1>6, <1>7, <1>8, <1>9
<1>11. Scrolled'
  <2>1. /\ qscroll'.seen = t /\ qscroll'.stable = stable /\ qscroll'.name = n /\ qscroll'.next = p.next
        /\ qscroll'.at = "more" => p.next # {}
        /\ qscroll'.at = "done" => p.next = {}
    BY <1>7
  <2>2. stable \subseteq Visible(qcols'[n])
    BY <1>2, <1>8 DEF Visible
  <2>. QED  BY <1>6, <2>1, <2>2 DEF Scrolled
<1>. QED  BY <1>1, <1>2, <1>10, <1>11
     DEF QdrantInv, QdrantTyped, QScrolls, PointsCounted, CountedSince, Snapped, FullSnapshotComplete, Visible

\* A snapshot: its beginning, each collection, the answer.
LEMMA SnapshotKeeps ==
    ASSUME QdrantInv,
           \/ \E names \in SUBSET QNames : BeginSnapshot(names)
           \/ SnapshotNext
           \/ \E ok \in BOOLEAN : SnapshotAnswered(ok)
    PROVE  QdrantInv'
<1>1. QdrantTyped /\ PointsCounted /\ Scrolled /\ Snapped
  BY DEF QdrantInv
<1>. DEFINE Snaps == [at : {"none", "running"}, todo : SUBSET QNames, failed : SUBSET QNames,
                      wrote : SUBSET QNames, blind : SUBSET QNames,
                      stable : SUBSET [name : QNames, id : QIds]]
            Taken == SUBSET [name : QNames, points : SUBSET QIds]
<1>2. qcols \in [QNames -> QCollections] /\ qsnap \in QSnaps /\ qsnapshots \in Taken /\ qscroll \in QScrolls
  BY <1>1 DEF QdrantTyped
<1>3. ASSUME UNCHANGED <<qcols, qscroll>>, qsnap' \in Snaps, qsnapshots' \in Taken, Snapped'
      PROVE  QdrantInv'
  <2>1. Scrolled' /\ PointsCounted'
    BY <1>1, <1>3 DEF Scrolled, PointsCounted, CountedSince, Visible
  <2>. QED  BY <1>2, <1>3, <2>1 DEF QdrantInv, QdrantTyped, QSnaps
<1>4. ASSUME NEW names \in SUBSET QNames, BeginSnapshot(names) PROVE QdrantInv'
  <2>. DEFINE stay == {s \in [name : names, id : QIds] : s.id \in Visible(qcols[s.name])}
  <2>1. /\ qsnap' = [at |-> "running", todo |-> names, failed |-> {}, wrote |-> {}, blind |-> {}, stable |-> stay]
        /\ qsnapshots' = {} /\ UNCHANGED <<qcols, qscroll>>
    BY <1>4 DEF BeginSnapshot
  <2>2. stay \in SUBSET [name : QNames, id : QIds] /\ \A s \in stay : s.id \in Visible(qcols[s.name])
    OBVIOUS
  <2>. HIDE DEF stay
  <2>3. qsnap' \in Snaps /\ qsnap'.wrote = {} /\ qsnap'.stable = stay /\ qsnapshots' \in Taken
    BY <2>1, <2>2
  <2>4. \A s \in qsnap'.stable : s.id \in Visible(qcols'[s.name])
    BY <2>1, <2>2, <2>3
  <2>5. Snapped'
    BY <2>3, <2>4 DEF Snapped, FullSnapshotComplete, Visible
  <2>. QED  BY <1>3, <2>1, <2>3, <2>5
<1>5. CASE SnapshotNext
  <2>1. qsnap \in Snaps /\ qsnap.at = "running" /\ UNCHANGED <<qcols, qscroll>>
    BY <1>2, <1>5 DEF SnapshotNext, QSnaps
  <2>2. /\ \A s \in qsnap.stable : s.id \in Visible(qcols[s.name]) /\ s.name \in QNames /\ s.id \in QIds
        /\ \A s \in qsnap.stable : s.name \in qsnap.wrote \ qsnap.blind /\ s.id < QSlack =>
              \E w \in qsnapshots : w.name = s.name /\ s.id \in w.points
    BY <1>1, <2>1 DEF Snapped, FullSnapshotComplete
  <2>3. PICK n \in qsnap.todo :
         \/ \E unread \in SUBSET qcols[n].points :
              /\ qcols[n].there
              /\ qsnapshots' = qsnapshots \cup {[name |-> n, points |-> AllVectors(qcols[n], unread)]}
              /\ qsnap' = [qsnap EXCEPT !.todo = @ \ {n}, !.wrote = @ \cup {n},
                                        !.blind = IF qcols[n].count = 0 THEN @ \cup {n} ELSE @,
                                        !.stable = {s \in @ : s.name # n \/ s.id \notin unread}]
         \/ /\ qsnap' = [qsnap EXCEPT !.todo = @ \ {n}, !.failed = @ \cup {n}]
            /\ UNCHANGED qsnapshots
    BY <1>5 DEF SnapshotNext
  <2>4. n \in QNames
    BY <2>1
  <2>5. ASSUME NEW unread \in SUBSET qcols[n].points, qcols[n].there,
               qsnapshots' = qsnapshots \cup {[name |-> n, points |-> AllVectors(qcols[n], unread)]},
               qsnap' = [qsnap EXCEPT !.todo = @ \ {n}, !.wrote = @ \cup {n},
                                      !.blind = IF qcols[n].count = 0 THEN @ \cup {n} ELSE @,
                                      !.stable = {s \in @ : s.name # n \/ s.id \notin unread}]
        PROVE  QdrantInv'
    <3>1. PICK points, count : points = qcols[n].points /\ count = qcols[n].count
      OBVIOUS
    <3>2. points \in SUBSET QIds /\ count \in Nat
      BY <1>2, <2>4, <3>1 DEF QCollections, Cols
    <3>3. PICK got : got = AllVectors(qcols[n], unread)
      OBVIOUS
    <3>4. got \in SUBSET QIds
      BY <3>1, <3>2, <3>3 DEF AllVectors
    <3>5. ASSUME NEW i \in points \ unread, i < QSlack, count # 0 PROVE i \in got
      <4>1. i < count * 2 + QSlack
        <5>1. i \in Nat /\ QSlack \in Nat
          BY <3>2, IdsFinite, QdrantAssumption
        <5>. QED  BY <3>2, <3>5, <5>1
      <4>. QED  BY <3>1, <3>3, <3>5, <4>1 DEF AllVectors
    <3>6. PICK stay : stay = {s \in qsnap.stable : s.name # n \/ s.id \notin unread}
      OBVIOUS
    <3>7. PICK blind \in SUBSET QNames : blind = IF count = 0 THEN qsnap.blind \cup {n} ELSE qsnap.blind
      BY <2>1, <2>4
    <3>8. stay \subseteq qsnap.stable /\ stay \in SUBSET [name : QNames, id : QIds]
      BY <2>1, <3>6
    <3>9. qsnap' = [qsnap EXCEPT !.todo = qsnap.todo \ {n}, !.wrote = qsnap.wrote \cup {n},
                                 !.blind = blind, !.stable = stay]
      BY <2>5, <3>1, <3>6, <3>7
    <3>10. /\ qsnap' \in Snaps /\ qsnap'.at = "running" /\ qsnap'.wrote = qsnap.wrote \cup {n}
           /\ qsnap'.blind = blind /\ qsnap'.stable = stay
      BY <2>1, <2>4, <3>8, <3>9
    <3>11. PICK w \in [name : QNames, points : SUBSET QIds] : w.name = n /\ w.points = got /\ qsnapshots' = qsnapshots \cup {w}
      BY <2>4, <2>5, <3>3, <3>4
    <3>. HIDE DEF Snaps, Taken
    <3>12. ASSUME NEW s \in stay, s.name \in (qsnap.wrote \cup {n}) \ blind, s.id < QSlack
           PROVE  \E v \in qsnapshots' : v.name = s.name /\ s.id \in v.points
      <4>1. CASE s.name = n
        <5>1. count # 0
          BY <3>7, <3>12, <4>1
        <5>2. s.id \in points /\ s.id \notin unread
          BY <2>2, <2>5, <3>1, <3>6, <3>8, <4>1 DEF Visible
        <5>3. s.id \in got
          BY <3>5, <3>12, <5>1, <5>2
        <5>. QED  BY <3>11, <4>1, <5>3
      <4>2. CASE s.name # n
        <5>1. s.name \in qsnap.wrote \ qsnap.blind /\ s \in qsnap.stable
          BY <3>7, <3>8, <3>12, <4>2
        <5>. QED  BY <2>2, <3>11, <3>12, <5>1
      <4>. QED  BY <4>1, <4>2
    <3>13. \A s \in stay : s.id \in Visible(qcols'[s.name])
      BY <2>1, <2>2, <3>8
    <3>14. FullSnapshotComplete'
      BY <3>10, <3>12 DEF FullSnapshotComplete
    <3>15. Snapped'
      BY <3>10, <3>13, <3>14 DEF Snapped, Visible
    <3>16. qsnapshots' \in Taken
      BY <1>2, <3>11 DEF Taken
    <3>. QED  BY <1>3, <2>1, <3>10, <3>15, <3>16
  <2>6. CASE qsnap' = [qsnap EXCEPT !.todo = @ \ {n}, !.failed = @ \cup {n}] /\ UNCHANGED qsnapshots
    <3>1. /\ qsnap' \in Snaps /\ qsnap'.wrote = qsnap.wrote /\ qsnap'.blind = qsnap.blind
          /\ qsnap'.stable = qsnap.stable
      BY <2>1, <2>4, <2>6
    <3>. HIDE DEF Snaps
    <3>2. Snapped'
      BY <2>1, <2>2, <2>6, <3>1 DEF Snapped, FullSnapshotComplete, Visible
    <3>. QED  BY <1>2, <1>3, <2>1, <2>6, <3>1, <3>2
  <2>. QED  BY <2>3, <2>5, <2>6
<1>6. ASSUME NEW ok \in BOOLEAN, SnapshotAnswered(ok) PROVE QdrantInv'
  <2>1. qsnap \in Snaps /\ UNCHANGED <<qcols, qscroll, qsnapshots>> /\ qsnap' = [qsnap EXCEPT !.at = "none"]
    BY <1>2, <1>6 DEF SnapshotAnswered, QSnaps
  <2>2. qsnap' \in Snaps /\ qsnap'.at = "none"
    BY <2>1
  <2>. HIDE DEF Snaps
  <2>. QED  BY <1>2, <1>3, <2>1, <2>2 DEF Snapped
<1>. QED  BY <1>4, <1>5, <1>6

LEMMA QdrantKeeps == QdrantInv /\ [QdrantNext]_QdrantVars => QdrantInv'
<1>. SUFFICES ASSUME QdrantInv, [QdrantNext]_QdrantVars PROVE QdrantInv'
  OBVIOUS
<1>1. ASSUME UNCHANGED <<qcols, qscroll, qsnap, qsnapshots>> PROVE QdrantInv'
  <2>1. QdrantTyped' /\ PointsCounted'
    BY <1>1 DEF QdrantInv, QdrantTyped, PointsCounted, CountedSince
  <2>2. Scrolled'
    BY <1>1 DEF QdrantInv, Scrolled, Visible
  <2>3. Snapped'
    BY <1>1 DEF QdrantInv, Snapped, FullSnapshotComplete, Visible
  <2>. QED  BY <2>1, <2>2, <2>3 DEF QdrantInv
<1>2. CASE UNCHANGED QdrantVars
  BY <1>1, <1>2 DEF QdrantVars
<1>3. ASSUME NEW n \in QNames, qdrant_create_collection(n) \/ qdrant_delete_collection(n) PROVE QdrantInv'
  BY <1>3, CollectionKeeps
<1>4. ASSUME NEW n \in QNames, qdrant_scroll_points(n) PROVE QdrantInv'
  BY <1>4, ScrollKeeps
<1>5. ASSUME NEW n \in QNames, qdrant_create_index(n) \/ qdrant_delete_index(n) PROVE QdrantInv'
  BY <1>1, <1>5 DEF qdrant_create_index, qdrant_delete_index
<1>6. ASSUME NEW n \in QNames, qdrant_create_snapshot(n) PROVE QdrantInv'
  BY <1>6, SnapshotKeeps DEF qdrant_create_snapshot
<1>7. ASSUME NEW n \in QNames, NEW i \in QIds, qdrant_delete_point(n, i) PROVE QdrantInv'
  <2>1. \A id \in {[kind |-> "integer", n |-> i]} : as_u64(id) \in SUBSET QIds
    BY DEF as_u64
  <2>. QED  BY <1>7, <2>1, PointsKeep DEF qdrant_delete_point
<1>8. ASSUME NEW n \in QNames, NEW r \in QRequests,
             \/ qdrant_delete_points(n, {r.points[k].id : k \in DOMAIN r.points})
             \/ \E a \in Answers : qdrant_upsert_points(n, r, a)
      PROVE  QdrantInv'
  <2>1. \A id \in {r.points[k].id : k \in DOMAIN r.points} : as_u64(id) \in SUBSET QIds
    <3>1. \A k \in DOMAIN r.points : r.points[k] \in QPoints
      BY QdrantAssumption
    <3>. QED  BY <3>1, OneId
  <2>. QED  BY <1>8, <2>1, PointsKeep
<1>9. CASE qdrant_create_full_snapshot
  <2>1. list_collections \in SUBSET QNames
    BY DEF list_collections
  <2>. QED  BY <1>9, <2>1, SnapshotKeeps DEF qdrant_create_full_snapshot
<1>10. CASE SnapshotNext \/ \E ok \in BOOLEAN : SnapshotAnswered(ok)
  BY <1>10, SnapshotKeeps
<1>11. CASE qdrant_restart
  BY <1>11, QdrantRestarts
<1>. QED  BY <1>2, <1>3, <1>4, <1>5, <1>6, <1>7, <1>8, <1>9, <1>10, <1>11 DEF QdrantNext

LEMMA QdrantHolds == QdrantInv => QdrantTypeOK /\ ScrollComplete /\ ReadPathsAgree /\ FullSnapshotComplete
<1>. SUFFICES ASSUME QdrantInv PROVE QdrantTypeOK /\ ScrollComplete /\ ReadPathsAgree /\ FullSnapshotComplete
  OBVIOUS
<1>1. QdrantTyped /\ PointsCounted /\ Scrolled /\ Snapped
  BY DEF QdrantInv
<1>2. QdrantTypeOK
  BY <1>1 DEF QdrantTyped, QdrantTypeOK, QCollections, Cols, QScrolls, QSnaps
<1>3. ScrollComplete
  BY <1>1 DEF Scrolled, ScrollComplete
<1>4. FullSnapshotComplete
  BY <1>1 DEF Snapped, FullSnapshotComplete
<1>5. ASSUME NEW n \in QNames, NEW i \in QIds, NEW unread \in SUBSET QIds, qcols[n].there
      PROVE  /\ \A kind \in {"integer", "numeral"} :
                  get_point(n, i, unread) = "found"
                     <=> retrieve_points(n, {[kind |-> kind, n |-> i]}, unread) = {i}
             /\ get_point(n, i, unread) = "found" <=> i \in ScrollPage(qcols[n].points \ unread, i).points
             /\ \A r \in search_batch(n, <<QLimit>>)[1] : \A k \in r : get_point(n, k, {}) = "found"
             /\ count_points(n) >= Cardinality(qcols[n].points \ qcols[n].found)
             /\ \A c \in get_collection(n) : c.points_count = count_points(n)
  <2>. DEFINE points == qcols[n].points \ unread
  <2>1. /\ points \in SUBSET QIds /\ qcols[n].count \in Nat /\ i \in Nat
        /\ Cardinality(qcols[n].points \ qcols[n].found) <= qcols[n].count
        /\ Cardinality(qcols[n].points \ qcols[n].found) \in Nat
    <3>1. /\ qcols[n].points \in SUBSET QIds /\ qcols[n].count \in Nat
          /\ Cardinality(qcols[n].points \ qcols[n].found) <= qcols[n].count
      BY <1>1 DEF QdrantTyped, QCollections, Cols, PointsCounted, CountedSince
    <3>2. qcols[n].points \ qcols[n].found \in SUBSET QIds
      BY <3>1
    <3>. QED  BY <3>1, <3>2, IdsFinite
  <2>2. get_point(n, i, unread) = "found" <=> i \in points
    BY <1>5 DEF get_point
  <2>3. ASSUME NEW kind \in {"integer", "numeral"}
        PROVE  get_point(n, i, unread) = "found" <=> retrieve_points(n, {[kind |-> kind, n |-> i]}, unread) = {i}
    <3>1. as_u64([kind |-> kind, n |-> i]) = {i}
      BY <2>3 DEF as_u64
    <3>2. UNION {as_u64(id) : id \in {[kind |-> kind, n |-> i]}} = {i}
      BY <3>1
    <3>3. retrieve_points(n, {[kind |-> kind, n |-> i]}, unread) = {j \in {i} : j \in points}
      BY <1>5, <3>2 DEF retrieve_points, Visible
    <3>. QED  BY <2>2, <3>3
  <2>4. get_point(n, i, unread) = "found" <=> i \in ScrollPage(points, i).points
    <3>. DEFINE page == ScrollPage(points, i)
    <3>1. /\ page.points \subseteq {j \in points : j >= i /\ j <= i + QWindow}
          /\ page.next = {} => page.points = {j \in points : j >= i /\ j <= i + QWindow}
          /\ page.next # {} => \E o \in Nat :
               /\ page.next = {o} /\ o > i
               /\ \A j \in points : j >= i /\ j < o => j \in page.points
      BY <2>1, PageIs
    <3>. HIDE DEF page, points
    <3>2. i >= i /\ i <= i + QWindow
      BY <2>1, QdrantAssumption
    <3>3. i \in points => i \in page.points
      <4>1. CASE page.next = {}
        BY <3>1, <3>2, <4>1
      <4>2. CASE page.next # {}
        <5>1. PICK o \in Nat : o > i /\ \A j \in points : j >= i /\ j < o => j \in page.points
          BY <3>1, <4>2
        <5>2. i < o
          BY <2>1, <5>1
        <5>. QED  BY <3>2, <5>1, <5>2
      <4>. QED  BY <4>1, <4>2
    <3>4. i \in page.points => i \in points
      BY <3>1
    <3>. QED  BY <2>2, <3>3, <3>4 DEF page
  <2>5. ASSUME NEW r \in search_batch(n, <<QLimit>>)[1], NEW k \in r PROVE get_point(n, k, {}) = "found"
    <3>1. r \in SUBSET (qcols[n].points \cap QIds)
      BY <1>5, <2>5 DEF search_batch, query_points, search_points, Visible
    <3>. QED  BY <1>5, <3>1 DEF get_point
  <2>6. count_points(n) >= Cardinality(qcols[n].points \ qcols[n].found)
    BY <2>1 DEF count_points
  <2>7. \A c \in get_collection(n) : c.points_count = count_points(n)
    BY DEF get_collection, count_points
  <2>. QED  BY <2>3, <2>4, <2>5, <2>6, <2>7
<1>6. ReadPathsAgree
  BY <1>5 DEF ReadPathsAgree
<1>. QED  BY <1>2, <1>3, <1>4, <1>6

\* What an upsert answers, it has done.
LEMMA UpsertStores ==
    ASSUME QdrantInv, NEW n \in QNames, NEW r \in QRequests, NEW a \in Answers, qdrant_upsert_points(n, r, a)
    PROVE  LET batch == PointsOf(r) IN
           /\ a = "ok" => \A k \in DOMAIN batch : as_u64(batch[k].id) \subseteq qcols'[n].points
           /\ a = "refused" => \E k \in DOMAIN batch : as_u64(batch[k].id) \cap qcols[n].tombs # {}
           /\ a = "dimension" => \E k \in DOMAIN batch : batch[k].vector = "other_name"
<1>. DEFINE batch == PointsOf(r)
            ids == [k \in DOMAIN batch |-> as_u64(batch[k].id)]
            fits == [k \in DOMAIN batch |-> HasDimension(batch[k])]
<1>1. batch \in Seq(QPoints)
  BY QdrantAssumption
<1>2. PICK m \in 0..Len(ids) :
        /\ StopsAt(qcols[n].tombs, ids, fits, m, a)
        /\ qcols' = [qcols EXCEPT ![n] = Upserted(@, @.points \cup UNION {ids[k] : k \in 1..m}, ids, m, a)]
  BY DEF qdrant_upsert_points
<1>3. \A k \in DOMAIN batch : /\ ids[k] = as_u64(batch[k].id) /\ fits[k] = HasDimension(batch[k])
                              /\ batch[k] \in QPoints
  BY <1>1
<1>4. \A k \in DOMAIN batch : validate_vector_value(batch[k])
  BY DEF qdrant_upsert_points, validate_upsert_request, validate_point_data
<1>5. /\ DOMAIN ids = DOMAIN batch /\ DOMAIN batch = 1..Len(batch) /\ Len(ids) = Len(batch) /\ Len(batch) \in Nat
      /\ m \in Nat
  BY <1>1
<1>. HIDE DEF batch, ids, fits
<1>6. PICK stored, points : stored = UNION {ids[k] : k \in 1..m} /\ points = qcols[n].points \cup stored
  OBVIOUS
<1>7. qcols'[n].points = points
  <2>1. PICK c : c = qcols[n]
    OBVIOUS
  <2>2. PICK d : d = Upserted(c, points, ids, m, a)
    OBVIOUS
  <2>3. c \in QCollections /\ qcols' = [qcols EXCEPT ![n] = d] /\ qcols'[n] = d
    BY <1>2, <1>6, <2>1, <2>2 DEF QdrantInv, QdrantTyped
  <2>4. d.points = points
    BY <2>2, <2>3 DEF Upserted, QCollections, Cols
  <2>. QED  BY <2>3, <2>4
<1>8. ASSUME a = "ok", NEW k \in DOMAIN batch PROVE as_u64(batch[k].id) \subseteq qcols'[n].points
  <2>1. k \in 1..m
    BY <1>2, <1>5, <1>8 DEF StopsAt
  <2>. QED  BY <1>3, <1>6, <1>7, <2>1
<1>9. ASSUME a \in {"refused", "dimension"}
      PROVE  /\ m + 1 \in DOMAIN batch /\ ids[m + 1] # {}
             /\ a = "refused" => ids[m + 1] \cap qcols[n].tombs # {}
             /\ a = "dimension" => ~fits[m + 1]
  <2>1. \/ a = "ok" /\ m = Len(ids)
        \/ /\ m < Len(ids) /\ ids[m + 1] # {}
           /\ \/ a = "dimension" /\ ~fits[m + 1]
              \/ a = "refused" /\ fits[m + 1] /\ ids[m + 1] \cap qcols[n].tombs # {}
              \/ a = "append" /\ fits[m + 1]
    BY <1>2, Zenon DEF StopsAt
  <2>2. m < Len(ids) /\ ids[m + 1] # {}
    BY <1>9, <2>1
  <2>3. /\ a = "refused" => ids[m + 1] \cap qcols[n].tombs # {}
        /\ a = "dimension" => ~fits[m + 1]
    BY <1>9, <2>1
  <2>4. m + 1 \in DOMAIN batch
    BY <1>5, <2>2
  <2>. QED  BY <2>2, <2>3, <2>4
<1>10. a = "refused" => \E k \in DOMAIN batch : as_u64(batch[k].id) \cap qcols[n].tombs # {}
  BY <1>3, <1>9
<1>11. a = "dimension" => \E k \in DOMAIN batch : batch[k].vector = "other_name"
  <2>. SUFFICES ASSUME a = "dimension" PROVE batch[m + 1].vector = "other_name" /\ m + 1 \in DOMAIN batch
    OBVIOUS
  <2>1. m + 1 \in DOMAIN batch /\ ~fits[m + 1]
    BY <1>9
  <2>2. batch[m + 1].vector \in {"plain", "named", "other_name", "wrong_size"}
    BY <1>3, <2>1 DEF QPoints
  <2>3. ~HasDimension(batch[m + 1]) /\ validate_vector_value(batch[m + 1])
    BY <1>3, <1>4, <2>1
  <2>. QED  BY <2>1, <2>2, <2>3 DEF HasDimension, validate_vector_value
<1>. QED  BY <1>8, <1>10, <1>11 DEF batch

-----------------------------------------------------------------------------
(* The Weaviate, Milvus, REST and gRPC interfaces                           *)

WCols == Cols([WIds -> Nat], WIds)
WItems == [class : WNames, id : WIds \cup {Text}, fits : BOOLEAN]
WJobs == [at : {"none"}] \cup [at : {"register", "drop"}, class : WNames]
            \cup [at : {"batch"}, objects : Seq(WItems), results : Seq(BOOLEAN), call : Nat]

CompatTyped ==
    /\ wcalls \in 0..WMaxCalls
    /\ wcols \in [WNames -> WCols]
    /\ wacked \in [WNames -> [WIds -> Nat]]
    /\ wreg \subseteq WNames
    /\ wjob \in [WTasks -> WJobs]

\* The points that are there and were not found there.
Fresh(c) == {i \in WIds : c.points[i] # 0 /\ c.points[i] # c.found[i]}

\* No point was written by a later call than the last; what was acknowledged is in
\* a collection that is there, or something later is; the count is not too low.
Holding(c, acked, last) ==
    /\ Cardinality(Fresh(c)) <= c.count
    /\ \A i \in WIds : /\ c.points[i] <= last /\ c.found[i] <= last
                       /\ acked[i] <= c.points[i]
                       /\ acked[i] # 0 => c.there

AllHolding == \A n \in WNames : Holding(wcols[n], wacked[n], wcalls)

CallsBounded == \A t \in WTasks : wjob[t].at = "batch" => wjob[t].call <= wcalls

\* A class that is entered, or is about to be, has its collection or came apart.
ClassesStay == \A c \in WNames \ wloose : c \in wreg \/ Registering(c) => wcols[c].there

CompatInv == CompatTyped /\ AllHolding /\ CallsBounded /\ ClassesStay

LEMMA WIdsFinite == IsFiniteSet(WIds) /\ \A S \in SUBSET WIds : IsFiniteSet(S) /\ Cardinality(S) \in Nat
BY CompatAssumption, FS_Subset, FS_CardinalityType

LEMMA CompatStart == CompatInit => CompatInv
<1>. SUFFICES ASSUME CompatInit PROVE CompatInv
  OBVIOUS
<1>1. CompatTyped
  BY CompatAssumption DEF CompatInit, CompatTyped, WCols, Cols, Absent, NoPoints, NoRequest, WJobs
<1>2. Fresh(Absent) = {} /\ Absent.count = 0
  BY DEF Fresh, Absent, NoPoints
<1>3. Holding(Absent, NoPoints, 0)
  <2>1. \A i \in WIds : Absent.points[i] = 0 /\ Absent.found[i] = 0 /\ NoPoints[i] = 0
    BY DEF Absent, NoPoints
  <2>. QED  BY <1>2, <2>1, FS_EmptySet DEF Holding
<1>4. AllHolding
  BY <1>3 DEF CompatInit, AllHolding
<1>5. CallsBounded /\ ClassesStay
  BY DEF CompatInit, CallsBounded, ClassesStay, Registering, NoRequest
<1>. QED  BY <1>1, <1>4, <1>5 DEF CompatInv

\* What is typed, and holds after the step, for each collection and request.
LEMMA CompatAgain ==
    ASSUME wcalls' \in 0..WMaxCalls, wcols' \in [WNames -> WCols], wacked' \in [WNames -> [WIds -> Nat]],
           wreg' \subseteq WNames, wjob' \in [WTasks -> WJobs],
           \A n \in WNames : Holding(wcols'[n], wacked'[n], wcalls'),
           \A t \in WTasks : wjob'[t].at = "batch" => wjob'[t].call <= wcalls', ClassesStay'
    PROVE  CompatInv'
<1>1. CompatTyped'
  BY DEF CompatTyped
<1>2. AllHolding'
  BY DEF AllHolding, Holding, Fresh
<1>3. CallsBounded'
  BY DEF CallsBounded
<1>. QED  BY <1>1, <1>2, <1>3 DEF CompatInv

\* A later call, or fewer acknowledgements.
LEMMA HoldingLater ==
    ASSUME NEW c \in WCols, NEW a \in [WIds -> Nat], NEW k \in Nat, NEW l \in Nat, k <= l, Holding(c, a, k)
    PROVE  Holding(c, a, l) /\ Holding(c, NoPoints, l)
<1>1. \A i \in WIds : c.points[i] \in Nat /\ c.found[i] \in Nat /\ NoPoints[i] = 0
  BY DEF WCols, Cols, NoPoints
<1>. QED  BY <1>1 DEF Holding

\* What one requests find of a collection: as it is, and of what the steps before did.
LEMMA HoldingNow ==
    ASSUME CompatInv, NEW n \in WNames
    PROVE  /\ wcols[n] \in WCols /\ wacked[n] \in [WIds -> Nat] /\ wcalls \in Nat
           /\ Holding(wcols[n], wacked[n], wcalls)
           /\ wcalls' \in Nat /\ wcalls <= wcalls' => Holding(wcols[n], wacked[n], wcalls')
<1>1. wcols[n] \in WCols /\ wacked[n] \in [WIds -> Nat] /\ wcalls \in Nat /\ Holding(wcols[n], wacked[n], wcalls)
  BY DEF CompatInv, CompatTyped, AllHolding
<1>2. ASSUME wcalls' \in Nat, wcalls <= wcalls' PROVE Holding(wcols[n], wacked[n], wcalls')
  BY <1>1, <1>2, HoldingLater
<1>. QED  BY <1>1, <1>2

\* A call that puts a batch: what is written is as late as what is acknowledged.
LEMMA BatchPut ==
    ASSUME CompatInv, NEW n \in WNames, wcols[n].there, NEW batch, Len(batch) \in Nat, DOMAIN batch = 1..Len(batch),
           NEW ids, \A k \in DOMAIN batch : ids[k] \in WIds, NEW call \in Nat, NEW answer,
           wcalls' \in Nat, wcalls <= wcalls', call <= wcalls', Len(batch) = 1 \/ wcalls <= call,
           PutBatch(n, batch, ids, call, answer)
    PROVE  /\ wcols' \in [WNames -> WCols] /\ wacked' \in [WNames -> [WIds -> Nat]]
           /\ \A m \in WNames : wcols'[m].there = wcols[m].there /\ Holding(wcols'[m], wacked'[m], wcalls')
<1>. DEFINE sets == [k \in DOMAIN batch |-> {ids[k]}]
            fits == [k \in DOMAIN batch |-> batch[k].fits]
<1>1. PICK m \in 0..Len(batch) :
        /\ StopsAt(wcols[n].tombs, sets, fits, m, answer)
        /\ wcols' = [wcols EXCEPT ![n] =
             Upserted(@, [i \in WIds |-> IF \E k \in 1..m : ids[k] = i THEN call ELSE wcols[n].points[i]],
                      sets, m, answer)]
        /\ wacked' = IF answer # "ok" THEN wacked
                     ELSE [wacked EXCEPT ![n] = [i \in WIds |-> IF \E k \in 1..m : ids[k] = i THEN call
                                                               ELSE wacked[n][i]]]
  BY DEF PutBatch
<1>2. m \in Nat /\ Len(sets) = Len(batch) /\ \A k \in 1..m : k \in DOMAIN batch /\ sets[k] = {ids[k]}
  <2>1. DOMAIN sets = 1..Len(batch)
    OBVIOUS
  <2>2. Len(sets) = Len(batch)
    BY <2>1
  <2>. QED  BY <2>2
<1>3. answer # "ok" /\ Len(batch) = 1 => m = 0
  <2>1. answer = "ok" \/ m < Len(sets)
    BY <1>1, Zenon DEF StopsAt
  <2>. QED  BY <1>2, <2>1
<1>. HIDE DEF sets, fits
<1>4. PICK c, a : c = wcols[n] /\ a = wacked[n]
  OBVIOUS
<1>5. /\ c \in WCols /\ a \in [WIds -> Nat] /\ wcalls \in Nat /\ Holding(c, a, wcalls) /\ c.there
      /\ c.points \in [WIds -> Nat] /\ c.found \in [WIds -> Nat] /\ c.count \in Nat
  <2>1. c \in WCols /\ a \in [WIds -> Nat] /\ wcalls \in Nat /\ Holding(c, a, wcalls)
    BY <1>4, HoldingNow
  <2>. QED  BY <1>4, <2>1 DEF WCols, Cols
<1>6. PICK points : points = [i \in WIds |-> IF \E k \in 1..m : ids[k] = i THEN call ELSE c.points[i]]
  OBVIOUS
<1>7. points \in [WIds -> Nat]
  BY <1>5, <1>6
<1>8. PICK d : d = Upserted(c, points, sets, m, answer) /\ wcols' = [wcols EXCEPT ![n] = d]
  BY <1>1, <1>4, <1>6
<1>9. /\ d \in WCols /\ d.there = c.there /\ d.points = points /\ d.found = c.found
      /\ Cardinality(Puts(sets, m)) \in Nat /\ d.count = c.count + Cardinality(Puts(sets, m))
  <2>1. PICK P : P = [WIds -> Nat]
    OBVIOUS
  <2>2. c \in Cols(P, WIds) /\ points \in P
    BY <1>5, <1>7, <2>1 DEF WCols
  <2>3. /\ d \in Cols(P, WIds) /\ d.there = c.there /\ d.points = points /\ d.found = c.found
        /\ Cardinality(Puts(sets, m)) \in Nat /\ d.count = c.count + Cardinality(Puts(sets, m))
    BY <1>2, <1>8, <2>2, UpsertedIs
  <2>. QED  BY <2>1, <2>3 DEF WCols
<1>10. PICK b : b = IF answer # "ok" THEN a
                    ELSE [i \in WIds |-> IF \E k \in 1..m : ids[k] = i THEN call ELSE a[i]]
  OBVIOUS
<1>11. wacked' = [wacked EXCEPT ![n] = b] /\ b \in [WIds -> Nat]
  <2>1. wacked \in [WNames -> [WIds -> Nat]]
    BY DEF CompatInv, CompatTyped
  <2>2. CASE answer # "ok"
    BY <1>1, <1>4, <1>5, <1>10, <2>1, <2>2
  <2>3. CASE answer = "ok"
    BY <1>1, <1>4, <1>5, <1>10, <2>1, <2>3
  <2>. QED  BY <2>2, <2>3
<1>12. Cardinality(Fresh(d)) <= d.count
  <2>1. PICK old \in SUBSET WIds : old = Fresh(c)
    BY DEF Fresh
  <2>2. \A k \in 1..m : sets[k] # {} => \E i \in WIds : sets[k] = {i}
    BY <1>2
  <2>3. /\ PutIds(sets, m) \in SUBSET WIds
        /\ Cardinality(old \cup PutIds(sets, m)) <= Cardinality(old) + Cardinality(Puts(sets, m))
    BY ONLY <1>2, <2>1, <2>2, WIdsFinite, UpsertCounts
  <2>4. Fresh(d) \subseteq old \cup PutIds(sets, m)
    <3>. SUFFICES ASSUME NEW i \in Fresh(d), i \notin PutIds(sets, m) PROVE i \in old
      OBVIOUS
    <3>1. i \in WIds /\ d.points[i] # 0 /\ d.points[i] # d.found[i]
      BY DEF Fresh
    <3>2. \A k \in 1..m : ids[k] # i
      BY <1>2 DEF PutIds
    <3>3. d.points[i] = c.points[i]
      BY <1>6, <1>9, <3>1, <3>2
    <3>. QED  BY <1>9, <2>1, <3>1, <3>3 DEF Fresh
  <2>5. old \cup PutIds(sets, m) \in SUBSET WIds
    BY <2>3
  <2>6. /\ Cardinality(Fresh(d)) <= Cardinality(old \cup PutIds(sets, m)) /\ Cardinality(Fresh(d)) \in Nat
        /\ Cardinality(old \cup PutIds(sets, m)) \in Nat /\ Cardinality(old) \in Nat
    <3>1. Fresh(d) \in SUBSET WIds /\ IsFiniteSet(old \cup PutIds(sets, m))
      BY <2>5, WIdsFinite DEF Fresh
    <3>. QED  BY <2>1, <2>4, <2>5, <3>1, WIdsFinite, FS_Subset
  <2>7. Cardinality(old) <= c.count
    BY <1>5, <2>1 DEF Holding
  <2>. QED  BY <1>5, <1>9, <2>3, <2>6, <2>7
<1>13. \A i \in WIds : /\ d.points[i] <= wcalls' /\ d.found[i] <= wcalls'
                       /\ b[i] <= d.points[i] /\ (b[i] # 0 => d.there)
  <2>. SUFFICES ASSUME NEW i \in WIds
                PROVE  d.points[i] <= wcalls' /\ d.found[i] <= wcalls' /\ b[i] <= d.points[i]
    BY <1>5, <1>9
  <2>1. /\ c.points[i] \in Nat /\ c.found[i] \in Nat /\ a[i] \in Nat
        /\ c.points[i] <= wcalls /\ c.found[i] <= wcalls /\ a[i] <= c.points[i]
    BY <1>5 DEF Holding
  <2>2. CASE \E k \in 1..m : ids[k] = i
    <3>1. d.points[i] = call
      BY <1>6, <1>9, <2>2
    <3>2. b[i] <= call
      <4>1. CASE answer = "ok"
        BY <1>10, <2>2, <4>1
      <4>2. CASE answer # "ok"
        <5>1. wcalls <= call
          BY <1>2, <1>3, <2>2, <4>2
        <5>. QED  BY <1>5, <1>10, <2>1, <4>2, <5>1
      <4>. QED  BY <4>1, <4>2
    <3>. QED  BY <1>5, <1>9, <2>1, <3>1, <3>2
  <2>3. CASE ~\E k \in 1..m : ids[k] = i
    <3>1. d.points[i] = c.points[i] /\ b[i] = a[i]
      BY <1>6, <1>9, <1>10, <2>3
    <3>. QED  BY <1>5, <1>9, <2>1, <3>1
  <2>. QED  BY <2>2, <2>3
<1>14. Holding(d, b, wcalls')
  BY <1>12, <1>13 DEF Holding
<1>15. /\ wcols' \in [WNames -> WCols] /\ wacked' \in [WNames -> [WIds -> Nat]]
       /\ wcols'[n] = d /\ wacked'[n] = b
       /\ \A x \in WNames \ {n} : wcols'[x] = wcols[x] /\ wacked'[x] = wacked[x]
  BY <1>8, <1>9, <1>11 DEF CompatInv, CompatTyped
<1>16. ASSUME NEW x \in WNames PROVE wcols'[x].there = wcols[x].there /\ Holding(wcols'[x], wacked'[x], wcalls')
  <2>1. CASE x = n
    BY <1>4, <1>9, <1>14, <1>15, <2>1
  <2>2. CASE x # n
    BY <1>15, <2>2, HoldingNow
  <2>. QED  BY <2>1, <2>2
<1>. QED  BY <1>15, <1>16

\* A collection without a point, or with a log whose append failed.
LEMMA ErasedHolds ==
    ASSUME NEW c \in WCols, NEW a \in [WIds -> Nat], NEW k \in Nat, Holding(c, a, k), NEW i \in WIds
    PROVE  /\ WithoutPoint(c, i) \in WCols /\ WithoutPoint(c, i).there = c.there
           /\ Holding(WithoutPoint(c, i), [a EXCEPT ![i] = 0], k)
           /\ NotErased(c) \in WCols /\ NotErased(c).there = c.there /\ Holding(NotErased(c), a, k)
<1>1. PICK P : P = [WIds -> Nat]
  OBVIOUS
<1>2. c.points \in [WIds -> Nat] /\ c.found \in [WIds -> Nat] /\ c.count \in Nat
  BY DEF WCols, Cols
<1>3. PICK left \in P : left = [c.points EXCEPT ![i] = 0]
  BY <1>1, <1>2
<1>4. c \in Cols(P, WIds) /\ c.points \in P
  BY <1>1, <1>2 DEF WCols
<1>5. PICK d, e : d = WithoutPoint(c, i) /\ e = NotErased(c)
  OBVIOUS
<1>6. d \in WCols /\ d.there = c.there /\ d.points = left /\ d.found = c.found /\ d.count = c.count
  <2>1. {i} \in SUBSET WIds /\ d = Erased(c, left, {i}, "ok")
    BY <1>3, <1>5 DEF WithoutPoint
  <2>2. d \in Cols(P, WIds) /\ d.there = c.there /\ d.points = left /\ d.found = c.found /\ d.count = c.count
    BY <1>4, <2>1, ErasedIs
  <2>. QED  BY <1>1, <2>2 DEF WCols
<1>7. e \in WCols /\ e.there = c.there /\ e.points = c.points /\ e.found = c.found /\ e.count = c.count
  <2>1. {} \in SUBSET WIds /\ e = Erased(c, c.points, {}, "append")
    BY <1>5 DEF NotErased
  <2>2. e \in Cols(P, WIds) /\ e.there = c.there /\ e.points = c.points /\ e.found = c.found /\ e.count = c.count
    BY <1>4, <2>1, ErasedIs
  <2>. QED  BY <1>1, <2>2 DEF WCols
<1>8. Cardinality(Fresh(d)) <= d.count /\ Cardinality(Fresh(e)) <= e.count
  <2>1. Fresh(d) \subseteq Fresh(c) /\ Fresh(e) = Fresh(c)
    BY <1>2, <1>3, <1>6, <1>7 DEF Fresh
  <2>2. Fresh(d) \in SUBSET WIds /\ Fresh(c) \in SUBSET WIds
    BY DEF Fresh
  <2>3. Cardinality(Fresh(d)) <= Cardinality(Fresh(c)) /\ Cardinality(Fresh(d)) \in Nat /\ Cardinality(Fresh(c)) \in Nat
    BY <2>1, <2>2, WIdsFinite, FS_Subset
  <2>. QED  BY <1>2, <1>6, <1>7, <2>1, <2>3 DEF Holding
<1>9. Holding(e, a, k)
  BY <1>7, <1>8 DEF Holding
<1>10. Holding(d, [a EXCEPT ![i] = 0], k)
  <2>1. ASSUME NEW j \in WIds
        PROVE  /\ d.points[j] <= k /\ d.found[j] <= k
               /\ [a EXCEPT ![i] = 0][j] <= d.points[j] /\ ([a EXCEPT ![i] = 0][j] # 0 => d.there)
    BY <1>2, <1>3, <1>6 DEF Holding
  <2>. QED  BY <1>8, <2>1 DEF Holding
<1>. QED  BY <1>5, <1>6, <1>7, <1>9, <1>10

\* Collections that are created, opened again or dropped.
LEMMA OpenedHolds ==
    ASSUME NEW c \in WCols, NEW a \in [WIds -> Nat], wcalls \in Nat, Holding(c, a, wcalls)
    PROVE  /\ ~c.there => \A d \in Created(c, Survivors) : d \in WCols /\ Holding(d, a, wcalls)
           /\ \A d \in Reloaded(c, Survivors) :
                d \in WCols /\ Holding(d, IF d.there /\ c.log = "sound" THEN a ELSE NoPoints, wcalls)
           /\ \A d \in Dropped(c, Absent) : d \in WCols /\ ~d.there /\ Holding(d, NoPoints, wcalls)
<1>. DEFINE Logs == {"none", "sound", "spoilt", "damaged"}
<1>1. /\ c = [there |-> c.there, log |-> c.log, points |-> c.points, tombs |-> c.tombs,
              count |-> c.count, found |-> c.found]
      /\ c.there \in BOOLEAN /\ c.log \in Logs /\ c.count \in Nat
      /\ c.points \in [WIds -> Nat] /\ c.tombs \in SUBSET WIds /\ c.found \in [WIds -> Nat]
  BY DEF WCols, Cols
<1>2. NoPoints \in [WIds -> Nat] /\ \A i \in WIds : NoPoints[i] = 0
  BY DEF NoPoints
<1>3. ASSUME NEW d \in WCols, d.points = c.points, d.found = c.found, d.count = c.count
      PROVE  /\ Holding(d, NoPoints, wcalls)
             /\ ~c.there \/ d.there => Holding(d, a, wcalls)
  <2>1. Fresh(d) = Fresh(c)
    BY <1>3 DEF Fresh
  <2>2. \A i \in WIds : 0 <= c.points[i]
    BY <1>1
  <2>. QED  BY <1>2, <1>3, <2>1, <2>2 DEF Holding
<1>4. ASSUME NEW b \in BOOLEAN, NEW l \in Logs
      PROVE  LET d == [c EXCEPT !.there = b, !.log = l] IN
             /\ d \in WCols /\ d.there = b /\ d.points = c.points /\ d.found = c.found /\ d.count = c.count
  BY DEF WCols, Cols
<1>5. ASSUME NEW d \in Opened(c, Survivors)
      PROVE  /\ d \in WCols /\ d.there /\ Holding(d, NoPoints, wcalls)
             /\ c.log = "sound" \/ (\A i \in WIds : a[i] = 0) => Holding(d, a, wcalls)
  <2>1. PICK s \in Survivors \cup {c} :
          d = [there |-> TRUE, log |-> IF c.log = "none" THEN "sound" ELSE c.log, points |-> s.points,
               tombs |-> s.tombs, count |-> 0, found |-> s.points]
    BY DEF Opened
  <2>2. c.log = "sound" => d.points = c.points
    BY DEF Opened
  <2>3. s.points \in [WIds -> Nat] /\ s.tombs \in SUBSET WIds /\ \A i \in WIds : s.points[i] <= wcalls
    <3>1. CASE s \in Survivors
      BY <3>1, CompatAssumption DEF Survivors
    <3>2. CASE s = c
      BY <1>1, <3>2 DEF Holding
    <3>. QED  BY <3>1, <3>2
  <2>4. d \in WCols /\ d.there
    BY <1>1, <2>1, <2>3 DEF WCols, Cols
  <2>5. d.points = s.points /\ d.found = s.points /\ d.count = 0
    BY <2>1
  <2>6. Fresh(d) = {}
    BY <2>5 DEF Fresh
  <2>7. Cardinality(Fresh(d)) <= d.count
    BY <2>5, <2>6, FS_EmptySet
  <2>8. Holding(d, NoPoints, wcalls)
    BY <1>2, <2>3, <2>4, <2>5, <2>7 DEF Holding
  <2>9. c.log = "sound" \/ (\A i \in WIds : a[i] = 0) => Holding(d, a, wcalls)
    <3>1. ASSUME c.log = "sound" \/ \A i \in WIds : a[i] = 0, NEW i \in WIds PROVE a[i] <= d.points[i]
      <4>1. CASE c.log = "sound"
        BY <2>2, <4>1 DEF Holding
      <4>2. CASE \A j \in WIds : a[j] = 0
        BY <2>3, <2>5, <4>2
      <4>. QED  BY <3>1, <4>1, <4>2
    <3>. QED  BY <2>3, <2>4, <2>5, <2>7, <3>1 DEF Holding
  <2>. QED  BY <2>4, <2>8, <2>9
<1>6. ~c.there => \A i \in WIds : a[i] = 0
  BY DEF Holding
<1>7. ASSUME ~c.there, NEW d \in Created(c, Survivors) PROVE d \in WCols /\ Holding(d, a, wcalls)
  <2>1. CASE d \in Opened(c, Survivors)
    BY <1>5, <1>6, <1>7, <2>1
  <2>2. CASE d = c
    BY <2>2
  <2>3. CASE d = [c EXCEPT !.log = IF @ = "none" THEN "sound" ELSE @]
    <3>1. PICK l \in Logs : l = IF c.log = "none" THEN "sound" ELSE c.log
      BY <1>1
    <3>2. [c EXCEPT !.log = l] = [c EXCEPT !.there = c.there, !.log = l]
      BY <1>1
    <3>3. d \in WCols /\ d.points = c.points /\ d.found = c.found /\ d.count = c.count
      BY <1>1, <1>4, <2>3, <3>1, <3>2
    <3>. QED  BY <1>3, <1>7, <3>3
  <2>. QED  BY <1>7, <2>1, <2>2, <2>3 DEF Created
<1>8. ASSUME NEW d \in Reloaded(c, Survivors)
      PROVE  d \in WCols /\ Holding(d, IF d.there /\ c.log = "sound" THEN a ELSE NoPoints, wcalls)
  <2>1. CASE d = [c EXCEPT !.there = FALSE]
    <3>1. [c EXCEPT !.there = FALSE] = [c EXCEPT !.there = FALSE, !.log = c.log]
      BY <1>1
    <3>2. d \in WCols /\ ~d.there /\ d.points = c.points /\ d.found = c.found /\ d.count = c.count
      BY <1>1, <1>4, <2>1, <3>1
    <3>. QED  BY <1>3, <3>2
  <2>2. CASE d \in Opened(c, Survivors)
    BY <1>5, <2>2
  <2>. QED  BY <2>1, <2>2 DEF Reloaded
<1>9. ASSUME NEW d \in Dropped(c, Absent) PROVE d \in WCols /\ ~d.there /\ Holding(d, NoPoints, wcalls)
  <2>1. CASE d = Absent
    <3>1. Absent \in WCols /\ Fresh(Absent) = {} /\ Absent.count = 0 /\ ~Absent.there
      BY DEF WCols, Cols, Absent, NoPoints, Fresh
    <3>2. \A i \in WIds : Absent.points[i] = 0 /\ Absent.found[i] = 0
      BY DEF Absent, NoPoints
    <3>. QED  BY <1>2, <2>1, <3>1, <3>2, FS_EmptySet DEF Holding
  <2>2. CASE d = [c EXCEPT !.there = FALSE, !.log = "damaged"]
    <3>1. d \in WCols /\ ~d.there /\ d.points = c.points /\ d.found = c.found /\ d.count = c.count
      BY <1>4, <2>2
    <3>. QED  BY <1>3, <3>1
  <2>. QED  BY <2>1, <2>2 DEF Dropped
<1>. QED  BY <1>7, <1>8, <1>9

\* The steps on classes and requests leave a collection as it is, or it is created
\* or dropped.
LEMMA ClassesKeep ==
    ASSUME CompatInv, NEW c \in WNames, NEW t,
           \/ t \in WTasks /\ (create_schema(t, c) \/ RegisterClass(t) \/ delete_class(t, c) \/ DropClass(t))
           \/ update_class(c) \/ compat_create_collection(c) \/ drop_collection(c)
    PROVE  CompatInv'
<1>1. CompatTyped /\ AllHolding /\ CallsBounded /\ ClassesStay
  BY DEF CompatInv
<1>2. wcalls' \in 0..WMaxCalls /\ wcalls' \in Nat /\ wcalls <= wcalls' /\ wcalls \in Nat
  BY <1>1, CompatAssumption DEF CompatTyped, Called, create_schema, RegisterClass, update_class, delete_class,
      DropClass, compat_create_collection, drop_collection
<1>3. PICK d \in WNames :
        \/ wcols' = wcols /\ wacked' = wacked
        \/ ~wcols[d].there /\ CreateCollection(d) /\ wacked' = wacked
        \/ DropCollection(d)
  <2>1. CASE t \in WTasks /\ DropClass(t)
    <3>1. wjob[t].class \in WNames
      BY <1>1, <2>1 DEF DropClass, CompatTyped, WJobs
    <3>. QED  BY <2>1, <3>1 DEF DropClass
  <2>2. CASE create_schema(t, c)
    BY <2>2 DEF create_schema
  <2>3. CASE RegisterClass(t) \/ update_class(c) \/ delete_class(t, c)
    BY <2>3 DEF RegisterClass, update_class, delete_class
  <2>4. CASE compat_create_collection(c)
    BY <2>4 DEF compat_create_collection
  <2>5. CASE drop_collection(c)
    BY <2>5 DEF drop_collection
  <2>. QED  BY <2>1, <2>2, <2>3, <2>4, <2>5
<1>4. PICK e, a : /\ e \in WCols /\ a \in [WIds -> Nat] /\ Holding(e, a, wcalls)
                  /\ wcols' = [wcols EXCEPT ![d] = e] /\ wacked' = [wacked EXCEPT ![d] = a]
  <2>1. wcols[d] \in WCols /\ wacked[d] \in [WIds -> Nat] /\ Holding(wcols[d], wacked[d], wcalls)
    BY HoldingNow
  <2>2. wcols = [wcols EXCEPT ![d] = wcols[d]] /\ wacked = [wacked EXCEPT ![d] = wacked[d]]
    BY <1>1 DEF CompatTyped
  <2>3. NoPoints \in [WIds -> Nat]
    BY DEF NoPoints
  <2>4. CASE wcols' = wcols /\ wacked' = wacked
    BY <2>1, <2>2, <2>4
  <2>5. CASE ~wcols[d].there /\ CreateCollection(d) /\ wacked' = wacked
    <3>1. PICK e \in Created(wcols[d], Survivors) : wcols' = [wcols EXCEPT ![d] = e]
      BY <2>5 DEF CreateCollection
    <3>2. e \in WCols /\ Holding(e, wacked[d], wcalls)
      BY <1>2, <2>1, <2>5, <3>1, OpenedHolds
    <3>. QED  BY <2>1, <2>2, <2>5, <3>1, <3>2
  <2>6. CASE DropCollection(d)
    <3>1. PICK e \in Dropped(wcols[d], Absent) : wcols' = [wcols EXCEPT ![d] = e]
      BY <2>6 DEF DropCollection
    <3>2. e \in WCols /\ Holding(e, NoPoints, wcalls)
      BY <1>2, <2>1, <3>1, OpenedHolds
    <3>. QED  BY <2>3, <2>6, <3>1, <3>2 DEF DropCollection
  <2>. QED  BY <1>3, <2>4, <2>5, <2>6
<1>5. /\ wcols' \in [WNames -> WCols] /\ wacked' \in [WNames -> [WIds -> Nat]]
      /\ wcols'[d] = e /\ wacked'[d] = a
      /\ \A n \in WNames \ {d} : wcols'[n] = wcols[n] /\ wacked'[n] = wacked[n]
  BY <1>1, <1>4 DEF CompatTyped
<1>6. \A n \in WNames : Holding(wcols'[n], wacked'[n], wcalls')
  <2>. TAKE n \in WNames
  <2>1. CASE n = d
    BY <1>2, <1>4, <1>5, <2>1, HoldingLater
  <2>2. CASE n # d
    BY <1>2, <1>5, <2>2, HoldingNow
  <2>. QED  BY <2>1, <2>2
<1>7. wjob' \in [WTasks -> WJobs] /\ wreg' \subseteq WNames
      /\ \A u \in WTasks : wjob'[u] = wjob[u] \/ wjob'[u].at # "batch"
  <2>1. \A x \in WNames : [at |-> "register", class |-> x] \in WJobs /\ [at |-> "drop", class |-> x] \in WJobs
    BY DEF WJobs
  <2>2. NoRequest \in WJobs /\ NoRequest.at # "batch"
    BY DEF WJobs, NoRequest
  <2>3. t \in WTasks /\ wjob[t].at = "register" => wjob[t].class \in WNames
    BY <1>1 DEF CompatTyped, WJobs
  <2>4. CASE t \in WTasks /\ create_schema(t, c)
    <3>1. wjob' = wjob \/ wjob' = [wjob EXCEPT ![t] = [at |-> "register", class |-> c]]
      BY <2>4 DEF create_schema
    <3>. QED  BY <1>1, <2>1, <2>4, <3>1 DEF CompatTyped, create_schema
  <2>5. CASE t \in WTasks /\ RegisterClass(t)
    BY <1>1, <2>2, <2>3, <2>5 DEF CompatTyped, RegisterClass
  <2>6. CASE t \in WTasks /\ delete_class(t, c)
    BY <1>1, <2>1, <2>6 DEF CompatTyped, delete_class
  <2>7. CASE t \in WTasks /\ DropClass(t)
    BY <1>1, <2>2, <2>7 DEF CompatTyped, DropClass
  <2>8. CASE update_class(c) \/ compat_create_collection(c) \/ drop_collection(c)
    BY <1>1, <2>8 DEF CompatTyped, update_class, compat_create_collection, drop_collection
  <2>. QED  BY <2>4, <2>5, <2>6, <2>7, <2>8
<1>8. \A u \in WTasks : wjob'[u].at = "batch" => wjob'[u].call <= wcalls'
  <2>1. \A u \in WTasks : wjob[u].at = "batch" => wjob[u].call \in Nat /\ wjob[u].call <= wcalls
    BY <1>1 DEF CompatTyped, CallsBounded, WJobs
  <2>. QED  BY <1>2, <1>7, <2>1
<1>10. ClassesStay'
  <2>1. CASE t \in WTasks /\ create_schema(t, c)
    <3>1. PICK x \in Created(wcols[c], Survivors) : wcols' = [wcols EXCEPT ![c] = x] /\ wjob' = IF wcols'[c].there THEN [wjob EXCEPT ![t] = [at |-> "register", class |-> c]] ELSE wjob
      BY <2>1 DEF create_schema, CreateCollection
    <3>2. \A n \in WNames : wcols[n].there => wcols'[n].there
      BY <1>1, <2>1, <3>1 DEF CompatTyped, create_schema
    <3>3. \A n \in WNames : Registering(n)' => Registering(n) \/ (n = c /\ wcols'[c].there)
      BY <1>1, <2>1, <3>1 DEF CompatTyped, Registering
    <3>. QED  BY <1>1, <2>1, <3>2, <3>3 DEF ClassesStay, create_schema
  <2>2. CASE t \in WTasks /\ RegisterClass(t)
    BY <1>1, <2>2 DEF ClassesStay, CompatTyped, RegisterClass, Registering, NoRequest
  <2>3. CASE update_class(c)
    BY <1>1, <2>3 DEF ClassesStay, CompatTyped, update_class, Registering
  <2>4. CASE t \in WTasks /\ delete_class(t, c)
    BY <1>1, <2>4 DEF ClassesStay, CompatTyped, delete_class, Registering
  <2>5. CASE t \in WTasks /\ DropClass(t)
    BY <1>1, <2>5 DEF ClassesStay, CompatTyped, DropClass, DropCollection, Registering, NoRequest
  <2>6. CASE compat_create_collection(c)
    <3>1. \A n \in WNames : wcols[n].there => wcols'[n].there
      BY <1>1, <2>6 DEF CompatTyped, compat_create_collection, CreateCollection
    <3>. QED  BY <1>1, <2>6, <3>1 DEF ClassesStay, compat_create_collection, Registering
  <2>7. CASE drop_collection(c)
    BY <1>1, <2>7 DEF ClassesStay, CompatTyped, drop_collection, DropCollection, Registering
  <2>. QED  BY <2>1, <2>2, <2>3, <2>4, <2>5, <2>6, <2>7
<1>. QED  BY <1>2, <1>5, <1>6, <1>7, <1>8, <1>10, CompatAgain

\* A step that leaves which collections are there, and the requests but for a batch.
LEMMA DataKeeps ==
    ASSUME CompatInv, wcalls' \in 0..WMaxCalls, wcalls <= wcalls',
           wcols' \in [WNames -> WCols], wacked' \in [WNames -> [WIds -> Nat]],
           \A n \in WNames : wcols'[n].there = wcols[n].there /\ Holding(wcols'[n], wacked'[n], wcalls'),
           UNCHANGED <<wreg, wloose>>, wjob' \in [WTasks -> WJobs],
           \A t \in WTasks : \/ wjob'[t] = wjob[t]
                             \/ /\ wjob'[t].at # "register"
                                /\ wjob'[t].at = "batch" => wjob'[t].call <= wcalls'
    PROVE  CompatInv'
<1>1. CompatTyped /\ CallsBounded /\ ClassesStay
  BY DEF CompatInv
<1>2. \A t \in WTasks : wjob'[t].at = "batch" => wjob'[t].call <= wcalls'
  <2>1. \A t \in WTasks : wjob[t].at = "batch" => wjob[t].call \in Nat /\ wjob[t].call <= wcalls
    BY <1>1 DEF CompatTyped, CallsBounded, WJobs
  <2>2. wcalls \in Nat /\ wcalls' \in Nat
    BY <1>1 DEF CompatTyped
  <2>. QED  BY <2>1, <2>2
<1>3. ClassesStay'
  <2>1. \A c : Registering(c)' => Registering(c)
    BY DEF Registering
  <2>. QED  BY <1>1, <2>1 DEF ClassesStay
<1>4. wreg' \subseteq WNames
  BY <1>1 DEF CompatTyped
<1>. QED  BY <1>2, <1>3, <1>4, CompatAgain

\* The writes and deletions of every interface.
LEMMA WritesKeep ==
    ASSUME CompatInv, NEW n \in WNames, NEW a \in Answers,
           \/ \E o \in WObjects : create_object(n, o, a) \/ update_object(n, o, a)
           \/ \E b \in Pairs : insert_entities_v2(n, b, a)
           \/ \E b \in NumberPairs : rest_upsert_points(n, b, a) \/ grpc_upsert(n, b, a)
    PROVE  CompatInv'
<1>1. PICK batch, ids :
        /\ Len(batch) \in Nat /\ DOMAIN batch = 1..Len(batch) /\ \A k \in DOMAIN batch : ids[k] \in WIds
        /\ Called /\ wcols[n].there /\ PutBatch(n, batch, ids, wcalls', a) /\ UNCHANGED <<wreg, wjob, wloose>>
  <2>1. ASSUME NEW o \in WObjects, create_object(n, o, a) \/ update_object(n, o, a)
        PROVE  /\ Len(<<o>>) \in Nat /\ DOMAIN <<o>> = 1..Len(<<o>>)
               /\ \A k \in DOMAIN <<o>> : <<numeric_id(o.id)>>[k] \in WIds
               /\ Called /\ wcols[n].there /\ PutBatch(n, <<o>>, <<numeric_id(o.id)>>, wcalls', a)
               /\ UNCHANGED <<wreg, wjob, wloose>>
    <3>1. numeric_id(o.id) \in WIds
      BY CompatAssumption DEF numeric_id
    <3>. QED  BY <2>1, <3>1 DEF create_object, update_object
  <2>2. ASSUME NEW b \in Pairs, insert_entities_v2(n, b, a)
        PROVE  /\ Len(b) \in Nat /\ DOMAIN b = 1..Len(b)
               /\ \A k \in DOMAIN b : EntityIds(b)[k] \in WIds
               /\ Called /\ wcols[n].there /\ PutBatch(n, b, EntityIds(b), wcalls', a)
               /\ UNCHANGED <<wreg, wjob, wloose>>
    <3>1. PICK i, f : b = <<[id |-> i, fits |-> TRUE], [id |-> NoId, fits |-> f]>>
      BY DEF Pairs
    <3>2. Len(b) = 2 /\ DOMAIN b = 1..2
      BY <3>1
    <3>3. \A k \in DOMAIN b : EntityIds(b)[k] \in WIds
      BY <3>2, CompatAssumption DEF EntityIds
    <3>. QED  BY <2>2, <3>2, <3>3 DEF insert_entities_v2
  <2>3. ASSUME NEW b \in NumberPairs, rest_upsert_points(n, b, a) \/ grpc_upsert(n, b, a)
        PROVE  /\ Len(b) \in Nat /\ DOMAIN b = 1..Len(b)
               /\ \A k \in DOMAIN b : [j \in DOMAIN b |-> b[j].id][k] \in WIds
               /\ Called /\ wcols[n].there /\ PutBatch(n, b, [j \in DOMAIN b |-> b[j].id], wcalls', a)
               /\ UNCHANGED <<wreg, wjob, wloose>>
    <3>1. PICK i \in WIds, f \in BOOLEAN : b = <<[id |-> i, fits |-> TRUE], [id |-> WHash, fits |-> f]>>
      BY DEF NumberPairs
    <3>2. Len(b) = 2 /\ DOMAIN b = 1..2 /\ b[1].id = i /\ b[2].id = WHash
      BY <3>1
    <3>3. \A k \in DOMAIN b : b[k].id \in WIds
      BY <3>2, CompatAssumption
    <3>. QED  BY <2>3, <3>2, <3>3 DEF rest_upsert_points, grpc_upsert
  <2>. QED  BY <2>1, <2>2, <2>3
<1>2. wcalls' \in 0..WMaxCalls /\ wcalls' \in Nat /\ wcalls <= wcalls'
  BY <1>1, CompatAssumption DEF Called, CompatInv, CompatTyped
<1>3. /\ wcols' \in [WNames -> WCols] /\ wacked' \in [WNames -> [WIds -> Nat]]
      /\ \A m \in WNames : wcols'[m].there = wcols[m].there /\ Holding(wcols'[m], wacked'[m], wcalls')
  <2>1. PICK call \in Nat : call = wcalls' /\ PutBatch(n, batch, ids, call, a)
    BY <1>1, <1>2
  <2>2. call <= wcalls' /\ wcalls <= call
    BY <1>2, <2>1
  <2>. QED  BY <1>1, <1>2, <2>1, <2>2, BatchPut
<1>4. wjob' \in [WTasks -> WJobs] /\ wjob' = wjob
  BY <1>1 DEF CompatInv, CompatTyped
<1>. QED  BY <1>1, <1>2, <1>3, <1>4, DataKeeps

\* Deletions.
LEMMA DeletesKeep ==
    ASSUME CompatInv, NEW i \in WIds,
           delete_object(i) \/ \E n \in WNames : compat_delete_point(n, i) \/ grpc_delete(n, i)
    PROVE  CompatInv'
<1>1. \A m \in WNames : /\ wcols[m] \in WCols /\ wacked[m] \in [WIds -> Nat]
                        /\ Holding(wcols[m], wacked[m], wcalls)
  BY HoldingNow
<1>2. Called /\ UNCHANGED <<wreg, wjob, wloose>>
  BY DEF delete_object, compat_delete_point, grpc_delete
<1>3. wcalls' \in 0..WMaxCalls /\ wcalls' \in Nat /\ wcalls <= wcalls' /\ wcalls \in Nat
  BY <1>2, CompatAssumption DEF Called, CompatInv, CompatTyped
<1>4. wcols \in [WNames -> WCols] /\ wacked \in [WNames -> [WIds -> Nat]]
  BY DEF CompatInv, CompatTyped
<1>5. /\ wcols' \in [WNames -> WCols] /\ wacked' \in [WNames -> [WIds -> Nat]]
      /\ \A m \in WNames :
           \/ wcols'[m] = wcols[m] /\ wacked'[m] = wacked[m]
           \/ wcols'[m] = WithoutPoint(wcols[m], i) /\ wacked'[m] = [wacked[m] EXCEPT ![i] = 0]
           \/ wcols'[m] = NotErased(wcols[m]) /\ wacked'[m] = wacked[m]
  <2>1. \A m \in WNames : /\ WithoutPoint(wcols[m], i) \in WCols /\ NotErased(wcols[m]) \in WCols
                          /\ [wacked[m] EXCEPT ![i] = 0] \in [WIds -> Nat]
    BY <1>1, <1>3, ErasedHolds
  <2>2. ASSUME NEW n \in WNames, compat_delete_point(n, i) \/ grpc_delete(n, i)
        PROVE  /\ wcols' \in [WNames -> WCols] /\ wacked' \in [WNames -> [WIds -> Nat]]
               /\ \A m \in WNames :
                    \/ wcols'[m] = wcols[m] /\ wacked'[m] = wacked[m]
                    \/ wcols'[m] = WithoutPoint(wcols[m], i) /\ wacked'[m] = [wacked[m] EXCEPT ![i] = 0]
                    \/ wcols'[m] = NotErased(wcols[m]) /\ wacked'[m] = wacked[m]
    <3>1. \/ /\ wcols' = [wcols EXCEPT ![n] = WithoutPoint(wcols[n], i)]
             /\ wacked' = [wacked EXCEPT ![n] = [wacked[n] EXCEPT ![i] = 0]]
          \/ wcols' = [wcols EXCEPT ![n] = NotErased(wcols[n])] /\ wacked' = wacked
      BY <2>2 DEF compat_delete_point, grpc_delete
    <3>. QED  BY <1>4, <2>1, <3>1
  <2>3. ASSUME delete_object(i)
        PROVE  /\ wcols' \in [WNames -> WCols] /\ wacked' \in [WNames -> [WIds -> Nat]]
               /\ \A m \in WNames :
                    \/ wcols'[m] = wcols[m] /\ wacked'[m] = wacked[m]
                    \/ wcols'[m] = WithoutPoint(wcols[m], i) /\ wacked'[m] = [wacked[m] EXCEPT ![i] = 0]
                    \/ wcols'[m] = NotErased(wcols[m]) /\ wacked'[m] = wacked[m]
    <3>1. PICK n \in WNames, failed \in SUBSET {m \in WNames : wcols[m].there} :
            /\ wcols' = [m \in WNames |-> IF m \in failed THEN NotErased(wcols[m])
                                         ELSE IF m = n THEN WithoutPoint(wcols[m], i) ELSE wcols[m]]
            /\ wacked' = IF n \in failed THEN wacked ELSE [wacked EXCEPT ![n] = [wacked[n] EXCEPT ![i] = 0]]
      BY <2>3 DEF delete_object
    <3>2. CASE n \in failed
      BY <1>4, <2>1, <3>1, <3>2
    <3>3. CASE n \notin failed
      BY <1>4, <2>1, <3>1, <3>3
    <3>. QED  BY <3>2, <3>3
  <2>. QED  BY <2>2, <2>3
<1>6. ASSUME NEW m \in WNames PROVE wcols'[m].there = wcols[m].there /\ Holding(wcols'[m], wacked'[m], wcalls')
  <2>1. PICK c, a : c = wcols'[m] /\ a = wacked'[m]
    OBVIOUS
  <2>2. c.there = wcols[m].there /\ Holding(c, a, wcalls) /\ c \in WCols /\ a \in [WIds -> Nat]
    <3>1. /\ WithoutPoint(wcols[m], i) \in WCols /\ WithoutPoint(wcols[m], i).there = wcols[m].there
          /\ Holding(WithoutPoint(wcols[m], i), [wacked[m] EXCEPT ![i] = 0], wcalls)
          /\ NotErased(wcols[m]) \in WCols /\ NotErased(wcols[m]).there = wcols[m].there
          /\ Holding(NotErased(wcols[m]), wacked[m], wcalls)
      BY <1>1, <1>3, ErasedHolds
    <3>2. a \in [WIds -> Nat]
      BY <1>5, <2>1
    <3>. QED  BY <1>1, <1>5, <2>1, <3>1, <3>2
  <2>. QED  BY <1>3, <2>1, <2>2, HoldingLater
<1>7. wjob' \in [WTasks -> WJobs] /\ wjob' = wjob
  BY <1>2 DEF CompatInv, CompatTyped
<1>. QED  BY <1>2, <1>3, <1>5, <1>6, <1>7, DataKeeps

\* A list of one.
LEMMA Single ==
    ASSUME NEW o, NEW i \in WIds
    PROVE  /\ Len(<<o>>) = 1 /\ DOMAIN <<o>> = 1..Len(<<o>>) /\ Len(<<o>>) \in Nat
           /\ \A k \in DOMAIN <<o>> : <<i>>[k] \in WIds
<1>1. Len(<<o>>) = 1
  OBVIOUS
<1>2. DOMAIN <<o>> = 1..1
  OBVIOUS
<1>3. <<i>>[1] = i
  OBVIOUS
<1>4. \A k \in 1..1 : k = 1
  OBVIOUS
<1>. QED  BY <1>1, <1>2, <1>3, <1>4

LEMMA Longer ==
    ASSUME NEW r \in Seq(BOOLEAN), NEW b \in BOOLEAN
    PROVE  Append(r, b) \in Seq(BOOLEAN)
OBVIOUS

LEMMA UnchangedCalls ==
    ASSUME wcalls' = wcalls, wcalls \in 0..WMaxCalls
    PROVE  wcalls' \in 0..WMaxCalls /\ wcalls' \in Nat /\ wcalls <= wcalls'
BY CompatAssumption

\* The steps of a batch: each object in turn, with the call of the batch.
LEMMA BatchesKeep ==
    ASSUME CompatInv, NEW t \in WTasks,
           \/ \E b \in ClassPairs : batch_create_objects(t, b) \/ batch_update_objects(t, b)
           \/ BatchObject(t) \/ BatchAnswered(t)
    PROVE  CompatInv'
<1>1. CompatTyped /\ CallsBounded /\ wjob \in [WTasks -> WJobs] /\ wcalls \in Nat
  BY DEF CompatInv, CompatTyped
<1>2. ASSUME UNCHANGED <<wcols, wreg, wacked, wloose>>, wcalls' \in 0..WMaxCalls, wcalls <= wcalls',
             NEW j \in WJobs, wjob' = [wjob EXCEPT ![t] = j],
             j.at # "register", j.at = "batch" => j.call <= wcalls'
      PROVE  CompatInv'
  <2>1. /\ wjob' \in [WTasks -> WJobs] /\ wjob'[t] = j
        /\ \A u \in WTasks \ {t} : wjob'[u] = wjob[u]
    BY <1>1, <1>2
  <2>2. wcols' \in [WNames -> WCols] /\ wacked' \in [WNames -> [WIds -> Nat]]
    BY <1>1, <1>2 DEF CompatTyped
  <2>3. \A n \in WNames : wcols'[n].there = wcols[n].there /\ Holding(wcols'[n], wacked'[n], wcalls')
    BY <1>2, HoldingNow
  <2>. QED  BY <1>2, <2>1, <2>2, <2>3, DataKeeps
<1>3. ASSUME NEW b \in ClassPairs, batch_create_objects(t, b) PROVE CompatInv'
  <2>. DEFINE j == [at |-> "batch", objects |-> b, results |-> <<>>, call |-> wcalls']
  <2>1. wcalls' = wcalls + 1 /\ wcalls' \in 0..WMaxCalls /\ wcalls <= wcalls' /\ wcalls' \in Nat
    BY <1>1, <1>3, CompatAssumption DEF batch_create_objects, Called, CompatTyped
  <2>2. b \in Seq(WItems)
    <3>1. PICK c \in WNames, d \in WNames, f \in BOOLEAN :
            b = <<[class |-> c, id |-> Text, fits |-> f], [class |-> d, id |-> 1, fits |-> TRUE]>>
      BY DEF ClassPairs
    <3>2. 1 \in WIds
      BY CompatAssumption
    <3>3. [class |-> c, id |-> Text, fits |-> f] \in WItems /\ [class |-> d, id |-> 1, fits |-> TRUE] \in WItems
      BY <3>2 DEF WItems
    <3>. QED  BY <3>1, <3>3
  <2>3. j \in WJobs
    BY <2>1, <2>2 DEF WJobs
  <2>4. wjob' = [wjob EXCEPT ![t] = j] /\ UNCHANGED <<wcols, wreg, wacked, wloose>>
    BY <1>3 DEF batch_create_objects
  <2>5. j.at # "register" /\ (j.at = "batch" => j.call <= wcalls')
    BY <2>1
  <2>. HIDE DEF j
  <2>. QED  BY <1>2, <2>1, <2>3, <2>4, <2>5
<1>4. CASE BatchAnswered(t)
  <2>1. NoRequest \in WJobs /\ NoRequest.at = "none"
    BY DEF NoRequest, WJobs
  <2>2. wcalls' = wcalls /\ wcalls \in 0..WMaxCalls /\ wcalls <= wcalls'
    BY <1>1, <1>4 DEF BatchAnswered, CompatTyped
  <2>. QED  BY <1>2, <1>4, <2>1, <2>2 DEF BatchAnswered
<1>5. CASE BatchObject(t)
  <2>1. wjob[t].at = "batch" /\ wjob[t] \in [at : {"batch"}, objects : Seq(WItems), results : Seq(BOOLEAN), call : Nat]
        /\ wjob[t].call <= wcalls
    BY <1>1, <1>5 DEF BatchObject, CallsBounded, WJobs
  <2>2. Len(wjob[t].results) + 1 \in 1..Len(wjob[t].objects)
    <3>1. Len(wjob[t].results) \in Nat /\ Len(wjob[t].objects) \in Nat
      BY <2>1
    <3>2. Len(wjob[t].results) < Len(wjob[t].objects)
      BY <1>5 DEF BatchObject
    <3>. QED  BY <3>1, <3>2
  <2>3. PICK o \in WItems : o = wjob[t].objects[Len(wjob[t].results) + 1]
    BY <2>1, <2>2
  <2>4. PICK answer \in Answers \cup {"no class"} :
         /\ wjob' = [wjob EXCEPT ![t].results = Append(@, answer = "ok")]
         /\ IF wcols[o.class].there
            THEN PutBatch(o.class, <<o>>, <<numeric_id(o.id)>>, wjob[t].call, answer)
            ELSE answer = "no class" /\ UNCHANGED <<wcols, wacked>>
    BY <1>5, <2>3 DEF BatchObject
  <2>5. UNCHANGED <<wreg, wcalls, wloose>> /\ wcalls' \in 0..WMaxCalls /\ wcalls' \in Nat /\ wcalls <= wcalls'
    <3>1. UNCHANGED <<wreg, wcalls, wloose>>
      BY <1>5 DEF BatchObject
    <3>2. wcalls' = wcalls /\ wcalls \in 0..WMaxCalls
      BY <1>1, <1>5 DEF BatchObject, CompatTyped
    <3>3. wcalls' \in 0..WMaxCalls /\ wcalls' \in Nat /\ wcalls <= wcalls'
      BY <3>2, UnchangedCalls
    <3>. QED  BY <3>1, <3>3
  <2>6. PICK ok \in BOOLEAN : ok = (answer = "ok")
    OBVIOUS
  <2>7. PICK j : j = [wjob[t] EXCEPT !.results = Append(wjob[t].results, ok)]
    OBVIOUS
  <2>8. j \in [at : {"batch"}, objects : Seq(WItems), results : Seq(BOOLEAN), call : Nat] /\ j.call = wjob[t].call
    <3>1. Append(wjob[t].results, ok) \in Seq(BOOLEAN)
      BY <2>1, Longer, Zenon
    <3>. QED  BY <2>1, <2>7, <3>1
  <2>9. wjob' = [wjob EXCEPT ![t] = j]
    BY <2>4, <2>6, <2>7, Zenon
  <2>10. j \in WJobs /\ j.at = "batch" /\ j.call <= wcalls'
    BY <2>1, <2>5, <2>8 DEF WJobs
  <2>11. CASE ~wcols[o.class].there
    BY <1>2, <2>4, <2>5, <2>9, <2>10, <2>11
  <2>12. CASE wcols[o.class].there
    <3>1. PICK n \in WNames : n = o.class
      BY <2>3 DEF WItems
    <3>2. PICK call \in Nat : call = wjob[t].call
      BY <2>1
    <3>3. PICK i \in WIds : i = numeric_id(o.id)
      BY CompatAssumption DEF numeric_id
    <3>. DEFINE batch == <<o>>
                ids == <<i>>
    <3>4. wcols[n].there /\ PutBatch(n, batch, ids, call, answer)
      BY <2>4, <2>12, <3>1, <3>2, <3>3
    <3>5. /\ Len(batch) = 1 /\ DOMAIN batch = 1..Len(batch) /\ Len(batch) \in Nat
          /\ \A k \in DOMAIN batch : ids[k] \in WIds
      BY Single
    <3>. HIDE DEF batch, ids
    <3>6. call <= wcalls'
      BY <2>1, <2>5, <3>2
    <3>8. /\ wcols' \in [WNames -> WCols] /\ wacked' \in [WNames -> [WIds -> Nat]]
          /\ \A m \in WNames : wcols'[m].there = wcols[m].there /\ Holding(wcols'[m], wacked'[m], wcalls')
      BY <2>5, <3>4, <3>5, <3>6, BatchPut
    <3>9. /\ wjob' \in [WTasks -> WJobs] /\ wjob'[t] = j
          /\ \A u \in WTasks \ {t} : wjob'[u] = wjob[u]
      BY <1>1, <2>9, <2>10
    <3>10. j.at # "register"
      BY <2>10
    <3>. QED  BY <2>5, <2>10, <3>8, <3>9, <3>10, DataKeeps
  <2>. QED  BY <2>11, <2>12
<1>. QED  BY <1>3, <1>4, <1>5 DEF batch_update_objects

\* The process starts again: what is opened holds what its log kept.
LEMMA CompatRestarts ==
    ASSUME CompatInv, RestartServers
    PROVE  CompatInv'
<1>1. CompatTyped
  BY DEF CompatInv
<1>2. wcalls' = wcalls /\ wcalls \in Nat /\ wcalls' \in 0..WMaxCalls
  BY <1>1 DEF RestartServers, CompatTyped
<1>3. NoRequest \in WJobs /\ NoRequest.at = "none" /\ NoPoints \in [WIds -> Nat]
  BY DEF NoRequest, WJobs, NoPoints
<1>4. /\ wacked' = [n \in WNames |-> IF wcols'[n].there /\ wcols[n].log = "sound" THEN wacked[n] ELSE NoPoints]
      /\ wreg' = {} /\ wjob' = [t \in WTasks |-> NoRequest]
      /\ \A n \in WNames : wcols'[n] \in Reloaded(wcols[n], Survivors)
  BY DEF RestartServers
<1>5. ASSUME NEW n \in WNames PROVE wcols'[n] \in WCols /\ Holding(wcols'[n], wacked'[n], wcalls')
  <2>1. wcols[n] \in WCols /\ wacked[n] \in [WIds -> Nat] /\ Holding(wcols[n], wacked[n], wcalls)
    BY HoldingNow
  <2>2. PICK d \in Reloaded(wcols[n], Survivors) : d = wcols'[n]
    BY <1>4
  <2>3. d \in WCols /\ Holding(d, IF d.there /\ wcols[n].log = "sound" THEN wacked[n] ELSE NoPoints, wcalls)
    BY <1>2, <2>1, OpenedHolds
  <2>4. wacked'[n] = IF d.there /\ wcols[n].log = "sound" THEN wacked[n] ELSE NoPoints
    BY <1>4, <2>2
  <2>. QED  BY <1>2, <2>2, <2>3, <2>4
<1>6. wcols' \in [WNames -> WCols]
  <2>1. PICK S : wcols' \in [WNames -> S]
    BY DEF RestartServers
  <2>. QED  BY <1>5, <2>1
<1>7. wacked' \in [WNames -> [WIds -> Nat]]
  BY <1>1, <1>3, <1>4 DEF CompatTyped
<1>8. wjob' \in [WTasks -> WJobs] /\ wreg' \subseteq WNames /\ \A t \in WTasks : wjob'[t].at = "none"
  BY <1>3, <1>4
<1>9. \A t \in WTasks : wjob'[t].at = "batch" => wjob'[t].call <= wcalls'
  BY <1>8
<1>10. ClassesStay'
  <2>1. \A c : ~Registering(c)'
    BY <1>8 DEF Registering
  <2>. QED  BY <1>4, <2>1 DEF ClassesStay
<1>. QED  BY <1>2, <1>5, <1>6, <1>7, <1>8, <1>9, <1>10, CompatAgain

LEMMA CompatKeeps == CompatInv /\ [CompatNext]_CompatVars => CompatInv'
<1>. SUFFICES ASSUME CompatInv, [CompatNext]_CompatVars PROVE CompatInv'
  OBVIOUS
<1>1. CASE UNCHANGED CompatVars
  BY <1>1 DEF CompatVars, CompatInv, CompatTyped, AllHolding, Holding, Fresh, CallsBounded, ClassesStay, Registering
<1>2. ASSUME NEW t \in WTasks,
             \/ \E c \in WNames : create_schema(t, c) \/ delete_class(t, c)
             \/ \E b \in ClassPairs : batch_create_objects(t, b) \/ batch_update_objects(t, b)
             \/ RegisterClass(t) \/ DropClass(t) \/ BatchObject(t) \/ BatchAnswered(t)
      PROVE  CompatInv'
  <2>1. ASSUME NEW c \in WNames, create_schema(t, c) \/ delete_class(t, c) PROVE CompatInv'
    BY <2>1, ClassesKeep
  <2>2. CASE RegisterClass(t) \/ DropClass(t)
    <3>1. wjob[t].class \in WNames
      BY <2>2 DEF RegisterClass, DropClass, CompatInv, CompatTyped, WJobs
    <3>. QED  BY <2>2, <3>1, ClassesKeep
  <2>3. CASE \/ \E b \in ClassPairs : batch_create_objects(t, b) \/ batch_update_objects(t, b)
             \/ BatchObject(t) \/ BatchAnswered(t)
    BY <2>3, BatchesKeep
  <2>. QED  BY <1>2, <2>1, <2>2, <2>3
<1>3. ASSUME NEW n \in WNames,
             \/ update_class(n) \/ compat_create_collection(n) \/ drop_collection(n)
             \/ rest_create_collection(n) \/ rest_delete_collection(n)
             \/ grpc_create(n) \/ grpc_delete_collection(n)
      PROVE  CompatInv'
  <2>1. update_class(n) \/ compat_create_collection(n) \/ drop_collection(n)
    BY <1>3 DEF rest_create_collection, rest_delete_collection, grpc_create, grpc_delete_collection
  <2>. QED  BY <2>1, ClassesKeep
<1>4. ASSUME NEW n \in WNames, query_entities_v2(n) \/ delete_entities_v2(n) PROVE CompatInv'
  BY <1>1, <1>4 DEF query_entities_v2, delete_entities_v2
<1>5. ASSUME NEW n \in WNames,
             \E a \in Answers :
                \/ \E o \in WObjects : create_object(n, o, a) \/ update_object(n, o, a)
                \/ \E b \in Pairs : insert_entities_v2(n, b, a)
                \/ \E b \in NumberPairs : rest_upsert_points(n, b, a) \/ grpc_upsert(n, b, a)
      PROVE  CompatInv'
  BY <1>5, WritesKeep
<1>6. ASSUME NEW n \in WNames, NEW i \in WIds, compat_delete_point(n, i) \/ grpc_delete(n, i) PROVE CompatInv'
  BY <1>6, DeletesKeep
<1>7. ASSUME NEW i \in WIds, delete_object(i) PROVE CompatInv'
  BY <1>7, DeletesKeep
<1>8. CASE batch_delete_objects
  BY <1>1, <1>8 DEF batch_delete_objects
<1>9. CASE RestartServers
  BY <1>9, CompatRestarts
<1>. QED  BY <1>1, <1>2, <1>3, <1>4, <1>5, <1>6, <1>7, <1>8, <1>9 DEF CompatNext

\* The first of the collections that have an id, in the order they are listed.
LEMMA FirstListed ==
    ASSUME NEW place \in Orders, NEW i \in WIds, NEW n \in WNames, i \in Stored(n)
    PROVE  \E m \in get_object(place, i) : m \in WNames /\ (m = n \/ place[m] < place[n])
<1>1. place \in [WNames -> Nat] /\ IsInjective(place)
  <2>1. place \in [WNames -> 1..Cardinality(WNames)] /\ IsInjective(place)
    BY DEF Orders
  <2>2. \A m \in WNames : place[m] \in Nat
    BY <2>1
  <2>. QED  BY <2>1, <2>2
<1>. DEFINE Having == {m \in WNames : i \in Stored(m)}
            Places == {place[m] : m \in Having}
<1>2. Places \in SUBSET Nat /\ Places # {}
  BY <1>1
<1>3. PICK x \in Places : \A y \in Places : x <= y
  BY <1>2, LeastOf
<1>4. PICK m \in Having : x = place[m]
  BY <1>3
<1>5. \A k \in WNames : i \in Stored(k) => place[m] <= place[k]
  BY <1>3, <1>4
<1>6. m \in get_object(place, i)
  BY <1>4, <1>5 DEF get_object
<1>7. place[m] <= place[n] /\ place[m] \in Nat /\ place[n] \in Nat
  BY <1>1, <1>4, <1>5
<1>8. m = n \/ place[m] # place[n]
  BY <1>1, <1>4 DEF IsInjective
<1>. QED  BY <1>4, <1>6, <1>7, <1>8

LEMMA CompatHolds == CompatInv => CompatTypeOK /\ RegisteredExists /\ AckedKept /\ InterfacesAgree
<1>. SUFFICES ASSUME CompatInv PROVE CompatTypeOK /\ RegisteredExists /\ AckedKept /\ InterfacesAgree
  OBVIOUS
<1>1. CompatTyped /\ ClassesStay /\ wcalls \in 0..WMaxCalls
  BY DEF CompatInv, CompatTyped
<1>2. ASSUME NEW n \in WNames
      PROVE  /\ wcols[n].there \in BOOLEAN /\ wcols[n].log \in {"none", "sound", "spoilt", "damaged"}
             /\ wcols[n].tombs \in SUBSET WIds /\ wcols[n].count \in Nat
             /\ wcols[n].points \in [WIds -> Nat] /\ wcols[n].found \in [WIds -> Nat] /\ wacked[n] \in [WIds -> Nat]
             /\ wcols[n] = [there |-> wcols[n].there, log |-> wcols[n].log, points |-> wcols[n].points,
                            tombs |-> wcols[n].tombs, count |-> wcols[n].count, found |-> wcols[n].found]
             /\ Holding(wcols[n], wacked[n], wcalls)
  BY HoldingNow DEF WCols, Cols
<1>3. CompatTypeOK
  <2>. DEFINE Narrow == [WIds -> 0..WMaxCalls]
              Typed == [there : BOOLEAN, log : {"none", "sound", "spoilt", "damaged"}, points : Narrow,
                        tombs : SUBSET WIds, count : Nat, found : Narrow]
  <2>1. ASSUME NEW f \in [WIds -> Nat], \A i \in WIds : f[i] <= wcalls PROVE f \in Narrow
    BY <1>1, <2>1, CompatAssumption
  <2>2. ASSUME NEW n \in WNames
        PROVE wcols[n].points \in Narrow /\ wcols[n].found \in Narrow /\ wacked[n] \in Narrow
    <3>1. \A i \in WIds : /\ wcols[n].points[i] <= wcalls /\ wcols[n].found[i] <= wcalls
                          /\ wacked[n][i] <= wcols[n].points[i]
                          /\ wcols[n].points[i] \in Nat /\ wacked[n][i] \in Nat
      BY <1>2 DEF Holding
    <3>2. \A i \in WIds : wacked[n][i] <= wcalls
      BY <1>1, <3>1
    <3>. HIDE DEF Narrow
    <3>. QED  BY <1>2, <2>1, <3>1, <3>2
  <2>. HIDE DEF Narrow
  <2>3. ASSUME NEW n \in WNames PROVE wcols[n] \in Typed
    <3>1. PICK c : c = wcols[n]
      OBVIOUS
    <3>2. /\ c = [there |-> c.there, log |-> c.log, points |-> c.points,
                  tombs |-> c.tombs, count |-> c.count, found |-> c.found]
          /\ c.there \in BOOLEAN /\ c.log \in {"none", "sound", "spoilt", "damaged"}
          /\ c.tombs \in SUBSET WIds /\ c.count \in Nat
      BY <1>2, <3>1
    <3>3. c.points \in Narrow /\ c.found \in Narrow
      BY <2>2, <3>1
    <3>4. c \in Typed
      BY ONLY <3>2, <3>3
    <3>. QED  BY <3>1, <3>4
  <2>4. wreg \subseteq WNames
    BY <1>1 DEF CompatTyped
  <2>5. wcols \in [WNames -> Typed] /\ wacked \in [WNames -> Narrow]
    <3>. HIDE DEF Typed
    <3>. QED  BY <1>1, <2>2, <2>3 DEF CompatTyped
  <2>. QED  BY <2>4, <2>5 DEF CompatTypeOK, Narrow
<1>4. RegisteredExists
  BY <1>1 DEF RegisteredExists, ClassesStay, CompatTyped
<1>5. AckedKept
  <2>. SUFFICES ASSUME NEW n \in WNames, NEW i \in WIds, wacked[n][i] # 0
                PROVE  /\ wcols[n].there /\ wcols[n].points[i] >= wacked[n][i]
                       /\ \A place \in Orders : \/ n \in get_object(place, i)
                                                \/ \E m \in get_object(place, i) : place[m] < place[n]
    BY DEF AckedKept
  <2>1. wacked[n][i] \in Nat /\ wcols[n].points[i] \in Nat /\ wacked[n][i] <= wcols[n].points[i] /\ wcols[n].there
    BY <1>2 DEF Holding
  <2>2. i \in Stored(n)
    BY <2>1 DEF Stored
  <2>. QED  BY <2>1, <2>2, FirstListed
<1>6. InterfacesAgree
  <2>. SUFFICES ASSUME NEW n \in WNames
                PROVE  /\ \A place \in Orders, i \in WIds :
                            /\ n \in get_object(place, i) => i \in grpc_get(n, WIds)
                            /\ i \in grpc_get(n, WIds) => get_object(place, i) # {}
                       /\ \A l \in 0..2 :
                            /\ UNION search_entities_v2(n, l) = UNION grpc_search(n, l)
                            /\ \A h \in UNION execute_explore_query(l) : n = h[1] => h[2] \in grpc_get(n, WIds)
                            /\ get_class(n) => execute_get_query(n, l) = grpc_search(n, l)
                       /\ execute_aggregate_query(n) >=
                            Cardinality({i \in Stored(n) : wcols[n].points[i] # wcols[n].found[i]})
                       /\ \A o \in WObjects : validate_object(n, o) /\ n \notin wloose => get_load_state_v2(n) = "Loaded"
    BY DEF InterfacesAgree
  <2>1. grpc_get(n, WIds) = Stored(n)
    BY DEF grpc_get, Stored
  <2>2. ASSUME NEW place \in Orders, NEW i \in WIds
        PROVE  /\ n \in get_object(place, i) => i \in grpc_get(n, WIds)
               /\ i \in grpc_get(n, WIds) => get_object(place, i) # {}
    <3>1. n \in get_object(place, i) => i \in Stored(n)
      BY DEF get_object
    <3>2. i \in Stored(n) => get_object(place, i) # {}
      BY FirstListed
    <3>. QED  BY <2>1, <3>1, <3>2
  <2>3. execute_aggregate_query(n) >= Cardinality({i \in Stored(n) : wcols[n].points[i] # wcols[n].found[i]})
    <3>. DEFINE since == {i \in Stored(n) : wcols[n].points[i] # wcols[n].found[i]}
    <3>1. since \subseteq Fresh(wcols[n]) /\ Fresh(wcols[n]) \in SUBSET WIds
      BY DEF Fresh, Stored
    <3>2. Cardinality(since) <= Cardinality(Fresh(wcols[n]))
      BY <3>1, WIdsFinite, FS_Subset
    <3>3. Cardinality(since) \in Nat /\ Cardinality(Fresh(wcols[n])) \in Nat
      BY <3>1, WIdsFinite
    <3>4. Cardinality(Fresh(wcols[n])) <= wcols[n].count /\ wcols[n].count \in Nat
      BY <1>2 DEF Holding
    <3>. HIDE DEF since
    <3>5. wcols[n].count >= Cardinality(since)
      BY <3>2, <3>3, <3>4
    <3>. QED  BY <3>5 DEF execute_aggregate_query, since
  <2>4. \A o \in WObjects : validate_object(n, o) /\ n \notin wloose => get_load_state_v2(n) = "Loaded"
    BY <1>4 DEF validate_object, get_class, get_load_state_v2, describe_collection_v2, has_collection_v2, RegisteredExists
  <2>5. ASSUME NEW l \in 0..2 PROVE UNION search_entities_v2(n, l) = UNION grpc_search(n, l)
    <3>1. CASE l = 0
      <4>1. \A r \in Hits(n, 0) : r = {}
        <5>. SUFFICES ASSUME NEW r \in Hits(n, 0) PROVE r = {}
          OBVIOUS
        <5>1. r \in SUBSET WIds /\ Cardinality(r) <= 0
          BY DEF Hits, Stored
        <5>2. IsFiniteSet(r) /\ Cardinality(r) \in Nat
          BY <5>1, WIdsFinite
        <5>. QED  BY <5>1, <5>2, FS_EmptySet
      <4>2. UNION Hits(n, 0) = {}
        BY <4>1
      <4>. QED  BY <3>1, <4>2 DEF search_entities_v2, grpc_search
    <3>2. CASE l # 0
      BY <3>2 DEF search_entities_v2, grpc_search
    <3>. QED  BY <3>1, <3>2
  <2>6. ASSUME NEW l \in 0..2, NEW h \in UNION execute_explore_query(l), n = h[1] PROVE h[2] \in grpc_get(n, WIds)
    <3>. DEFINE there == {m \in WNames : wcols[m].there}
                share == l \div Max({1, Cardinality(there)})
    <3>1. PICK r \in SUBSET (there \X WIds) :
            h \in r /\ \A m \in there : {e[2] : e \in {g \in r : g[1] = m}} \in Hits(m, share)
      BY DEF execute_explore_query
    <3>. HIDE DEF share
    <3>2. h[1] \in there /\ h[2] \in WIds
      BY <3>1
    <3>3. {e[2] : e \in {g \in r : g[1] = n}} \in Hits(n, share)
      BY <2>6, <3>1, <3>2
    <3>4. h[2] \in {e[2] : e \in {g \in r : g[1] = n}}
      BY <2>6, <3>1
    <3>5. h[2] \in Stored(n)
      BY <3>3, <3>4 DEF Hits
    <3>. QED  BY <2>1, <3>5
  <2>7. \A l \in 0..2 : get_class(n) => execute_get_query(n, l) = grpc_search(n, l)
    BY DEF get_class, execute_get_query, grpc_search
  <2>. QED  BY <2>2, <2>3, <2>4, <2>5, <2>6, <2>7
<1>. QED  BY <1>3, <1>4, <1>5, <1>6

\* What a Milvus insert answers, it has done.
LEMMA InsertStores ==
    ASSUME CompatInv, NEW n \in WNames, NEW b \in Pairs, NEW a \in Answers, insert_entities_v2(n, b, a)
    PROVE  /\ a = "ok" => \A k \in DOMAIN b : wcols'[n].points[EntityIds(b)[k]] = wcalls'
           /\ a = "refused" => \E k \in DOMAIN b : EntityIds(b)[k] \in wcols[n].tombs
           /\ a # "dimension"
<1>. DEFINE given == EntityIds(b)
            ids == [k \in DOMAIN b |-> {given[k]}]
            fits == [k \in DOMAIN b |-> b[k].fits]
<1>1. DOMAIN b = 1..2 /\ Len(b) = 2
  BY DEF Pairs
<1>2. \A k \in 1..2 : given[k] \in WIds
  <2>1. \A k \in 1..2 : k \in WIds
    BY CompatAssumption
  <2>. QED  BY <1>1, <2>1 DEF EntityIds
<1>3. PICK m \in 0..Len(b) :
        /\ StopsAt(wcols[n].tombs, ids, fits, m, a)
        /\ wcols' = [wcols EXCEPT ![n] =
             Upserted(@, [i \in WIds |-> IF \E k \in 1..m : given[k] = i THEN wcalls' ELSE wcols[n].points[i]],
                      ids, m, a)]
  BY DEF insert_entities_v2, PutBatch
<1>4. \A k \in DOMAIN b : fits[k]
  BY DEF insert_entities_v2, EntitiesValid, Misfits
<1>5. /\ Len(ids) = 2 /\ m \in Nat /\ m <= 2
      /\ \A k \in DOMAIN b : ids[k] = {given[k]}
  <2>1. DOMAIN ids = 1..2
    BY <1>1
  <2>2. Len(ids) = 2
    BY <2>1
  <2>. QED  BY <1>1, <2>2
<1>. HIDE DEF given, ids, fits
<1>6. PICK call : call = wcalls'
  OBVIOUS
<1>7. PICK points : points = [i \in WIds |-> IF \E k \in 1..m : given[k] = i THEN call ELSE wcols[n].points[i]]
  OBVIOUS
<1>8. wcols'[n].points = points
  <2>1. PICK c : c = wcols[n]
    OBVIOUS
  <2>2. PICK d : d = Upserted(c, points, ids, m, a)
    OBVIOUS
  <2>3. c \in WCols /\ wcols' = [wcols EXCEPT ![n] = d] /\ wcols'[n] = d
    BY <1>3, <1>6, <1>7, <2>1, <2>2 DEF CompatInv, CompatTyped
  <2>4. d.points = points
    BY <2>2, <2>3 DEF Upserted, WCols, Cols
  <2>. QED  BY <2>3, <2>4
<1>9. ASSUME a = "ok", NEW k \in DOMAIN b PROVE wcols'[n].points[given[k]] = wcalls'
  <2>1. m = Len(ids)
    BY <1>3, <1>9 DEF StopsAt
  <2>2. k \in 1..m /\ given[k] \in WIds
    BY <1>1, <1>2, <1>5, <2>1
  <2>. QED  BY <1>6, <1>7, <1>8, <2>2
<1>10. \/ a = "ok" /\ m = Len(ids)
       \/ /\ m < Len(ids) /\ ids[m + 1] # {}
          /\ \/ a = "dimension" /\ ~fits[m + 1]
             \/ a = "refused" /\ fits[m + 1] /\ ids[m + 1] \cap wcols[n].tombs # {}
             \/ a = "append" /\ fits[m + 1]
  BY <1>3, Zenon DEF StopsAt
<1>11. m < Len(ids) => m + 1 \in DOMAIN b
  BY <1>1, <1>5
<1>12. ASSUME a = "refused" PROVE \E k \in DOMAIN b : given[k] \in wcols[n].tombs
  <2>1. m < Len(ids) /\ ids[m + 1] \cap wcols[n].tombs # {}
    BY <1>10, <1>12
  <2>. QED  BY <1>5, <1>11, <2>1
<1>13. a # "dimension"
  <2>. SUFFICES ASSUME a = "dimension" PROVE FALSE
    OBVIOUS
  <2>1. m < Len(ids) /\ ~fits[m + 1]
    BY <1>10, Zenon
  <2>. QED  BY <1>4, <1>11, <2>1, Zenon
<1>. QED  BY <1>9, <1>12, <1>13 DEF given

-----------------------------------------------------------------------------
(* All interfaces                                                          *)

FacadesInv == QdrantInv /\ CompatInv

LEMMA FacadesStart == QdrantInit /\ CompatInit => FacadesInv
BY QdrantStart, CompatStart DEF FacadesInv

LEMMA FacadesKeep == FacadesInv /\ [FacadesNext]_<<QdrantVars, CompatVars>> => FacadesInv'
<1>. SUFFICES ASSUME FacadesInv, [FacadesNext]_<<QdrantVars, CompatVars>> PROVE FacadesInv'
  OBVIOUS
<1>1. [QdrantNext]_QdrantVars /\ [CompatNext]_CompatVars
  BY DEF FacadesNext
<1>. QED  BY <1>1, QdrantKeeps, CompatKeeps DEF FacadesInv

\* Whatever interface wrote a point, the others read it; pages and full snapshots
\* miss nothing that stayed and could be read; the counts are not below what was
\* put; an acknowledged write is kept through restarts that open its collection,
\* and a class that is listed has its collection: for every number of requests,
\* of whatever client in between, with puts that are refused, appends and reads
\* that fail and collections that do not open (qdrant_compat.rs,
\* weaviate_compat.rs, milvus_compat.rs, rest.rs, grpc.rs).
THEOREM InterfacesHold == FacadesSpec => []InterfacesSafe
<1>1. FacadesInv => InterfacesSafe
  BY QdrantHolds, CompatHolds DEF FacadesInv, InterfacesSafe
<1>. QED  BY <1>1, FacadesStart, FacadesKeep, PTL DEF FacadesSpec

\* An upsert or insert that answers success has stored each point it was read as;
\* one that passed its checks stops half way only where the log fails, at an id
\* whose deletion the memtable holds, or, in the Qdrant interface, at a vector
\* under another name (upsert_points with validation.rs, insert_entities_v2,
\* Collection::upsert).
THEOREM BatchesStoredWhole == FacadesSpec => BatchesWhole
<1>. DEFINE Stores == \A n \in QNames, r \in QRequests, a \in Answers :
                        qdrant_upsert_points(n, r, a) =>
                            LET batch == PointsOf(r) IN
                            /\ a = "ok" => \A k \in DOMAIN batch : as_u64(batch[k].id) \subseteq qcols'[n].points
                            /\ a = "refused" => \E k \in DOMAIN batch : as_u64(batch[k].id) \cap qcols[n].tombs # {}
                            /\ a = "dimension" => \E k \in DOMAIN batch : batch[k].vector = "other_name"
            Inserts == \A n \in WNames, b \in Pairs, a \in Answers :
                         insert_entities_v2(n, b, a) =>
                             /\ a = "ok" => \A k \in DOMAIN b : wcols'[n].points[EntityIds(b)[k]] = wcalls'
                             /\ a = "refused" => \E k \in DOMAIN b : EntityIds(b)[k] \in wcols[n].tombs
                             /\ a # "dimension"
<1>1. FacadesInv => Stores /\ Inserts
  BY UpsertStores, InsertStores DEF FacadesInv
<1>2. FacadesInv => [Stores]_QdrantVars /\ [Inserts]_CompatVars
  BY <1>1
<1>. HIDE DEF Stores, Inserts
<1>3. FacadesSpec => [][Stores]_QdrantVars /\ [][Inserts]_CompatVars
  BY <1>2, FacadesStart, FacadesKeep, PTL DEF FacadesSpec
<1>. QED  BY <1>3 DEF Stores, Inserts, BatchesWhole, UpsertWhole, InsertWhole

=============================================================================
