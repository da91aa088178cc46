--------------------------- MODULE RaftLogProofs ---------------------------
(***************************************************************************)
(* MemStorage implements the abstract log of RaftLogSpec, for any bounds.  *)
(*                                                                         *)
(* The indices of the entries are consecutive from first_index, which is   *)
(* at most one past the snapshot, and the entry at the index of the        *)
(* snapshot has its term (Joined): so what term() answers is one window,   *)
(* read from the entries or from the snapshot, and every operation cuts or *)
(* extends that window as the abstract log says.                           *)
(*                                                                         *)
(* The second part is about what is made of the committed entries:  the    *)
(* replicated state machine, for any log, any nodes and any cut of the log *)
(* into batches.                                                           *)
(***************************************************************************)
EXTENDS RaftLog, ReplicatedState, SequenceTheorems, WellFoundedInduction, TLAPS

Cells == [index : Indices, term : LTerms]

StoreTyped ==
    /\ lentries \in Seq(Cells) /\ lsnap \in [index : 0..LMaxIndex, term : 0..LMaxTerm]
    /\ lhard \in [term : 0..LMaxTerm, commit : 0..LMaxIndex]
    /\ lans \in {"ok", "err", "panic"}

Consecutive == \A k \in 1..Len(lentries) : lentries[k].index = first_index + k - 1

Rising == \A j, k \in 1..Len(lentries) : j <= k => lentries[j].term <= lentries[k].term

Joined ==
    /\ first_index >= 1 /\ first_index <= lsnap.index + 1
    /\ first_index + Len(lentries) - 1 >= lsnap.index
    /\ first_index <= lsnap.index => lentries[lsnap.index - first_index + 1].term = lsnap.term
    /\ first_index = lsnap.index + 1 /\ lentries # <<>> => lentries[1].term >= lsnap.term
    /\ lsnap.index = 0 => lsnap.term = 0

StoreInv == StoreTyped /\ Consecutive /\ Rising /\ Joined

\* The types, one by one.
LEMMA StoreFacts ==
    StoreInv =>
        /\ lentries \in Seq(Cells) /\ Len(lentries) \in Nat
        /\ lsnap.index \in Nat /\ lsnap.index <= LMaxIndex /\ lsnap.term \in Nat
        /\ first_index \in Nat
        /\ \A k \in 1..Len(lentries) : lentries[k].index \in Nat /\ lentries[k].term \in Nat
        /\ lentries # <<>> => first_index = lentries[1].index
        /\ lentries = <<>> => first_index = lsnap.index + 1
        /\ lentries # <<>> <=> Len(lentries) > 0
<1>. SUFFICES ASSUME StoreInv
              PROVE  /\ lentries \in Seq(Cells) /\ Len(lentries) \in Nat
                     /\ lsnap.index \in Nat /\ lsnap.index <= LMaxIndex /\ lsnap.term \in Nat
                     /\ first_index \in Nat
                     /\ \A k \in 1..Len(lentries) :
                           lentries[k].index \in Nat /\ lentries[k].term \in Nat
                     /\ lentries # <<>> => first_index = lentries[1].index
                     /\ lentries = <<>> => first_index = lsnap.index + 1
                     /\ lentries # <<>> <=> Len(lentries) > 0
  OBVIOUS
<1>1. lentries \in Seq(Cells) /\ Len(lentries) \in Nat /\ LMaxIndex \in Nat /\ LMaxTerm \in Nat
  BY RaftLogAssumption DEF StoreInv, StoreTyped
<1>2. lsnap.index \in Nat /\ lsnap.index <= LMaxIndex /\ lsnap.term \in Nat
  BY <1>1 DEF StoreInv, StoreTyped
<1>3. \A k \in 1..Len(lentries) : lentries[k] \in Cells
  BY <1>1
<1>4. \A k \in 1..Len(lentries) : lentries[k].index \in Nat /\ lentries[k].term \in Nat
  BY <1>1, <1>3 DEF Cells, Indices, LTerms
<1>5. lentries # <<>> <=> Len(lentries) > 0
  BY <1>1
<1>6. /\ lentries # <<>> => first_index = lentries[1].index
      /\ lentries = <<>> => first_index = lsnap.index + 1
  BY DEF first_index
<1>7. first_index \in Nat
  BY <1>2, <1>4, <1>5, <1>6, <1>1
<1>. QED  BY <1>1, <1>2, <1>4, <1>5, <1>6, <1>7

\* The last index follows from the first and the number of entries.
LEMMA LastIndex ==
    StoreInv => last_index = first_index + Len(lentries) - 1 /\ last_index <= LMaxIndex
<1>. SUFFICES ASSUME StoreInv
              PROVE  last_index = first_index + Len(lentries) - 1 /\ last_index <= LMaxIndex
  OBVIOUS
<1>1. CASE lentries = <<>>
  BY <1>1, StoreFacts DEF last_index
<1>2. CASE lentries # <<>>
  <2>. DEFINE n == Len(lentries)
  <2>1. n \in Nat /\ n > 0 /\ n \in 1..n /\ lentries \in Seq(Cells)
    BY <1>2, StoreFacts
  <2>2. lentries[n].index = first_index + n - 1
    BY <2>1 DEF StoreInv, Consecutive
  <2>3. lentries[n] \in Cells
    BY <2>1
  <2>4. lentries[n].index <= LMaxIndex
    BY <2>3, RaftLogAssumption DEF Cells, Indices
  <2>. QED  BY <1>2, <2>2, <2>4 DEF last_index
<1>. QED  BY <1>1, <1>2

\* What can be read: the window of the entries and the snapshot.
Window == {j \in Indices : j = lsnap.index \/ (first_index <= j /\ j <= last_index)}

LEMMA ReadableWindow ==
    StoreInv => /\ DOMAIN Readable = Window
                /\ \A j \in Window : first_index <= j => Readable[j] = lentries[j - first_index + 1].term
                /\ \A j \in Window : j = lsnap.index => Readable[j] = lsnap.term
                /\ \A j \in Window : Readable[j] = term(j) /\ Readable[j] \in Nat
<1>. SUFFICES ASSUME StoreInv
              PROVE  /\ DOMAIN Readable = Window
                     /\ \A j \in Window : first_index <= j =>
                           Readable[j] = lentries[j - first_index + 1].term
                     /\ \A j \in Window : j = lsnap.index => Readable[j] = lsnap.term
                     /\ \A j \in Window : Readable[j] = term(j) /\ Readable[j] \in Nat
  OBVIOUS
<1>. DEFINE b == first_index
            z == last_index
            n == Len(lentries)
            s == lsnap.index
<1>1. /\ n \in Nat /\ s \in Nat /\ lsnap.term \in Nat /\ b \in Nat /\ b >= 1 /\ b <= s + 1
      /\ \A k \in 1..n : lentries[k].term \in Nat
      /\ z = b + n - 1 /\ z >= s /\ z <= LMaxIndex /\ s <= LMaxIndex
      /\ lentries # <<>> => b = lentries[1].index
      /\ lentries # <<>> <=> n > 0
      /\ b <= s => lentries[s - b + 1].term = lsnap.term
  BY StoreFacts, LastIndex DEF StoreInv, Joined
<1>2. ASSUME NEW j \in Indices
      PROVE  /\ j = s => term(j) = lsnap.term
             /\ b <= j /\ j <= z => /\ j - b + 1 \in 1..n
                                    /\ term(j) = lentries[j - b + 1].term
             /\ j # s /\ ~(b <= j /\ j <= z) => term(j) = Unreadable
  <2>1. j \in Nat /\ j # 0
    BY RaftLogAssumption DEF Indices
  <2>2. term(j) = IF j = s THEN lsnap.term
                  ELSE IF j < b \/ j > z THEN Unreadable
                  ELSE lentries[j - lentries[1].index + 1].term
    BY <2>1 DEF term
  <2>. HIDE DEF b, z, n, s
  <2>3. b <= j /\ j <= z => j - b + 1 \in 1..n /\ n > 0
    BY <1>1, <2>1
  <2>4. b <= j /\ j <= z /\ j # s => term(j) = lentries[j - b + 1].term
    BY <1>1, <2>1, <2>2, <2>3
  <2>5. b <= j /\ j <= z /\ j = s => term(j) = lentries[j - b + 1].term
    BY <1>1, <2>2
  <2>6. j # s /\ ~(b <= j /\ j <= z) => j < b \/ j > z
    BY <1>1, <2>1
  <2>. QED  BY <2>2, <2>3, <2>4, <2>5, <2>6
<1>3. \A j \in Window : j \in Indices /\ (j = s \/ (b <= j /\ j <= z))
  BY DEF Window
<1>. HIDE DEF b, z, n, s
<1>4. \A j \in Window : term(j) \in Nat /\ term(j) # Unreadable
  BY <1>1, <1>2, <1>3 DEF Unreadable
<1>5. \A j \in Indices : term(j) # Unreadable <=> j \in Window
  BY <1>2, <1>4 DEF Window, b, z, s
<1>6. DOMAIN Readable = Window /\ \A j \in Window : Readable[j] = term(j)
  BY <1>5 DEF Readable, Window
<1>7. \A j \in Window : b <= j => j <= z
  BY <1>1, <1>3
<1>. QED  BY <1>2, <1>3, <1>4, <1>6, <1>7 DEF b, z, n, s

\* Terms do not fall along what can be read.
LEMMA ReadableRises ==
    StoreInv => \A i, j \in Window : i < j => Readable[i] <= Readable[j]
<1>. SUFFICES ASSUME StoreInv, NEW i \in Window, NEW j \in Window, i < j
              PROVE  Readable[i] <= Readable[j]
  OBVIOUS
<1>. DEFINE b == first_index
            n == Len(lentries)
            s == lsnap.index
<1>1. /\ n \in Nat /\ s \in Nat /\ b \in Nat /\ b >= 1 /\ b <= s + 1 /\ b + n - 1 >= s
      /\ lentries # <<>> <=> n > 0
      /\ lsnap.term \in Nat /\ \A k \in 1..n : lentries[k].term \in Nat
      /\ last_index = b + n - 1
  BY StoreFacts, LastIndex DEF StoreInv, Joined
<1>2. /\ i \in Nat /\ (i = s \/ (b <= i /\ i <= b + n - 1))
      /\ j \in Nat /\ (j = s \/ (b <= j /\ j <= b + n - 1))
  BY <1>1, RaftLogAssumption DEF Window, Indices
<1>3. /\ b <= i => Readable[i] = lentries[i - b + 1].term
      /\ b <= j => Readable[j] = lentries[j - b + 1].term
      /\ i = s => Readable[i] = lsnap.term
  BY ReadableWindow
<1>4. b = s + 1 /\ n > 0 => lentries[1].term >= lsnap.term
  BY <1>1 DEF StoreInv, Joined
<1>5. \A x, y \in 1..n : x <= y => lentries[x].term <= lentries[y].term
  BY DEF StoreInv, Rising
<1>. HIDE DEF b, n, s
<1>6. CASE b <= i
  <2>1. i - b + 1 \in 1..n /\ j - b + 1 \in 1..n /\ i - b + 1 <= j - b + 1 /\ b <= j
    BY <1>1, <1>2, <1>6
  <2>. QED  BY <1>3, <1>5, <1>6, <2>1
<1>7. CASE i < b
  <2>1. i = s /\ b = s + 1 /\ b <= j /\ n > 0 /\ j - b + 1 \in 1..n /\ 1 \in 1..n
    BY <1>1, <1>2, <1>7
  <2>2. lentries[1].term <= lentries[j - b + 1].term
    BY <1>5, <2>1
  <2>3. lentries[1].term \in Nat /\ lentries[j - b + 1].term \in Nat
    BY <1>1, <2>1
  <2>. QED  BY <1>1, <1>3, <1>4, <2>1, <2>2, <2>3
<1>. QED  BY <1>1, <1>2, <1>6, <1>7

\* What an append behind the snapshot does: it keeps the entries before the
\* batch, p of them, and puts the batch after them.
Spliced(es, p) ==
    /\ p \in 0..Len(lentries) /\ es[1].index = first_index + p
    /\ es \in Seq(Cells) /\ Len(es) > 0
    /\ \A k \in 1..Len(es) : es[k].index = es[1].index + k - 1
    /\ lentries' \in Seq(Cells) /\ Len(lentries') = p + Len(es)
    /\ \A k \in 1..p : lentries'[k] = lentries[k]
    /\ \A k \in 1..Len(es) : lentries'[p + k] = es[k]

LEMMA BatchFacts ==
    ASSUME StoreInv, NEW es \in Batches, LegalBatch(es)
    PROVE  /\ es \in Seq(Cells) /\ Len(es) > 0 /\ Len(es) \in Nat
           /\ es[1].index \in Nat /\ es[1].index >= 1 /\ es[1].index <= last_index + 1
           /\ \A k \in 1..Len(es) : es[k].index = es[1].index + k - 1
<1>1. PICK n \in 1..LMaxBatch, f \in 1..(last_index + 1), ts \in [1..LMaxBatch -> LTerms] :
         es = [k \in 1..n |-> [index |-> f + k - 1, term |-> ts[k]]]
  BY DEF Batches
<1>2. LMaxBatch \in Nat /\ LMaxIndex \in Nat /\ last_index \in Int
  BY RaftLogAssumption, LastIndex, StoreFacts
<1>3. n \in Nat /\ n > 0 /\ f \in Nat /\ f >= 1 /\ f <= last_index + 1
  BY <1>1, <1>2
<1>4. DOMAIN es = 1..n /\ \A k \in 1..n : es[k] = [index |-> f + k - 1, term |-> ts[k]]
  BY <1>1
<1>5. \A k \in 1..n : es[k].index = f + k - 1 /\ es[k].term \in LTerms
                      /\ DOMAIN es[k] = {"index", "term"}
  BY <1>1, <1>2, <1>4
<1>6. Len(es) = n
  BY <1>3, <1>4
<1>7. es[1].index = f
  BY <1>3, <1>5
<1>8. f + n - 1 <= LMaxIndex
  BY <1>3, <1>5, <1>6 DEF LegalBatch
<1>9. \A k \in 1..n : es[k] \in Cells
  <2>. SUFFICES ASSUME NEW k \in 1..n PROVE es[k] \in Cells
    OBVIOUS
  <2>1. f + k - 1 \in Indices /\ ts[k] \in LTerms
    BY <1>1, <1>2, <1>3, <1>8 DEF Indices
  <2>. QED  BY <1>4, <2>1 DEF Cells
<1>10. es \in Seq(Cells)
  BY <1>1, <1>3, <1>4, <1>9, IsASeq
<1>. QED  BY <1>3, <1>5, <1>6, <1>7, <1>10

LEMMA AppendEffect ==
    ASSUME StoreInv, NEW es \in Batches, LegalBatch(es), append(es), es[1].index > lsnap.index
    PROVE  \E p : Spliced(es, p)
<1>. DEFINE f == es[1].index
            b == first_index
            n == Len(lentries)
            p == f - b
            q == IF p < n THEN SubSeq(lentries, 1, p) ELSE lentries
<1>1. /\ es \in Seq(Cells) /\ Len(es) > 0 /\ Len(es) \in Nat
      /\ f \in Nat /\ f >= 1 /\ f <= last_index + 1
      /\ \A k \in 1..Len(es) : es[k].index = f + k - 1
  BY BatchFacts
<1>2. /\ lentries \in Seq(Cells) /\ n \in Nat /\ lsnap.index \in Nat /\ b \in Nat
      /\ last_index = b + n - 1 /\ b <= lsnap.index + 1
      /\ lentries # <<>> => b = lentries[1].index
      /\ lentries = <<>> => b = lsnap.index + 1
      /\ lentries # <<>> <=> n > 0
  BY StoreFacts, LastIndex DEF StoreInv, Joined
<1>3. p \in 0..n /\ f = b + p /\ f > lsnap.index
  <2>1. f > lsnap.index
    OBVIOUS
  <2>. HIDE DEF f, b, n
  <2>. QED  BY <1>1, <1>2, <2>1, SMTT(40)
<1>4. lentries' = q \o es
  <2>1. CASE lentries = <<>>
    <3>1. n = 0 /\ p = 0 /\ ~(f < 1) /\ ~(f <= lsnap.index) /\ ~(f - 1 < n)
      <4>. HIDE DEF f, b, n, p
      <4>. QED  BY <1>1, <1>2, <1>3, <2>1
    <3>2. lentries' = Extended(f - 1, es)
      BY <2>1, <3>1, Zenon DEF append
    <3>3. Extended(f - 1, es) = lentries \o es /\ q = lentries
      BY <3>1 DEF Extended
    <3>. QED  BY <3>2, <3>3
  <2>2. CASE lentries # <<>>
    <3>1. ~(f < b) /\ ~(f <= lsnap.index)
      <4>. HIDE DEF f, b, n, p
      <4>. QED  BY <1>1, <1>2, <1>3
    <3>0. b = lentries[1].index
      BY <1>2, <2>2
    <3>2. lentries' = Extended(f - b, es)
      BY <2>2, <3>0, <3>1 DEF append
    <3>. QED  BY <3>2 DEF Extended
  <2>. QED  BY <2>1, <2>2
<1>. HIDE DEF f, b, n, p
<1>5. q \in Seq(Cells) /\ Len(q) = p /\ \A k \in 1..p : q[k] = lentries[k]
  <2>1. CASE p < n
    <3>1. q = SubSeq(lentries, 1, p) /\ p \in Nat /\ p <= Len(lentries)
      BY <1>2, <1>3, <2>1 DEF n
    <3>. HIDE DEF q
    <3>. QED  BY <1>2, <3>1
  <2>2. CASE ~(p < n)
    <3>1. q = lentries /\ p = Len(lentries)
      BY <1>2, <1>3, <2>2 DEF n
    <3>. QED  BY <1>2, <3>1
  <2>. QED  BY <2>1, <2>2
<1>. HIDE DEF q
<1>6. /\ q \o es \in Seq(Cells) /\ Len(q \o es) = p + Len(es)
      /\ \A k \in 1..p : (q \o es)[k] = q[k]
      /\ \A k \in 1..Len(es) : (q \o es)[p + k] = es[k]
  <2>. DEFINE e == es
              m == Len(e)
  <2>1. e \in Seq(Cells) /\ m \in Nat /\ p \in Nat
    BY <1>1, <1>5
  <2>. HIDE DEF e
  <2>2. /\ q \o e \in Seq(Cells) /\ Len(q \o e) = Len(q) + Len(e)
        /\ \A i \in 1..Len(q) + Len(e) : (q \o e)[i] =
              IF i <= Len(q) THEN q[i] ELSE e[i - Len(q)]
    BY <1>5, <2>1, ConcatProperties
  <2>. DEFINE c == q \o e
  <2>. HIDE DEF m
  <2>3. \A i \in 1..p + m : c[i] = IF i <= p THEN q[i] ELSE e[i - p]
    BY <1>5, <2>2 DEF m
  <2>. HIDE DEF c
  <2>4. \A k \in 1..p : c[k] = q[k]
    BY <2>1, <2>3
  <2>5. ASSUME NEW k \in 1..m PROVE c[p + k] = e[k]
    <3>. DEFINE i == p + k
    <3>1. i \in 1..p + m /\ ~(i <= p) /\ i - p = k
      BY <2>1
    <3>. HIDE DEF i
    <3>2. c[i] = e[i - p]
      BY <2>3, <3>1
    <3>. QED  BY <3>1, <3>2 DEF i
  <2>. QED  BY <1>5, <2>2, <2>4, <2>5 DEF e, m, c
<1>7. Spliced(es, p)
  BY <1>1, <1>3, <1>4, <1>5, <1>6 DEF Spliced, f, b, n
<1>. QED  BY <1>7

\* The term in front of a batch: of the entry before it or of the snapshot.
LEMMA TermBefore ==
    ASSUME StoreInv
    PROVE  /\ term(lsnap.index) = lsnap.term
           /\ \A p \in 1..Len(lentries) : term(first_index + p - 1) = lentries[p].term
<1>1. term(lsnap.index) = lsnap.term
  BY DEF term, StoreInv, Joined
<1>2. ASSUME NEW p \in 1..Len(lentries)
      PROVE  term(first_index + p - 1) = lentries[p].term
  <2>. DEFINE b == first_index
              j == b + p - 1
  <2>1. /\ b \in Nat /\ b >= 1 /\ Len(lentries) \in Nat
        /\ last_index = b + Len(lentries) - 1 /\ last_index <= LMaxIndex
    BY StoreFacts, LastIndex DEF StoreInv, Joined
  <2>. HIDE DEF b
  <2>2. j \in Indices /\ b <= j /\ j <= last_index /\ j - b + 1 = p
    BY <2>1, RaftLogAssumption DEF Indices
  <2>. HIDE DEF j
  <2>3. j \in Window
    BY <2>2 DEF Window, b
  <2>4. Readable[j] = lentries[j - b + 1].term /\ Readable[j] = term(j)
    BY <2>2, <2>3, ReadableWindow DEF b
  <2>. QED  BY <2>2, <2>4 DEF j, b
<1>. QED  BY <1>1, <1>2

\* The first index does not move when entries are appended.
LEMMA SpliceFirst ==
    ASSUME StoreInv, NEW es, NEW p, Spliced(es, p), lsnap' = lsnap
    PROVE  first_index' = first_index
<1>1. /\ p \in Nat /\ Len(es) \in Nat /\ Len(es) > 0 /\ lentries' \in Seq(Cells)
      /\ Len(lentries') = p + Len(es) /\ es[1].index = first_index + p
      /\ \A k \in 1..p : lentries'[k] = lentries[k]
      /\ \A k \in 1..Len(es) : lentries'[p + k] = es[k]
      /\ p <= Len(lentries) /\ first_index \in Nat
      /\ lentries # <<>> => first_index = lentries[1].index
      /\ lentries # <<>> <=> Len(lentries) > 0
  BY StoreFacts DEF Spliced
<1>2. lentries' # <<>>
  BY <1>1
<1>3. first_index' = lentries'[1].index
  BY <1>2 DEF first_index
<1>4. CASE p = 0
  <2>1. lentries'[0 + 1] = es[1]
    BY <1>1, <1>4
  <2>2. lentries'[1] = es[1]
    BY <2>1
  <2>. QED  BY <1>1, <1>3, <1>4, <2>2
<1>5. CASE p > 0
  <2>1. lentries'[1] = lentries[1] /\ lentries # <<>>
    BY <1>1, <1>5, SMTT(40)
  <2>. QED  BY <1>1, <1>3, <2>1
<1>. QED  BY <1>1, <1>4, <1>5

\* Each entry after the append comes from the log or from the batch.
LEMMA SpliceEntry ==
    ASSUME NEW es, NEW p, Spliced(es, p), NEW k \in 1..(p + Len(es))
    PROVE  \/ k \in 1..p /\ lentries'[k] = lentries[k]
           \/ k - p \in 1..Len(es) /\ lentries'[k] = es[k - p]
<1>1. /\ p \in Nat /\ Len(es) \in Nat
      /\ \A i \in 1..p : lentries'[i] = lentries[i]
      /\ \A i \in 1..Len(es) : lentries'[p + i] = es[i]
  BY DEF Spliced
<1>2. CASE k <= p
  BY <1>1, <1>2
<1>3. CASE ~(k <= p)
  <2>. DEFINE i == k - p
  <2>1. i \in 1..Len(es) /\ p + i = k
    BY <1>1, <1>3
  <2>. HIDE DEF i
  <2>2. lentries'[p + i] = es[i]
    BY <1>1, <2>1
  <2>. QED  BY <2>1, <2>2 DEF i
<1>. QED  BY <1>2, <1>3

LEMMA AppendKeeps ==
    ASSUME StoreInv, NEW es \in Batches, LegalBatch(es), append(es)
    PROVE  StoreInv'
<1>1. lsnap' = lsnap /\ lhard' = lhard /\ lans' \in {"ok", "err", "panic"}
  BY DEF append
<1>2. es[1].index \in Nat /\ lsnap.index \in Nat
  BY BatchFacts, StoreFacts
<1>3. CASE es[1].index <= lsnap.index
  <2>1. lentries' = lentries
    BY <1>3 DEF append
  <2>2. first_index' = first_index
    BY <1>1, <2>1 DEF first_index
  <2>. QED  BY <1>1, <2>1, <2>2 DEF StoreInv, StoreTyped, Consecutive, Rising, Joined
<1>4. CASE es[1].index > lsnap.index
  <2>1. PICK p : Spliced(es, p)
    BY <1>4, AppendEffect
  <2>. DEFINE b == first_index
              n == Len(lentries)
              m == Len(es)
              s == lsnap.index
  <2>2. first_index' = b
    BY <1>1, <2>1, SpliceFirst
  <2>3. /\ p \in Nat /\ m \in Nat /\ m > 0 /\ b \in Nat /\ n \in Nat /\ s \in Nat /\ p <= n
        /\ Len(lentries') = p + m /\ lentries' \in Seq(Cells) /\ es \in Seq(Cells)
        /\ es[1].index = b + p /\ s < b + p /\ b >= 1 /\ b <= s + 1
        /\ lsnap.term \in Nat /\ \A k \in 1..n : lentries[k].term \in Nat
        /\ lentries # <<>> <=> n > 0
    BY <1>4, <2>1, StoreFacts DEF Spliced, StoreInv, Joined
  <2>4. \A k \in 1..m : es[k].index = es[1].index + k - 1
    BY <2>1 DEF Spliced
  <2>5. \A k \in 1..m : es[k].term \in Nat
    <3>1. \A k \in 1..m : es[k] \in Cells
      BY <2>3
    <3>. QED  BY <3>1, RaftLogAssumption DEF Cells, LTerms
  <2>6. \A k \in 1..(p + m) : \/ k \in 1..p /\ lentries'[k] = lentries[k]
                              \/ k - p \in 1..m /\ lentries'[k] = es[k - p]
    BY <2>1, SpliceEntry
  <2>7. \A j, k \in 1..m : j <= k => es[j].term <= es[k].term
    <3>1. DOMAIN es = 1..m
      BY <2>3
    <3>2. \A j, k \in 1..m : j < k => es[j].term <= es[k].term
      BY <3>1, Zenon DEF LegalBatch
    <3>. HIDE DEF m
    <3>. QED  BY <2>3, <2>5, <3>2
  <2>8. /\ p > 0 => lentries[p].term <= es[1].term
        /\ p = 0 => lsnap.term <= es[1].term
    <3>1. es[1].term >= term(es[1].index - 1)
      BY <1>4 DEF LegalBatch
    <3>2. es[1].term \in Nat
      BY <2>3, <2>5
    <3>3. CASE p > 0
      <4>1. p \in 1..n
        BY <2>3, <3>3
      <4>2. term(b + p - 1) = lentries[p].term /\ lentries[p].term \in Nat
        BY <2>3, <4>1, TermBefore
      <4>3. es[1].index - 1 = b + p - 1
        BY <2>3
      <4>. QED  BY <3>1, <3>2, <3>3, <4>2, <4>3
    <3>4. CASE p = 0
      <4>1. es[1].index - 1 = s
        BY <2>3, <3>4
      <4>2. term(s) = lsnap.term
        BY TermBefore
      <4>. QED  BY <2>3, <3>1, <3>2, <3>4, <4>1, <4>2
    <3>. QED  BY <2>3, <3>3, <3>4
  <2>9. \A k \in 1..n : lentries[k].index = b + k - 1
    BY DEF StoreInv, Consecutive
  <2>10. \A j, k \in 1..n : j <= k => lentries[j].term <= lentries[k].term
    BY DEF StoreInv, Rising
  <2>11. StoreTyped'
    BY <1>1, <2>3 DEF StoreInv, StoreTyped
  <2>. HIDE DEF b, n, m, s
  <2>12. \A k \in 1..(p + m) : lentries'[k].index = b + k - 1
    <3>. SUFFICES ASSUME NEW k \in 1..(p + m) PROVE lentries'[k].index = b + k - 1
      OBVIOUS
    <3>1. CASE k \in 1..p /\ lentries'[k] = lentries[k]
      <4>1. k \in 1..n
        BY <2>3, <3>1
      <4>. QED  BY <2>9, <3>1, <4>1
    <3>2. CASE k - p \in 1..m /\ lentries'[k] = es[k - p]
      <4>. DEFINE i == k - p
      <4>1. i \in 1..m /\ p + i = k /\ lentries'[k] = es[i] /\ i \in Nat
        BY <2>3, <3>2
      <4>. HIDE DEF i
      <4>2. es[i].index = es[1].index + i - 1
        BY <2>4, <4>1
      <4>. QED  BY <2>3, <4>1, <4>2
    <3>. QED  BY <2>6, <3>1, <3>2
  <2>13. ASSUME NEW j \in 1..(p + m), NEW k \in 1..(p + m), j <= k
         PROVE  lentries'[j].term <= lentries'[k].term
    <3>1. CASE k \in 1..p /\ lentries'[k] = lentries[k]
      <4>1. j \in 1..n /\ k \in 1..n /\ lentries'[j] = lentries[j]
        BY <2>3, <2>6, <2>13, <3>1
      <4>. QED  BY <2>10, <2>13, <3>1, <4>1
    <3>2. CASE k - p \in 1..m /\ lentries'[k] = es[k - p]
      <4>. DEFINE h == k - p
      <4>1. h \in 1..m /\ lentries'[k] = es[h] /\ 1 \in 1..m /\ 1 <= h
        BY <2>3, <3>2
      <4>2. CASE j \in 1..p /\ lentries'[j] = lentries[j]
        <5>1. j \in 1..n /\ p \in 1..n /\ j <= p /\ p > 0
          BY <2>3, <4>2
        <5>2. lentries[j].term <= lentries[p].term
          BY <2>10, <5>1
        <5>3. lentries[p].term <= es[1].term
          BY <2>8, <5>1
        <5>. HIDE DEF h
        <5>4. es[1].term <= es[h].term
          BY <2>7, <4>1
        <5>5. lentries[j].term \in Nat /\ lentries[p].term \in Nat /\ es[1].term \in Nat
              /\ es[h].term \in Nat
          BY <2>3, <2>5, <4>1, <5>1
        <5>. QED  BY <4>1, <4>2, <5>2, <5>3, <5>4, <5>5
      <4>3. CASE j - p \in 1..m /\ lentries'[j] = es[j - p]
        <5>. DEFINE i == j - p
        <5>1. i \in 1..m /\ i <= h /\ lentries'[j] = es[i]
          BY <2>3, <2>13, <4>3
        <5>. HIDE DEF h, i
        <5>. QED  BY <2>7, <4>1, <5>1
      <4>. QED  BY <2>6, <4>2, <4>3
    <3>. QED  BY <2>6, <3>1, <3>2
  <2>14. b <= s => lentries'[s - b + 1].term = lsnap.term
    <3>1. b <= s => lentries[s - b + 1].term = lsnap.term
      BY DEF StoreInv, Joined, b, s
    <3>2. b <= s => s - b + 1 \in 1..p /\ s - b + 1 \in 1..(p + m)
      BY <2>3
    <3>3. b <= s => lentries'[s - b + 1] = lentries[s - b + 1]
      BY <2>1, <3>2 DEF Spliced
    <3>. QED  BY <3>1, <3>3
  <2>15. b = s + 1 => lentries'[1].term >= lsnap.term
    <3>1. CASE p = 0
      <4>1. 1 \in 1..(p + m) /\ 1 - p = 1 /\ ~(1 \in 1..p)
        BY <2>3, <3>1
      <4>2. lentries'[1] = es[1]
        BY <2>6, <4>1
      <4>3. es[1].term \in Nat
        BY <2>3, <2>5
      <4>. QED  BY <2>3, <2>8, <3>1, <4>2, <4>3
    <3>2. CASE p > 0
      <4>1. 1 \in 1..p /\ n > 0
        BY <2>3, <3>2
      <4>2. lentries'[1] = lentries[1]
        BY <2>1, <4>1 DEF Spliced
      <4>3. b = s + 1 => lentries[1].term >= lsnap.term
        BY <2>3, <4>1 DEF StoreInv, Joined, b, s
      <4>. QED  BY <4>2, <4>3
    <3>. QED  BY <2>3, <3>1, <3>2
  <2>16. Consecutive' /\ Rising'
    BY <2>2, <2>3, <2>12, <2>13 DEF Consecutive, Rising
  <2>17. Joined'
    <3>1. s = 0 => lsnap.term = 0
      BY DEF StoreInv, Joined, s
    <3>2. lsnap'.index = s /\ lsnap'.term = lsnap.term
      BY <1>1 DEF s
    <3>3. b + (p + m) - 1 >= s
      BY <2>3
    <3>. QED  BY <2>2, <2>3, <2>14, <2>15, <3>1, <3>2, <3>3 DEF Joined
  <2>. QED  BY <2>11, <2>16, <2>17 DEF StoreInv
<1>. QED  BY <1>2, <1>3, <1>4

\* Where the caller compacts: up to the snapshot, or past the end.
CompactPoints == (0..lsnap.index) \cup {LMaxIndex + 1}

\* What a compaction does, when it does anything: it drops the d entries up to
\* the snapshot.
Dropped(d) ==
    /\ d \in 0..Len(lentries) /\ lsnap.index + 1 = first_index + d
    /\ lentries' \in Seq(Cells) /\ Len(lentries') = Len(lentries) - d
    /\ \A i \in 1..(Len(lentries) - d) : lentries'[i] = lentries[i + d]

LEMMA CompactEffect ==
    ASSUME StoreInv, NEW k \in CompactPoints, compact(k)
    PROVE  /\ lsnap' = lsnap /\ lhard' = lhard /\ lans' \in {"ok", "err", "panic"}
           /\ lentries' = lentries \/ \E d : Dropped(d)
<1>. DEFINE b == first_index
            n == Len(lentries)
            s == lsnap.index
            d == s + 1 - b
<1>1. lsnap' = lsnap /\ lhard' = lhard /\ lans' \in {"ok", "err", "panic"}
  BY DEF compact
<1>2. \/ lentries' = lentries
      \/ /\ k >= s /\ k <= last_index /\ lentries # <<>>
         /\ lentries' = SubSeq(lentries, KeptFrom(k) - lentries[1].index + 1, n)
  BY Zenon DEF compact
<1>3. ASSUME k >= s, k <= last_index, lentries # <<>>,
             lentries' = SubSeq(lentries, KeptFrom(k) - lentries[1].index + 1, n)
      PROVE  Dropped(d)
  <2>1. /\ lentries \in Seq(Cells) /\ n \in Nat /\ b \in Nat /\ s \in Nat
        /\ b = lentries[1].index /\ b <= s + 1 /\ b + n - 1 >= s
        /\ last_index = b + n - 1 /\ last_index <= LMaxIndex
    BY <1>3, StoreFacts, LastIndex DEF StoreInv, Joined
  <2>2. k = s
    BY <1>3, <2>1, RaftLogAssumption DEF CompactPoints
  <2>3. KeptFrom(k) - lentries[1].index + 1 = s + 1 - b + 1
    BY <2>1, <2>2, SMTT(40) DEF KeptFrom
  <2>. HIDE DEF b, s, n
  <2>4. d \in 0..n /\ s + 1 = b + d /\ s + 1 - b + 1 = d + 1
    <3>1. n \in Nat /\ b \in Nat /\ s \in Nat /\ b <= s + 1 /\ b + n - 1 >= s
      BY <2>1
    <3>2. s + 1 - b \in Int /\ s + 1 - b >= 0 /\ s + 1 - b <= n
      BY <3>1
    <3>. QED  BY <3>1, <3>2
  <2>. HIDE DEF d
  <2>5. lentries' = SubSeq(lentries, d + 1, n)
    BY <1>3, <2>3, <2>4
  <2>6. /\ SubSeq(lentries, d + 1, n) \in Seq(Cells)
        /\ Len(SubSeq(lentries, d + 1, n)) = n - d
    BY <2>1, <2>4, SubSeqProperties, SMTT(40) DEF n
  <2>7. \A i \in 1..(n - d) : SubSeq(lentries, d + 1, n)[i] = lentries[i + d]
    <3>. SUFFICES ASSUME NEW i \in 1..(n - d)
                  PROVE  SubSeq(lentries, d + 1, n)[i] = lentries[i + d]
      OBVIOUS
    <3>1. SubSeq(lentries, d + 1, n)[i] = lentries[(d + 1) + i - 1]
      BY <2>1, <2>4 DEF n
    <3>2. (d + 1) + i - 1 = i + d
      BY <2>1, <2>4
    <3>. QED  BY <3>1, <3>2
  <2>. QED  BY <2>1, <2>4, <2>5, <2>6, <2>7 DEF Dropped, b, s, n
<1>. QED  BY <1>1, <1>2, <1>3

\* After the drop the entries start right behind the snapshot.
LEMMA DropFirst ==
    ASSUME StoreInv, NEW d, Dropped(d), lsnap' = lsnap
    PROVE  first_index' = lsnap.index + 1
<1>. DEFINE n == Len(lentries)
<1>1. /\ d \in Nat /\ n \in Nat /\ d <= n /\ lsnap.index + 1 = first_index + d
      /\ lentries' \in Seq(Cells) /\ Len(lentries') = n - d
      /\ first_index \in Nat /\ lsnap.index \in Nat
      /\ \A i \in 1..(n - d) : lentries'[i] = lentries[i + d]
  BY StoreFacts DEF Dropped
<1>2. CASE lentries' = <<>>
  BY <1>2 DEF first_index
<1>3. CASE lentries' # <<>>
  <2>1. 1 \in 1..(n - d) /\ 1 + d \in 1..n
    BY <1>1, <1>3
  <2>2. lentries'[1] = lentries[1 + d]
    BY <1>1, <2>1
  <2>3. lentries[1 + d].index = first_index + (1 + d) - 1
    BY <2>1 DEF StoreInv, Consecutive
  <2>4. first_index' = lentries'[1].index
    BY <1>3 DEF first_index
  <2>. QED  BY <1>1, <2>2, <2>3, <2>4
<1>. QED  BY <1>2, <1>3

LEMMA CompactKeeps ==
    ASSUME StoreInv, NEW k \in CompactPoints, compact(k)
    PROVE  StoreInv'
<1>1. /\ lsnap' = lsnap /\ lhard' = lhard /\ lans' \in {"ok", "err", "panic"}
      /\ lentries' = lentries \/ \E d : Dropped(d)
  BY CompactEffect
<1>2. CASE lentries' = lentries
  <2>1. first_index' = first_index
    BY <1>1, <1>2 DEF first_index
  <2>. QED  BY <1>1, <1>2, <2>1 DEF StoreInv, StoreTyped, Consecutive, Rising, Joined
<1>3. CASE \E d : Dropped(d)
  <2>1. PICK d : Dropped(d)
    BY <1>3
  <2>. DEFINE b == first_index
              n == Len(lentries)
              s == lsnap.index
  <2>2. first_index' = s + 1
    BY <1>1, <2>1, DropFirst
  <2>3. /\ d \in Nat /\ n \in Nat /\ d <= n /\ s + 1 = b + d /\ b \in Nat /\ s \in Nat
        /\ lentries' \in Seq(Cells) /\ Len(lentries') = n - d /\ b >= 1
        /\ \A i \in 1..(n - d) : lentries'[i] = lentries[i + d]
        /\ lsnap.term \in Nat /\ \A i \in 1..n : lentries[i].term \in Nat
        /\ lentries # <<>> <=> n > 0
    BY <2>1, StoreFacts DEF Dropped, StoreInv, Joined
  <2>4. \A i \in 1..n : lentries[i].index = b + i - 1
    BY DEF StoreInv, Consecutive
  <2>5. \A i, j \in 1..n : i <= j => lentries[i].term <= lentries[j].term
    BY DEF StoreInv, Rising
  <2>6. StoreTyped'
    BY <1>1, <2>3 DEF StoreInv, StoreTyped
  <2>7. /\ b <= s => lentries[s - b + 1].term = lsnap.term
        /\ b = s + 1 /\ n > 0 => lentries[1].term >= lsnap.term
        /\ s = 0 => lsnap.term = 0
    BY <2>3 DEF StoreInv, Joined
  <2>8. lsnap'.index = s /\ lsnap'.term = lsnap.term
    BY <1>1
  <2>. HIDE DEF b, n, s
  <2>9. \A i \in 1..(n - d) : lentries'[i].index = (s + 1) + i - 1
    <3>. SUFFICES ASSUME NEW i \in 1..(n - d) PROVE lentries'[i].index = (s + 1) + i - 1
      OBVIOUS
    <3>. DEFINE h == i + d
    <3>1. h \in 1..n /\ lentries'[i] = lentries[h] /\ b + h - 1 = (s + 1) + i - 1
      BY <2>3
    <3>. HIDE DEF h
    <3>. QED  BY <2>4, <3>1
  <2>10. ASSUME NEW i \in 1..(n - d), NEW j \in 1..(n - d), i <= j
         PROVE  lentries'[i].term <= lentries'[j].term
    <3>. DEFINE g == i + d
                h == j + d
    <3>1. g \in 1..n /\ h \in 1..n /\ g <= h /\ lentries'[i] = lentries[g] /\ lentries'[j] = lentries[h]
      BY <2>3, <2>10
    <3>. HIDE DEF g, h
    <3>. QED  BY <2>5, <3>1
  <2>11. lentries' # <<>> => lentries'[1].term >= lsnap.term
    <3>. SUFFICES ASSUME lentries' # <<>> PROVE lentries'[1].term >= lsnap.term
      OBVIOUS
    <3>1. 1 \in 1..(n - d) /\ 1 + d \in 1..n
      BY <2>3
    <3>2. lentries'[1] = lentries[1 + d] /\ lentries[1 + d].term \in Nat
      BY <2>3, <3>1
    <3>3. CASE d = 0
      BY <2>3, <2>7, <3>1, <3>2, <3>3
    <3>4. CASE d > 0
      <4>1. s - b + 1 = d /\ b <= s /\ d \in 1..n /\ d <= 1 + d
        BY <2>3, <3>4
      <4>2. lentries[d].term = lsnap.term
        BY <2>7, <4>1
      <4>3. lentries[d].term <= lentries[1 + d].term
        BY <2>5, <3>1, <4>1
      <4>. QED  BY <2>3, <3>2, <4>2, <4>3
    <3>. QED  BY <2>3, <3>3, <3>4
  <2>12. Consecutive' /\ Rising'
    BY <2>2, <2>3, <2>9, <2>10 DEF Consecutive, Rising
  <2>13. Joined'
    <3>1. (s + 1) + (n - d) - 1 >= s /\ s + 1 >= 1 /\ ~(s + 1 <= s)
      BY <2>3
    <3>. QED  BY <2>2, <2>3, <2>7, <2>8, <2>11, <3>1 DEF Joined
  <2>. QED  BY <2>6, <2>12, <2>13 DEF StoreInv
<1>. QED  BY <1>1, <1>2, <1>3

\* A step that leaves the entries and the snapshot alone keeps the invariant.
LEMMA SameStore ==
    ASSUME StoreInv, lentries' = lentries, lsnap' = lsnap,
           lhard' \in [term : 0..LMaxTerm, commit : 0..LMaxIndex],
           lans' \in {"ok", "err", "panic"}
    PROVE  StoreInv' /\ first_index' = first_index
<1>1. first_index' = first_index
  BY DEF first_index
<1>. QED  BY <1>1 DEF StoreInv, StoreTyped, Consecutive, Rising, Joined

\* What create_snapshot does when it accepts: it takes the term of an entry.
LEMMA CreateEffect ==
    ASSUME StoreInv, NEW i \in Indices, i > lsnap.index, term(i) # Unreadable
    PROVE  /\ first_index <= i /\ i <= last_index /\ lentries # <<>>
           /\ i - first_index + 1 \in 1..Len(lentries)
           /\ term(i) = lentries[i - first_index + 1].term
           /\ i \in Window
<1>1. i \in DOMAIN Readable
  BY DEF Readable
<1>2. i \in Window
  BY <1>1, ReadableWindow
<1>3. /\ i \in Nat /\ lsnap.index \in Nat /\ first_index \in Nat /\ Len(lentries) \in Nat
      /\ last_index = first_index + Len(lentries) - 1
      /\ lentries # <<>> <=> Len(lentries) > 0
  BY StoreFacts, LastIndex, RaftLogAssumption DEF Indices
<1>4. first_index <= i /\ i <= last_index
  BY <1>2, <1>3 DEF Window
<1>5. term(i) = lentries[i - first_index + 1].term
  BY <1>2, <1>4, ReadableWindow
<1>6. lentries # <<>> /\ i - first_index + 1 \in 1..Len(lentries)
  BY <1>3, <1>4
<1>. QED  BY <1>2, <1>4, <1>5, <1>6

LEMMA CreateKeeps ==
    ASSUME StoreInv, NEW i \in Indices, create_snapshot(i)
    PROVE  StoreInv'
<1>1. lhard' = lhard /\ lentries' = lentries /\ lans' \in {"ok", "err", "panic"}
  BY DEF create_snapshot
<1>2. lhard' \in [term : 0..LMaxTerm, commit : 0..LMaxIndex]
  BY <1>1 DEF StoreInv, StoreTyped
<1>3. CASE lsnap' = lsnap
  BY <1>1, <1>2, <1>3, SameStore
<1>4. CASE /\ i > lsnap.index /\ term(i) # Unreadable
           /\ lsnap' = [index |-> i, term |-> term(i)]
  <2>. DEFINE b == first_index
              n == Len(lentries)
              t == term(i)
  <2>1. /\ b <= i /\ i <= last_index /\ lentries # <<>>
        /\ i - b + 1 \in 1..n /\ t = lentries[i - b + 1].term
    BY <1>4, CreateEffect
  <2>2. /\ b \in Nat /\ n \in Nat /\ b >= 1 /\ last_index = b + n - 1 /\ lentries \in Seq(Cells)
        /\ i \in Nat /\ i \in 0..LMaxIndex /\ i # 0
    BY StoreFacts, LastIndex, RaftLogAssumption DEF StoreInv, Joined, Indices
  <2>3. first_index' = b
    BY <1>1, <2>1 DEF first_index
  <2>4. lentries[i - b + 1] \in Cells
    BY <2>1, <2>2
  <2>5. t \in LTerms
    BY <2>1, <2>4 DEF Cells
  <2>6. t \in 0..LMaxTerm
    BY <2>5, RaftLogAssumption DEF LTerms
  <2>. HIDE DEF b, n, t
  <2>7. lsnap' = [index |-> i, term |-> t]
    BY <1>4 DEF t
  <2>8. lsnap'.index = i /\ lsnap'.term = t
    BY <2>7
  <2>9. StoreTyped'
    BY <1>1, <1>2, <2>2, <2>6, <2>7 DEF StoreInv, StoreTyped
  <2>10. Consecutive' /\ Rising'
    BY <1>1, <2>3 DEF StoreInv, Consecutive, Rising, b
  <2>11. Joined'
    <3>1. b <= i + 1 /\ b + n - 1 >= i /\ b # i + 1 /\ i # 0
      BY <2>1, <2>2
    <3>. QED  BY <1>1, <2>1, <2>2, <2>3, <2>8, <3>1 DEF Joined, n
  <2>. QED  BY <2>9, <2>10, <2>11 DEF StoreInv
<1>. QED  BY <1>3, <1>4 DEF create_snapshot

LEMMA ApplyKeeps ==
    ASSUME StoreInv, NEW i \in Indices, NEW t \in LTerms, apply_snapshot(i, t)
    PROVE  StoreInv'
<1>1. CASE lentries' = lentries /\ lsnap' = lsnap /\ lhard' = lhard /\ lans' = "err"
  <2>1. lhard' \in [term : 0..LMaxTerm, commit : 0..LMaxIndex]
    BY <1>1 DEF StoreInv, StoreTyped
  <2>. QED  BY <1>1, <2>1, SameStore
<1>2. CASE /\ lsnap' = [index |-> i, term |-> t] /\ lhard' = [term |-> t, commit |-> i]
           /\ lentries' = <<>> /\ lans' = "ok"
  <2>1. i \in Nat /\ i \in 0..LMaxIndex /\ i >= 1 /\ t \in 0..LMaxTerm /\ i # 0
    BY RaftLogAssumption DEF Indices, LTerms
  <2>2. lsnap'.index = i /\ lsnap'.term = t
    BY <1>2
  <2>3. first_index' = i + 1
    BY <1>2, <2>2 DEF first_index
  <2>4. Len(lentries') = 0
    BY <1>2
  <2>5. StoreTyped'
    BY <1>2, <2>1 DEF StoreTyped
  <2>6. Consecutive' /\ Rising'
    BY <2>4 DEF Consecutive, Rising
  <2>7. i + 1 >= 1 /\ i + 1 <= i + 1 /\ i + 1 + 0 - 1 >= i /\ ~(i + 1 <= i)
    BY <2>1
  <2>8. Joined'
    BY <1>2, <2>1, <2>2, <2>3, <2>4, <2>7 DEF Joined
  <2>. QED  BY <2>5, <2>6, <2>8 DEF StoreInv
<1>. QED  BY <1>1, <1>2 DEF apply_snapshot

LEMMA HardStateKeeps ==
    ASSUME StoreInv, NEW t \in LTerms, NEW c \in 0..LMaxIndex, set_hard_state(t, c)
    PROVE  StoreInv'
<1>1. t \in 0..LMaxTerm
  BY RaftLogAssumption DEF LTerms
<1>2. lhard' = [term |-> t, commit |-> c] /\ lans' = "ok" /\ lentries' = lentries /\ lsnap' = lsnap
  BY DEF set_hard_state
<1>. QED  BY <1>1, <1>2, SameStore

LEMMA StoreInit == LogInit => StoreInv
<1>. SUFFICES ASSUME LogInit PROVE StoreInv
  OBVIOUS
<1>1. /\ lentries = <<>> /\ Len(lentries) = 0 /\ lsnap = [index |-> 0, term |-> 0]
      /\ lhard = [term |-> 0, commit |-> 0] /\ lans = "ok"
  BY DEF LogInit
<1>2. lsnap.index = 0 /\ lsnap.term = 0
  BY <1>1
<1>3. first_index = 1
  BY <1>1, <1>2 DEF first_index
<1>4. StoreTyped
  BY <1>1, RaftLogAssumption DEF StoreTyped
<1>. QED  BY <1>1, <1>2, <1>3, <1>4 DEF StoreInv, Consecutive, Rising, Joined

LEMMA StoreNext == StoreInv /\ [LogNext]_LogVars => StoreInv'
<1>. SUFFICES ASSUME StoreInv, [LogNext]_LogVars PROVE StoreInv'
  OBVIOUS
<1>1. CASE \E es \in Batches : LegalBatch(es) /\ append(es)
  BY <1>1, AppendKeeps
<1>2. CASE \E t \in LTerms, c \in 0..LMaxIndex : set_hard_state(t, c)
  BY <1>2, HardStateKeeps
<1>3. CASE \E k \in (0..lsnap.index) \cup {LMaxIndex + 1} : compact(k)
  BY <1>3, CompactKeeps DEF CompactPoints
<1>4. CASE \E i \in Indices : create_snapshot(i)
  BY <1>4, CreateKeeps
<1>5. CASE \E i \in Indices, t \in LTerms : apply_snapshot(i, t)
  BY <1>5, ApplyKeeps
<1>6. CASE UNCHANGED LogVars
  <2>1. lentries' = lentries /\ lsnap' = lsnap /\ lhard' = lhard /\ lans' = lans
    BY <1>6 DEF LogVars
  <2>. QED  BY <2>1, SameStore DEF StoreInv, StoreTyped
<1>. QED  BY <1>1, <1>2, <1>3, <1>4, <1>5, <1>6 DEF LogNext

LEMMA StoreKept == LogSpec => []StoreInv
<1>. QED  BY StoreInit, StoreNext, PTL DEF LogSpec

-----------------------------------------------------------------------------
\* What can be read, and its limits: stated once to be used before and after a
\* step.
Reads ==
    /\ Readable = [j \in Window |-> Readable[j]]
    /\ \A j \in Window : first_index <= j => Readable[j] = lentries[j - first_index + 1].term
    /\ \A j \in Window : j = lsnap.index => Readable[j] = lsnap.term
    /\ \A i, j \in Window : i < j => Readable[i] <= Readable[j]
    /\ first_index \in Nat /\ first_index >= 1 /\ first_index <= lsnap.index + 1
    /\ lsnap.index \in Nat /\ lsnap.index <= last_index
    /\ Len(lentries) \in Nat /\ last_index = first_index + Len(lentries) - 1
    /\ last_index <= LMaxIndex
    /\ \A j \in Window : j \in Nat /\ j >= 1
    /\ \A j \in Nat : j \in Window <=> j >= 1 /\ (j = lsnap.index \/ (first_index <= j /\ j <= last_index))

LEMMA ReadsNow == StoreInv => Reads
<1>. SUFFICES ASSUME StoreInv PROVE Reads
  OBVIOUS
<1>1. DOMAIN Readable = Window
  BY ReadableWindow
<1>2. Readable = [j \in Window |-> Readable[j]]
  BY <1>1 DEF Readable
<1>3. /\ first_index \in Nat /\ first_index >= 1 /\ first_index <= lsnap.index + 1
      /\ lsnap.index \in Nat /\ lsnap.index <= last_index
      /\ Len(lentries) \in Nat /\ last_index = first_index + Len(lentries) - 1
      /\ last_index <= LMaxIndex /\ LMaxIndex \in Nat
  BY StoreFacts, LastIndex, RaftLogAssumption DEF StoreInv, Joined
<1>4. \A j \in Window : j \in Nat /\ j >= 1
  BY RaftLogAssumption DEF Window, Indices
<1>5. \A j \in Nat : j \in Window <=> j >= 1 /\ (j = lsnap.index \/ (first_index <= j /\ j <= last_index))
  BY <1>3 DEF Window, Indices
<1>. QED  BY <1>2, <1>3, <1>4, <1>5, ReadableWindow, ReadableRises DEF Reads

LEMMA ReadsNext == (StoreInv => Reads)'
<1>. QED  BY ReadsNow, PTL

LEMMA SameReads ==
    ASSUME lentries' = lentries, lsnap' = lsnap
    PROVE  Readable' = Readable /\ last_index' = last_index
<1>1. first_index' = first_index /\ last_index' = last_index
  BY DEF first_index, last_index
<1>2. ASSUME NEW i PROVE term(i)' = term(i)
  BY <1>1 DEF term
<1>. QED  BY <1>1, <1>2 DEF Readable

\* An append behind the snapshot replaces the log from its first index on.
LEMMA AppendRefines ==
    ASSUME StoreInv, StoreInv', NEW es \in Batches, LegalBatch(es), append(es)
    PROVE  Abstract!ANext \/ UNCHANGED Abstract!aVars
<1>. DEFINE f == es[1].index
            b == first_index
            z == last_index
            s == lsnap.index
            w == Window
            v == Window'
            r == Readable
            q == Readable'
<1>1. lsnap' = lsnap
  BY DEF append
<1>2. f \in Nat /\ s \in Nat /\ f <= z + 1
  BY BatchFacts, StoreFacts
<1>3. CASE f <= s
  <2>1. lentries' = lentries
    BY <1>3 DEF append
  <2>2. Readable' = Readable /\ last_index' = last_index
    BY <1>1, <2>1, SameReads
  <2>. QED  BY <1>1, <2>2 DEF Abstract!aVars
<1>4. CASE f > s
  <2>1. PICK p : Spliced(es, p)
    BY <1>4, AppendEffect
  <2>. DEFINE m == Len(es)
              n == Len(lentries)
              y == last_index'
              g == lentries
              h == lentries'
  <2>2. p \in Nat /\ m \in Nat /\ m > 0 /\ f = b + p /\ p <= n /\ Len(h) = p + m
    BY <2>1, StoreFacts DEF Spliced
  <2>3. \A k \in 1..p : h[k] = g[k]
    BY <2>1 DEF Spliced
  <2>4. first_index' = b
    BY <1>1, <2>1, SpliceFirst
  <2>5. Reads /\ Reads'
    BY ReadsNow, ReadsNext
  <2>6. /\ b \in Nat /\ b >= 1 /\ b <= s + 1 /\ s \in Nat /\ s <= z /\ n \in Nat
        /\ z = b + n - 1 /\ y = b + (p + m) - 1 /\ z \in Int /\ y \in Int
    <3>1. /\ b \in Nat /\ b >= 1 /\ b <= s + 1 /\ s \in Nat /\ s <= z /\ n \in Nat
          /\ z = b + n - 1
      BY <2>5 DEF Reads
    <3>2. y = b + Len(h) - 1
      BY <2>4, <2>5 DEF Reads
    <3>. HIDE DEF b, s, n, z, y, h, m
    <3>. QED  BY <2>2, <3>1, <3>2
  <2>7. /\ r = [j \in w |-> r[j]]
        /\ \A j \in w : b <= j => r[j] = g[j - b + 1].term
        /\ \A j \in w : j = s => r[j] = lsnap.term
    BY <2>5 DEF Reads
  <2>8. /\ q = [j \in v |-> q[j]]
        /\ \A j \in v : b <= j => q[j] = h[j - b + 1].term
        /\ \A j \in v : j = s => q[j] = lsnap.term
        /\ \A i, j \in v : i < j => q[i] <= q[j]
    BY <1>1, <2>4, <2>5 DEF Reads
  <2>9. /\ \A j \in w : j \in Nat /\ j >= 1
        /\ \A j \in Nat : j \in w <=> j >= 1 /\ (j = s \/ (b <= j /\ j <= z))
        /\ \A j \in v : j \in Nat /\ j >= 1
        /\ \A j \in Nat : j \in v <=> j >= 1 /\ (j = s \/ (b <= j /\ j <= y))
    BY <1>1, <2>4, <2>5 DEF Reads
  <2>. HIDE DEF f, b, z, s, w, v, r, q, m, y, n, g, h
  <2>10. f \in (s + 1)..(z + 1) /\ y >= f /\ y = f + m - 1 /\ f \in Nat /\ f > s
    BY <1>2, <1>4, <2>2, <2>6
  <2>11. v = {i \in w : i < f} \cup (f..y)
    <3>1. ASSUME NEW i \in v PROVE i \in {j \in w : j < f} \cup (f..y)
      <4>1. i \in Nat /\ i >= 1 /\ (i = s \/ (b <= i /\ i <= y))
        BY <2>9
      <4>2. i < f => i = s \/ (b <= i /\ i <= z)
        BY <2>2, <2>6, <2>10, <4>1
      <4>3. ~(i < f) => f <= i /\ i <= y
        BY <2>6, <2>10, <4>1
      <4>4. i < f => i \in w
        BY <2>9, <4>1, <4>2
      <4>. QED  BY <2>6, <2>10, <4>1, <4>3, <4>4
    <3>2. ASSUME NEW i \in w, i < f PROVE i \in v
      <4>1. i \in Nat /\ i >= 1 /\ (i = s \/ (b <= i /\ i <= z))
        BY <2>9
      <4>2. i = s \/ (b <= i /\ i <= y)
        BY <2>2, <2>6, <2>10, <3>2, <4>1
      <4>. QED  BY <2>9, <4>1, <4>2
    <3>3. ASSUME NEW i \in f..y PROVE i \in v
      <4>1. i \in Nat /\ i >= 1 /\ b <= i /\ i <= y
        BY <2>2, <2>6, <2>10
      <4>. QED  BY <2>9, <4>1
    <3>. QED  BY <3>1, <3>2, <3>3
  <2>12. \A i \in v : i < f => i \in w /\ q[i] = r[i]
    <3>. SUFFICES ASSUME NEW i \in v, i < f PROVE i \in w /\ q[i] = r[i]
      OBVIOUS
    <3>1. i \in Nat
      BY <2>9
    <3>2. ~(i \in f..y)
      BY <2>6, <2>10, <3>1
    <3>3. i \in w
      BY <2>11, <3>2
    <3>4. CASE b <= i
      <4>. DEFINE k == i - b + 1
      <4>1. k \in 1..p
        BY <2>2, <2>6, <2>10, <3>1, <3>4
      <4>2. r[i] = g[k].term /\ q[i] = h[k].term
        BY <2>7, <2>8, <3>3, <3>4
      <4>. HIDE DEF k
      <4>3. h[k] = g[k]
        BY <2>3, <4>1
      <4>. QED  BY <3>3, <4>2, <4>3
    <3>5. CASE ~(b <= i)
      <4>1. i = s
        BY <2>9, <3>1, <3>3, <3>5
      <4>. QED  BY <2>7, <2>8, <3>3, <4>1
    <3>. QED  BY <3>4, <3>5
  <2>13. \A i \in w : i < f => i \in v
    BY <2>11
  <2>14. Abstract!Within(q, 1..(f - 1)) = Abstract!Within(r, 1..(f - 1))
    <3>1. DOMAIN q = v /\ DOMAIN r = w
      BY <2>7, <2>8
    <3>2. \A i \in 1..(f - 1) : i < f
      BY <1>2
    <3>3. v \cap 1..(f - 1) = w \cap 1..(f - 1)
      BY <2>12, <2>13, <3>2
    <3>4. \A i \in v \cap 1..(f - 1) : q[i] = r[i]
      BY <2>12, <3>2
    <3>. QED  BY <3>1, <3>3, <3>4 DEF Abstract!Within
  <2>15. DOMAIN q = v /\ DOMAIN r = w
    BY <2>7, <2>8
  <2>16. Abstract!AAppend
    BY <1>1, <2>8, <2>10, <2>11, <2>14, <2>15 DEF Abstract!AAppend, f, z, s, y, q, r
  <2>. QED  BY <2>16 DEF Abstract!ANext
<1>. QED  BY <1>2, <1>3, <1>4

\* What an advance of the snapshot needs: what can be read afterwards could be
\* read before with the same term, and nothing behind the snapshot is lost.
LEMMA AdvanceRefines ==
    ASSUME NEW w, NEW v, NEW r, NEW q, r = [j \in w |-> r[j]], q = [j \in v |-> q[j]],
           \A j \in v : j \in w /\ q[j] = r[j]
    PROVE  DOMAIN q \subseteq DOMAIN r /\ q = Abstract!Within(r, DOMAIN q)
<1>1. DOMAIN q = v /\ DOMAIN r = w
  OBVIOUS
<1>2. w \cap v = v
  OBVIOUS
<1>3. [j \in w \cap v |-> r[j]] = [j \in v |-> q[j]]
  BY <1>2
<1>. QED  BY <1>1, <1>3 DEF Abstract!Within

LEMMA CompactRefines ==
    ASSUME StoreInv, StoreInv', NEW k \in CompactPoints, compact(k)
    PROVE  Abstract!ANext \/ UNCHANGED Abstract!aVars
<1>1. lsnap' = lsnap /\ (lentries' = lentries \/ \E d : Dropped(d))
  BY CompactEffect
<1>2. CASE lentries' = lentries
  BY <1>1, <1>2, SameReads DEF Abstract!aVars
<1>3. CASE \E d : Dropped(d)
  <2>1. PICK d : Dropped(d)
    BY <1>3
  <2>. DEFINE b == first_index
              z == last_index
              y == last_index'
              n == Len(lentries)
              s == lsnap.index
              w == Window
              v == Window'
              r == Readable
              q == Readable'
              g == lentries
              h == lentries'
  <2>2. first_index' = s + 1
    BY <1>1, <2>1, DropFirst
  <2>3. d \in Nat /\ n \in Nat /\ d <= n /\ s + 1 = b + d /\ Len(h) = n - d
    BY <2>1, StoreFacts DEF Dropped
  <2>4. \A i \in 1..(n - d) : h[i] = g[i + d]
    BY <2>1 DEF Dropped
  <2>5. Reads /\ Reads'
    BY ReadsNow, ReadsNext
  <2>6. b \in Nat /\ b >= 1 /\ s \in Nat /\ s <= z /\ z = b + n - 1
    BY <2>5 DEF Reads
  <2>7. y = (s + 1) + Len(h) - 1
    BY <2>2, <2>5 DEF Reads
  <2>8. /\ r = [j \in w |-> r[j]]
        /\ \A j \in w : b <= j => r[j] = g[j - b + 1].term
        /\ \A j \in w : j = s => r[j] = lsnap.term
    BY <2>5 DEF Reads
  <2>9. /\ q = [j \in v |-> q[j]]
        /\ \A j \in v : s + 1 <= j => q[j] = h[j - (s + 1) + 1].term
        /\ \A j \in v : j = s => q[j] = lsnap.term
    BY <1>1, <2>2, <2>5 DEF Reads
  <2>10. /\ \A j \in w : j \in Nat /\ j >= 1
         /\ \A j \in Nat : j \in w <=> j >= 1 /\ (j = s \/ (b <= j /\ j <= z))
         /\ \A j \in v : j \in Nat /\ j >= 1
         /\ \A j \in Nat : j \in v <=> j >= 1 /\ (j = s \/ (s + 1 <= j /\ j <= y))
    BY <1>1, <2>2, <2>5 DEF Reads
  <2>. HIDE DEF b, z, y, n, s, w, v, r, q, g, h
  <2>11. y = z /\ z \in Int
    BY <2>3, <2>6, <2>7
  <2>12. ASSUME NEW j \in v PROVE j \in w /\ q[j] = r[j]
    <3>1. j \in Nat /\ j >= 1 /\ (j = s \/ (s + 1 <= j /\ j <= y))
      BY <2>10
    <3>2. j = s \/ (b <= j /\ j <= z)
      BY <2>3, <2>6, <2>11, <3>1
    <3>3. j \in w
      BY <2>10, <3>1, <3>2
    <3>4. CASE j = s
      BY <2>8, <2>9, <3>3, <3>4
    <3>5. CASE s + 1 <= j
      <4>. DEFINE i == j - (s + 1) + 1
                  x == j - b + 1
      <4>1. i \in 1..(n - d) /\ i + d = x /\ b <= j
        BY <2>3, <2>6, <2>11, <3>1, <3>5
      <4>2. q[j] = h[i].term /\ r[j] = g[x].term
        BY <2>8, <2>9, <3>3, <3>5, <4>1
      <4>. HIDE DEF i, x
      <4>3. h[i] = g[i + d]
        BY <2>4, <4>1
      <4>. QED  BY <3>3, <4>1, <4>2, <4>3
    <3>. QED  BY <3>1, <3>4, <3>5
  <2>13. {i \in w : i >= s} \subseteq v
    <3>. SUFFICES ASSUME NEW i \in w, i >= s PROVE i \in v
      OBVIOUS
    <3>1. i \in Nat /\ i >= 1 /\ (i = s \/ (b <= i /\ i <= z))
      BY <2>10
    <3>2. i = s \/ (s + 1 <= i /\ i <= y)
      BY <2>6, <2>11, <3>1
    <3>. QED  BY <2>10, <3>1, <3>2
  <2>14. DOMAIN q = v /\ DOMAIN r = w
    BY <2>8, <2>9
  <2>15. DOMAIN q \subseteq DOMAIN r /\ q = Abstract!Within(r, DOMAIN q)
    BY <2>8, <2>9, <2>12, AdvanceRefines
  <2>16. {i \in DOMAIN r : i >= s} \subseteq DOMAIN q
    BY <2>13, <2>14
  <2>17. lsnap'.index = s
    BY <1>1 DEF s
  <2>18. Abstract!AAdvance
    BY <2>11, <2>15, <2>16, <2>17 DEF Abstract!AAdvance, z, y, s, r, q
  <2>. QED  BY <2>18 DEF Abstract!ANext
<1>. QED  BY <1>1, <1>2, <1>3

LEMMA CreateRefines ==
    ASSUME StoreInv, StoreInv', NEW i \in Indices, create_snapshot(i)
    PROVE  Abstract!ANext \/ UNCHANGED Abstract!aVars
<1>1. lentries' = lentries
  BY DEF create_snapshot
<1>2. CASE lsnap' = lsnap
  BY <1>1, <1>2, SameReads DEF Abstract!aVars
<1>3. CASE /\ i > lsnap.index /\ term(i) # Unreadable
           /\ lsnap' = [index |-> i, term |-> term(i)]
  <2>. DEFINE b == first_index
              z == last_index
              s == lsnap.index
              w == Window
              v == Window'
              r == Readable
              q == Readable'
              g == lentries
  <2>1. /\ b <= i /\ i <= z /\ g # <<>> /\ i \in w
    BY <1>3, CreateEffect
  <2>2. first_index' = b /\ last_index' = z /\ lsnap'.index = i
    BY <1>1, <1>3, <2>1 DEF first_index, last_index
  <2>3. Reads /\ Reads'
    BY ReadsNow, ReadsNext
  <2>4. b \in Nat /\ b >= 1 /\ s \in Nat /\ s <= z /\ z \in Int
    BY <2>3 DEF Reads
  <2>5. /\ r = [j \in w |-> r[j]]
        /\ \A j \in w : b <= j => r[j] = g[j - b + 1].term
    BY <2>3 DEF Reads
  <2>6. /\ q = [j \in v |-> q[j]]
        /\ \A j \in v : b <= j => q[j] = g[j - b + 1].term
    BY <1>1, <2>2, <2>3 DEF Reads
  <2>7. /\ \A j \in w : j \in Nat /\ j >= 1
        /\ \A j \in Nat : j \in w <=> j >= 1 /\ (j = s \/ (b <= j /\ j <= z))
        /\ \A j \in v : j \in Nat /\ j >= 1
        /\ \A j \in Nat : j \in v <=> j >= 1 /\ (j = i \/ (b <= j /\ j <= z))
    BY <2>2, <2>3 DEF Reads
  <2>. HIDE DEF b, z, s, w, v, r, q, g
  <2>8. i \in Nat /\ i > s
    BY <1>3, <2>1, <2>7 DEF s
  <2>9. ASSUME NEW j \in v PROVE j \in w /\ q[j] = r[j]
    <3>1. j \in Nat /\ j >= 1 /\ b <= j /\ j <= z
      BY <2>1, <2>7
    <3>2. j \in w
      BY <2>7, <3>1
    <3>. QED  BY <2>5, <2>6, <3>1, <3>2
  <2>10. {j \in w : j >= i} \subseteq v
    <3>. SUFFICES ASSUME NEW j \in w, j >= i PROVE j \in v
      OBVIOUS
    <3>1. j \in Nat /\ j >= 1 /\ (j = s \/ (b <= j /\ j <= z))
      BY <2>7
    <3>2. b <= j /\ j <= z
      BY <2>1, <2>4, <2>8, <3>1
    <3>. QED  BY <2>7, <3>1, <3>2
  <2>11. DOMAIN q = v /\ DOMAIN r = w
    BY <2>5, <2>6
  <2>12. DOMAIN q \subseteq DOMAIN r /\ q = Abstract!Within(r, DOMAIN q)
    BY <2>5, <2>6, <2>9, AdvanceRefines
  <2>13. {j \in DOMAIN r : j >= i} \subseteq DOMAIN q
    BY <2>10, <2>11
  <2>14. Abstract!AAdvance
    BY <2>1, <2>2, <2>8, <2>11, <2>12, <2>13 DEF Abstract!AAdvance, z, s, r, q
  <2>. QED  BY <2>14 DEF Abstract!ANext
<1>. QED  BY <1>2, <1>3 DEF create_snapshot

LEMMA ApplyRefines ==
    ASSUME StoreInv, StoreInv', NEW i \in Indices, NEW t \in LTerms, apply_snapshot(i, t)
    PROVE  Abstract!ANext \/ UNCHANGED Abstract!aVars
<1>1. CASE lentries' = lentries /\ lsnap' = lsnap
  BY <1>1, SameReads DEF Abstract!aVars
<1>2. CASE /\ i >= lsnap.index /\ lsnap' = [index |-> i, term |-> t] /\ lentries' = <<>>
  <2>. DEFINE v == Window'
              q == Readable'
  <2>1. lsnap'.index = i /\ first_index' = i + 1 /\ last_index' = i
    BY <1>2 DEF first_index, last_index
  <2>2. Reads'
    BY ReadsNext
  <2>3. q = [j \in v |-> q[j]]
    BY <2>2 DEF Reads
  <2>4. /\ \A j \in v : j \in Nat /\ j >= 1
        /\ \A j \in Nat : j \in v <=> j >= 1 /\ (j = i \/ (i + 1 <= j /\ j <= i))
    BY <2>1, <2>2 DEF Reads
  <2>5. i \in Nat /\ i >= 1
    BY RaftLogAssumption DEF Indices
  <2>. HIDE DEF v, q
  <2>6. v = {i}
    BY <2>4, <2>5
  <2>7. DOMAIN q = {i}
    BY <2>3, <2>6
  <2>8. Abstract!AInstall
    BY <1>2, <2>1, <2>5, <2>7 DEF Abstract!AInstall, q
  <2>. QED  BY <2>8 DEF Abstract!ANext
<1>. QED  BY <1>1, <1>2 DEF apply_snapshot

LEMMA InitRefines == LogInit => Abstract!AInit
<1>. SUFFICES ASSUME LogInit PROVE Abstract!AInit
  OBVIOUS
<1>1. lsnap.index = 0 /\ lentries = <<>> /\ first_index = 1 /\ last_index = 0
  BY DEF LogInit, first_index, last_index
<1>2. Reads
  BY StoreInit, ReadsNow
<1>3. Readable = [j \in Window |-> Readable[j]]
  BY <1>2 DEF Reads
<1>4. Window = {}
  BY <1>1, <1>2 DEF Reads
<1>5. Readable = [j \in {} |-> 0]
  BY <1>3, <1>4
<1>. QED  BY <1>1, <1>5 DEF Abstract!AInit

LEMMA StepRefines ==
    StoreInv /\ StoreInv' /\ [LogNext]_LogVars => [Abstract!ANext]_(Abstract!aVars)
<1>. SUFFICES ASSUME StoreInv, StoreInv', [LogNext]_LogVars
              PROVE  Abstract!ANext \/ UNCHANGED Abstract!aVars
  OBVIOUS
<1>1. CASE \E es \in Batches : LegalBatch(es) /\ append(es)
  BY <1>1, AppendRefines
<1>2. CASE \E t \in LTerms, c \in 0..LMaxIndex : set_hard_state(t, c)
  <2>1. lentries' = lentries /\ lsnap' = lsnap
    BY <1>2 DEF set_hard_state
  <2>. QED  BY <2>1, SameReads DEF Abstract!aVars
<1>3. CASE \E k \in (0..lsnap.index) \cup {LMaxIndex + 1} : compact(k)
  BY <1>3, CompactRefines DEF CompactPoints
<1>4. CASE \E i \in Indices : create_snapshot(i)
  BY <1>4, CreateRefines
<1>5. CASE \E i \in Indices, t \in LTerms : apply_snapshot(i, t)
  BY <1>5, ApplyRefines
<1>6. CASE UNCHANGED LogVars
  <2>1. lentries' = lentries /\ lsnap' = lsnap
    BY <1>6 DEF LogVars
  <2>. QED  BY <2>1, SameReads DEF Abstract!aVars
<1>. QED  BY <1>1, <1>2, <1>3, <1>4, <1>5, <1>6 DEF LogNext

\* MemStorage implements the abstract log of RaftLogSpec, whatever the bounds
\* on indices, terms and batches: no sequence of appends, snapshots,
\* compactions and installations changes a settled term, moves the snapshot
\* back, loses an entry behind it or keeps one that was truncated.
THEOREM StoreImplementsLog == LogSpec => LogRefines
<1>1. LogSpec => []StoreInv
  BY StoreKept
<1>2. LogInit => Abstract!AInit
  BY InitRefines
<1>3. StoreInv /\ StoreInv' /\ [LogNext]_LogVars => [Abstract!ANext]_(Abstract!aVars)
  BY StepRefines
<1>. QED  BY <1>1, <1>2, <1>3, PTL DEF LogSpec, LogRefines, Abstract!ASpec

-----------------------------------------------------------------------------
LEMMA InvReads == StoreInv => LogTypeOK /\ EntriesAgree
<1>. SUFFICES ASSUME StoreInv PROVE LogTypeOK /\ EntriesAgree
  OBVIOUS
<1>. DEFINE b == first_index
            n == Len(lentries)
            g == lentries
<1>1. /\ g \in Seq(Cells) /\ n \in Nat /\ b \in Nat /\ last_index = b + n - 1 /\ b >= 1
      /\ g # <<>> => b = g[1].index
  BY StoreFacts, LastIndex DEF StoreInv, Joined
<1>2. DOMAIN g = 1..n /\ \A k \in 1..n : g[k] \in Cells
  BY <1>1
<1>3. LogTypeOK
  BY <1>2 DEF LogTypeOK, Cells, StoreInv, StoreTyped
<1>4. \A k \in 1..n : g[k].index = b + k - 1 /\ g[k].term = term(b + k - 1)
  BY TermBefore DEF StoreInv, Consecutive
<1>5. ASSUME NEW low \in 1..(LMaxIndex + 1), NEW high \in 1..(LMaxIndex + 1), NEW max \in 0..2,
             entries_answer(low, high) = "ok"
      PROVE  /\ low < high => entries(low, high, max) # <<>>
             /\ \A k \in DOMAIN entries(low, high, max) :
                   /\ entries(low, high, max)[k].index = low + k - 1
                   /\ entries(low, high, max)[k].term = term(low + k - 1)
  <2>. DEFINE o == low - b
              t == TakenOf(high - low, max)
              got == SubSeq(g, o + 1, o + t)
  <2>1. ~(low > high) /\ ~(low < b) /\ ~(high > last_index + 1) /\ g # <<>>
    BY <1>5 DEF entries_answer
  <2>2. low \in Nat /\ high \in Nat /\ max \in Nat
    BY RaftLogAssumption
  <2>3. entries(low, high, max) = got
    BY <1>1, <2>1 DEF entries
  <2>. HIDE DEF b, n, g
  <2>4. t \in Nat /\ t <= high - low /\ (low < high => t > 0)
    BY <2>1, <2>2 DEF TakenOf
  <2>. HIDE DEF t
  <2>5. o \in Nat /\ o + t <= n /\ o + t \in Int /\ low = b + o
    BY <1>1, <2>1, <2>2, <2>4
  <2>. HIDE DEF o
  <2>6. got \in Seq(Cells) /\ Len(got) = t
    <3>1. \A i \in (o + 1)..(o + t) : g[i] \in Cells
      BY <1>1, <1>2, <2>4, <2>5
    <3>2. /\ SubSeq(g, o + 1, o + t) \in Seq(Cells)
          /\ Len(SubSeq(g, o + 1, o + t)) = IF o + 1 <= o + t THEN (o + t) - (o + 1) + 1 ELSE 0
      BY <2>4, <2>5, <3>1, SubSeqProperties
    <3>. QED  BY <2>4, <2>5, <3>2
  <2>7. ASSUME NEW k \in 1..t PROVE got[k] = g[o + k] /\ o + k \in 1..n
    <3>1. o + k \in 1..n /\ (o + 1) + k - 1 = o + k /\ o + 1 >= 1
      BY <1>1, <2>4, <2>5
    <3>2. got[k] = g[(o + 1) + k - 1]
      BY <1>1, <2>4, <2>5, <2>6 DEF n
    <3>. QED  BY <3>1, <3>2
  <2>8. ASSUME NEW k \in 1..t
        PROVE  got[k].index = low + k - 1 /\ got[k].term = term(low + k - 1)
    <3>. DEFINE x == o + k
    <3>1. got[k] = g[x] /\ x \in 1..n
      BY <2>7
    <3>2. low + k - 1 = b + x - 1
      BY <1>1, <2>4, <2>5
    <3>. HIDE DEF x
    <3>3. g[x].index = b + x - 1 /\ g[x].term = term(b + x - 1)
      BY <1>4, <3>1
    <3>. QED  BY <3>1, <3>2, <3>3
  <2>9. DOMAIN got = 1..t
    BY <2>6
  <2>. HIDE DEF got
  <2>10. low < high => got # <<>>
    <3>1. Len(<<>>) = 0
      OBVIOUS
    <3>. QED  BY <2>4, <2>6, <3>1
  <2>. QED  BY <2>3, <2>8, <2>9, <2>10
<1>. QED  BY <1>3, <1>5 DEF EntriesAgree

\* Entries and term() read the same log: whatever was appended, truncated,
\* compacted or installed, a range that is answered starts at its first index,
\* is consecutive and carries the terms that term() answers (MemStorage).
THEOREM StoreReadsAgree == LogSpec => [](LogTypeOK /\ EntriesAgree)
<1>. QED  BY StoreKept, InvReads, PTL

-----------------------------------------------------------------------------
(* The replicated state machine.  What the log makes of an empty machine   *)
(* is written without recursion (After): the last command about a name     *)
(* decides.  Entries behind the commit index are applied again with the    *)
(* next batch, so a node is ahead of raft.last_applied (Replayed), and a   *)
(* batch that ends at k leaves what the log gives up to k although it      *)
(* starts with entries the machine already has (AppliedAgain).             *)

Creates(cmd, n) == cmd.op = "create" /\ cmd.arg = n
Deletes(cmd, n) == cmd.op = "delete" /\ cmd.arg = n

\* The collections there are when the entries first..i of the log l were
\* applied to the collections c: the last command about a name decides.
After(l, c, first, i) ==
    {n \in ZColls :
        \/ \E k \in first..i : Creates(l[k], n) /\ \A j \in (k + 1)..i : ~Deletes(l[j], n)
        \/ n \in c /\ \A j \in first..i : ~Deletes(l[j], n)}

CollsAt(l, i) == After(l, {}, 1, i)

\* Applied in the order of the log, none of the entries up to i fails.
Applicable(l, i) ==
    \A k \in 1..i : /\ l[k].op \notin {"undecodable", "bad_address"}
                    /\ l[k].op = "delete" => l[k].arg \in CollsAt(l, k - 1)

Machine == [colls : SUBSET ZColls, peers : SUBSET ZPeers, last : Nat]

StateTyped ==
    /\ zlog \in Seq(Commands)
    /\ zraft \in [ZReplicas -> Nat] /\ zseen \in [ZReplicas -> Nat]
    /\ zmachine \in [ZReplicas -> Machine]
    /\ zfailed \in [ZReplicas -> SUBSET Nat] /\ zdone \in [ZReplicas -> SUBSET Nat]
    /\ \A r \in ZReplicas : /\ zraft[r] <= zseen[r] /\ zseen[r] <= Len(zlog)
                            /\ zmachine[r].last <= zseen[r]
    /\ zpending \subseteq 1..Len(zlog)

\* The machine m is what the entries 1..s of the log make of an empty one: none
\* of them fails, and last_applied is behind all of them but empty ones.
ReplayOf(m, s) ==
    /\ m.colls = CollsAt(zlog, s)
    /\ Applicable(zlog, s)
    /\ m.last <= s /\ \A i \in (m.last + 1)..s : zlog[i].op = "empty"

\* It consumed more than raft.last_applied says, and only what it has.
Replayed(r) == \E s \in zraft[r]..zseen[r] : ReplayOf(zmachine[r], s)

StateInv ==
    /\ StateTyped
    /\ \A r \in ZReplicas : zfailed[r] = {} => Replayed(r)
    /\ AnsweredApplied

Outcomes == [m : Machine, stopped : Nat]

\* What a command that does not fail makes of the collections.
Changed(c, cmd) ==
    {n \in ZColls : Creates(cmd, n) \/ (n \in c /\ ~Deletes(cmd, n))}

\* f is what is left of a batch after each of its entries.
Applies(f, m, first, last) ==
    /\ f \in [(first - 1)..last -> Outcomes]
    /\ f[first - 1].m = m /\ f[first - 1].stopped = 0
    /\ \A k \in first..last : f[k] = apply_entry(f[k - 1], k)

LEMMA SmallestNumber ==
    ASSUME NEW S \in SUBSET Nat, S # {}
    PROVE  \E x \in S : \A y \in S : x <= y
<1>1. PICK x \in S : \A y \in S : <<y, x>> \notin OpToRel(<, Nat)
  BY NatLessThanWellFounded, WFMin, Zenon
<1>2. ASSUME NEW y \in S PROVE x <= y
  <2>1. <<y, x>> \notin {q \in Nat \X Nat : q[1] < q[2]}
    BY <1>1, Zenon DEF OpToRel
  <2>. QED  BY <2>1
<1>. QED  BY <1>2

LEMMA CommandArgs ==
    ASSUME NEW cmd \in Commands
    PROVE  /\ cmd.op \in {"create", "delete"} => cmd.arg \in ZColls
           /\ cmd.op \in {"register", "deregister"} => cmd.arg \in ZPeers
BY DEF Commands

LEMMA CommandEffect ==
    ASSUME NEW m \in Machine, NEW cmd \in Commands
    PROVE  /\ apply_command(m, cmd).colls = Changed(m.colls, cmd)
           /\ apply_command(m, cmd).peers \in SUBSET ZPeers
           /\ apply_command(m, cmd) \in Machine
<1>1. m.colls \in SUBSET ZColls /\ m.peers \in SUBSET ZPeers
  BY DEF Machine
<1>2. apply_command(m, cmd).colls = Changed(m.colls, cmd)
  <2>1. CASE cmd.op = "create"
    <3>1. apply_command(m, cmd).colls = m.colls \cup {cmd.arg}
      BY <2>1 DEF apply_command, Machine
    <3>. QED  BY <1>1, <2>1, <3>1, CommandArgs DEF Changed, Creates, Deletes
  <2>2. CASE cmd.op = "delete"
    <3>1. apply_command(m, cmd).colls = m.colls \ {cmd.arg}
      BY <2>2 DEF apply_command, Machine
    <3>. QED  BY <1>1, <2>2, <3>1, CommandArgs DEF Changed, Creates, Deletes
  <2>3. CASE cmd.op \notin {"create", "delete"}
    <3>1. apply_command(m, cmd).colls = m.colls
      BY <2>3 DEF apply_command, Machine
    <3>. QED  BY <1>1, <2>3, <3>1 DEF Changed, Creates, Deletes
  <2>. QED  BY <2>1, <2>2, <2>3
<1>3. apply_command(m, cmd).peers \in SUBSET ZPeers
  <2>1. CASE cmd.op = "register"
    <3>1. apply_command(m, cmd).peers = m.peers \cup {cmd.arg}
      BY <2>1 DEF apply_command, Machine
    <3>. QED  BY <1>1, <2>1, <3>1, CommandArgs
  <2>2. CASE cmd.op = "deregister"
    <3>1. apply_command(m, cmd).peers = m.peers \ {cmd.arg}
      BY <2>2 DEF apply_command, Machine
    <3>. QED  BY <1>1, <3>1
  <2>3. CASE cmd.op \notin {"register", "deregister"}
    <3>1. apply_command(m, cmd).peers = m.peers
      BY <2>3 DEF apply_command, Machine
    <3>. QED  BY <1>1, <3>1
  <2>. QED  BY <2>1, <2>2, <2>3
<1>4. apply_command(m, cmd) \in Machine
  <2>. DEFINE n == apply_command(m, cmd)
  <2>1. n = [m EXCEPT !.colls = n.colls, !.peers = n.peers]
    BY DEF apply_command, Machine
  <2>2. n.colls \in SUBSET ZColls /\ n.peers \in SUBSET ZPeers
    BY <1>2, <1>3 DEF Changed
  <2>. HIDE DEF n
  <2>3. n \in Machine
    BY <2>1, <2>2 DEF Machine
  <2>. QED  BY <2>3 DEF n
<1>. QED  BY <1>2, <1>3, <1>4

\* One entry of a batch (raft_apply.rs, apply_entry).
EntryResult(a, b, i, cmd) ==
    /\ a \in Outcomes
    /\ b.stopped # 0 => a.stopped # 0
    /\ a.m.last \in {b.m.last, i}
    /\ a.stopped = 0 =>
         /\ cmd.op \notin {"undecodable", "bad_address"}
         /\ cmd.op = "delete" => cmd.arg \in b.m.colls
         /\ a.m.colls = Changed(b.m.colls, cmd)
         /\ a.m.last = IF cmd.op = "empty" THEN b.m.last ELSE i
    /\ b.stopped = 0 /\ cmd.op \notin {"undecodable", "bad_address"}
         /\ (cmd.op = "delete" => cmd.arg \in b.m.colls) => a.stopped = 0

LEMMA EntryEffect ==
    ASSUME zlog \in Seq(Commands), NEW i \in 1..Len(zlog), NEW b \in Outcomes
    PROVE  EntryResult(apply_entry(b, i), b, i, zlog[i])
<1>. DEFINE cmd == zlog[i]
<1>1. cmd \in Commands /\ i \in Nat /\ i # 0
  OBVIOUS
<1>2. b.m \in Machine /\ b.m.colls \in SUBSET ZColls /\ b.m.last \in Nat /\ b.stopped \in Nat
  BY DEF Outcomes, Machine
<1>3. CASE b.stopped # 0
  BY <1>2, <1>3 DEF apply_entry, EntryResult
<1>4. CASE b.stopped = 0 /\ cmd.op = "empty"
  <2>1. apply_entry(b, i) = b
    BY <1>4 DEF apply_entry
  <2>2. Changed(b.m.colls, cmd) = b.m.colls
    BY <1>2, <1>4 DEF Changed, Creates, Deletes
  <2>. QED  BY <1>2, <1>4, <2>1, <2>2 DEF EntryResult
<1>5. CASE b.stopped = 0 /\ cmd.op # "empty" /\ Fails(b.m, cmd)
  <2>1. apply_entry(b, i) = [b EXCEPT !.stopped = i]
    BY <1>5 DEF apply_entry
  <2>2. /\ apply_entry(b, i) \in Outcomes /\ apply_entry(b, i).m = b.m
        /\ apply_entry(b, i).stopped = i
    BY <1>1, <2>1 DEF Outcomes
  <2>. QED  BY <1>1, <1>2, <1>5, <2>2 DEF EntryResult, Fails
<1>6. CASE b.stopped = 0 /\ cmd.op # "empty" /\ ~Fails(b.m, cmd)
  <2>. DEFINE n == apply_command(b.m, cmd)
  <2>1. apply_entry(b, i) = [m |-> [n EXCEPT !.last = i], stopped |-> 0]
    BY <1>6 DEF apply_entry
  <2>2. n.colls = Changed(b.m.colls, cmd) /\ n.peers \in SUBSET ZPeers
    BY <1>1, <1>2, CommandEffect
  <2>3. n \in Machine
    BY <1>1, <1>2, CommandEffect
  <2>4. Changed(b.m.colls, cmd) \in SUBSET ZColls
    BY DEF Changed
  <2>. HIDE DEF n
  <2>5. [n EXCEPT !.last = i] = [colls |-> n.colls, peers |-> n.peers, last |-> i]
    BY <2>3 DEF Machine
  <2>6. /\ apply_entry(b, i).stopped = 0 /\ apply_entry(b, i).m.colls = n.colls
        /\ apply_entry(b, i).m.last = i /\ apply_entry(b, i) \in Outcomes
    BY <1>1, <2>1, <2>2, <2>4, <2>5 DEF Outcomes, Machine
  <2>. QED  BY <1>6, <2>2, <2>6 DEF EntryResult, Fails
<1>. QED  BY <1>3, <1>4, <1>5, <1>6

LEMMA SomeBatch ==
    ASSUME zlog \in Seq(Commands), NEW m \in Machine, NEW first \in Nat, first >= 1,
           NEW last \in Nat, first - 1 <= last, last <= Len(zlog)
    PROVE  \E f : Applies(f, m, first, last)
<1>. DEFINE Solves(f, n) == Applies(f, m, first, n)
            Bad == {n \in (first - 1)..last : ~ \E f : Solves(f, n)}
<1>1. Bad = {}
  <2>. SUFFICES ASSUME Bad # {} PROVE FALSE
    OBVIOUS
  <2>1. Bad \in SUBSET Nat
    OBVIOUS
  <2>2. PICK n \in Bad : \A k \in Bad : n <= k
    BY <2>1, SmallestNumber
  <2>3. n # first - 1
    <3>. DEFINE z == [m |-> m, stopped |-> 0]
                h == [k \in (first - 1)..(first - 1) |-> z]
    <3>1. z \in Outcomes /\ z.m = m /\ z.stopped = 0
      BY DEF Outcomes
    <3>. HIDE DEF z
    <3>2. h \in [(first - 1)..(first - 1) -> Outcomes] /\ h[first - 1] = z
      BY <3>1
    <3>. HIDE DEF h
    <3>3. first..(first - 1) = {}
      OBVIOUS
    <3>4. Solves(h, first - 1)
      BY <3>1, <3>2, <3>3 DEF Applies
    <3>. QED  BY <3>4
  <2>4. n \in first..last /\ n - 1 \in (first - 1)..last /\ ~(n <= n - 1) /\ n \in 1..Len(zlog)
    BY <2>3
  <2>5. PICK f : Solves(f, n - 1)
    BY <2>2, <2>4
  <2>. DEFINE h == [k \in (first - 1)..n |-> IF k = n THEN apply_entry(f[n - 1], n) ELSE f[k]]
  <2>6. f \in [(first - 1)..(n - 1) -> Outcomes] /\ f[n - 1] \in Outcomes
    BY <2>4, <2>5 DEF Applies
  <2>7. apply_entry(f[n - 1], n) \in Outcomes
    BY <2>4, <2>6, EntryEffect DEF EntryResult
  <2>8. \A k \in (first - 1)..n : k # n => k \in (first - 1)..(n - 1)
    BY <2>4
  <2>9. h \in [(first - 1)..n -> Outcomes]
    BY <2>6, <2>7, <2>8
  <2>10. h[first - 1] = f[first - 1]
    BY <2>4
  <2>11. ASSUME NEW k \in first..n PROVE h[k] = apply_entry(h[k - 1], k)
    <3>1. /\ k \in (first - 1)..n /\ k - 1 \in (first - 1)..n /\ k - 1 # n
          /\ k # n => k \in first..(n - 1)
      BY <2>4
    <3>2. h[k - 1] = f[k - 1]
      BY <3>1
    <3>3. h[k] = IF k = n THEN apply_entry(f[n - 1], n) ELSE f[k]
      BY <3>1
    <3>. HIDE DEF h
    <3>4. k # n => f[k] = apply_entry(f[k - 1], k)
      BY <2>5, <3>1 DEF Applies
    <3>. QED  BY <3>2, <3>3, <3>4
  <2>. HIDE DEF h
  <2>12. Solves(h, n)
    BY <2>5, <2>9, <2>10, <2>11 DEF Applies
  <2>13. \E g : Solves(g, n)
    BY <2>12
  <2>. HIDE DEF Solves
  <2>. QED  BY <2>2, <2>13
<1>2. last \in (first - 1)..last
  OBVIOUS
<1>. HIDE DEF Solves
<1>3. \E f : Solves(f, last)
  BY <1>1, <1>2
<1>. QED  BY <1>3 DEF Solves

LEMMA ApplyBatchSteps ==
    ASSUME zlog \in Seq(Commands), NEW m \in Machine, NEW first \in Nat, first >= 1,
           NEW last \in Nat, first - 1 <= last, last <= Len(zlog)
    PROVE  \E f : Applies(f, m, first, last) /\ ApplyBatch(m, first, last) = f[last]
<1>. DEFINE Solves(f) == f = [k \in (first - 1)..last |->
                                 IF k < first THEN [m |-> m, stopped |-> 0]
                                 ELSE apply_entry(f[k - 1], k)]
            upTo[k \in (first - 1)..last] ==
                IF k < first THEN [m |-> m, stopped |-> 0] ELSE apply_entry(upTo[k - 1], k)
            z == [m |-> m, stopped |-> 0]
<1>1. ApplyBatch(m, first, last) = upTo[last]
  BY DEF ApplyBatch
<1>2. z \in Outcomes /\ z.m = m /\ z.stopped = 0
  BY DEF Outcomes
<1>3. ASSUME NEW b \in Outcomes, b.m = m, b.stopped = 0 PROVE b = z
  BY <1>3 DEF Outcomes
<1>4. \A k \in (first - 1)..last : /\ k < first => k = first - 1
                                   /\ ~(k < first) => k \in first..last
  OBVIOUS
<1>5. \E f : Solves(f)
  <2>1. PICK f : Applies(f, m, first, last)
    BY SomeBatch
  <2>2. f[first - 1] = z
    <3>1. f[first - 1] \in Outcomes
      BY <2>1 DEF Applies
    <3>. QED  BY <1>3, <2>1, <3>1 DEF Applies
  <2>3. ASSUME NEW k \in (first - 1)..last
        PROVE  f[k] = IF k < first THEN z ELSE apply_entry(f[k - 1], k)
    BY <1>4, <2>1, <2>2 DEF Applies
  <2>4. f = [k \in (first - 1)..last |-> f[k]]
    BY <2>1 DEF Applies
  <2>. HIDE DEF z
  <2>5. f = [k \in (first - 1)..last |-> IF k < first THEN z ELSE apply_entry(f[k - 1], k)]
    BY <2>3, <2>4
  <2>. QED  BY <2>5 DEF z
<1>6. Solves(upTo)
  BY <1>5
<1>. HIDE DEF upTo
<1>7. upTo = [k \in (first - 1)..last |-> IF k < first THEN z ELSE apply_entry(upTo[k - 1], k)]
  BY <1>6
<1>. HIDE DEF z
<1>8. upTo[first - 1] = z /\ \A k \in first..last : upTo[k] = apply_entry(upTo[k - 1], k)
  <2>1. /\ first - 1 \in (first - 1)..last /\ first - 1 < first
        /\ \A k \in first..last : k \in (first - 1)..last /\ ~(k < first)
    OBVIOUS
  <2>. QED  BY <1>7, <2>1
<1>9. \A k \in (first - 1)..last : upTo[k] \in Outcomes
  <2>. DEFINE Bad == {k \in (first - 1)..last : upTo[k] \notin Outcomes}
  <2>1. Bad = {}
    <3>. SUFFICES ASSUME Bad # {} PROVE FALSE
      OBVIOUS
    <3>1. Bad \in SUBSET Nat
      OBVIOUS
    <3>2. PICK k \in Bad : \A j \in Bad : k <= j
      BY <3>1, SmallestNumber
    <3>3. k \in first..last
      BY <1>2, <1>8
    <3>4. k - 1 \in (first - 1)..last /\ ~(k <= k - 1) /\ k \in 1..Len(zlog)
      BY <3>3
    <3>5. upTo[k - 1] \in Outcomes
      BY <3>2, <3>4
    <3>6. apply_entry(upTo[k - 1], k) \in Outcomes
      BY <3>4, <3>5, EntryEffect DEF EntryResult
    <3>. QED  BY <1>8, <3>2, <3>3, <3>6
  <2>. QED  BY <2>1
<1>10. upTo \in [(first - 1)..last -> Outcomes]
  BY <1>7, <1>9
<1>11. Applies(upTo, m, first, last)
  BY <1>2, <1>8, <1>10 DEF Applies
<1>. QED  BY <1>1, <1>11

LEMMA AfterNone ==
    ASSUME NEW l, NEW c \in SUBSET ZColls, NEW first \in Nat, first >= 1
    PROVE  After(l, c, first, first - 1) = c
<1>1. first..(first - 1) = {}
  OBVIOUS
<1>. QED  BY <1>1 DEF After

\* One more entry.
LEMMA AfterOne ==
    ASSUME NEW l, NEW c \in SUBSET ZColls, NEW first \in Nat, first >= 1,
           NEW i \in Nat, first <= i
    PROVE  After(l, c, first, i) = Changed(After(l, c, first, i - 1), l[i])
<1>. DEFINE A == After(l, c, first, i)
            B == After(l, c, first, i - 1)
<1>1. /\ \A k \in first..i : k # i => k \in first..(i - 1)
      /\ \A k \in first..(i - 1) : k \in first..i
      /\ i \in first..i /\ (i + 1)..i = {}
      /\ \A k \in first..(i - 1) : i \in (k + 1)..i
      /\ \A k \in Nat : \A j \in (k + 1)..i : j # i => j \in (k + 1)..(i - 1)
      /\ \A k \in Nat : \A j \in (k + 1)..(i - 1) : j \in (k + 1)..i
      /\ \A k \in first..i : k \in Nat
  OBVIOUS
<1>2. ASSUME NEW n \in A PROVE n \in Changed(B, l[i])
  <2>1. CASE \E k \in first..i : Creates(l[k], n) /\ \A j \in (k + 1)..i : ~Deletes(l[j], n)
    <3>1. PICK k \in first..i : Creates(l[k], n) /\ \A j \in (k + 1)..i : ~Deletes(l[j], n)
      BY <2>1
    <3>2. CASE k = i
      BY <1>2, <3>1, <3>2 DEF Changed, After
    <3>3. CASE k # i
      <4>1. k \in first..(i - 1) /\ ~Deletes(l[i], n) /\ k \in Nat
        BY <1>1, <3>1, <3>3
      <4>2. \A j \in (k + 1)..(i - 1) : ~Deletes(l[j], n)
        BY <1>1, <3>1, <4>1
      <4>. QED  BY <1>2, <3>1, <4>1, <4>2 DEF Changed, After
    <3>. QED  BY <3>2, <3>3
  <2>2. CASE n \in c /\ \A j \in first..i : ~Deletes(l[j], n)
    BY <1>1, <1>2, <2>2 DEF Changed, After
  <2>. QED  BY <1>2, <2>1, <2>2 DEF After
<1>3. ASSUME NEW n \in Changed(B, l[i]) PROVE n \in A
  <2>1. CASE Creates(l[i], n)
    BY <1>1, <1>3, <2>1 DEF Changed, After
  <2>2. CASE n \in B /\ ~Deletes(l[i], n)
    <3>1. CASE \E k \in first..(i - 1) : Creates(l[k], n) /\ \A j \in (k + 1)..(i - 1) : ~Deletes(l[j], n)
      <4>1. PICK k \in first..(i - 1) :
                Creates(l[k], n) /\ \A j \in (k + 1)..(i - 1) : ~Deletes(l[j], n)
        BY <3>1
      <4>2. k \in first..i /\ k \in Nat
        BY <1>1
      <4>3. \A j \in (k + 1)..i : ~Deletes(l[j], n)
        BY <1>1, <2>2, <4>1, <4>2
      <4>. QED  BY <1>3, <4>1, <4>2, <4>3 DEF Changed, After
    <3>2. CASE n \in c /\ \A j \in first..(i - 1) : ~Deletes(l[j], n)
      <4>1. \A j \in first..i : ~Deletes(l[j], n)
        BY <1>1, <2>2, <3>2
      <4>. QED  BY <1>3, <3>2, <4>1 DEF Changed, After
    <3>. QED  BY <2>2, <3>1, <3>2 DEF After
  <2>. QED  BY <1>3, <2>1, <2>2 DEF Changed
<1>. QED  BY <1>2, <1>3

\* Entries first..s a second time, and those up to k: the collections are
\* those of the whole log up to k.
LEMMA AppliedAgain ==
    ASSUME NEW l, NEW s \in Nat, NEW first \in Nat, first >= 1, first <= s + 1,
           NEW k \in Nat, s <= k
    PROVE  After(l, CollsAt(l, s), first, k) = CollsAt(l, k)
<1>1. /\ \A a \in first..k : a \in 1..k
      /\ \A a \in 1..k : a >= first \/ (a \in 1..s /\ \A j \in first..k : j \in (a + 1)..k)
      /\ \A a \in 1..k : a >= first => a \in first..k
      /\ \A a \in 1..s : a \in 1..k /\ \A j \in (a + 1)..s : j \in (a + 1)..k
      /\ \A a \in 1..s : \A j \in (a + 1)..k : j \in (a + 1)..s \/ j \in first..k
  OBVIOUS
<1>2. ASSUME NEW n \in CollsAt(l, k) PROVE n \in After(l, CollsAt(l, s), first, k)
  <2>1. PICK a \in 1..k : Creates(l[a], n) /\ \A j \in (a + 1)..k : ~Deletes(l[j], n)
    BY <1>2 DEF CollsAt, After
  <2>2. n \in ZColls
    BY <1>2 DEF CollsAt, After
  <2>3. CASE a \in first..k
    BY <2>1, <2>2, <2>3 DEF After
  <2>4. CASE a \in 1..s /\ \A j \in first..k : j \in (a + 1)..k
    <3>1. n \in CollsAt(l, s)
      BY <1>1, <2>1, <2>2, <2>4 DEF CollsAt, After
    <3>. QED  BY <2>1, <2>2, <2>4, <3>1 DEF After
  <2>. QED  BY <1>1, <2>3, <2>4
<1>3. ASSUME NEW n \in After(l, CollsAt(l, s), first, k) PROVE n \in CollsAt(l, k)
  <2>1. n \in ZColls
    BY <1>3 DEF After
  <2>2. CASE \E a \in first..k : Creates(l[a], n) /\ \A j \in (a + 1)..k : ~Deletes(l[j], n)
    BY <1>1, <2>1, <2>2 DEF CollsAt, After
  <2>3. CASE n \in CollsAt(l, s) /\ \A j \in first..k : ~Deletes(l[j], n)
    <3>1. PICK a \in 1..s : Creates(l[a], n) /\ \A j \in (a + 1)..s : ~Deletes(l[j], n)
      BY <2>3 DEF CollsAt, After
    <3>2. \A j \in (a + 1)..k : ~Deletes(l[j], n)
      BY <1>1, <2>3, <3>1
    <3>3. a \in 1..k
      BY <1>1
    <3>. QED  BY <2>1, <3>1, <3>2, <3>3 DEF CollsAt, After
  <2>. QED  BY <1>3, <2>2, <2>3 DEF After
<1>. QED  BY <1>2, <1>3

\* Empty entries change nothing.
LEMMA EmptyEntries ==
    ASSUME NEW l, NEW i \in Nat, NEW s \in Nat, i <= s,
           \A k \in (i + 1)..s : l[k].op = "empty"
    PROVE  CollsAt(l, i) = CollsAt(l, s)
<1>1. /\ \A a \in 1..i : a \in 1..s
      /\ \A a \in 1..s : a \in 1..i \/ a \in (i + 1)..s
      /\ \A a \in 1..i : \A j \in (a + 1)..s : j \in (a + 1)..i \/ j \in (i + 1)..s
      /\ \A a \in 1..i : \A j \in (a + 1)..i : j \in (a + 1)..s
  OBVIOUS
<1>2. \A k \in (i + 1)..s, n \in ZColls : ~Creates(l[k], n) /\ ~Deletes(l[k], n)
  BY DEF Creates, Deletes
<1>3. ASSUME NEW n \in ZColls
      PROVE  n \in CollsAt(l, i) <=> n \in CollsAt(l, s)
  <2>1. ASSUME NEW a \in 1..i, Creates(l[a], n), \A j \in (a + 1)..i : ~Deletes(l[j], n)
        PROVE  a \in 1..s /\ \A j \in (a + 1)..s : ~Deletes(l[j], n)
    BY <1>1, <1>2, <2>1
  <2>2. ASSUME NEW a \in 1..s, Creates(l[a], n), \A j \in (a + 1)..s : ~Deletes(l[j], n)
        PROVE  a \in 1..i /\ \A j \in (a + 1)..i : ~Deletes(l[j], n)
    BY <1>1, <1>2, <2>2
  <2>. QED  BY <2>1, <2>2 DEF CollsAt, After
<1>. QED  BY <1>3 DEF CollsAt, After

\* Two logs with the same entries up to s.
LEMMA SameEntries ==
    ASSUME NEW l, NEW h, NEW s \in Nat, \A k \in 1..s : l[k] = h[k]
    PROVE  CollsAt(l, s) = CollsAt(h, s) /\ (Applicable(l, s) => Applicable(h, s))
<1>1. ASSUME NEW i \in 0..s PROVE CollsAt(l, i) = CollsAt(h, i)
  <2>1. /\ \A a \in 1..i : l[a] = h[a]
        /\ \A a \in 1..i : \A j \in (a + 1)..i : l[j] = h[j]
    OBVIOUS
  <2>. QED  BY <2>1 DEF CollsAt, After
<1>2. \A k \in 1..s : k - 1 \in 0..s
  OBVIOUS
<1>3. s \in 0..s
  OBVIOUS
<1>. QED  BY <1>1, <1>2, <1>3 DEF Applicable

\* Induction over the entries of a batch.
LEMMA Upwards ==
    ASSUME NEW lo \in Nat, NEW hi \in Nat, NEW S, lo \in S,
           \A k \in (lo + 1)..hi : k - 1 \in S => k \in S
    PROVE  \A k \in lo..hi : k \in S
<1>. DEFINE Bad == {k \in lo..hi : k \notin S}
<1>1. Bad = {}
  <2>. SUFFICES ASSUME Bad # {} PROVE FALSE
    OBVIOUS
  <2>1. Bad \in SUBSET Nat
    OBVIOUS
  <2>2. PICK k \in Bad : \A j \in Bad : k <= j
    BY <2>1, SmallestNumber
  <2>3. k \in (lo + 1)..hi /\ k - 1 \in lo..hi /\ ~(k <= k - 1)
    OBVIOUS
  <2>. QED  BY <2>2, <2>3
<1>. QED  BY <1>1

\* A batch does not go on behind an error, and the index it stores is one of
\* its own.
LEMMA BatchRuns ==
    ASSUME zlog \in Seq(Commands), NEW m \in Machine, NEW first \in Nat, first >= 1,
           NEW last \in Nat, first - 1 <= last, last <= Len(zlog),
           NEW f, Applies(f, m, first, last)
    PROVE  /\ \A k \in (first - 1)..last : f[k] \in Outcomes
           /\ \A k \in first..last : EntryResult(f[k], f[k - 1], k, zlog[k])
           /\ f[last].m.last \in first..last \/ f[last].m.last = m.last
           /\ f[last].stopped = 0 => \A k \in (first - 1)..last : f[k].stopped = 0
<1>1. \A k \in (first - 1)..last : f[k] \in Outcomes
  BY DEF Applies
<1>2. ASSUME NEW k \in first..last PROVE EntryResult(f[k], f[k - 1], k, zlog[k])
  <2>1. k \in 1..Len(zlog) /\ k - 1 \in (first - 1)..last
    OBVIOUS
  <2>. QED  BY <1>1, <2>1, EntryEffect DEF Applies
<1>3. first - 1 \in Nat /\ \A k \in (first - 1 + 1)..last : k \in first..last
  OBVIOUS
<1>4. last \in (first - 1)..last
  OBVIOUS
<1>5. f[last].m.last \in first..last \/ f[last].m.last = m.last
  <2>. DEFINE S == {k \in (first - 1)..last : f[k].m.last \in first..last \/ f[k].m.last = m.last}
  <2>1. first - 1 \in S
    BY DEF Applies
  <2>2. \A k \in first..last : k - 1 \in S => k \in S
    BY <1>2 DEF EntryResult
  <2>. HIDE DEF S
  <2>3. \A k \in (first - 1)..last : k \in S
    BY <1>3, <2>1, <2>2, Upwards
  <2>. QED  BY <1>4, <2>3 DEF S
<1>6. ASSUME f[last].stopped = 0, NEW x \in (first - 1)..last PROVE f[x].stopped = 0
  <2>. SUFFICES ASSUME f[x].stopped # 0 PROVE FALSE
    OBVIOUS
  <2>. DEFINE S == {k \in x..last : f[k].stopped # 0}
  <2>1. x \in S /\ x \in Nat
    OBVIOUS
  <2>2. \A k \in (x + 1)..last : k - 1 \in S => k \in S
    <3>1. \A k \in (x + 1)..last : k \in first..last
      OBVIOUS
    <3>. QED  BY <1>2, <3>1 DEF EntryResult
  <2>3. last \in x..last
    OBVIOUS
  <2>. HIDE DEF S
  <2>4. last \in S
    BY <2>1, <2>2, <2>3, Upwards
  <2>. QED  BY <1>6, <2>4 DEF S
<1>. QED  BY <1>1, <1>2, <1>5, <1>6

\* While no entry fails, the collections are what the log makes of them.
LEMMA BatchColls ==
    ASSUME zlog \in Seq(Commands), NEW m \in Machine, NEW first \in Nat, first >= 1,
           NEW last \in Nat, first - 1 <= last, last <= Len(zlog),
           NEW f, Applies(f, m, first, last), f[last].stopped = 0
    PROVE  /\ \A k \in (first - 1)..last : f[k].m.colls = After(zlog, m.colls, first, k)
           /\ \A k \in first..last :
                 /\ zlog[k].op \notin {"undecodable", "bad_address"}
                 /\ zlog[k].op = "delete" => zlog[k].arg \in f[k - 1].m.colls
           /\ \/ f[last].m.last = m.last /\ \A k \in first..last : zlog[k].op = "empty"
              \/ /\ f[last].m.last \in first..last
                 /\ \A k \in (f[last].m.last + 1)..last : zlog[k].op = "empty"
<1>1. /\ \A k \in (first - 1)..last : f[k] \in Outcomes /\ f[k].stopped = 0
      /\ \A k \in first..last : EntryResult(f[k], f[k - 1], k, zlog[k])
  BY BatchRuns
<1>2. /\ first - 1 \in Nat /\ \A k \in (first - 1 + 1)..last : k \in first..last
      /\ last \in (first - 1)..last /\ first - 1 \in (first - 1)..last
      /\ \A k \in first..last : k - 1 \in (first - 1)..last /\ k \in (first - 1)..last
  OBVIOUS
<1>3. m.colls \in SUBSET ZColls
  BY DEF Machine
<1>4. \A k \in first..last :
         /\ f[k].m.colls = Changed(f[k - 1].m.colls, zlog[k])
         /\ zlog[k].op \notin {"undecodable", "bad_address"}
         /\ zlog[k].op = "delete" => zlog[k].arg \in f[k - 1].m.colls
         /\ f[k].m.last = IF zlog[k].op = "empty" THEN f[k - 1].m.last ELSE k
  BY <1>1, <1>2 DEF EntryResult
<1>5. \A k \in (first - 1)..last : f[k].m.colls = After(zlog, m.colls, first, k)
  <2>. DEFINE S == {k \in (first - 1)..last : f[k].m.colls = After(zlog, m.colls, first, k)}
  <2>1. first - 1 \in S
    BY <1>2, <1>3, AfterNone DEF Applies
  <2>2. ASSUME NEW k \in first..last, k - 1 \in S PROVE k \in S
    <3>1. k \in Nat /\ first <= k
      OBVIOUS
    <3>2. After(zlog, m.colls, first, k) = Changed(After(zlog, m.colls, first, k - 1), zlog[k])
      BY <1>3, <3>1, AfterOne
    <3>. QED  BY <1>2, <1>4, <2>2, <3>2
  <2>. HIDE DEF S
  <2>3. \A k \in (first - 1)..last : k \in S
    BY <1>2, <2>1, <2>2, Upwards
  <2>. QED  BY <2>3 DEF S
<1>6. \/ f[last].m.last = m.last /\ \A k \in first..last : zlog[k].op = "empty"
      \/ /\ f[last].m.last \in first..last
         /\ \A k \in (f[last].m.last + 1)..last : zlog[k].op = "empty"
  <2>. DEFINE P(k) == \/ f[k].m.last = m.last /\ \A j \in first..k : zlog[j].op = "empty"
                      \/ /\ f[k].m.last \in first..k
                         /\ \A j \in (f[k].m.last + 1)..k : zlog[j].op = "empty"
              S == {k \in (first - 1)..last : P(k)}
  <2>1. first - 1 \in S
    BY <1>2 DEF Applies
  <2>2. ASSUME NEW k \in first..last, k - 1 \in S PROVE k \in S
    <3>1. /\ k \in (first - 1)..last /\ \A j \in first..k : j # k => j \in first..(k - 1)
          /\ k \in first..k /\ (k + 1)..k = {}
          /\ \A j \in Nat : \A i \in (j + 1)..k : i # k => i \in (j + 1)..(k - 1)
          /\ \A j \in first..(k - 1) : j \in first..k /\ j \in Nat
      OBVIOUS
    <3>2. CASE zlog[k].op = "empty"
      BY <1>4, <2>2, <3>1, <3>2
    <3>3. CASE zlog[k].op # "empty"
      BY <1>4, <3>1, <3>3
    <3>. QED  BY <3>2, <3>3
  <2>. HIDE DEF S
  <2>3. last \in S
    BY <1>2, <2>1, <2>2, Upwards
  <2>. QED  BY <2>3 DEF S
<1>. QED  BY <1>4, <1>5, <1>6

\* A batch without an error leaves a machine that the log up to its end gives.
LEMMA BatchReplays ==
    ASSUME zlog \in Seq(Commands), NEW m \in Machine, NEW first \in Nat, first >= 1,
           NEW last \in Nat, first - 1 <= last, last <= Len(zlog),
           NEW s \in Nat, first <= s + 1, s <= last, ReplayOf(m, s),
           ApplyBatch(m, first, last).stopped = 0
    PROVE  ReplayOf(ApplyBatch(m, first, last).m, last)
<1>. DEFINE b == ApplyBatch(m, first, last)
<1>1. PICK f : Applies(f, m, first, last) /\ b = f[last]
  BY ApplyBatchSteps
<1>2. f[last].stopped = 0
  BY <1>1
<1>3. /\ \A k \in (first - 1)..last : f[k].m.colls = After(zlog, m.colls, first, k)
      /\ \A k \in first..last :
            /\ zlog[k].op \notin {"undecodable", "bad_address"}
            /\ zlog[k].op = "delete" => zlog[k].arg \in f[k - 1].m.colls
      /\ \/ f[last].m.last = m.last /\ \A k \in first..last : zlog[k].op = "empty"
         \/ /\ f[last].m.last \in first..last
            /\ \A k \in (f[last].m.last + 1)..last : zlog[k].op = "empty"
  BY <1>1, <1>2, BatchColls
<1>4. /\ m.colls = CollsAt(zlog, s) /\ Applicable(zlog, s) /\ m.last \in Nat /\ m.last <= s
      /\ \A i \in (m.last + 1)..s : zlog[i].op = "empty"
  BY DEF ReplayOf, Machine
<1>5. ASSUME NEW k \in s..last PROVE f[k].m.colls = CollsAt(zlog, k)
  <2>1. k \in (first - 1)..last /\ k \in Nat /\ s <= k
    OBVIOUS
  <2>2. f[k].m.colls = After(zlog, CollsAt(zlog, s), first, k)
    BY <1>3, <1>4, <2>1
  <2>3. After(zlog, CollsAt(zlog, s), first, k) = CollsAt(zlog, k)
    BY <2>1, AppliedAgain
  <2>. QED  BY <2>2, <2>3
<1>6. Applicable(zlog, last)
  <2>1. ASSUME NEW k \in 1..last
        PROVE  /\ zlog[k].op \notin {"undecodable", "bad_address"}
               /\ zlog[k].op = "delete" => zlog[k].arg \in CollsAt(zlog, k - 1)
    <3>1. CASE k \in 1..s
      BY <1>4, <3>1 DEF Applicable
    <3>2. CASE k \in (s + 1)..last
      <4>1. k \in first..last /\ k - 1 \in s..last
        BY <3>2
      <4>. QED  BY <1>3, <1>5, <4>1
    <3>3. k \in 1..s \/ k \in (s + 1)..last
      OBVIOUS
    <3>. QED  BY <3>1, <3>2, <3>3
  <2>. QED  BY <2>1 DEF Applicable
<1>7. f[last].m.colls = CollsAt(zlog, last)
  <2>1. last \in s..last
    OBVIOUS
  <2>. QED  BY <1>5, <2>1
<1>8. f[last].m.last <= last /\ \A i \in (f[last].m.last + 1)..last : zlog[i].op = "empty"
  <2>1. CASE f[last].m.last = m.last /\ \A k \in first..last : zlog[k].op = "empty"
    <3>1. \A i \in (m.last + 1)..last : i \in (m.last + 1)..s \/ i \in first..last
      BY <1>4
    <3>. QED  BY <1>4, <2>1, <3>1
  <2>. QED  BY <1>3, <2>1
<1>. QED  BY <1>1, <1>6, <1>7, <1>8 DEF ReplayOf

\* Where the log is applicable, replaying it meets no error.
LEMMA ReplayWorks ==
    ASSUME zlog \in Seq(Commands), NEW i \in Nat, i <= Len(zlog), Applicable(zlog, i)
    PROVE  /\ ApplyBatch(NewMachine, 1, i).stopped = 0
           /\ ApplyBatch(NewMachine, 1, i).m.colls = CollsAt(zlog, i)
<1>1. NewMachine \in Machine /\ NewMachine.colls = {}
  BY DEF NewMachine, Machine
<1>2. 1 - 1 = 0 /\ 1 \in Nat /\ 1 >= 1 /\ 0 <= i
  OBVIOUS
<1>3. PICK f : Applies(f, NewMachine, 1, i) /\ ApplyBatch(NewMachine, 1, i) = f[i]
  BY <1>1, <1>2, ApplyBatchSteps
<1>4. /\ \A k \in 0..i : f[k] \in Outcomes
      /\ \A k \in 1..i : EntryResult(f[k], f[k - 1], k, zlog[k])
  BY <1>1, <1>2, <1>3, BatchRuns
<1>. DEFINE S == {k \in 0..i : f[k].stopped = 0 /\ f[k].m.colls = CollsAt(zlog, k)}
<1>5. 0 \in S
  <2>1. CollsAt(zlog, 0) = {}
    BY <1>2, AfterNone DEF CollsAt
  <2>2. f[1 - 1].m = NewMachine /\ f[1 - 1].stopped = 0
    BY <1>3 DEF Applies
  <2>3. f[0].m = NewMachine /\ f[0].stopped = 0 /\ 0 \in 0..i
    BY <1>2, <2>2
  <2>. QED  BY <1>1, <2>1, <2>3
<1>6. ASSUME NEW k \in (0 + 1)..i, k - 1 \in S PROVE k \in S
  <2>1. k \in 1..i /\ k \in Nat /\ 1 <= k /\ k \in 0..i
    OBVIOUS
  <2>2. CollsAt(zlog, k) = Changed(CollsAt(zlog, k - 1), zlog[k])
    BY <1>2, <2>1, AfterOne DEF CollsAt
  <2>3. /\ zlog[k].op \notin {"undecodable", "bad_address"}
        /\ zlog[k].op = "delete" => zlog[k].arg \in CollsAt(zlog, k - 1)
    BY <2>1 DEF Applicable
  <2>. QED  BY <1>4, <1>6, <2>1, <2>2, <2>3 DEF EntryResult
<1>. HIDE DEF S
<1>7. i \in 0..i
  OBVIOUS
<1>8. i \in S
  BY <1>5, <1>6, <1>7, Upwards
<1>. QED  BY <1>3, <1>8 DEF S

LEMMA StateStart == StateInit => StateInv
<1>. SUFFICES ASSUME StateInit PROVE StateInv
  OBVIOUS
<1>1. NewMachine \in Machine /\ NewMachine.colls = {} /\ NewMachine.last = 0
  BY DEF NewMachine, Machine
<1>2. StateTyped
  BY <1>1 DEF StateInit, StateTyped
<1>3. ASSUME NEW r \in ZReplicas PROVE Replayed(r)
  <2>1. CollsAt(zlog, 0) = {}
    BY AfterNone DEF CollsAt
  <2>2. Applicable(zlog, 0) /\ (0 + 1)..0 = {}
    BY DEF Applicable
  <2>3. zmachine[r] = NewMachine /\ zraft[r] = 0 /\ zseen[r] = 0 /\ 0 \in 0..0
    BY DEF StateInit
  <2>4. ReplayOf(zmachine[r], 0)
    BY <1>1, <2>1, <2>2, <2>3 DEF ReplayOf
  <2>. QED  BY <2>3, <2>4 DEF Replayed
<1>. QED  BY <1>2, <1>3 DEF StateInv, AnsweredApplied, StateInit

\* Proposals only make the log longer.
LEMMA ProposeKeeps ==
    ASSUME StateInv, NEW cmd \in Commands, propose_command(cmd)
    PROVE  StateInv'
<1>1. /\ zlog \in Seq(Commands) /\ Len(zlog) \in Nat
      /\ zraft \in [ZReplicas -> Nat] /\ zseen \in [ZReplicas -> Nat]
      /\ zmachine \in [ZReplicas -> Machine]
      /\ \A r \in ZReplicas : /\ zraft[r] <= zseen[r] /\ zseen[r] <= Len(zlog)
                              /\ zmachine[r].last <= zseen[r]
  BY DEF StateInv, StateTyped
<1>2. /\ zlog' \in Seq(Commands) /\ Len(zlog') = Len(zlog) + 1
      /\ \A i \in 1..Len(zlog) : zlog'[i] = zlog[i]
  BY <1>1 DEF propose_command
<1>3. /\ zseen' \in [ZReplicas -> Nat]
      /\ \A r \in ZReplicas : zseen'[r] = IF r = ZLeader THEN Len(zlog) + 1 ELSE zseen[r]
  <2>1. zseen' = [zseen EXCEPT ![ZLeader] = Len(zlog) + 1] /\ Len(zlog) + 1 \in Nat
    BY <1>1 DEF propose_command
  <2>. QED  BY <1>1, <2>1
<1>4. \A r \in ZReplicas : zmachine[r].last \in Nat /\ zraft[r] \in Nat /\ zseen[r] \in Nat
  BY <1>1 DEF Machine
<1>5. /\ zraft' = zraft /\ zmachine' = zmachine /\ zfailed' = zfailed /\ zdone' = zdone
      /\ zanswered' = zanswered /\ zpending' = zpending \cup {Len(zlog) + 1}
  BY DEF propose_command
<1>6. \A r \in ZReplicas : zseen[r] <= zseen'[r] /\ zseen'[r] <= Len(zlog')
  BY <1>1, <1>2, <1>3, <1>4
<1>7. StateTyped'
  <2>1. zpending' \subseteq 1..Len(zlog')
    <3>1. zpending \subseteq 1..Len(zlog)
      BY DEF StateInv, StateTyped
    <3>2. ASSUME NEW x \in zpending' PROVE x \in 1..(Len(zlog) + 1)
      BY <1>1, <1>5, <3>1
    <3>. QED  BY <1>2, <3>2
  <2>2. zfailed' \in [ZReplicas -> SUBSET Nat] /\ zdone' \in [ZReplicas -> SUBSET Nat]
    BY <1>5 DEF StateInv, StateTyped
  <2>3. \A r \in ZReplicas : /\ zraft'[r] <= zseen'[r] /\ zseen'[r] <= Len(zlog')
                             /\ zmachine'[r].last <= zseen'[r]
    BY <1>1, <1>3, <1>4, <1>5, <1>6
  <2>. QED  BY <1>1, <1>2, <1>3, <1>5, <2>1, <2>2, <2>3 DEF StateTyped
<1>8. ASSUME NEW r \in ZReplicas, zfailed'[r] = {} PROVE Replayed(r)'
  <2>1. PICK s \in zraft[r]..zseen[r] : ReplayOf(zmachine[r], s)
    BY <1>5, <1>8 DEF StateInv, Replayed
  <2>2. s \in Nat /\ s <= Len(zlog) /\ s \in zraft'[r]..zseen'[r]
    BY <1>1, <1>3, <1>4, <1>5, <1>6
  <2>3. \A k \in 1..s : zlog[k] = zlog'[k]
    BY <1>2, <2>2
  <2>4. CollsAt(zlog, s) = CollsAt(zlog', s) /\ (Applicable(zlog, s) => Applicable(zlog', s))
    BY <2>2, <2>3, SameEntries
  <2>5. \A i \in (zmachine[r].last + 1)..s : i \in 1..s
    BY <1>4, <2>2
  <2>6. ReplayOf(zmachine[r], s)'
    BY <1>5, <2>1, <2>3, <2>4, <2>5 DEF ReplayOf
  <2>. QED  BY <2>2, <2>6 DEF Replayed
<1>9. AnsweredApplied'
  BY <1>5 DEF StateInv, AnsweredApplied
<1>. QED  BY <1>7, <1>8, <1>9 DEF StateInv

\* What a step of a node's event loop does to that node.
LEMMA HandleReadyKeeps ==
    ASSUME StateInv, NEW r \in ZReplicas, NEW commit \in 1..ZMaxLog, NEW last \in 1..ZMaxLog,
           apply_entries(r, commit, last)
    PROVE  StateInv'
<1>. DEFINE batch == (zraft[r] + 1)..last
            first == zraft[r] + 1
            b == ApplyBatch(zmachine[r], first, last)
            ok == b.stopped = 0
            told == IF r = ZLeader THEN Notified(batch, ok) ELSE {}
<1>1. /\ zlog \in Seq(Commands) /\ Len(zlog) \in Nat
      /\ zraft \in [ZReplicas -> Nat] /\ zseen \in [ZReplicas -> Nat]
      /\ zmachine \in [ZReplicas -> Machine]
      /\ zfailed \in [ZReplicas -> SUBSET Nat] /\ zdone \in [ZReplicas -> SUBSET Nat]
      /\ \A q \in ZReplicas : /\ zraft[q] <= zseen[q] /\ zseen[q] <= Len(zlog)
                              /\ zmachine[q].last <= zseen[q]
      /\ zpending \subseteq 1..Len(zlog)
  BY DEF StateInv, StateTyped
<1>2. /\ zraft[r] \in Nat /\ zseen[r] \in Nat /\ zmachine[r] \in Machine
      /\ zmachine[r].last \in Nat /\ commit \in Nat /\ last \in Nat
  <2>1. commit \in Nat /\ last \in Nat
    BY ReplicatedStateAssumption
  <2>. QED  BY <1>1, <2>1 DEF Machine
<1>3. /\ zraft[r] < commit /\ commit <= last /\ zseen[r] <= last /\ last <= Len(zlog)
      /\ zraft' = [zraft EXCEPT ![r] = commit]
      /\ zseen' = [zseen EXCEPT ![r] = last]
      /\ zmachine' = [zmachine EXCEPT ![r] = b.m]
      /\ zfailed' = [zfailed EXCEPT ![r] = @ \cup (IF ok THEN {} ELSE batch)]
      /\ zdone' = [zdone EXCEPT ![r] = @ \cup {i \in batch : ok \/ i < b.stopped}]
      /\ zpending' = zpending \ told /\ zanswered' = zanswered \cup told
      /\ zlog' = zlog
  BY DEF apply_entries
<1>4. /\ first \in Nat /\ first >= 1 /\ first - 1 <= last
      /\ last \in batch /\ batch \in SUBSET Nat
      /\ last \in (first - 1)..last
  BY <1>2, <1>3
<1>. HIDE DEF first, batch, ok, told
<1>5. PICK f : Applies(f, zmachine[r], first, last) /\ b = f[last]
  BY <1>1, <1>2, <1>3, <1>4, ApplyBatchSteps
<1>6. b \in Outcomes /\ (b.m.last \in first..last \/ b.m.last = zmachine[r].last)
  BY <1>1, <1>2, <1>3, <1>4, <1>5, BatchRuns
<1>7. b.m \in Machine /\ b.m.last \in Nat /\ b.m.last <= last
  <2>1. b.m \in Machine /\ b.m.last \in Nat
    BY <1>6 DEF Outcomes, Machine
  <2>2. zmachine[r].last <= last
    BY <1>1, <1>2, <1>3
  <2>. QED  BY <1>2, <1>4, <1>6, <2>1, <2>2
<1>. HIDE DEF b
<1>8. ASSUME ok, zfailed[r] = {} PROVE ReplayOf(b.m, last)
  <2>1. PICK s \in zraft[r]..zseen[r] : ReplayOf(zmachine[r], s)
    BY <1>8 DEF StateInv, Replayed
  <2>2. s \in Nat /\ first <= s + 1 /\ s <= last
    BY <1>2, <1>3 DEF first
  <2>. QED  BY <1>1, <1>2, <1>3, <1>4, <1>8, <2>1, <2>2, BatchReplays DEF b, ok
<1>9. /\ zraft'[r] = commit /\ zseen'[r] = last /\ zmachine'[r] = b.m
      /\ zfailed'[r] = zfailed[r] \cup (IF ok THEN {} ELSE batch)
      /\ zdone'[r] = zdone[r] \cup {i \in batch : ok \/ i < b.stopped}
      /\ \A q \in ZReplicas : q # r =>
            /\ zraft'[q] = zraft[q] /\ zseen'[q] = zseen[q] /\ zmachine'[q] = zmachine[q]
            /\ zfailed'[q] = zfailed[q] /\ zdone'[q] = zdone[q]
  BY <1>1, <1>3
<1>10. StateTyped'
  <2>1. zraft' \in [ZReplicas -> Nat] /\ zseen' \in [ZReplicas -> Nat]
    BY <1>1, <1>2, <1>3
  <2>2. zmachine' \in [ZReplicas -> Machine]
    BY <1>1, <1>3, <1>7
  <2>3. zfailed' \in [ZReplicas -> SUBSET Nat]
    BY <1>1, <1>3, <1>4
  <2>4. zdone' \in [ZReplicas -> SUBSET Nat]
    BY <1>1, <1>3, <1>4
  <2>5. \A q \in ZReplicas : /\ zraft'[q] <= zseen'[q] /\ zseen'[q] <= Len(zlog')
                             /\ zmachine'[q].last <= zseen'[q]
    BY <1>1, <1>2, <1>3, <1>7, <1>9
  <2>6. zpending' \subseteq 1..Len(zlog')
    BY <1>1, <1>3
  <2>. QED  BY <1>1, <1>3, <2>1, <2>2, <2>3, <2>4, <2>5, <2>6 DEF StateTyped
<1>11. ASSUME NEW q \in ZReplicas, zfailed'[q] = {} PROVE Replayed(q)'
  <2>1. CASE q = r
    <3>1. ok /\ zfailed[r] = {}
      BY <1>4, <1>9, <1>11, <2>1
    <3>2. ReplayOf(b.m, last) /\ zmachine'[r] = b.m /\ zlog' = zlog
      BY <1>3, <1>8, <1>9, <3>1
    <3>3. ReplayOf(zmachine[r], last)'
      BY <3>2 DEF ReplayOf
    <3>4. last \in zraft'[r]..zseen'[r]
      BY <1>2, <1>3, <1>9
    <3>. QED  BY <2>1, <3>3, <3>4 DEF Replayed
  <2>2. CASE q # r
    <3>1. Replayed(q)
      BY <1>9, <1>11, <2>2 DEF StateInv
    <3>. QED  BY <1>3, <1>9, <2>2, <3>1 DEF Replayed, ReplayOf
  <2>. QED  BY <2>1, <2>2
<1>12. AnsweredApplied'
  <2>1. zanswered \subseteq zdone[ZLeader]
    BY DEF StateInv, AnsweredApplied
  <2>2. zdone[ZLeader] \subseteq zdone'[ZLeader]
    BY <1>9, ReplicatedStateAssumption
  <2>3. told \subseteq zdone'[ZLeader]
    BY <1>9 DEF told, Notified
  <2>. QED  BY <1>3, <2>1, <2>2, <2>3 DEF AnsweredApplied
<1>. QED  BY <1>10, <1>11, <1>12 DEF StateInv

LEMMA StateStays == StateInv /\ [StateNext]_StateVars => StateInv'
<1>. SUFFICES ASSUME StateInv, [StateNext]_StateVars PROVE StateInv'
  OBVIOUS
<1>1. CASE \E cmd \in Commands : propose_command(cmd)
  BY <1>1, ProposeKeeps
<1>2. CASE \E r \in ZReplicas : HandleReadyOf(r)
  BY <1>2, HandleReadyKeeps DEF HandleReadyOf
<1>3. CASE UNCHANGED StateVars
  BY <1>3 DEF StateVars, StateInv, StateTyped, Replayed, ReplayOf, AnsweredApplied
<1>. QED  BY <1>1, <1>2, <1>3 DEF StateNext

LEMMA StateKept == StateSpec => []StateInv
BY StateStart, StateStays, PTL DEF StateSpec

LEMMA StateInvSafe == StateInv => StateSafe
<1>. SUFFICES ASSUME StateInv PROVE StateSafe
  OBVIOUS
<1>1. /\ zlog \in Seq(Commands) /\ Len(zlog) \in Nat
      /\ zraft \in [ZReplicas -> Nat] /\ zseen \in [ZReplicas -> Nat]
      /\ zmachine \in [ZReplicas -> Machine]
      /\ \A r \in ZReplicas : /\ zraft[r] <= zseen[r] /\ zseen[r] <= Len(zlog)
                              /\ zmachine[r].last <= zseen[r]
  BY DEF StateInv, StateTyped
<1>2. \A r \in ZReplicas : /\ zraft[r] \in Nat /\ zseen[r] \in Nat /\ zmachine[r].last \in Nat
                           /\ zmachine[r].colls \in SUBSET ZColls
                           /\ zmachine[r].peers \in SUBSET ZPeers
  BY <1>1 DEF Machine
<1>3. StateTypeOK
  <2>1. \A i \in DOMAIN zlog : zlog[i] \in Commands
    BY <1>1
  <2>2. zpending \subseteq 1..Len(zlog)
    BY DEF StateInv, StateTyped
  <2>. QED  BY <1>1, <1>2, <2>1, <2>2 DEF StateTypeOK
<1>4. ASSUME NEW r \in ZReplicas, zfailed[r] = {}
      PROVE  LET replay == ApplyBatch(NewMachine, 1, zmachine[r].last)
             IN  replay.stopped = 0 /\ replay.m.colls = zmachine[r].colls
  <2>. DEFINE i == zmachine[r].last
  <2>1. PICK s \in zraft[r]..zseen[r] : ReplayOf(zmachine[r], s)
    BY <1>4 DEF StateInv, Replayed
  <2>2. s \in Nat /\ i \in Nat /\ i <= s /\ i <= Len(zlog)
    BY <1>1, <1>2, <2>1 DEF ReplayOf
  <2>3. Applicable(zlog, i)
    <3>1. \A k \in 1..i : k \in 1..s
      BY <2>2
    <3>. QED  BY <2>1, <3>1 DEF ReplayOf, Applicable
  <2>4. CollsAt(zlog, i) = CollsAt(zlog, s)
    BY <2>1, <2>2, EmptyEntries DEF ReplayOf
  <2>. HIDE DEF i
  <2>5. /\ ApplyBatch(NewMachine, 1, i).stopped = 0
        /\ ApplyBatch(NewMachine, 1, i).m.colls = CollsAt(zlog, i)
    BY <1>1, <2>2, <2>3, ReplayWorks
  <2>. QED  BY <2>1, <2>4, <2>5 DEF i, ReplayOf
<1>5. SnapshotFaithful
  BY <1>4 DEF SnapshotFaithful
<1>. QED  BY <1>3, <1>5 DEF StateSafe, StateInv

\* A snapshot of a node none of whose batches failed is the state its log
\* gives up to last_applied, however the entries were cut into batches and
\* although those behind the commit index are applied again; and a client that
\* is told the index of its proposal finds the command applied (raft_apply.rs,
\* handle_ready).
THEOREM StateMachineSafe == StateSpec => []StateSafe
BY StateKept, StateInvSafe, PTL
=============================================================================
