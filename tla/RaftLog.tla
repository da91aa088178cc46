------------------------------ MODULE RaftLog ------------------------------
(***************************************************************************)
(* The store of Raft entries of src/src/cluster/raft/storage.rs:           *)
(* MemStorage, a vector of entries behind one lock with a snapshot and the *)
(* hard state. Every operation runs under the lock, so each is one step.   *)
(* The caller is external: it appends at most one past the last index,     *)
(* terms do not fall, and it compacts up to a snapshot. RaftLogSpec is     *)
(* what the store promises, and Abstract the mapping to it.                *)
(***************************************************************************)
EXTENDS Integers, Sequences, FiniteSets

CONSTANTS
    LMaxIndex,      \* bound: the highest index
    LMaxTerm,       \* bound: the highest term
    LMaxBatch       \* bound: entries per append

ASSUME RaftLogAssumption == LMaxIndex \in Nat /\ LMaxTerm \in Nat /\ LMaxBatch \in Nat

VARIABLES
    lentries,    \* entries: [index, term]
    lsnap,       \* snapshot.metadata: [index, term]
    lhard,       \* hard_state: [term, commit]
    lans         \* how the last call ended: "ok", "err" or "panic"

LogVars == <<lentries, lsnap, lhard, lans>>

Indices == 1..LMaxIndex
LTerms == 1..LMaxTerm

LogInit ==
    /\ lentries = <<>> /\ lsnap = [index |-> 0, term |-> 0]
    /\ lhard = [term |-> 0, commit |-> 0] /\ lans = "ok"

first_index == IF lentries # <<>> THEN lentries[1].index ELSE lsnap.index + 1
last_index == IF lentries # <<>> THEN lentries[Len(lentries)].index ELSE lsnap.index

Unreadable == -1

\* term: the snapshot is asked before the range is checked.
term(i) ==
    IF i = 0 THEN 0
    ELSE IF i = lsnap.index THEN lsnap.term
    ELSE IF i < first_index \/ i > last_index THEN Unreadable
    ELSE lentries[i - lentries[1].index + 1].term

\* The error cases of entries, and the read of the first of no entries.
entries_answer(low, high) ==
    IF low > high \/ low < first_index \/ high > last_index + 1 THEN "err"
    ELSE IF lentries = <<>> THEN "panic" ELSE "ok"

\* The limit is checked after the first entry is taken.
TakenOf(n, max) == IF n <= max THEN n ELSE IF max = 0 THEN 1 ELSE max

entries(low, high, max) ==
    LET lo == low - lentries[1].index
    IN  SubSeq(lentries, lo + 1, lo + TakenOf(high - low, max))

-----------------------------------------------------------------------------
\* The batches the caller may append: consecutive indices, rising terms.
Batches ==
    {[k \in 1..n |-> [index |-> f + k - 1, term |-> ts[k]]] :
        n \in 1..LMaxBatch, f \in 1..(last_index + 1), ts \in [1..LMaxBatch -> LTerms]}

LegalBatch(es) ==
    /\ es[Len(es)].index <= LMaxIndex
    /\ \A j, k \in DOMAIN es : j < k => es[j].term <= es[k].term
    /\ es[1].index > lsnap.index => es[1].term >= term(es[1].index - 1)

\* Mutant: the entries that follow the batch stay.
Extended_Overlaid(pos, es) ==
    IF pos + Len(es) < Len(lentries)
    THEN SubSeq(lentries, 1, pos) \o es \o SubSeq(lentries, pos + Len(es) + 1, Len(lentries))
    ELSE (IF pos < Len(lentries) THEN SubSeq(lentries, 1, pos) ELSE lentries) \o es

Extended(pos, es) ==
    (IF pos < Len(lentries) THEN SubSeq(lentries, 1, pos) ELSE lentries) \o es

\* append: a batch that starts inside the snapshot is ignored as a whole.
append(es) ==
    LET offset == IF lentries # <<>> THEN lentries[1].index ELSE 1
        inside == es[1].index <= lsnap.index
        early == es[1].index < offset
    IN  /\ lans' = IF ~inside /\ early THEN "panic" ELSE "ok"
        /\ lentries' = IF inside \/ early THEN lentries ELSE Extended(es[1].index - offset, es)
        /\ UNCHANGED <<lsnap, lhard>>

set_hard_state(t, c) ==
    /\ t >= lhard.term /\ c >= lhard.commit /\ c <= last_index
    /\ lhard' = [term |-> t, commit |-> c]
    /\ lans' = "ok" /\ UNCHANGED <<lentries, lsnap>>

KeptFrom(k) == k + 1

\* compact: reads the first entry of a log that may have none.
compact(k) ==
    \/ /\ k < lsnap.index
       /\ lans' = "ok" /\ UNCHANGED <<lentries, lsnap, lhard>>
    \/ /\ k >= lsnap.index /\ k > last_index
       /\ lans' = "err" /\ UNCHANGED <<lentries, lsnap, lhard>>
    \/ /\ k >= lsnap.index /\ k <= last_index /\ lentries = <<>>
       /\ lans' = "panic" /\ UNCHANGED <<lentries, lsnap, lhard>>
    \/ /\ k >= lsnap.index /\ k <= last_index /\ lentries # <<>>
       /\ lentries' = SubSeq(lentries, KeptFrom(k) - lentries[1].index + 1, Len(lentries))
       /\ lans' = "ok" /\ UNCHANGED <<lsnap, lhard>>

\* create_snapshot keeps the entries: compact drops them later.
create_snapshot(i) ==
    \/ /\ i <= lsnap.index \/ term(i) = Unreadable
       /\ lans' = "err" /\ UNCHANGED <<lentries, lsnap, lhard>>
    \/ /\ i > lsnap.index /\ term(i) # Unreadable
       /\ lsnap' = [index |-> i, term |-> term(i)]
       /\ lans' = "ok" /\ UNCHANGED <<lentries, lhard>>

\* apply_snapshot: the hard state takes the term and the index of the snapshot.
apply_snapshot(i, t) ==
    \/ /\ i < lsnap.index
       /\ lans' = "err" /\ UNCHANGED <<lentries, lsnap, lhard>>
    \/ /\ i >= lsnap.index
       /\ lsnap' = [index |-> i, term |-> t]
       /\ lhard' = [term |-> t, commit |-> i]
       /\ lentries' = <<>> /\ lans' = "ok"

LogNext ==
    \/ \E es \in Batches : LegalBatch(es) /\ append(es)
    \/ \E t \in LTerms, c \in 0..LMaxIndex : set_hard_state(t, c)
    \/ \E k \in (0..lsnap.index) \cup {LMaxIndex + 1} : compact(k)
    \/ \E i \in Indices : create_snapshot(i)
    \/ \E i \in Indices, t \in LTerms :
        /\ i = lsnap.index => t = lsnap.term     \* snapshots of one log agree
        /\ i > lsnap.index => t >= lsnap.term
        /\ apply_snapshot(i, t)

LogSpec == LogInit /\ [][LogNext]_LogVars

-----------------------------------------------------------------------------
\* Types: entries with indices and terms in range, a snapshot and a hard state.
LogTypeOK ==
    /\ \A k \in DOMAIN lentries : lentries[k].index \in Indices /\ lentries[k].term \in LTerms
    /\ lsnap.index \in 0..LMaxIndex /\ lsnap.term \in 0..LMaxTerm
    /\ lhard.term \in 0..LMaxTerm /\ lhard.commit \in 0..LMaxIndex
    /\ lans \in {"ok", "err", "panic"}

\* The two ways to read the log agree: entries(low, high) starts at low, is
\* consecutive, is not empty when the range is not, and each of its terms is
\* the one term() answers, whatever was appended, truncated, compacted or
\* replaced by a snapshot before.
EntriesAgree ==
    \A low, high \in 1..(LMaxIndex + 1), max \in 0..2 :
        entries_answer(low, high) = "ok" =>
            LET got == entries(low, high, max)
            IN  /\ low < high => got # <<>>
                /\ \A k \in DOMAIN got :
                    got[k].index = low + k - 1 /\ got[k].term = term(low + k - 1)

\* The refinement mapping: what can be read, behind the snapshot.
Readable == [i \in {j \in Indices : term(j) # Unreadable} |-> term(i)]

Abstract == INSTANCE RaftLogSpec WITH
    aterms <- Readable, abase <- lsnap.index, alast <- last_index

\* MemStorage implements the abstract log: no sequence of appends, snapshots,
\* compactions and installations changes a term up to the snapshot, moves the
\* snapshot back, loses an entry behind it or leaves one that was truncated.
LogRefines == Abstract!ASpec
=============================================================================
