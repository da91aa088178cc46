------------------------------ MODULE MemTable ------------------------------
(***************************************************************************)
(* The concurrent write buffer of src/src/storage/memtable.rs.  Writers    *)
(* share a lock-free skip list and an atomic size: each access to one of   *)
(* them is a step, so that two writers interleave between removing the old *)
(* entry, giving its size back, inserting the new entry and adding its     *)
(* size.  The size is a usize: it wraps at SizeModulus.                    *)
(***************************************************************************)
EXTENDS Integers, FiniteSets, FiniteSetsExt

CONSTANTS
    Writers,       \* threads calling put and delete
    MemIds,           \* vector ids
    Vectors,       \* vectors
    VectorSize,    \* VectorSize[v]: estimate_entry_size of v
    TombstoneSize, \* estimate_tombstone_size
    SizeModulus,   \* 2^64
    MaxOps         \* bound: put and delete calls

ASSUME MemTableAssumption ==
    /\ VectorSize \in [Vectors -> Nat \ {0}]
    /\ TombstoneSize \in Nat \ {0}
    /\ SizeModulus \in Nat \ {0} /\ MaxOps \in Nat
    /\ \A v \in Vectors : VectorSize[v] < SizeModulus
    /\ TombstoneSize < SizeModulus

VARIABLES
    entries,  \* the skip list: an entry for each id, or Absent
    size,     \* the atomic size
    pc,       \* pc[t]: what writer t does next
    call,     \* call[t]: the id and the entry t is writing
    give,     \* give[t]: the size t is about to subtract
    ops,      \* calls so far
    drift,    \* sizes of entries that left the list and were not subtracted
    touched,  \* ids some call wrote
    failed    \* ids on which a put returned an error

memVars == <<entries, size, pc, call, give, ops, drift, touched, failed>>

Absent == [kind |-> "absent"]
Tombstone == [kind |-> "delete"]
Put(v) == [kind |-> "put", v |-> v]

Entries == {Tombstone} \cup {Put(v) : v \in Vectors}

EntrySize(e) ==
    CASE e.kind = "put" -> VectorSize[e.v]
      [] e.kind = "delete" -> TombstoneSize
      [] OTHER -> 0

NoCall == [id |-> 0, entry |-> Absent]

MemInit ==
    /\ entries = [id \in MemIds |-> Absent]
    /\ size = 0
    /\ pc = [t \in Writers |-> "idle"]
    /\ call = [t \in Writers |-> NoCall]
    /\ give = [t \in Writers |-> 0]
    /\ ops = 0 /\ drift = 0 /\ touched = {} /\ failed = {}

Goto(t, l) == pc' = [pc EXCEPT ![t] = l]

\* MemTable::put, entries.remove: an old tombstone makes put return an error
\* after it was removed.
PutRemove(t, id, v) ==
    /\ pc[t] = "idle" /\ ops < MaxOps
    /\ ops' = ops + 1 /\ touched' = touched \cup {id}
    /\ entries' = [entries EXCEPT ![id] = Absent]
    /\ IF entries[id].kind = "delete"
       THEN /\ drift' = drift + TombstoneSize
            /\ failed' = failed \cup {id}
            /\ UNCHANGED <<pc, call, give>>
       ELSE /\ give' = [give EXCEPT ![t] = EntrySize(entries[id])]
            /\ call' = [call EXCEPT ![t] = [id |-> id, entry |-> Put(v)]]
            /\ Goto(t, IF entries[id] = Absent THEN "insert" ELSE "sub")
            /\ UNCHANGED <<drift, failed>>
    /\ UNCHANGED size

\* MemTable::delete, entries.remove: an old tombstone counts as size 0.
DeleteRemove(t, id) ==
    /\ pc[t] = "idle" /\ ops < MaxOps
    /\ ops' = ops + 1 /\ touched' = touched \cup {id}
    /\ entries' = [entries EXCEPT ![id] = Absent]
    /\ call' = [call EXCEPT ![t] = [id |-> id, entry |-> Tombstone]]
    /\ IF entries[id].kind = "delete"
       THEN drift' = drift + TombstoneSize /\ give' = [give EXCEPT ![t] = 0]
       ELSE drift' = drift /\ give' = [give EXCEPT ![t] = EntrySize(entries[id])]
    /\ Goto(t, IF entries[id] = Absent THEN "insert" ELSE "sub")
    /\ UNCHANGED <<size, failed>>

\* size.fetch_sub
SubSize(t) ==
    /\ pc[t] = "sub"
    /\ size' = (size - give[t]) % SizeModulus
    /\ give' = [give EXCEPT ![t] = 0]
    /\ Goto(t, "insert")
    /\ UNCHANGED <<entries, call, ops, drift, touched, failed>>

\* entries.insert replaces whatever another writer put there meanwhile.
Insert(t) ==
    /\ pc[t] = "insert"
    /\ entries' = [entries EXCEPT ![call[t].id] = call[t].entry]
    /\ drift' = drift + EntrySize(entries[call[t].id])
    /\ Goto(t, "add")
    /\ UNCHANGED <<size, call, give, ops, touched, failed>>

\* size.fetch_add, and return Ok.
AddSize(t) ==
    /\ pc[t] = "add"
    /\ size' = (size + EntrySize(call[t].entry)) % SizeModulus
    /\ call' = [call EXCEPT ![t] = NoCall]
    /\ Goto(t, "idle")
    /\ UNCHANGED <<entries, give, ops, drift, touched, failed>>

MemNext ==
    \E t \in Writers :
        \/ \E id \in MemIds, v \in Vectors : PutRemove(t, id, v)
        \/ \E id \in MemIds : DeleteRemove(t, id)
        \/ SubSize(t) \/ Insert(t) \/ AddSize(t)

-----------------------------------------------------------------------------
(* Properties                                                              *)

\* Every variable keeps its type (struct MemTable, memtable.rs:24-31).
MemTypeOK ==
    /\ entries \in [MemIds -> Entries \cup {Absent}]
    /\ size \in 0..(SizeModulus - 1)
    /\ pc \in [Writers -> {"idle", "sub", "insert", "add"}]
    /\ \A t \in Writers : pc[t] # "idle" => call[t].id \in MemIds /\ call[t].entry \in Entries
    /\ give \in [Writers -> 0..(SizeModulus - 1)]
    /\ ops \in 0..MaxOps /\ drift \in Nat /\ failed \subseteq touched /\ touched \subseteq MemIds

Quiescent == \A t \in Writers : pc[t] = "idle"

Stored == MapThenSumSet(LAMBDA id : EntrySize(entries[id]), MemIds)

ToAdd == MapThenSumSet(LAMBDA t : IF pc[t] = "add" THEN EntrySize(call[t].entry) ELSE 0, Writers)
ToSub == MapThenSumSet(LAMBDA t : IF pc[t] = "sub" THEN give[t] ELSE 0, Writers)

\* At every interleaving the counter accounts for the entries in the list, the
\* additions and subtractions still to come, and what was never given back
\* (overwritten tombstones and entries replaced by a concurrent insert): the
\* counter may run ahead of the list but loses nothing (memtable.rs:44-81).
SizeAccounting ==
    (size + ToAdd) % SizeModulus = (Stored + ToSub + drift) % SizeModulus

\* Two writers of one id never leave it without an entry: when the writers
\* are done, an id that was ever written has an entry, a vector or a
\* tombstone, unless a put on it returned an error (memtable.rs:44-81).
EntryKept == Quiescent => \A id \in touched \ failed : entries[id] # Absent

=============================================================================
