--------------------------- MODULE StorageEngine ---------------------------
(***************************************************************************)
(* The storage engine of src/src/storage/engine.rs: write-ahead log,       *)
(* active memtable, immutable memtables, one background flush task, sorted *)
(* tables on disk and the in-memory list of them.  A step of a thread ends *)
(* where the code takes or releases a lock, so writers interleave between  *)
(* the log append, the memtable write, the size check, the swap of the     *)
(* memtable, the push to the immutable queue and the start of the task.    *)
(*                                                                         *)
(* The log is the sequence of the records that appends wrote, torn ones    *)
(* included (module WAL), a sorted table the mapping it was built from     *)
(* (module SSTable), a write to the memtable one step (module MemTable has *)
(* the steps within).  A vector is named by the log position of the put    *)
(* that wrote it.  Tables on disk can be opened.                           *)
(***************************************************************************)
EXTENDS Integers, Sequences, FiniteSets, SequencesExt, FiniteSetsExt

CONSTANTS
    Threads,       \* threads calling the engine
    Ids,           \* vector ids, numbers
    Calls,         \* the operations threads call
    Workload,      \* which thread writes which ids: pairs <<t, id>>
    Threshold,     \* memtable_size_threshold
    EntrySize,     \* estimate_entry_size
    TombstoneSize, \* estimate_tombstone_size
    CompactFiles,  \* compact_level's 4
    MaxLevel,      \* the last level, 6
    MaxRecords,    \* bound: put and delete calls
    MaxOpens,      \* bound: times the engine is opened
    MaxFailures,   \* bound: appends to the log that fail
    MaxCompacts    \* bound: compactions

Nil == 0        \* no vector: log positions start at 1
NoThread == "nobody"

AllCalls == {"put", "delete", "flush", "compact"}

ASSUME EngineAssumption ==
    /\ Ids \subseteq Nat /\ IsFiniteSet(Ids)
    /\ Calls \subseteq AllCalls /\ Workload \subseteq Threads \X Ids
    /\ Threshold \in Nat /\ EntrySize \in Nat /\ TombstoneSize \in Nat
    /\ NoThread \notin Threads
    /\ CompactFiles \in Nat \ {0} /\ MaxLevel \in Nat
    /\ MaxRecords \in Nat /\ MaxOpens \in Nat /\ MaxFailures \in Nat /\ MaxCompacts \in Nat

VARIABLES
    wal,           \* the records in the log
    up,            \* "closed", "open", or "failed": open returned an error
    heap,          \* every memtable of this process, by number
    memtable,      \* the active one
    immutable,     \* queue of memtables waiting to flush
    task,          \* memtables the running flush task still has to write
    flush_handle,  \* the handle is Some
    flush_lock,    \* the thread holding the handle's mutex, or NoThread
    disk,          \* disk[l]: tables in directory level-l, oldest first
    levels,        \* the loaded list of tables
    loaded,        \* per thread: what load_sstables found, not installed yet
    pc, call, local,   \* per thread: next step, the record written, maybe_flush's memtable
    acked,         \* log positions whose call returned Ok
    vector_count,  \* the counter stats() reports
    flushed,       \* memtables of this process a task wrote to disk
    dropped,       \* memtables of this process whose flush failed
    unseen,        \* log positions this process has neither read nor applied
    opens, failures, compacts,
    skipped        \* history: a merge passed over older tables on disk

vars == <<wal, up, heap, memtable, immutable, task, flush_handle, flush_lock,
          disk, levels, loaded, pc, call, local, acked, vector_count, flushed, dropped,
          unseen, opens, failures, compacts, skipped>>

\* What only openings, failing appends and compactions change.
quiet == <<loaded, dropped, unseen, opens, failures, compacts, skipped>>

\* The memory the engine's threads share, other than the log and the disk.
shared == <<up, heap, memtable, immutable, task, flush_handle, flush_lock, levels>>

Levels == 0..MaxLevel
NoTables == [l \in Levels |-> <<>>]

-----------------------------------------------------------------------------
(* Memtables and tables                                                    *)

Absent == [kind |-> "absent", v |-> Nil]
Tombstone == [kind |-> "delete", v |-> Nil]
PutEntry(v) == [kind |-> "put", v |-> v]

EmptyMem == [entries |-> [id \in Ids |-> Absent], size |-> 0]

SizeOf(e) == IF e.kind = "put" THEN EntrySize ELSE 0

\* MemTable::put; over a tombstone it fails and the tombstone is gone.
MemPutFails(m, id) == m.entries[id].kind = "delete"

MemPut(m, id, v) ==
    IF MemPutFails(m, id)
    THEN [entries |-> [m.entries EXCEPT ![id] = Absent], size |-> m.size]
    ELSE [entries |-> [m.entries EXCEPT ![id] = PutEntry(v)],
          size |-> m.size - SizeOf(m.entries[id]) + EntrySize]

\* MemTable::delete
MemDelete(m, id) ==
    [entries |-> [m.entries EXCEPT ![id] = Tombstone],
     size |-> m.size - SizeOf(m.entries[id]) + TombstoneSize]

ShouldFlush(m) == m.size >= Threshold

\* What flush_memtable writes: the vectors, no tombstones.
TableOf(m) == [id \in Ids |-> m.entries[id].v]

Keys(table) == {id \in Ids : table[id] # Nil}

\* SSTable::may_contain: the range of the table's ids, not the ids.
MayContain(table, id) ==
    Keys(table) # {} /\ Min(Keys(table)) <= id /\ id <= Max(Keys(table))

-----------------------------------------------------------------------------
(* Reading                                                                 *)

\* get_from_memtables: the active memtable, then the queue, oldest first.
SearchOrder == <<memtable>> \o immutable

Holding(id) == {k \in DOMAIN SearchOrder : heap[SearchOrder[k]].entries[id] # Absent}

GetFromMemtables(id) ==
    IF Holding(id) = {} THEN Nil ELSE heap[SearchOrder[Min(Holding(id))]].entries[id].v

\* Where a table is: its level and its number there.
Places(tables) == UNION {{l} \X DOMAIN tables[l] : l \in Levels}
TableAt(p) == levels[p[1]][p[2]]

\* get_from_sstables: level by level, newest table first; the first table
\* whose range covers the id decides.

\* Mutant: oldest table first.
Before_OldestFirst(p, q) == p[1] < q[1] \/ (p[1] = q[1] /\ p[2] < q[2])

Before(p, q) == p[1] < q[1] \/ (p[1] = q[1] /\ p[2] > q[2])

FirstOf(P) == CHOOSE p \in P : \A q \in P : q = p \/ Before(p, q)

GetFromSSTables(id) ==
    LET covering == {p \in Places(levels) : MayContain(TableAt(p), id)}
    IN  IF covering = {} THEN Nil ELSE TableAt(FirstOf(covering))[id]

\* Storage::get: a tombstone and a miss in the memtables are the same Nil.
Get(id) == IF GetFromMemtables(id) # Nil THEN GetFromMemtables(id) ELSE GetFromSSTables(id)

-----------------------------------------------------------------------------
(* Opening and recovery                                                    *)

Init ==
    /\ wal = <<>> /\ up = "closed"
    /\ heap = <<EmptyMem>> /\ memtable = 1 /\ immutable = <<>>
    /\ task = <<>> /\ flush_handle = FALSE /\ flush_lock = NoThread
    /\ disk = NoTables /\ levels = NoTables
    /\ pc = [t \in Threads |-> "idle"]
    /\ call = [t \in Threads |-> 0] /\ local = [t \in Threads |-> 0]
    /\ acked = {} /\ vector_count = 0 /\ flushed = {} /\ dropped = {} /\ unseen = {}
    /\ loaded = [t \in Threads |-> NoTables]
    /\ opens = 0 /\ failures = 0 /\ compacts = 0 /\ skipped = FALSE

\* Mutant: deletes are not replayed.
Replay_PutsOnly(acc, i) ==
    IF ~acc.ok \/ wal[i].op # "put" THEN acc
    ELSE [ok |-> ~MemPutFails(acc.mem, wal[i].id), mem |-> MemPut(acc.mem, wal[i].id, i)]

\* recover: each record is applied to a new memtable, an error ends it.
Replay(acc, i) ==
    IF ~acc.ok THEN acc
    ELSE IF wal[i].op = "put"
         THEN [ok |-> ~MemPutFails(acc.mem, wal[i].id), mem |-> MemPut(acc.mem, wal[i].id, i)]
         ELSE [ok |-> TRUE, mem |-> MemDelete(acc.mem, wal[i].id)]

\* The records that a write left incomplete.  Nothing of a torn record is read;
\* of what lies behind it the records up to the end of its segment are passed
\* over, or their bytes end read_entries with an error.
Torn == {i \in DOMAIN wal : wal[i].op = "torn"}
Damaged == \E i \in Torn : i < Len(wal)
Losses == {X \in SUBSET DOMAIN wal :
              \A j \in X : \E i \in Torn : i < j /\ (i + 1)..j \subseteq X \cup Torn}

Recovered(lost) ==
    LET upTo[n \in 0..Len(wal)] ==
            IF n = 0 THEN [ok |-> TRUE, mem |-> EmptyMem]
            ELSE IF n \in lost \cup Torn THEN upTo[n - 1]
            ELSE Replay(upTo[n - 1], n)
    IN  upTo[Len(wal)]

\* The entries of all tables on disk.
Entries ==
    Cardinality({e \in Places(disk) \X Ids : disk[e[1][1]][e[1][2]][e[2]] # Nil})

\* StorageEngine::open: the count is that of the tables, not of the log.
Open ==
    /\ up = "closed" /\ opens < MaxOpens
    /\ opens' = opens + 1
    /\ \E lost \in Losses :
         /\ unseen' = lost
         /\ IF Recovered(lost).ok
            THEN /\ up' = "open"
                 /\ heap' = <<Recovered(lost).mem>>
                 /\ levels' = disk
                 /\ vector_count' = Entries
            ELSE /\ up' = "failed"
                 /\ UNCHANGED <<heap, levels, vector_count>>
    /\ UNCHANGED <<wal, memtable, immutable, task, flush_handle, flush_lock,
                   disk, loaded, pc, call, local, acked, flushed, dropped, failures, compacts, skipped>>

\* open whose read_entries fails: on bytes that are no record, for ever, or on
\* an I/O error, this time.
OpenFails ==
    /\ up = "closed" /\ opens < MaxOpens
    /\ opens' = opens + 1
    /\ up' \in {"closed"} \cup (IF Damaged THEN {"failed"} ELSE {})
    /\ UNCHANGED <<wal, heap, memtable, immutable, task, flush_handle, flush_lock, disk, levels, loaded,
                   pc, call, local, acked, vector_count, flushed, dropped, unseen, failures, compacts, skipped>>

\* The process ends; whatever is only in memory is gone.
Crash ==
    /\ up = "open"
    /\ up' = "closed"
    /\ heap' = <<EmptyMem>> /\ memtable' = 1 /\ immutable' = <<>>
    /\ task' = <<>> /\ flush_handle' = FALSE /\ flush_lock' = NoThread
    /\ levels' = NoTables /\ vector_count' = 0 /\ flushed' = {} /\ dropped' = {}
    /\ loaded' = [t \in Threads |-> NoTables]
    /\ pc' = [t \in Threads |-> "idle"]
    /\ call' = [t \in Threads |-> 0] /\ local' = [t \in Threads |-> 0]
    /\ UNCHANGED <<wal, disk, acked, unseen, opens, failures, compacts, skipped>>

-----------------------------------------------------------------------------
(* Writing                                                                 *)

At(t, l) == up = "open" /\ pc[t] = l
Goto(t, l) == pc' = [pc EXCEPT ![t] = l]

\* The call of t returns Ok; put counts its vector.
Return(t) ==
    /\ Goto(t, "idle")
    /\ acked' = acked \cup {call[t]}
    /\ vector_count' = IF wal[call[t]].op = "put" THEN vector_count + 1 ELSE vector_count

\* Storage::put and Storage::delete, the append under the log's mutex.
Log(t, op, id) ==
    /\ At(t, "idle") /\ op \in Calls /\ <<t, id>> \in Workload /\ Len(wal) < MaxRecords
    /\ wal' = Append(wal, [op |-> op, id |-> id])
    /\ call' = [call EXCEPT ![t] = Len(wal) + 1]
    /\ Goto(t, "apply")
    /\ UNCHANGED <<shared, disk, local, acked, vector_count, flushed, quiet>>

\* put and delete whose append fails: the record is torn, or all of it is in
\* the log although the call returns the error.  An append that fails before it
\* writes changes nothing.
LogFails(t, op, id) ==
    /\ At(t, "idle") /\ op \in Calls /\ <<t, id>> \in Workload /\ Len(wal) < MaxRecords
    /\ failures < MaxFailures /\ failures' = failures + 1
    /\ \E reached \in {op, "torn"} : wal' = Append(wal, [op |-> reached, id |-> id])
    /\ unseen' = unseen \cup {Len(wal) + 1}
    /\ UNCHANGED <<shared, disk, loaded, pc, call, local, acked, vector_count, flushed, dropped,
                   opens, compacts, skipped>>

\* Mutant: the thread writes to the memtable it last saw.
Apply_StaleMemtable(t) ==
    /\ At(t, "apply")
    /\ LET r == wal[call[t]]
           m == IF local[t] = 0 THEN memtable ELSE local[t] IN
       IF r.op = "put"
       THEN /\ heap' = [heap EXCEPT ![m] = MemPut(@, r.id, call[t])]
            /\ Goto(t, IF MemPutFails(heap[m], r.id) THEN "idle" ELSE "check")
       ELSE /\ heap' = [heap EXCEPT ![m] = MemDelete(@, r.id)]
            /\ Goto(t, "check")
    /\ UNCHANGED <<wal, up, memtable, immutable, task, flush_handle, flush_lock,
                   disk, levels, call, local, acked, vector_count, flushed, quiet>>

\* self.memtable.read().put / .delete; the error of put ends the call.
Apply(t) ==
    /\ At(t, "apply")
    /\ LET r == wal[call[t]] IN
       IF r.op = "put"
       THEN /\ heap' = [heap EXCEPT ![memtable] = MemPut(@, r.id, call[t])]
            /\ Goto(t, IF MemPutFails(heap[memtable], r.id) THEN "idle" ELSE "check")
       ELSE /\ heap' = [heap EXCEPT ![memtable] = MemDelete(@, r.id)]
            /\ Goto(t, "check")
    /\ UNCHANGED <<wal, up, memtable, immutable, task, flush_handle, flush_lock,
                   disk, levels, call, local, acked, vector_count, flushed, quiet>>

\* maybe_flush: a clone of the active memtable's Arc, and should_flush on it.
Check(t) ==
    /\ At(t, "check")
    /\ local' = [local EXCEPT ![t] = memtable]
    /\ IF ShouldFlush(heap[memtable])
       THEN Goto(t, "swap") /\ UNCHANGED <<acked, vector_count>>
       ELSE Return(t)
    /\ UNCHANGED <<wal, shared, disk, call, flushed, quiet>>

\* maybe_flush: a new memtable replaces whatever is active by now.
Swap(t) ==
    /\ At(t, "swap")
    /\ heap' = Append(heap, EmptyMem)
    /\ memtable' = Len(heap) + 1
    /\ Goto(t, "push")
    /\ UNCHANGED <<wal, up, immutable, task, flush_handle, flush_lock,
                   disk, levels, call, local, acked, vector_count, flushed, quiet>>

\* maybe_flush: the memtable that was checked joins the immutable queue.
Push(t) ==
    /\ At(t, "push")
    /\ immutable' = Append(immutable, local[t])
    /\ Goto(t, "trigger")
    /\ UNCHANGED <<wal, up, heap, memtable, task, flush_handle, flush_lock,
                   disk, levels, call, local, acked, vector_count, flushed, quiet>>

\* trigger_flush: only without a handle is the queue taken and a task spawned.
StartTask ==
    IF flush_handle THEN UNCHANGED <<immutable, task, flush_handle>>
    ELSE /\ task' = immutable /\ immutable' = <<>>
         /\ flush_handle' = TRUE

\* Mutant: the mutex is not given back.
Trigger_KeepsLock(t) ==
    /\ At(t, "trigger") /\ flush_lock = NoThread
    /\ StartTask
    /\ flush_lock' = t
    /\ Return(t)
    /\ UNCHANGED <<wal, up, heap, memtable, disk, levels, call, local,
                   flushed, quiet>>

Trigger(t) ==
    /\ At(t, "trigger") /\ flush_lock = NoThread
    /\ StartTask
    /\ Return(t)
    /\ UNCHANGED <<wal, up, heap, memtable, flush_lock, disk, levels, call, local,
                   flushed, quiet>>

\* The flush task writes its next memtable as the newest table of level 0.
FlushMemtable ==
    /\ up = "open" /\ task # <<>>
    /\ disk' = [disk EXCEPT ![0] = Append(@, TableOf(heap[Head(task)]))]
    /\ flushed' = flushed \cup {Head(task)}
    /\ task' = Tail(task)
    /\ UNCHANGED <<wal, up, heap, memtable, immutable, flush_handle, flush_lock,
                   levels, pc, call, local, acked, vector_count, quiet>>

\* A memtable whose flush fails is dropped all the same; the error is printed,
\* and the file it leaves behind is no table.
FlushFails ==
    /\ up = "open" /\ task # <<>>
    /\ dropped' = dropped \cup {Head(task)} /\ task' = Tail(task)
    /\ UNCHANGED <<wal, up, heap, memtable, immutable, flush_handle, flush_lock, disk, levels, loaded,
                   pc, call, local, acked, vector_count, flushed, unseen, opens, failures, compacts, skipped>>

-----------------------------------------------------------------------------
(* flush and compaction                                                    *)

\* Storage::flush takes the handle's mutex, drops the handle, and calls
\* trigger_flush, which locks the same mutex again: the step after this one
\* waits for a lock its own thread holds.
FlushCall(t) ==
    /\ At(t, "idle") /\ "flush" \in Calls /\ flush_lock = NoThread
    /\ flush_lock' = t
    /\ flush_handle' = FALSE
    /\ Goto(t, "flush_trigger")
    /\ UNCHANGED <<wal, up, heap, memtable, immutable, task,
                   disk, levels, call, local, acked, vector_count, flushed, quiet>>

\* merge_sstables: a later table's vector replaces an earlier one's.
Merge(tables) ==
    [id \in Ids |->
        LET holding == {k \in DOMAIN tables : tables[k][id] # Nil}
        IN  IF holding = {} THEN Nil ELSE tables[Max(holding)][id]]

\* Not the oldest tables of the level on disk are the first of the list: a
\* compaction that failed, or one not reloaded yet, has taken those off it.
PassesOver(l) == SubSeq(levels[l], 1, CompactFiles) # SubSeq(disk[l], 1, CompactFiles)

\* compact_level under the write lock of levels: the oldest tables leave the
\* list, and their merge is written to the next level.
Compact(t, l) ==
    /\ At(t, "idle") /\ "compact" \in Calls /\ compacts < MaxCompacts
    /\ l < MaxLevel /\ Len(levels[l]) >= CompactFiles
    /\ compacts' = compacts + 1
    /\ LET merged == Merge(SubSeq(levels[l], 1, CompactFiles)) IN
       /\ levels' = [levels EXCEPT ![l] = SubSeq(@, CompactFiles + 1, Len(@))]
       /\ disk' = IF Keys(merged) = {} THEN disk
                  ELSE [disk EXCEPT ![l + 1] = Append(@, merged)]
    /\ skipped' = (skipped \/ PassesOver(l))
    /\ Goto(t, "reload")
    /\ UNCHANGED <<wal, up, heap, memtable, immutable, task, flush_handle, flush_lock,
                   call, local, acked, vector_count, flushed, loaded, dropped, unseen, opens, failures>>

\* compact_level whose merge fails: the error leaves the tables off the list.
CompactFails(t, l) ==
    /\ At(t, "idle") /\ "compact" \in Calls /\ compacts < MaxCompacts
    /\ l < MaxLevel /\ Len(levels[l]) >= CompactFiles
    /\ compacts' = compacts + 1
    /\ levels' = [levels EXCEPT ![l] = SubSeq(@, CompactFiles + 1, Len(@))]
    /\ UNCHANGED <<wal, up, heap, memtable, immutable, task, flush_handle, flush_lock,
                   disk, loaded, pc, call, local, acked, vector_count, flushed, dropped, unseen,
                   opens, failures, skipped>>

\* compact_level after it gave the lock back: load_sstables, which may fail,
LoadTables(t) ==
    /\ At(t, "reload")
    /\ \/ loaded' = [loaded EXCEPT ![t] = disk] /\ Goto(t, "install")
       \/ Goto(t, "idle") /\ UNCHANGED loaded
    /\ UNCHANGED <<wal, shared, disk, call, local, acked, vector_count, flushed, dropped, unseen,
                   opens, failures, compacts, skipped>>

\* and what it found becomes the list, whatever was written since.
Install(t) ==
    /\ At(t, "install")
    /\ levels' = loaded[t] /\ loaded' = [loaded EXCEPT ![t] = NoTables]
    /\ Goto(t, "idle")
    /\ UNCHANGED <<wal, up, heap, memtable, immutable, task, flush_handle, flush_lock,
                   disk, call, local, acked, vector_count, flushed, dropped, unseen,
                   opens, failures, compacts, skipped>>

WriterStep(t) == Apply(t) \/ Check(t) \/ Swap(t) \/ Push(t) \/ Trigger(t) \/ LoadTables(t) \/ Install(t)

Next ==
    \/ Open \/ OpenFails \/ Crash \/ FlushMemtable \/ FlushFails
    \/ \E t \in Threads : \/ \E op \in {"put", "delete"}, id \in Ids : Log(t, op, id) \/ LogFails(t, op, id)
                          \/ Apply(t) \/ Check(t) \/ Swap(t) \/ Push(t) \/ Trigger(t)
                          \/ FlushCall(t) \/ LoadTables(t) \/ Install(t)
                          \/ \E l \in Levels : Compact(t, l) \/ CompactFails(t, l)

Spec == Init /\ [][Next]_vars

\* Threads and the tokio worker that runs the task keep running; nobody is
\* obliged to call the engine, to open it or to crash.
FairSpec ==
    /\ Spec
    /\ \A t \in Threads : WF_vars(WriterStep(t))
    /\ WF_vars(FlushMemtable \/ FlushFails)

-----------------------------------------------------------------------------
(* Properties                                                              *)

Steps == {"idle", "apply", "check", "swap", "push", "trigger", "flush_trigger", "reload", "install"}
Entry == [kind : {"absent", "put", "delete"}, v : 0..MaxRecords]

\* Every variable keeps its type (struct StorageEngine, engine.rs:22-37).
TypeOK ==
    /\ wal \in Seq([op : {"put", "delete", "torn"}, id : Ids]) /\ Len(wal) <= MaxRecords
    /\ up \in {"closed", "open", "failed"}
    /\ heap \in Seq([entries : [Ids -> Entry], size : Nat])
    /\ memtable \in DOMAIN heap
    /\ immutable \in Seq(DOMAIN heap) /\ task \in Seq(DOMAIN heap)
    /\ flush_handle \in BOOLEAN /\ flush_lock \in Threads \cup {NoThread}
    /\ disk \in [Levels -> Seq([Ids -> 0..MaxRecords])]
    /\ levels \in [Levels -> Seq([Ids -> 0..MaxRecords])]
    /\ loaded \in [Threads -> [Levels -> Seq([Ids -> 0..MaxRecords])]]
    /\ pc \in [Threads -> Steps]
    /\ call \in [Threads -> 0..MaxRecords] /\ local \in [Threads -> Nat]
    /\ acked \subseteq DOMAIN wal /\ vector_count \in Nat
    /\ flushed \subseteq DOMAIN heap /\ dropped \subseteq DOMAIN heap
    /\ unseen \subseteq DOMAIN wal /\ skipped \in BOOLEAN

\* The log positions of an id that the process has read or applied, and the last
\* one (0 for none).
PositionsOf(id) == {i \in DOMAIN wal : wal[i].id = id /\ wal[i].op # "torn" /\ i \notin unseen}
LastLogged(id) == Max(PositionsOf(id) \cup {0})

LoggedValue(id) ==
    IF LastLogged(id) # 0 /\ wal[LastLogged(id)].op = "put" THEN LastLogged(id) ELSE Nil

DeletedEver(id) == \E i \in PositionsOf(id) : wal[i].op = "delete"

PutAfterDelete(id) ==
    \E i, j \in PositionsOf(id) : i < j /\ wal[i].op = "delete" /\ wal[j].op = "put"

\* A record of id behind a torn one could not be read; a table may still have it.
Overlooked(id) ==
    \E i \in unseen : wal[i].id = id /\ i \notin Torn /\ \E j \in Torn : j < i

\* No thread is between logging a write of id and applying it.
Settled(id) == \A t \in Threads : pc[t] = "apply" => wal[call[t]].id # id

\* scan's result for id: the active memtable's vector or tombstone, then the
\* first table, newest first, that has the id.
ScanValue(id) ==
    LET e == heap[memtable].entries[id]
        having == {p \in Places(levels) : TableAt(p)[id] # Nil}
    IN  CASE e.kind = "put" -> e.v
          [] e.kind = "delete" -> Nil
          [] OTHER -> IF having = {} THEN Nil ELSE TableAt(FirstOf(having))[id]

\* Until the memtable is first rotated, also right after a recovery over
\* tables left by earlier processes, after failed appends and with other ids
\* being written, scan answers with the last logged write of an id, and get does
\* for an id that was never deleted; a record behind a torn one may be out of
\* reach, and one whose append failed counts from the next opening on
\* (engine.rs:77-95, 353-361, 409-448).
ServesLog ==
    up = "open" /\ Len(heap) = 1 =>
        \A id \in Ids : Settled(id) /\ ~PutAfterDelete(id) /\ ~Overlooked(id) =>
            /\ ScanValue(id) = LoggedValue(id)
            /\ ~DeletedEver(id) => Get(id) = LoggedValue(id)

\* Opening fails for good only on a log in which an id is put after it was
\* deleted or a record was appended behind a torn one, wherever crashes and
\* failing appends fell; an I/O error is another matter (engine.rs:77-95).
RecoverySucceeds ==
    up = "failed" => Damaged \/ \E id \in Ids : PutAfterDelete(id)

\* The memtables that left the active place and are not yet on disk.
Retired ==
    ToSet(immutable) \cup ToSet(task) \cup {local[t] : t \in {u \in Threads : pc[u] = "push"}}

\* A memtable that is queued or being flushed is never written again: a writer
\* still in the memtable keeps the swap waiting (engine.rs:139-149, 377).
RetiredFrozen ==
    [][up = "open" /\ up' = "open" => \A m \in Retired : heap'[m] = heap[m]]_vars

\* No memtable is lost but one whose flush failed: each other is active,
\* queued, being flushed, on disk or on its way to the queue (engine.rs:135-178).
NothingOrphaned ==
    up = "open" => DOMAIN heap \subseteq {memtable} \cup Retired \cup flushed \cup dropped

\* Of the tables that hold an id, a read that finds a vector finds the
\* newest, through flushes, compactions that succeed or fail and reopening, as
\* long as no merge passed over older tables (those come back with the next
\* reload, and their merge then lies behind newer ones) and no record lies
\* behind a torn one, where a recovery without it flushes an older vector once
\* more (engine.rs:234-296).
NewestTableWins ==
    ~skipped /\ ~Damaged =>
        \A id \in Ids :
            GetFromSSTables(id) # Nil =>
                \A p \in Places(levels) : TableAt(p)[id] <= GetFromSSTables(id)

\* Rotations and flushes that succeed lose no memtable, and of the tables that hold an id the
\* newest is read, through compactions and reopening (engine.rs: flush, compact).
TablesServe == NothingOrphaned /\ NewestTableWins

\* Until the memtable is first rotated, also after crashes and over older tables,
\* reads answer what the log says of an id, and opening fails for good only on a put
\* after a delete or on records behind a torn one (engine.rs: get, scan, open).
EngineRecovers == TypeOK /\ ServesLog /\ RecoverySucceeds

\* A write returns, whatever the other writers and the flush task do, unless
\* some thread called flush, which keeps the handle's mutex forever
\* (engine.rs:151-178, 450-472).
WritesReturn ==
    \A t \in Threads :
        pc[t] # "idle" ~> (pc[t] = "idle" \/ \E u \in Threads : pc[u] = "flush_trigger")

\* "a unified storage interface with ACID properties" (engine.rs:21): a get
\* after all writes returned sees the last of them.
ReadYourWrites ==
    up = "open" /\ (\A t \in Threads : pc[t] = "idle") =>
        \A id \in Ids : ~DeletedEver(id) => Get(id) = LoggedValue(id)

=============================================================================
