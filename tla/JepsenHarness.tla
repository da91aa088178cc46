--------------------------- MODULE JepsenHarness ----------------------------
(* How the Jepsen harness drives a store, and how it breaks it.            *)
EXTENDS Naturals, FiniteSets, Sequences, SequencesExt

-----------------------------------------------------------------------------
(***************************************************************************)
(* The buffering clients of the Jepsen harness.  A queued client           *)
(* (BatchedDirectJepsenClient, OptimizedDirectJepsenClient) sends each     *)
(* write through a channel to a task that stores whole batches and answers *)
(* the writers afterwards; the synchronous one                             *)
(* (SyncBatchedDirectJepsenClient) keeps the writes in a locked buffer,    *)
(* answers at once and flushes when the buffer is full and before a read.  *)
(*                                                                         *)
(* Source: src/jepsen/direct_client_batched.rs,                            *)
(* src/jepsen/direct_client_optimized.rs,                                  *)
(* src/jepsen/direct_client_sync_batched.rs.                               *)
(*                                                                         *)
(* Abstractions: a write is its key and its number in the order of the     *)
(* calls; the store keeps the number of the last write of each key.  The   *)
(* upsert of a batch may fail after a prefix of it.                        *)
(***************************************************************************)

CONSTANTS BTasks, BKeys, BBatchSize, BMaxWrites, BMaxReads

VARIABLES bkind,      \* "queued" or "sync"
          bstore,     \* the number stored under each key, 0 if none
          bqueue,     \* writes in the channel of the queued client
          bbuffer,    \* the batch of its task; the buffer of the synchronous client
          btask,      \* what each caller is doing
          backed,     \* writes answered WriteOk
          bwrites,    \* writes called
          breads,     \* reads called
          braced      \* a caller used the store while another held drained writes

ClientVars == <<bkind, bstore, bqueue, bbuffer, btask, backed, bwrites, breads, braced>>

BIdle == [at |-> "idle"]

ClientInit ==
    /\ bkind \in {"queued", "sync"}
    /\ bstore = [k \in BKeys |-> 0]
    /\ bqueue = <<>>
    /\ bbuffer = <<>>
    /\ btask = [t \in BTasks |-> BIdle]
    /\ backed = {}
    /\ bwrites = 0
    /\ breads = 0
    /\ braced = FALSE

\* Collection::upsert stores the vectors of a batch one after the other.
Stored(store, batch) ==
    FoldLeft(LAMBDA s, w : [s EXCEPT ![w.key] = w.n], store, batch)

NewWrite(k) == [key |-> k, n |-> bwrites + 1]

-----------------------------------------------------------------------------
(* The queued clients *)

\* execute_batched_write sends the write and awaits the answer.
execute_batched_write(t, k) ==
    /\ bkind = "queued"
    /\ btask[t] = BIdle
    /\ bwrites < BMaxWrites
    /\ bqueue' = Append(bqueue, NewWrite(k))
    /\ btask' = [btask EXCEPT ![t] = [at |-> "answer", write |-> NewWrite(k)]]
    /\ bwrites' = bwrites + 1
    /\ UNCHANGED <<bkind, bstore, bbuffer, backed, breads, braced>>

\* flush_batch: one upsert, then its result to every waiter.
Waiters(batch) == {t \in BTasks : btask[t] # BIdle /\ btask[t].write \in ToSet(batch)}

NotifiedOk(batch, ok) == IF ok THEN ToSet(batch) ELSE {}

flush_batch(batch) ==
    \E ok \in BOOLEAN, n \in 0..(Len(batch) - 1) :
      /\ n > 0 => ~ok
      /\ bstore' = Stored(bstore, IF ok THEN batch ELSE SubSeq(batch, 1, n))
      /\ backed' = backed \cup NotifiedOk(batch, ok)
      /\ btask' = [t \in BTasks |-> IF t \in Waiters(batch) THEN BIdle ELSE btask[t]]
      /\ bbuffer' = <<>>

\* The task takes one write and flushes when the batch is full.
ReceiveWrite ==
    /\ bkind = "queued"
    /\ bqueue # <<>>
    /\ bqueue' = Tail(bqueue)
    /\ LET batch == Append(bbuffer, Head(bqueue))
       IN  IF Len(batch) >= BBatchSize
             THEN flush_batch(batch)
             ELSE bbuffer' = batch /\ UNCHANGED <<bstore, backed, btask>>
    /\ UNCHANGED <<bkind, bwrites, breads, braced>>

\* The interval elapses.
TickDue == bbuffer # <<>>

FlushTick ==
    /\ bkind = "queued"
    /\ TickDue
    /\ flush_batch(bbuffer)
    /\ UNCHANGED <<bkind, bqueue, bwrites, breads, braced>>

-----------------------------------------------------------------------------
(* The synchronous client *)

Holding(t) == btask[t].at \in {"upsert", "upsert_read"}

Races(t) == braced \/ \E u \in BTasks \ {t} : Holding(u)

\* buffer_write: below the batch size the write is answered unflushed.
buffer_write(t, k) ==
    /\ bkind = "sync"
    /\ btask[t] = BIdle
    /\ bwrites < BMaxWrites
    /\ bbuffer' = Append(bbuffer, NewWrite(k))
    /\ bwrites' = bwrites + 1
    /\ IF Len(bbuffer) + 1 >= BBatchSize
         THEN btask' = [btask EXCEPT ![t] = [at |-> "flush", write |-> NewWrite(k)]] /\ UNCHANGED backed
         ELSE backed' = backed \cup {NewWrite(k)} /\ UNCHANGED btask
    /\ UNCHANGED <<bkind, bstore, bqueue, breads, braced>>

\* execute_read flushes first.
ReadStart == "flush_read"

execute_read_sync(t, k) ==
    /\ bkind = "sync"
    /\ btask[t] = BIdle
    /\ breads < BMaxReads
    /\ breads' = breads + 1
    /\ btask' = [btask EXCEPT ![t] = [at |-> ReadStart, key |-> k,
                                      due |-> {w \in backed : w.key = k}]]
    /\ UNCHANGED <<bkind, bstore, bqueue, bbuffer, backed, bwrites, braced>>

\* flush_buffer drains the buffer under the lock ...
flush_buffer(t) ==
    /\ btask[t].at \in {"flush", "flush_read"}
    /\ btask' = [btask EXCEPT ![t] =
                   IF @.at = "flush" THEN [at |-> "upsert", write |-> @.write, batch |-> bbuffer]
                   ELSE IF bbuffer = <<>> THEN [at |-> "get", key |-> @.key, due |-> @.due]
                   ELSE [at |-> "upsert_read", key |-> @.key, due |-> @.due, batch |-> bbuffer]]
    /\ bbuffer' = <<>>
    /\ braced' = Races(t)
    /\ UNCHANGED <<bkind, bstore, bqueue, backed, bwrites, breads>>

\* ... and stores what it drained after it released the lock.
UpsertDrained(t) ==
    /\ Holding(t)
    /\ bstore' = Stored(bstore, btask[t].batch)
    /\ IF btask[t].at = "upsert"
         THEN backed' = backed \cup {btask[t].write} /\ btask' = [btask EXCEPT ![t] = BIdle]
         ELSE btask' = [btask EXCEPT ![t] = [at |-> "get", key |-> @.key, due |-> @.due]] /\ UNCHANGED backed
    /\ braced' = Races(t)
    /\ UNCHANGED <<bkind, bqueue, bbuffer, bwrites, breads>>

GetValue(t) ==
    /\ btask[t].at = "get"
    /\ btask' = [btask EXCEPT ![t] = BIdle]
    /\ braced' = Races(t)
    /\ UNCHANGED <<bkind, bstore, bqueue, bbuffer, backed, bwrites, breads>>

ClientNext ==
    \/ ReceiveWrite
    \/ FlushTick
    \/ \E t \in BTasks :
         \/ \E k \in BKeys :
              \/ execute_batched_write(t, k)
              \/ buffer_write(t, k)
              \/ execute_read_sync(t, k)
         \/ flush_buffer(t)
         \/ UpsertDrained(t)
         \/ GetValue(t)

-----------------------------------------------------------------------------
(* Properties *)

\* Type invariant.
ClientTypeOK ==
    /\ bstore \in [BKeys -> 0..BMaxWrites]
    /\ Len(bbuffer) <= BMaxWrites
    /\ bwrites \in 0..BMaxWrites
    /\ \A w \in backed : w.key \in BKeys /\ w.n \in 1..bwrites
    /\ \A t \in BTasks : btask[t].at \in {"idle", "answer", "flush", "flush_read", "upsert", "upsert_read", "get"}

\* flush_batch: a write of a queued client that was answered is stored, or a write
\* of the same key that was called later is.
QueuedAckedVisible ==
    bkind = "queued" => \A w \in backed : bstore[w.key] >= w.n

\* execute_read: a read of the synchronous client returns a write at least as new
\* as every one answered before the read was called, as long as no caller flushes
\* or reads while another is between draining the buffer and storing the batch.
\* (Then it may not: the drained writes are neither in the buffer nor stored.)
SyncReadsAcked ==
    ~braced => \A t \in BTasks :
                 btask[t].at = "get" /\ ~Races(t) => \A w \in btask[t].due : bstore[w.key] >= w.n

\* batch_processor: the caller of a queued write waits, and is answered in the end.
WriteQueued(t) == btask[t].at = "answer"

-----------------------------------------------------------------------------
(***************************************************************************)
(* The parts of the Jepsen harness that run tests and break things: the    *)
(* executor that collects the results of its clients through a bounded     *)
(* channel, the chaos monkey that makes and heals simulated partitions,    *)
(* the partition nemesis that adds and deletes firewall rules, and the     *)
(* process nemesis that stops and continues nodes.  The four do not        *)
(* interact; nwhich says which of them a behaviour is about.               *)
(*                                                                         *)
(* Source: src/jepsen/mod.rs (NetworkPartitionSimulator,                   *)
(* JepsenTestExecutor), src/jepsen/nemesis.rs.                             *)
(*                                                                         *)
(* Abstractions: the age of a partition, the end of the test and the       *)
(* deadline of the collector are reached at any moment.  Nodes are         *)
(* registered and in range.  The rules are counted per ordered pair, as    *)
(* iptables keeps duplicates and -D deletes one.                           *)
(***************************************************************************)

CONSTANTS NNodes, NFaults, NClients, NOps, NCapacity

VARIABLES nwhich,     \* "suite", "monkey", "partition" or "process"
          nchan,      \* results in the channel of the executor
          nleft,      \* operations each client still executes
          nsuite,     \* "collect", "await" or "done"
          nactive,    \* active faults: id -> nodes and kind
          nmine,      \* ids in the list of the chaos monkey
          nheals,     \* ids whose healing task was spawned
          nrules,     \* firewall rules by ordered pair
          npaused,    \* nodes stopped by SIGSTOP
          ncall,      \* faults a running stop still has to recover, or Resting
          nmade       \* ids used

FaultVars == <<nwhich, nchan, nleft, nsuite, nactive, nmine, nheals, nrules, npaused, ncall, nmade>>

Pairs == {p \in NNodes \X NNodes : p[1] < p[2]}

NothingActive == [i \in {} |-> {}]

Resting == [at |-> "rest", ids |-> {}]

FaultInit ==
    /\ nwhich \in {"suite", "monkey", "partition", "process"}
    /\ nchan = 0
    /\ nleft = [c \in NClients |-> NOps]
    /\ nsuite = "collect"
    /\ nactive = NothingActive
    /\ nmine = {}
    /\ nheals = {}
    /\ nrules = [p \in Pairs |-> 0]
    /\ npaused = {}
    /\ ncall = Resting
    /\ nmade = 0

Excluding(f, i) == [j \in DOMAIN f \ {i} |-> f[j]]

Including(f, i, v) == [j \in DOMAIN f \cup {i} |-> IF j = i THEN v ELSE f[j]]

-----------------------------------------------------------------------------
(* execute_test_suite *)

\* run_client_operations_optimized: send waits while the channel is full.
ClientSends(c) ==
    /\ nwhich = "suite"
    /\ nleft[c] > 0
    /\ nchan < NCapacity
    /\ nchan' = nchan + 1
    /\ nleft' = [nleft EXCEPT ![c] = @ - 1]
    /\ UNCHANGED <<nwhich, nsuite, nactive, nmine, nheals, nrules, npaused, ncall, nmade>>

\* The test duration is over: the operation in flight is a client's last.
DurationOver(c) ==
    /\ nwhich = "suite"
    /\ nleft[c] > 1
    /\ nleft' = [nleft EXCEPT ![c] = 1]
    /\ UNCHANGED <<nwhich, nchan, nsuite, nactive, nmine, nheals, nrules, npaused, ncall, nmade>>

CollectResult ==
    /\ nwhich = "suite"
    /\ nsuite = "collect"
    /\ nchan > 0
    /\ nchan' = nchan - 1
    /\ UNCHANGED <<nwhich, nleft, nsuite, nactive, nmine, nheals, nrules, npaused, ncall, nmade>>

\* Nothing came for 100 ms and all clients are finished, or the deadline, 30
\* seconds after the test duration, is over: time to empty the channel.
LoopOver ==
    \/ \A c \in NClients : nleft[c] = 0
    \/ nchan = 0 /\ \A c \in NClients : nleft[c] <= 1

EndCollect ==
    /\ nwhich = "suite"
    /\ nsuite = "collect"
    /\ LoopOver
    /\ nsuite' = "await"
    /\ UNCHANGED <<nwhich, nchan, nleft, nactive, nmine, nheals, nrules, npaused, ncall, nmade>>

AwaitClients ==
    /\ nwhich = "suite"
    /\ nsuite = "await"
    /\ \A c \in NClients : nleft[c] = 0
    /\ nsuite' = "done"
    /\ UNCHANGED <<nwhich, nchan, nleft, nactive, nmine, nheals, nrules, npaused, ncall, nmade>>

-----------------------------------------------------------------------------
(* run_partition_chaos_monkey *)

Monkey == nwhich = "monkey"

create_partition(nodes) ==
    /\ Monkey
    /\ nsuite = "collect"
    /\ nmade < NFaults
    /\ nactive' = Including(nactive, nmade, [nodes |-> nodes])
    /\ nmine' = nmine \cup {nmade}
    /\ nmade' = nmade + 1
    /\ UNCHANGED <<nwhich, nchan, nleft, nsuite, nheals, nrules, npaused, ncall>>

\* heal_partition, called by the monkey on one of its list.
heal_partition(i) ==
    /\ Monkey
    /\ nsuite \in {"collect", "await"}
    /\ i \in nmine
    /\ nmine' = nmine \ {i}
    /\ nactive' = Excluding(nactive, i)
    /\ UNCHANGED <<nwhich, nchan, nleft, nsuite, nheals, nrules, npaused, ncall, nmade>>

\* The list drops a partition that is two minutes old and spawns its healing.
SpawnHeal(i) == {i}

HealOld(i) ==
    /\ Monkey
    /\ nsuite = "collect"
    /\ i \in nmine
    /\ nmine' = nmine \ {i}
    /\ nheals' = nheals \cup SpawnHeal(i)
    /\ UNCHANGED <<nwhich, nchan, nleft, nsuite, nactive, nrules, npaused, ncall, nmade>>

RunHeal(i) ==
    /\ Monkey
    /\ i \in nheals
    /\ nheals' = nheals \ {i}
    /\ nactive' = Excluding(nactive, i)
    /\ UNCHANGED <<nwhich, nchan, nleft, nsuite, nmine, nrules, npaused, ncall, nmade>>

\* After the duration the monkey heals what is left in its list.
MonkeyEnds ==
    /\ Monkey
    /\ \/ nsuite = "collect" /\ nsuite' = "await"
       \/ nsuite = "await" /\ nmine = {} /\ nsuite' = "done"
    /\ UNCHANGED <<nwhich, nchan, nleft, nactive, nmine, nheals, nrules, npaused, ncall, nmade>>

can_communicate(a, b) ==
    \A i \in DOMAIN nactive : (a \in nactive[i].nodes) = (b \in nactive[i].nodes)

-----------------------------------------------------------------------------
(* NetworkPartitionNemesis: the nodes are given in ascending order *)

Smaller(nodes, n) == Cardinality({m \in nodes : m < n})

\* create_majority_minority_partition and create_complete_partition
BlockedBy(kind, nodes) ==
    {p \in Pairs : /\ {p[1], p[2]} \subseteq nodes
                   /\ kind = "majority" =>
                        /\ Smaller(nodes, p[1]) < (Cardinality(nodes) \div 2) + 1
                        /\ Smaller(nodes, p[2]) >= (Cardinality(nodes) \div 2) + 1}

inject_partition(kind, nodes) ==
    /\ nwhich = "partition"
    /\ ncall = Resting
    /\ nmade < NFaults
    /\ nrules' = [p \in Pairs |-> nrules[p] + IF p \in BlockedBy(kind, nodes) THEN 1 ELSE 0]
    /\ nactive' = Including(nactive, nmade, [nodes |-> nodes])
    /\ nmade' = nmade + 1
    /\ UNCHANGED <<nwhich, nchan, nleft, nsuite, nmine, nheals, npaused, ncall>>

\* Mutant: only the rules of neighbours are deleted.
Unblocked_Neighbours(nodes) ==
    {p \in Pairs : {p[1], p[2]} \subseteq nodes /\ Smaller(nodes, p[2]) = Smaller(nodes, p[1]) + 1}

\* heal_partition deletes a rule of every pair of the nodes, blocked or not.
Unblocked(nodes) == {p \in Pairs : {p[1], p[2]} \subseteq nodes}

recover_partition(i) ==
    /\ nwhich = "partition"
    /\ ncall = Resting
    /\ i \in DOMAIN nactive
    /\ nactive' = Excluding(nactive, i)
    /\ nrules' = [p \in Pairs |->
                    IF p \in Unblocked(nactive[i].nodes) /\ nrules[p] > 0 THEN nrules[p] - 1 ELSE nrules[p]]
    /\ UNCHANGED <<nwhich, nchan, nleft, nsuite, nmine, nheals, npaused, ncall, nmade>>

\* stop holds the read lock of the map while recover asks for the write lock: it
\* returns when the map is empty and never otherwise.
stop_partitions ==
    /\ nwhich = "partition"
    /\ ncall = Resting
    /\ ncall' = [at |-> IF nactive = NothingActive THEN "done" ELSE "locked", ids |-> DOMAIN nactive]
    /\ UNCHANGED <<nwhich, nchan, nleft, nsuite, nactive, nmine, nheals, nrules, npaused, nmade>>

-----------------------------------------------------------------------------
(* ProcessNemesis; the clock nemesis has the same structure and no effect *)

inject_pause(nodes) ==
    /\ nwhich = "process"
    /\ nmade < NFaults
    /\ npaused' = npaused \cup nodes
    /\ nactive' = Including(nactive, nmade, [nodes |-> nodes])
    /\ nmade' = nmade + 1
    /\ UNCHANGED <<nwhich, nchan, nleft, nsuite, nmine, nheals, nrules, ncall>>

\* SIGCONT continues a node however many faults stopped it.
Resumed(nodes) == nodes

recover_pause(i) ==
    /\ nwhich = "process"
    /\ i \in DOMAIN nactive
    /\ npaused' = npaused \ Resumed(nactive[i].nodes)
    /\ nactive' = Excluding(nactive, i)
    /\ ncall' = [ncall EXCEPT !.ids = @ \ {i}]
    /\ UNCHANGED <<nwhich, nchan, nleft, nsuite, nmine, nheals, nrules, nmade>>

\* stop collects the ids first, then recovers one after the other.
stop_process ==
    /\ nwhich = "process"
    /\ \/ ncall.at = "rest" /\ ncall' = [at |-> "stop", ids |-> DOMAIN nactive]
       \/ ncall.at = "stop" /\ ncall.ids = {} /\ ncall' = [ncall EXCEPT !.at = "done"]
    /\ UNCHANGED <<nwhich, nchan, nleft, nsuite, nactive, nmine, nheals, nrules, npaused, nmade>>

NodeSets == {s \in SUBSET NNodes : s # {}}

FaultNext ==
    \/ \E c \in NClients : ClientSends(c) \/ DurationOver(c)
    \/ CollectResult
    \/ EndCollect
    \/ AwaitClients
    \/ MonkeyEnds
    \/ stop_partitions
    \/ stop_process
    \/ \E s \in NodeSets :
         \/ create_partition(s)
         \/ \E kind \in {"majority", "complete"} : inject_partition(kind, s)
         \/ inject_pause(s)
    \/ \E i \in 0..(NFaults - 1) :
         \/ heal_partition(i)
         \/ HealOld(i)
         \/ RunHeal(i)
         \/ recover_partition(i)
         \/ recover_pause(i)

-----------------------------------------------------------------------------
(* Properties *)

\* Type invariant.
FaultTypeOK ==
    /\ nchan \in 0..NCapacity
    /\ nsuite \in {"collect", "await", "done"}
    /\ DOMAIN nactive \subseteq 0..(NFaults - 1)
    /\ nmine \subseteq DOMAIN nactive
    /\ nrules \in [Pairs -> 0..NFaults]
    /\ npaused \subseteq NNodes

\* recover: once every partition was recovered, no firewall rule is left behind,
\* however the partitions overlapped.  (Of overlapping ones, the first recovery may
\* open pairs that the other still blocks.)
NoRulesLeft ==
    nwhich = "partition" /\ nactive = NothingActive => \A p \in Pairs : nrules[p] = 0

\* ProcessNemesis: a stopped node always belongs to a fault that is still active,
\* so that stop finds and resumes it.
StopResumes ==
    nwhich = "process" => npaused \subseteq UNION {nactive[i].nodes : i \in DOMAIN nactive}

\* execute_test_suite is under way: it returns, also when the channel was full or
\* the deadline passed with clients still at work.
SuiteRuns == nwhich = "suite" /\ nsuite # "done"

\* run_partition_chaos_monkey ended and left nodes apart: every partition is healed
\* sooner or later and all nodes can communicate again.
StillApart == Monkey /\ nsuite = "done" /\ \E a, b \in NNodes : ~can_communicate(a, b)
=============================================================================
