---------------------------- MODULE Replication ----------------------------
(***************************************************************************)
(* The replication layer of src/src/cluster/replication.rs: the replica    *)
(* tracker, with its two maps that are locked one after the other, and the *)
(* write coordinator, which works on a copy of the replicas while the      *)
(* tracker changes and nodes fail or fall silent.                          *)
(*                                                                         *)
(* Nodes answer through ReplicationClient, which is not in the repository: *)
(* a call stores the write or does not, and its answer may be lost.        *)
(***************************************************************************)
EXTENDS Integers, Sequences, FiniteSets, FiniteSetsExt, SequencesExt

CONSTANTS
    ReplicaNodes, Shards,
    Tasks,              \* tasks that change the tracker
    Writers,            \* tasks that call coordinate_write
    ReplicationFactor,  \* replication_factor
    Candidates,         \* the candidate_nodes assign_replicas is called with
    Levels,             \* the consistency levels of writes: [kind, n]
    MaxOps,             \* bound: operations on the tracker
    MaxWrites,          \* bound: writes
    MaxApplied,         \* bound: sequence numbers nodes report as applied
    MaxSilent           \* bound: nodes that stop answering

ASSUME ReplicationAssumption ==
    /\ IsFiniteSet(ReplicaNodes) /\ ReplicationFactor \in Nat \ {0}
    /\ Candidates \subseteq Seq(ReplicaNodes) /\ <<>> \notin Candidates
    /\ Levels \subseteq [kind : {"All", "Quorum", "One", "N"}, n : Nat]
    /\ MaxOps \in Nat /\ MaxWrites \in Nat /\ MaxApplied \in Nat /\ MaxSilent \in Nat

VARIABLES
    shard_replicas,  \* the replicas of each shard
    node_shards,     \* the shards of each node
    todo,            \* what each task has left: [kind, shard, replica]
    half,            \* whether a task is between the two maps
    write,           \* what each writer is doing
    stored,          \* the writes each node has stored: [shard, data]
    results,         \* the writes that returned Ok
    silent,          \* nodes that never answer again
    ops, writes      \* operations and writes so far; writes is also the data

replicationVars == <<shard_replicas, node_shards, todo, half, write, stored, results, silent, ops, writes>>

tracker == <<shard_replicas, node_shards, todo, half, ops>>
coordinator == <<write, stored, results, silent, writes>>

\* ShardReplica::new_leader, new_follower
NewReplica(node, role) ==
    [node |-> node, role |-> role, online |-> TRUE, last_applied |-> 0, lag |-> 0]

Idle == [at |-> "idle"]

ReplicationInit ==
    /\ shard_replicas = [s \in Shards |-> <<>>]
    /\ node_shards = [n \in ReplicaNodes |-> {}]
    /\ todo = [t \in Tasks |-> <<>>] /\ half = [t \in Tasks |-> FALSE]
    /\ write = [w \in Writers |-> Idle]
    /\ stored = [n \in ReplicaNodes |-> {}] /\ results = {} /\ silent = {}
    /\ ops = 0 /\ writes = 0

IsLeader(r) == r.role = "Leader"

HasLeader(rs) == \E i \in DOMAIN rs : IsLeader(rs[i])

\* get_leader: the first one
Leader(rs) == rs[Min({i \in DOMAIN rs : IsLeader(rs[i])})]

-----------------------------------------------------------------------------
(* ReplicaTracker                                                          *)

BeginOperations(t, operations) ==
    /\ ops < MaxOps /\ ops' = ops + 1
    /\ todo[t] = <<>> /\ todo' = [todo EXCEPT ![t] = operations]
    /\ UNCHANGED <<shard_replicas, node_shards, half, coordinator>>

NodesOf(rs) == {rs[i].node : i \in DOMAIN rs}

\* register_replica, also of a node the shard already has.
register_replica(t, s, n, role) ==
    BeginOperations(t, <<[kind |-> "register", shard |-> s, replica |-> NewReplica(n, role)]>>)

\* assign_replicas: the first candidate leads, the next ones follow.
assign_replicas(t, s, nodes) ==
    BeginOperations(t, [i \in 1..Min({ReplicationFactor, Len(nodes)}) |->
                 [kind |-> "register", shard |-> s,
                  replica |-> NewReplica(nodes[i], IF i = 1 THEN "Leader" ELSE "Follower")]])

remove_replica(t, s, n) ==
    BeginOperations(t, <<[kind |-> "remove", shard |-> s, replica |-> NewReplica(n, "Follower")]>>)

\* The replicas of a sequence that are in T, in their order: retain, filter.
Selected(rs, T) ==
    LET upTo[i \in 0..Len(rs)] == IF i = 0 THEN <<>>
                                  ELSE IF rs[i] \in T THEN Append(upTo[i - 1], rs[i])
                                  ELSE upTo[i - 1]
    IN  upTo[Len(rs)]

\* The first map: push, or retain.
Replicas(o) ==
    IF o.kind = "register" THEN Append(shard_replicas[o.shard], o.replica)
    ELSE LET rs == shard_replicas[o.shard]
         IN  Selected(rs, {r \in ToSet(rs) : r.node # o.replica.node})

UpdateReplicas(t) ==
    /\ todo[t] # <<>> /\ ~half[t]
    /\ LET o == Head(todo[t])
       IN  shard_replicas' = [shard_replicas EXCEPT ![o.shard] = Replicas(o)]
    /\ half' = [half EXCEPT ![t] = TRUE]
    /\ UNCHANGED <<node_shards, todo, ops, coordinator>>

\* The second map: insert, or remove.
ShardsOfNode(o) ==
    IF o.kind = "register" THEN node_shards[o.replica.node] \cup {o.shard}
    ELSE node_shards[o.replica.node] \ {o.shard}

UpdateShards(t) ==
    /\ half[t] /\ half' = [half EXCEPT ![t] = FALSE]
    /\ LET o == Head(todo[t])
       IN  node_shards' = [node_shards EXCEPT ![o.replica.node] = ShardsOfNode(o)]
    /\ todo' = [todo EXCEPT ![t] = Tail(@)]
    /\ UNCHANGED <<shard_replicas, ops, coordinator>>

\* The places of the replicas of s on node n; the reports change the first.
OnNode(s, n) == {i \in DOMAIN shard_replicas[s] : shard_replicas[s][i].node = n}

update_replica_status(s, n, is_online) ==
    /\ ops < MaxOps /\ ops' = ops + 1
    /\ OnNode(s, n) # {}
    /\ shard_replicas' = [shard_replicas EXCEPT ![s][Min(OnNode(s, n))].online = is_online]
    /\ UNCHANGED <<node_shards, todo, half, coordinator>>

\* update_lag, with saturating_sub
Lag(r, leader_applied) ==
    IF IsLeader(r) \/ leader_applied < r.last_applied THEN 0
    ELSE leader_applied - r.last_applied

update_replication_lag(s, n, applied) ==
    /\ ops < MaxOps /\ ops' = ops + 1
    /\ OnNode(s, n) # {}
    /\ LET rs == shard_replicas[s]
           leader_applied == IF HasLeader(rs) THEN Leader(rs).last_applied ELSE 0
           r == [rs[Min(OnNode(s, n))] EXCEPT !.last_applied = applied]
       IN  shard_replicas' = [shard_replicas EXCEPT ![s][Min(OnNode(s, n))] =
                                 [r EXCEPT !.lag = Lag(r, leader_applied)]]
    /\ UNCHANGED <<node_shards, todo, half, coordinator>>

-----------------------------------------------------------------------------
(* WriteCoordinator::coordinate_write                                      *)

\* Mutant: half of the replicas make a quorum.
min_acks_Half(c, rf) ==
    CASE c.kind = "All" -> rf
      [] c.kind = "Quorum" -> (rf + 1) \div 2
      [] c.kind = "One" -> 1
      [] c.kind = "N" -> Min({c.n, rf})

min_acks(c, rf) ==
    CASE c.kind = "All" -> rf
      [] c.kind = "Quorum" -> (rf \div 2) + 1
      [] c.kind = "One" -> 1
      [] c.kind = "N" -> Min({c.n, rf})

Followers(rs) == Selected(rs, {r \in ToSet(rs) : r.role = "Follower" /\ r.online})

\* The copy of the replicas, and the returns when there are none or no leader.
StartWrite(w, s, c) ==
    LET rs == shard_replicas[s]
    IN  /\ write[w] = Idle /\ writes < MaxWrites /\ writes' = writes + 1
        /\ write' = [write EXCEPT ![w] =
              IF HasLeader(rs)
              THEN [at |-> "leader", shard |-> s, level |-> c, replicas |-> rs, data |-> writes',
                    required |-> min_acks(c, Len(rs)), acks |-> 0, queue |-> Followers(rs)]
              ELSE Idle]
        /\ UNCHANGED <<tracker, stored, results, silent>>

\* A node n stores what w writes, or does not, and answers ok or an error.
Answer(n, w, ok) ==
    /\ n \notin silent
    /\ LET item == [shard |-> write[w].shard, data |-> write[w].data]
       IN  \/ stored' = [stored EXCEPT ![n] = @ \cup {item}]
           \/ ~ok /\ UNCHANGED stored

\* write_to_leader; its error is returned.
WriteToLeader(w) ==
    /\ write[w].at = "leader"
    /\ \E ok \in BOOLEAN :
          /\ Answer(Leader(write[w].replicas).node, w, ok)
          /\ write' = IF ok THEN [write EXCEPT ![w].at = "followers", ![w].acks = 1]
                      ELSE [write EXCEPT ![w] = Idle]
    /\ UNCHANGED <<tracker, results, silent, writes>>

\* replicate_to_follower, one follower after the other until there are
\* enough acknowledgements.
ReplicateToFollower(w) ==
    /\ write[w].at = "followers"
    /\ write[w].acks < write[w].required /\ write[w].queue # <<>>
    /\ \E ok \in BOOLEAN :
          /\ Answer(Head(write[w].queue).node, w, ok)
          /\ write' = [write EXCEPT ![w].acks = IF ok THEN @ + 1 ELSE @, ![w].queue = Tail(@)]
    /\ UNCHANGED <<tracker, results, silent, writes>>

\* Mutant: the write waits for acknowledgements nobody will send any more.
Return_WaitsForAll(w) ==
    /\ write[w].at = "followers" /\ write[w].acks >= write[w].required
    /\ results' = results \cup {write[w]}
    /\ write' = [write EXCEPT ![w] = Idle]
    /\ UNCHANGED <<tracker, stored, silent, writes>>

\* Ok with enough acknowledgements, an error when the followers ran out.
Return(w) ==
    /\ write[w].at = "followers"
    /\ write[w].acks >= write[w].required \/ write[w].queue = <<>>
    /\ results' = IF write[w].acks >= write[w].required THEN results \cup {write[w]} ELSE results
    /\ write' = [write EXCEPT ![w] = Idle]
    /\ UNCHANGED <<tracker, stored, silent, writes>>

\* A node stops answering; the configured timeouts are never used.
FallSilent(n) ==
    /\ Cardinality(silent) < MaxSilent /\ silent' = silent \cup {n}
    /\ UNCHANGED <<tracker, write, stored, results, writes>>

Coordinate(w) == WriteToLeader(w) \/ ReplicateToFollower(w) \/ Return(w)

ReplicationNext ==
    \/ \E t \in Tasks : \/ UpdateReplicas(t) \/ UpdateShards(t)
                        \/ \E s \in Shards : \/ \E ns \in Candidates : assign_replicas(t, s, ns)
                                             \/ \E n \in ReplicaNodes : remove_replica(t, s, n)
                                             \/ \E n \in ReplicaNodes, role \in {"Leader", "Follower"} :
                                                    register_replica(t, s, n, role)
    \/ \E s \in Shards, n \in ReplicaNodes :
           \/ \E on \in BOOLEAN : update_replica_status(s, n, on)
           \/ \E i \in 0..MaxApplied : update_replication_lag(s, n, i)
    \/ \E w \in Writers : Coordinate(w) \/ \E s \in Shards, c \in Levels : StartWrite(w, s, c)
    \/ \E n \in ReplicaNodes : FallSilent(n)

ReplicationSpec == ReplicationInit /\ [][ReplicationNext]_replicationVars

-----------------------------------------------------------------------------
(* Properties                                                              *)

Replica == [node : ReplicaNodes, role : {"Leader", "Follower"}, online : BOOLEAN,
            last_applied : Nat, lag : Nat]

Item(r) == [shard |-> r.shard, data |-> r.data]

\* The types of replication.rs:69-84 and 176-185; lags are unsigned, and a
\* write never counts more acknowledgements than it has replicas.
ReplicationTypeOK ==
    /\ shard_replicas \in [Shards -> Seq(Replica)]
    /\ node_shards \in [ReplicaNodes -> SUBSET Shards]
    /\ \A w \in Writers : write[w] = Idle \/ write[w].acks \in 0..Len(write[w].replicas)
    /\ stored \in [ReplicaNodes -> SUBSET [shard : Shards, data : 1..MaxWrites]]

Holders(r) == {n \in NodesOf(r.replicas) : Item(r) \in stored[n]}

\* No node was registered twice for the shard the write found.
DistinctNodes(r) == Cardinality(NodesOf(r.replicas)) = Len(r.replicas)

\* A write that returned Ok is stored by as many of the shard's nodes as its
\* level asks for, although the tracker changes, answers get lost and nodes
\* fail meanwhile, unless a node was registered twice and answered for two
\* (replication.rs:467-553).
AckedStored ==
    \A r \in results :
        LET rf == Len(r.replicas)
            copies == Cardinality(Holders(r))
        IN  DistinctNodes(r) =>
               CASE r.level.kind = "All" -> copies = rf
                 [] r.level.kind = "Quorum" -> 2 * copies > rf
                 [] r.level.kind = "One" -> Leader(r.replicas).node \in Holders(r)
                 [] r.level.kind = "N" -> copies >= Min({r.level.n, rf})

\* No follower has a write of a writer that its leader lacks: the leader is
\* written first and its error ends the write (replication.rs:494-499).
LeaderFirst ==
    \A w \in Writers : write[w] # Idle =>
        \A n \in ReplicaNodes : Item(write[w]) \in stored[n] =>
            Item(write[w]) \in stored[Leader(write[w].replicas).node]

\* After each operation of a task that alone changes the tracker, the two maps
\* say the same: a node lists a shard if and only if the shard has a replica
\* on the node, registered once or repeatedly (replication.rs:199-235).
MapsAgree ==
    \A t \in Tasks : Tasks = {t} /\ todo[t] = <<>> =>
        \A n \in ReplicaNodes, s \in Shards : s \in node_shards[n] <=> n \in NodesOf(shard_replicas[s])

\* A write that returned Ok is stored as often as its level asks for, no follower
\* has what its leader lacks, and the maps of the tracker agree whenever a task
\* has finished (WriteCoordinator::coordinate_write, ReplicaTracker).
ReplicasSafe == ReplicationTypeOK /\ AckedStored /\ LeaderFirst /\ MapsAgree

\* The writer waits while every node answers. The wait ends with success or an
\* error, however the tracker changes and answers fail; no timeout ends the wait
\* for a node that does not answer (replication.rs:466-561).
WriteWaits(w) == write[w] # Idle /\ silent = {}

=============================================================================
