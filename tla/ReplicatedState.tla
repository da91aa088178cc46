--------------------------- MODULE ReplicatedState ---------------------------
(***************************************************************************)
(* The replicated state machine of src/src/cluster/raft_apply.rs, the part *)
(* of the Raft runtime that feeds it (raft/runtime.rs: apply_entries,      *)
(* notify_proposals, handle_ready) and the proposals of raft_service.rs.   *)
(* The log is the one the leader proposed; which of its entries a node     *)
(* has, and up to where it knows them committed, is Raft's choice (module  *)
(* RaftCluster), and every node sees it in batches of its own.             *)
(***************************************************************************)
EXTENDS Integers, Sequences, FiniteSets

CONSTANTS
    ZReplicas,      \* nodes
    ZLeader,        \* the node that takes proposals
    ZColls,         \* names of collections
    ZPeers,         \* nodes that are registered
    ZMaxLog         \* bound: entries of the log

ASSUME ReplicatedStateAssumption == ZLeader \in ZReplicas /\ ZMaxLog \in Nat

VARIABLES
    zlog,        \* the log: commands
    zraft,       \* raft.last_applied of each node
    zseen,       \* entries of the log each node has
    zmachine,    \* RaftStateMachine of each node: [colls, peers, last]
    zfailed,     \* history: entries of batches that ended in an error
    zdone,       \* history: entries that took effect on each node
    zpending,    \* pending_proposals of the leader
    zanswered    \* history: proposals answered with their index

StateVars == <<zlog, zraft, zseen, zmachine, zfailed, zdone, zpending, zanswered>>

\* StateMachineCommand, an empty entry, an entry that does not decode, and a
\* registration whose address does not parse. The commands that are still to
\* be implemented (UpdateCollection, UpdateNodeStatus, ReassignShards,
\* UpdateClusterConfig), NoOp and a configuration change are "todo".
Commands ==
    [op : {"create", "delete"}, arg : ZColls] \cup [op : {"register", "deregister"}, arg : ZPeers]
    \cup [op : {"empty", "todo", "undecodable", "bad_address"}, arg : {""}]

NewMachine == [colls |-> {}, peers |-> {}, last |-> 0]

StateInit ==
    /\ zlog = <<>> /\ zpending = {} /\ zanswered = {}
    /\ zraft = [r \in ZReplicas |-> 0] /\ zseen = [r \in ZReplicas |-> 0]
    /\ zmachine = [r \in ZReplicas |-> NewMachine]
    /\ zfailed = [r \in ZReplicas |-> {}] /\ zdone = [r \in ZReplicas |-> {}]

\* apply_command: a collection that exists is created without complaint, one
\* that does not exist cannot be deleted.
Fails(m, cmd) ==
    \/ cmd.op \in {"undecodable", "bad_address"}
    \/ cmd.op = "delete" /\ cmd.arg \notin m.colls

apply_command(m, cmd) ==
    [m EXCEPT !.colls = CASE cmd.op = "create" -> @ \cup {cmd.arg}
                          [] cmd.op = "delete" -> @ \ {cmd.arg}
                          [] OTHER -> @,
              !.peers = CASE cmd.op = "register" -> @ \cup {cmd.arg}
                          [] cmd.op = "deregister" -> @ \ {cmd.arg}
                          [] OTHER -> @]

\* apply_entry within a batch: [m: the machine, stopped: the entry that failed
\* or 0]; an empty entry returns before last_applied is stored.
apply_entry(b, i) ==
    IF b.stopped # 0 THEN b
    ELSE IF zlog[i].op = "empty" THEN b
    ELSE IF Fails(b.m, zlog[i]) THEN [b EXCEPT !.stopped = i]
    ELSE [m |-> [apply_command(b.m, zlog[i]) EXCEPT !.last = i], stopped |-> 0]

\* Apply::apply: the first error ends the batch.
ApplyBatch(m, first, last) ==
    LET upTo[k \in (first - 1)..last] ==
            IF k < first THEN [m |-> m, stopped |-> 0] ELSE apply_entry(upTo[k - 1], k)
    IN  upTo[last]

\* RaftRuntimeManager::propose and on_command: the leader's log grows and the
\* client waits for the index. Nothing checks the bytes of a proposal.
propose_command(cmd) ==
    /\ Len(zlog) < ZMaxLog
    /\ zlog' = Append(zlog, cmd)
    /\ zpending' = zpending \cup {Len(zlog) + 1}
    /\ zseen' = [zseen EXCEPT ![ZLeader] = Len(zlog) + 1]
    /\ UNCHANGED <<zraft, zmachine, zfailed, zdone, zanswered>>

\* Mutant: notify_proposals runs before the entries are applied.
Notified_Before(batch, ok) == zpending \cap batch

\* notify_proposals: skipped with the rest of handle_ready when apply fails.
Notified(batch, ok) == IF ok THEN zpending \cap batch ELSE {}

\* handle_ready with committed entries: ready() hands out everything behind
\* last_applied that the node has, and moves last_applied to the commit index
\* before anything is applied.
apply_entries(r, commit, last) ==
    LET batch == (zraft[r] + 1)..last
        b == ApplyBatch(zmachine[r], zraft[r] + 1, last)
        ok == b.stopped = 0
        told == IF r = ZLeader THEN Notified(batch, ok) ELSE {}
    IN  /\ zraft[r] < commit /\ commit <= last /\ zseen[r] <= last /\ last <= Len(zlog)
        /\ zraft' = [zraft EXCEPT ![r] = commit]
        /\ zseen' = [zseen EXCEPT ![r] = last]
        /\ zmachine' = [zmachine EXCEPT ![r] = b.m]
        /\ zfailed' = [zfailed EXCEPT ![r] = @ \cup (IF ok THEN {} ELSE batch)]
        /\ zdone' = [zdone EXCEPT ![r] = @ \cup {i \in batch : ok \/ i < b.stopped}]
        /\ zpending' = zpending \ told /\ zanswered' = zanswered \cup told
        /\ UNCHANGED zlog

HandleReadyOf(r) == \E commit, last \in 1..ZMaxLog : apply_entries(r, commit, last)

StateNext == (\E cmd \in Commands : propose_command(cmd)) \/ (\E r \in ZReplicas : HandleReadyOf(r))

StateSpec == StateInit /\ [][StateNext]_StateVars

-----------------------------------------------------------------------------
\* Types: positions within the log and machines over the given names.
StateTypeOK ==
    /\ \A i \in DOMAIN zlog : zlog[i] \in Commands
    /\ \A r \in ZReplicas :
        /\ zraft[r] \in 0..zseen[r] /\ zseen[r] \in 0..Len(zlog)
        /\ zmachine[r].colls \subseteq ZColls /\ zmachine[r].peers \subseteq ZPeers
        /\ zmachine[r].last \in 0..zseen[r]
    /\ zpending \subseteq 1..Len(zlog)

\* create_snapshot_data pairs the collections with last_applied: while no
\* batch of the node has failed, the collections it writes down are those the
\* log up to that index gives, however the log was cut into batches and
\* although entries behind the commit index are applied more than once.
SnapshotFaithful ==
    \A r \in ZReplicas : zfailed[r] = {} =>
        LET replay == ApplyBatch(NewMachine, 1, zmachine[r].last)
        IN  replay.stopped = 0 /\ replay.m.colls = zmachine[r].colls

\* A client that is told the index of its proposal finds its command in the
\* leader's state machine: notify_proposals runs after apply_entries.
AnsweredApplied == zanswered \subseteq zdone[ZLeader]

\* A snapshot pairs the collections with the index they belong to, and who is
\* told of an index finds the command applied (raft_apply.rs, handle_ready).
StateSafe == StateTypeOK /\ SnapshotFaithful /\ AnsweredApplied

\* "This is where collection metadata changes are applied deterministically"
\* (raft_apply.rs:4): two nodes that consumed the same entries of the log have
\* the same collections and the same nodes.
AppliedDeterministically ==
    \A r, s \in ZReplicas :
        (zraft[r] = zraft[s] /\ zseen[r] = zraft[r] /\ zseen[s] = zraft[s]) =>
            zmachine[r].colls = zmachine[s].colls /\ zmachine[r].peers = zmachine[s].peers

\* The sender of a proposal waits. It is answered in the end, unless a batch that
\* held the proposal failed: then handle_ready returned early, and the sender
\* waits for ever, also when the command itself took effect.
ProposalWaits(i) == i \in zpending \ zfailed[ZLeader]
=============================================================================
