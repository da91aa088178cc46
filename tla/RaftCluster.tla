---------------------------- MODULE RaftCluster ----------------------------
(***************************************************************************)
(* Nodes of module RaftNode, each driven by the event loop of              *)
(* src/src/cluster/raft/runtime.rs: one turn of the loop (a tick, a        *)
(* command or a message, with the persisting, sending and applying of the  *)
(* Ready it yields) is one step, as the loop alone owns the node.          *)
(*                                                                         *)
(* A message stays in msgs once sent, so the network may delay, reorder,   *)
(* duplicate and lose it: Transport promises nothing else.  campaign drops *)
(* the requests for votes it builds; the ones modelled are those that      *)
(* RaftMessageHandler::create_request_vote makes for a candidate.          *)
(***************************************************************************)
EXTENDS RaftNode

CONSTANTS
    Campaigns,     \* bound: which node may time out to campaign for which term
    MaxProposals,  \* bound: proposals
    MaxMessages,   \* bound: messages sent
    MaxRestarts    \* bound: restarts of nodes

ASSUME ClusterAssumption ==
    /\ Campaigns \subseteq Voters \X Nat
    /\ MaxProposals \in Nat /\ MaxMessages \in Nat /\ MaxRestarts \in Nat

VARIABLES
    node,       \* the RaftNode of each voter
    msgs,       \* every message sent
    pending,    \* pending_proposals of each runtime: [index, data], with the
                \* term of the proposal as history
    answered,   \* the proposals each client was told are committed
    applied,    \* what each state machine was given to apply: [index, entry]
    committed,  \* history: what leaders committed: [index, entry, term]
    proposals,  \* proposals so far; also the data of the latest
    restarts

vars == <<node, msgs, pending, answered, applied, committed, proposals, restarts>>

client == <<pending, answered, applied, committed, proposals, restarts>>

Init ==
    /\ node = [n \in Voters |-> NewNode]
    /\ msgs = {}
    /\ pending = [n \in Voters |-> {}] /\ answered = [n \in Voters |-> {}]
    /\ applied = [n \in Voters |-> {}] /\ committed = {}
    /\ proposals = 0 /\ restarts = 0

\* send_messages
Send(out) == msgs' = msgs \cup out /\ Cardinality(msgs') <= MaxMessages

-----------------------------------------------------------------------------
(* Ticks                                                                   *)

\* on_tick of a node that is not the leader and whose election timeout passed.
ElectionTimeout(n) ==
    /\ node[n].state # "Leader"
    /\ <<n, node[n].term + 1>> \in Campaigns
    /\ node' = [node EXCEPT ![n] = handle_election_timeout(node[n], n)]
    /\ UNCHANGED <<msgs, client>>

\* on_tick of a leader whose heartbeat is not due.
CheckQuorum(n) ==
    /\ node[n].state = "Leader"
    /\ node' = [node EXCEPT ![n] = check_quorum(node[n])]
    /\ UNCHANGED <<msgs, client>>

\* handle_ready: the messages go out, the entries are applied, and proposals
\* with the index of one of them are answered.
HandleReady(n, s, waiting) ==
    LET r == ready(s, n)
        entries == committed_entries(s)
        indexes == (s.last_applied + 1)..(s.last_applied + Len(entries))
        done == {p \in waiting : p.index \in indexes}
    IN  /\ node' = [node EXCEPT ![n] = r.node]
        /\ Send(r.out)
        /\ applied' = [applied EXCEPT ![n] =
              @ \cup {[index |-> i, entry |-> s.log[i]] : i \in indexes}]
        /\ pending' = [pending EXCEPT ![n] = waiting \ done]
        /\ answered' = [answered EXCEPT ![n] = @ \cup done]

\* on_tick of a leader whose heartbeat is due: process_ready.
Heartbeat(n) ==
    /\ node[n].state = "Leader"
    /\ HandleReady(n, node[n], pending[n])
    /\ UNCHANGED <<committed, proposals, restarts>>

\* Mutant: the index of the entry before the proposed one.
Proposal_IndexBefore(s, d) == [index |-> last_index(s) - 1, data |-> d, term |-> s.term]

\* What on_command remembers of a proposal: the index propose returned.
Proposal(s, d) == [index |-> last_index(s), data |-> d, term |-> s.term]

\* on_command with a proposal; a node that is not the leader answers it with
\* an error and does nothing else.
Propose(n) ==
    /\ node[n].state = "Leader" /\ proposals < MaxProposals
    /\ proposals' = proposals + 1
    /\ LET s == propose(node[n], proposals')
       IN  HandleReady(n, s, pending[n] \cup {Proposal(s, proposals')})
    /\ UNCHANGED <<committed, restarts>>

-----------------------------------------------------------------------------
(* Messages                                                                *)

\* create_request_vote for a candidate, with its term and last index.
RequestVote(n, p) ==
    /\ node[n].state = "Candidate" /\ p # n
    /\ Send({[Message("RequestVote", n, p, node[n].term) EXCEPT !.index = last_index(node[n])]})
    /\ UNCHANGED <<node, client>>

Deliver(m, r) ==
    /\ node' = [node EXCEPT ![m.to] = r.node]
    /\ Send(r.out)

\* on_message, by the type of the message.
OnHeartbeat(m) ==
    /\ m.type = "Heartbeat"
    /\ Deliver(m, handle_heartbeat(Observe(node[m.to], m), m))
    /\ UNCHANGED client

OnAppendEntries(m) ==
    /\ m.type = "AppendEntries"
    /\ Deliver(m, handle_append_entries(Observe(node[m.to], m), m))
    /\ UNCHANGED client

OnAppendResponse(m) ==
    /\ m.type = "AppendResponse"
    /\ LET old == node[m.to]
           r == handle_append_response(Observe(old, m), m)
       IN  /\ Deliver(m, r)
           /\ committed' = committed \cup
                {[index |-> i, entry |-> old.log[i], term |-> old.term] :
                    i \in (old.commit_index + 1)..r.node.commit_index}
    /\ UNCHANGED <<pending, answered, applied, proposals, restarts>>

OnRequestVote(m) ==
    /\ m.type = "RequestVote"
    /\ Deliver(m, handle_request_vote(Observe(node[m.to], m), m))
    /\ UNCHANGED client

OnVoteResponse(m) ==
    /\ m.type = "VoteResponse"
    /\ Deliver(m, handle_vote_response(Observe(node[m.to], m), m))
    /\ UNCHANGED client

\* A node stops and starts again: persist_hard_state and persist_entries write
\* nothing, so it starts as a new node, and its clients get no answer.
Restart(n) ==
    /\ restarts < MaxRestarts
    /\ restarts' = restarts + 1
    /\ node' = [node EXCEPT ![n] = NewNode]
    /\ pending' = [pending EXCEPT ![n] = {}]
    /\ UNCHANGED <<msgs, answered, applied, committed, proposals>>

Next ==
    \/ \E n \in Voters : \/ ElectionTimeout(n) \/ CheckQuorum(n) \/ Heartbeat(n)
                         \/ Propose(n) \/ Restart(n)
                         \/ \E p \in Voters : RequestVote(n, p)
    \/ \E m \in msgs : \/ OnHeartbeat(m) \/ OnAppendEntries(m) \/ OnAppendResponse(m)
                       \/ OnRequestVote(m) \/ OnVoteResponse(m)

Spec == Init /\ [][Next]_vars

-----------------------------------------------------------------------------
(* Properties                                                              *)

States == {"Follower", "PreCandidate", "Candidate", "Leader"}
Ids == Voters \cup {Nobody}
Entries == [term : Nat, data : Nat]

NodeType ==
    [term : Nat, voted_for : Ids, log : Seq(Entries), commit_index : Nat, last_applied : Nat,
     state : States, leader_id : Ids, granted : SUBSET Voters, rejected : SUBSET Voters,
     next_index : [Voters -> Nat], match_index : [Voters -> Nat],
     recent_active : SUBSET Voters, quorum_recently_active : BOOLEAN]

MessageType ==
    [type : {"Heartbeat", "AppendEntries", "AppendResponse", "RequestVote", "VoteResponse"},
     from : Voters, to : Voters, term : Nat, index : Nat, entries : Seq(Entries),
     commit : Nat, reject : BOOLEAN, reject_hint : Nat]

\* Nodes and messages have the types of node.rs:15-59 and types.rs:223-236, and
\* next_index - 1 never wraps in a leader's ready (node.rs:863-908).
TypeOK ==
    /\ node \in [Voters -> NodeType] /\ msgs \subseteq MessageType
    /\ \A n, p \in Voters : node[n].state = "Leader" => node[n].next_index[p] > 0

Leads(n, t) == node[n].state = "Leader" /\ node[n].term = t

\* No two nodes are leader in one term, whatever the network does to votes
\* and however often candidates time out, as long as no node restarted and
\* forgot its vote (node.rs:497-579).
ElectionSafety ==
    restarts = 0 =>
        \A n, p \in Voters : node[n].state = "Leader" /\ Leads(p, node[n].term) => n = p

\* Two logs with an entry of the same term at an index agree up to it: late
\* and repeated AppendEntries cut logs short, but never mix them, as long as no
\* node restarted and forgot its vote (node.rs:387-470).
LogMatching ==
    restarts = 0 =>
        \A n, p \in Voters :
            LET a == node[n].log
                b == node[p].log
            IN  \A i \in 1..Min({Len(a), Len(b)}) :
                    a[i].term = b[i].term => SubSeq(a, 1, i) = SubSeq(b, 1, i)

\* Types, and logs that agree up to every entry they share
\* (handle_append_entries).
LogsAgree == TypeOK /\ LogMatching

\* While a node leads a term its log only grows, as long as no node restarted:
\* a second leader of the term could replace it (node.rs:387-470, 734-748).
LeaderAppendOnly ==
    [][restarts = 0 =>
         \A n \in Voters :
            Leads(n, node[n].term) /\ Leads(n, node[n].term)' =>
               IsPrefix(node[n].log, node'[n].log)]_vars

Acknowledged(c) ==
    {p \in Voters : \E m \in msgs :
        m.type = "AppendResponse" /\ ~m.reject /\ m.from = p /\ m.term = c.term /\ m.index >= c.index}

\* What a leader commits is an entry of its own term or comes before one, and
\* a majority, the leader included, acknowledged it in that term
\* (node.rs:472-495, 802-832).
CommittedAcknowledged ==
    \A c \in committed :
        /\ is_quorum(Cardinality(Voters), Cardinality(Acknowledged(c)) + 1)
        /\ \E d \in committed : d.term = c.term /\ d.entry.term = c.term /\ d.index >= c.index

\* "Check if any proposals are committed" (runtime.rs:265): a client that is
\* told of success by a leader still in the term of the proposal finds its
\* entry applied at the index it was given, as long as no node restarted
\* (runtime.rs:126-160, 229-284).
AnsweredApplied ==
    [][restarts = 0 =>
         \A n \in Voters : \A p \in answered'[n] \ answered[n] :
            p.term = node[n].term =>
               [index |-> p.index, entry |-> Entry(p.term, p.data)] \in applied'[n]]_vars

\* "Check log completeness" (node.rs:520): a leader has what earlier terms committed.
LeaderCompleteness ==
    \A n \in Voters, c \in committed :
        node[n].state = "Leader" /\ node[n].term > c.term =>
            last_index(node[n]) >= c.index /\ node[n].log[c.index] = c.entry

=============================================================================
