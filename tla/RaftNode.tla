------------------------------ MODULE RaftNode ------------------------------
(***************************************************************************)
(* The Raft state machine of src/src/cluster/raft/node.rs, one operator    *)
(* per method: what the method makes of the state of the node and which    *)
(* messages it hands to the runtime.  Module RaftCluster drives it.        *)
(*                                                                         *)
(* Time is left out: an election timeout may fire whenever the node is not *)
(* the leader.  The index of a log entry is its position, as in the code   *)
(* when no snapshot was installed.  Pre-vote, snapshot and read-index      *)
(* messages have no sender in the repository and are not modelled.         *)
(***************************************************************************)
EXTENDS Integers, Sequences, FiniteSets, FiniteSetsExt, SequencesExt

CONSTANTS
    Voters,      \* conf_state.voters, the nodes of the cluster
    BatchSize    \* entries that fit max_msg_size

Nobody == "nobody"   \* node id 0

ASSUME NodeAssumption ==
    /\ IsFiniteSet(Voters) /\ Nobody \notin Voters
    /\ BatchSize \in Nat \ {0}

NoOp == 0            \* the data of an entry without a command

-----------------------------------------------------------------------------
(* The state of a node and the messages                                    *)

Entry(t, d) == [term |-> t, data |-> d]

NoProgress == [p \in Voters |-> 0]

\* RaftNode::new_with_conf
NewNode ==
    [term |-> 0, voted_for |-> Nobody, log |-> <<Entry(0, NoOp)>>,
     commit_index |-> 0, last_applied |-> 0,
     state |-> "Follower", leader_id |-> Nobody,
     granted |-> {}, rejected |-> {},                       \* votes
     next_index |-> NoProgress, match_index |-> NoProgress, \* progress
     recent_active |-> {}, quorum_recently_active |-> TRUE]

\* Message::new and the fields the struct literals set.
Message(type, from, to, term) ==
    [type |-> type, from |-> from, to |-> to, term |-> term, index |-> 0,
     entries |-> <<>>, commit |-> 0, reject |-> FALSE, reject_hint |-> 0]

Reject(m, hint) == [m EXCEPT !.reject = TRUE, !.reject_hint = hint]

\* What a handler leaves: the node, and the messages of its Ready.
Result(s, out) == [node |-> s, out |-> out]

last_index(s) == Len(s.log)

log_term(s, i) == IF i = 0 \/ i > Len(s.log) THEN 0 ELSE s.log[i].term

last_term(s) == log_term(s, last_index(s))

is_quorum(voters, votes) == votes > voters \div 2

\* Mutant: half of the voters, rounded down.
quorum_size_Half == Cardinality(Voters) \div 2

quorum_size == Cardinality(Voters) \div 2 + 1

-----------------------------------------------------------------------------
(* State transitions                                                       *)

reset(s, t) ==
    [s EXCEPT !.term = t, !.voted_for = IF s.term # t THEN Nobody ELSE s.voted_for,
              !.leader_id = Nobody, !.granted = {}, !.rejected = {},
              !.next_index = NoProgress, !.match_index = NoProgress, !.recent_active = {}]

become_follower(s, t, l) ==
    [reset(s, t) EXCEPT !.state = "Follower", !.leader_id = l]

become_pre_candidate(s, me) ==
    [s EXCEPT !.state = "PreCandidate", !.granted = {me}, !.rejected = {}]

\* The term is raised before reset, which therefore keeps the vote.
become_candidate(s, me) ==
    [reset([s EXCEPT !.term = s.term + 1], s.term + 1) EXCEPT
        !.state = "Candidate", !.voted_for = me, !.granted = {me}]

become_leader(s, me) ==
    [s EXCEPT !.next_index = [p \in Voters |-> last_index(s) + 1],
              !.match_index = NoProgress, !.recent_active = {},
              !.state = "Leader", !.leader_id = me, !.quorum_recently_active = TRUE,
              !.log = Append(s.log, Entry(s.term, NoOp))]

\* handle_election_timeout with pre_vote on; the requests that pre_campaign
\* and campaign build are dropped.
handle_election_timeout(s, me) ==
    IF s.state = "Follower" THEN become_pre_candidate(s, me) ELSE become_candidate(s, me)

\* check_quorum: recent_active is set by an acceptance and never cleared.
check_quorum(s) ==
    LET active == Cardinality(s.recent_active) + 1 >= quorum_size
        next == IF ~active /\ s.quorum_recently_active
                THEN become_follower(s, s.term, Nobody) ELSE s
    IN  [next EXCEPT !.quorum_recently_active = active]

-----------------------------------------------------------------------------
(* Message handlers                                                        *)

\* step: a higher term makes the node a follower before the handler runs.
Observe(s, m) ==
    IF m.term > s.term
    THEN become_follower(s, m.term, IF m.type = "AppendEntries" THEN m.from ELSE Nobody)
    ELSE s

handle_heartbeat(s, m) ==
    IF m.term < s.term THEN Result(s, {})
    ELSE Result([s EXCEPT !.leader_id = m.from,
                          !.commit_index = Max({s.commit_index, m.commit})],
                {Message("Heartbeat", m.to, m.from, s.term)})

\* The last index at or below i whose term differs from that of i.
find_conflict_hint(s, i) ==
    Max({0} \cup {j \in 1..i : log_term(s, j) # log_term(s, i)})

\* The check at prev_log_index compares with the term of the message.
ConsistentAt(s, m) == m.index = 0 \/ log_term(s, m.index) = m.term

\* Mutant: the log is not truncated before the entries are appended.
Replicated_NoTruncate(s, m) == s.log \o m.entries

\* truncate_log(index + 1) and the new entries after it, whatever was there.
Replicated(s, m) ==
    IF m.entries = <<>> THEN s.log ELSE SubSeq(s.log, 1, m.index) \o m.entries

handle_append_entries(s, m) ==
    LET response == Message("AppendResponse", m.to, m.from, s.term)
        last_new == m.index + Len(m.entries)
        log == Replicated(s, m)
        commit == IF m.commit > s.commit_index THEN Min({m.commit, last_new})
                  ELSE s.commit_index
    IN  IF m.term < s.term THEN Result(s, {Reject(response, last_index(s))})
        ELSE IF ~ConsistentAt(s, m)
        THEN Result([s EXCEPT !.leader_id = m.from],
                    {Reject(response, find_conflict_hint(s, m.index))})
        ELSE Result([s EXCEPT !.leader_id = m.from, !.log = log, !.commit_index = commit],
                    {[response EXCEPT !.index = Len(log)]})

\* advance_commit_index: the quorum_size-th largest of the match indexes and
\* the leader's own last index.
QuorumIndex(s, me) ==
    LET at == [s.match_index EXCEPT ![me] = last_index(s)]
    IN  Max({i \in Range(at) : Cardinality({p \in Voters : at[p] >= i}) >= quorum_size})

advance_commit_index(s, me) ==
    IF QuorumIndex(s, me) > s.commit_index /\ log_term(s, QuorumIndex(s, me)) = s.term
    THEN [s EXCEPT !.commit_index = QuorumIndex(s, me)] ELSE s

\* Progress::become_reject, the hint, and the lower bound of one.
NextAfterReject(next, hint) ==
    LET back == IF next > 1 THEN next - 1 ELSE next
    IN  Max({1, IF hint > 0 THEN Min({back, hint}) ELSE back})

\* Progress::become_accept
Accepted(s, p, i) ==
    IF i > s.match_index[p]
    THEN [s EXCEPT !.match_index[p] = i, !.next_index[p] = i + 1, !.recent_active = @ \cup {p}]
    ELSE [s EXCEPT !.recent_active = @ \cup {p}]

handle_append_response(s, m) ==
    IF s.state # "Leader" \/ m.term # s.term THEN Result(s, {})
    ELSE IF m.reject
    THEN Result([s EXCEPT !.next_index[m.from] = NextAfterReject(@, m.reject_hint)], {})
    ELSE Result(advance_commit_index(Accepted(s, m.from, m.index), m.to), {})

\* Mutant: an earlier vote in the term does not count.
Granted_AnyCandidate(s, m) ==
    m.term > last_term(s) \/ (m.term = last_term(s) /\ m.index >= last_index(s))

\* The log check of a vote compares with the term of the request.
Granted(s, m) ==
    /\ s.voted_for = Nobody \/ s.voted_for = m.from
    /\ s.voted_for # m.to
    /\ m.term > last_term(s) \/ (m.term = last_term(s) /\ m.index >= last_index(s))

handle_request_vote(s, m) ==
    LET response == Message("VoteResponse", m.to, m.from, s.term)
    IN  IF m.term < s.term THEN Result(s, {Reject(response, 0)})
        ELSE IF Granted(s, m) THEN Result([s EXCEPT !.voted_for = m.from], {response})
        ELSE Result(s, {Reject(response, 0)})

\* build_append_acks: the leader's newest entry to every peer.
build_append_acks(s, me) ==
    {[Message("AppendEntries", me, p, s.term) EXCEPT
        !.index = last_index(s) - 1, !.commit = s.commit_index,
        !.entries = IF last_index(s) > 1 THEN <<Last(s.log)>> ELSE <<>>] : p \in Voters \ {me}}

\* votes.insert, which replaces an earlier answer of the same peer.
Counted(s, m) ==
    [s EXCEPT !.granted = IF m.reject THEN s.granted \ {m.from} ELSE s.granted \cup {m.from},
              !.rejected = IF m.reject THEN s.rejected \cup {m.from} ELSE s.rejected \ {m.from}]

handle_vote_response(s, m) ==
    LET c == Counted(s, m)
        n == Cardinality(Voters)
        leader == become_leader(c, m.to)
    IN  IF s.state # "Candidate" \/ m.term # s.term THEN Result(s, {})
        ELSE IF is_quorum(n, Cardinality(c.granted))
        THEN Result(leader, build_append_acks(leader, m.to))
        ELSE IF is_quorum(n, Cardinality(c.rejected))
        THEN Result(become_follower(c, c.term, Nobody), {})
        ELSE Result(c, {})

-----------------------------------------------------------------------------
(* Proposals and Ready                                                     *)

propose(s, data) == [s EXCEPT !.log = Append(s.log, Entry(s.term, data))]

\* get_entries
get_entries(s, from, max) == SubSeq(s.log, from, Min({Len(s.log), from + max - 1}))

\* ready, the message for one peer: entries from next_index, or a heartbeat.
MessageFor(s, me, p) ==
    IF s.next_index[p] > last_index(s)
    THEN [Message("Heartbeat", me, p, s.term) EXCEPT !.commit = s.commit_index]
    ELSE [Message("AppendEntries", me, p, s.term) EXCEPT
            !.index = s.next_index[p] - 1, !.commit = s.commit_index,
            !.entries = get_entries(s, s.next_index[p], BatchSize)]

\* ready, the entries to apply: everything after last_applied.
committed_entries(s) ==
    IF s.commit_index > s.last_applied
    THEN get_entries(s, s.last_applied + 1, Len(s.log)) ELSE <<>>

ready(s, me) ==
    Result([s EXCEPT !.last_applied = Max({@, s.commit_index})],
           {MessageFor(s, me, p) : p \in Voters \ {me}})

=============================================================================
