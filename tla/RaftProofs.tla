----------------------------- MODULE RaftProofs -----------------------------
(***************************************************************************)
(* Elections, logs, answers and commits of the Raft cluster, for any set   *)
(* of voters, any number of terms, proposals and messages, and whatever    *)
(* the network does to messages.                                           *)
(*                                                                         *)
(* Elections.  A granted vote stays in msgs, so the argument is about      *)
(* those messages: the voter has since either moved to a higher term or    *)
(* still holds the vote (VotesHeld), so it grants one candidate per term   *)
(* (VotesUnique).  Whoever a candidate or leader counts is itself or sent  *)
(* such a message (VotesCounted); two majorities share a voter.            *)
(*                                                                         *)
(* Logs.  handle_append_entries replaces everything after prev_log_index   *)
(* and compares only the term of the message with that of the entry there, *)
(* so what keeps logs from mixing is that each term has one log: that of   *)
(* its leader, which only grows.  LogInv states that there are L and E,    *)
(* for every term the log of its leader and the leader, such that every    *)
(* entry of every log comes with all before it from the log of its term    *)
(* (Covered), and every AppendEntries and pending proposal is cut out of   *)
(* the log of its term.  A step either leaves L as it is (Keeps) or a      *)
(* leader extends its log (Extends); that only one node does so in a term  *)
(* rests on the invariant of elections.                                    *)
(***************************************************************************)
EXTENDS RaftCluster, FiniteSetTheorems, SequenceTheorems, TLAPS

-----------------------------------------------------------------------------
(* Elections                                                               *)

Fields == {"term", "voted_for", "log", "commit_index", "last_applied", "state",
           "leader_id", "granted", "rejected", "next_index", "match_index",
           "recent_active", "quorum_recently_active"}

Shaped(s) == DOMAIN s = Fields

\* What elections look at is the same in r as in s.
SameVote(s, r) ==
    /\ Shaped(r) /\ r.term = s.term /\ r.voted_for = s.voted_for
    /\ r.state = s.state /\ r.granted = s.granted

\* r is s after following someone in term t.
Follows(s, r, t) ==
    /\ Shaped(r) /\ r.term = t /\ r.state = "Follower" /\ r.granted = {}
    /\ r.voted_for = IF s.term # t THEN Nobody ELSE s.voted_for

IsVote(m) == m.type = "VoteResponse" /\ ~m.reject

Running(s) == s.state \in {"Candidate", "Leader"}

NodesTyped ==
    /\ DOMAIN node = Voters
    /\ \A n \in Voters : Shaped(node[n]) /\ node[n].term \in Nat /\ node[n].granted \subseteq Voters

MsgsTyped == \A m \in msgs : m.from \in Voters /\ m.to \in Voters /\ m.term \in Nat

VotesHeld ==
    \A m \in msgs : IsVote(m) =>
        \/ node[m.from].term > m.term
        \/ node[m.from].term = m.term /\ node[m.from].voted_for = m.to

VotesUnique ==
    \A m1, m2 \in msgs :
        IsVote(m1) /\ IsVote(m2) /\ m1.from = m2.from /\ m1.term = m2.term => m1.to = m2.to

Counts(n, v) ==
    v = n \/ \E m \in msgs : IsVote(m) /\ m.from = v /\ m.to = n /\ m.term = node[n].term

VotesCounted ==
    \A n \in Voters : Running(node[n]) =>
        node[n].voted_for = n /\ \A v \in node[n].granted : Counts(n, v)

LeadersElected ==
    \A n \in Voters : node[n].state = "Leader" =>
        is_quorum(Cardinality(Voters), Cardinality(node[n].granted))

VoteInv == NodesTyped /\ MsgsTyped /\ VotesHeld /\ VotesUnique /\ VotesCounted /\ LeadersElected

-----------------------------------------------------------------------------

\* Two majorities of the voters share one.
LEMMA QuorumsMeet ==
    ASSUME NEW A \in SUBSET Voters, NEW B \in SUBSET Voters,
           is_quorum(Cardinality(Voters), Cardinality(A)),
           is_quorum(Cardinality(Voters), Cardinality(B))
    PROVE  A \cap B # {}
<1>1. IsFiniteSet(Voters)
  BY NodeAssumption
<1>2. IsFiniteSet(A) /\ IsFiniteSet(B)
  BY <1>1, FS_Subset
<1>3. A \cup B \subseteq Voters
  OBVIOUS
<1>4. Cardinality(A \cup B) <= Cardinality(Voters)
  BY <1>1, <1>3, FS_Subset
<1>5. Cardinality(A \cup B) = Cardinality(A) + Cardinality(B) - Cardinality(A \cap B)
  BY <1>2, FS_Union
<1>6. Cardinality(Voters) \in Nat /\ Cardinality(A) \in Nat /\ Cardinality(B) \in Nat
  BY <1>1, <1>2, FS_CardinalityType
<1>7. Cardinality(A) + Cardinality(B) > Cardinality(Voters)
  BY <1>6 DEF is_quorum
<1>8. CASE A \cap B = {}
  <2>1. Cardinality(A \cap B) = 0
    BY <1>8, FS_EmptySet
  <2>. QED  BY <1>4, <1>5, <1>6, <1>7, <2>1
<1>. QED  BY <1>8

\* reset and what becomes of a node by following.
LEMMA FollowerFacts ==
    ASSUME NEW s, Shaped(s), NEW t, NEW l
    PROVE  Follows(s, become_follower(s, t, l), t)
<1>1. Shaped(reset(s, t)) /\ reset(s, t).term = t /\ reset(s, t).granted = {}
      /\ reset(s, t).voted_for = IF s.term # t THEN Nobody ELSE s.voted_for
  BY DEF reset, Shaped, Fields
<1>. HIDE DEF reset
<1>. QED  BY <1>1 DEF become_follower, Follows, Shaped, Fields

\* A message of a higher term is followed, another changes nothing yet.
LEMMA ObserveFacts ==
    ASSUME NEW s, Shaped(s), NEW m
    PROVE  \/ Observe(s, m) = s /\ ~(m.term > s.term)
           \/ m.term > s.term /\ Follows(s, Observe(s, m), m.term)
BY FollowerFacts DEF Observe

LEMMA HeartbeatFacts ==
    ASSUME NEW s, Shaped(s), NEW m
    PROVE  /\ SameVote(s, handle_heartbeat(s, m).node)
           /\ \A o \in handle_heartbeat(s, m).out :
                 o.type # "VoteResponse" /\ o.from = m.to /\ o.to = m.from /\ o.term = s.term
<1>1. CASE m.term < s.term
  BY <1>1 DEF handle_heartbeat, Result, SameVote
<1>2. CASE ~(m.term < s.term)
  <2>. DEFINE c == Max({s.commit_index, m.commit})
  <2>1. SameVote(s, [s EXCEPT !.leader_id = m.from, !.commit_index = c])
    <3>. HIDE DEF c
    <3>. QED  BY DEF SameVote, Shaped, Fields
  <2>. QED  BY <1>2, <2>1 DEF handle_heartbeat, Result, Message
<1>. QED  BY <1>1, <1>2

LEMMA AppendEntriesFacts ==
    ASSUME NEW s, Shaped(s), NEW m
    PROVE  /\ SameVote(s, handle_append_entries(s, m).node)
           /\ \A o \in handle_append_entries(s, m).out :
                 o.type # "VoteResponse" /\ o.from = m.to /\ o.to = m.from /\ o.term = s.term
<1>. DEFINE c == IF m.commit > s.commit_index THEN Min({m.commit, m.index + Len(m.entries)})
                 ELSE s.commit_index
            response == Message("AppendResponse", m.to, m.from, s.term)
            h == find_conflict_hint(s, m.index)
            log == Replicated(s, m)
<1>1. \A x : LET o == Reject(response, x) IN
         o.type # "VoteResponse" /\ o.from = m.to /\ o.to = m.from /\ o.term = s.term
  BY DEF Reject, Message
<1>2. \A x : LET o == [response EXCEPT !.index = x] IN
         o.type # "VoteResponse" /\ o.from = m.to /\ o.to = m.from /\ o.term = s.term
  BY DEF Message
<1>3. SameVote(s, s) /\ SameVote(s, [s EXCEPT !.leader_id = m.from])
  BY DEF SameVote, Shaped, Fields
<1>4. \A x, y : SameVote(s, [s EXCEPT !.leader_id = m.from, !.log = x, !.commit_index = y])
  BY DEF SameVote, Shaped, Fields
<1>5. handle_append_entries(s, m) \in
         {Result(s, {Reject(response, last_index(s))}),
          Result([s EXCEPT !.leader_id = m.from], {Reject(response, h)}),
          Result([s EXCEPT !.leader_id = m.from, !.log = log, !.commit_index = c],
                 {[response EXCEPT !.index = Len(log)]})}
  BY Zenon DEF handle_append_entries
<1>. DEFINE Fine(r) == /\ SameVote(s, r.node)
                       /\ \A o \in r.out : o.type # "VoteResponse" /\ o.from = m.to
                                           /\ o.to = m.from /\ o.term = s.term
<1>. HIDE DEF c, response, h, log
<1>6. Fine(Result(s, {Reject(response, last_index(s))}))
  BY <1>1, <1>3 DEF Result
<1>7. Fine(Result([s EXCEPT !.leader_id = m.from], {Reject(response, h)}))
  BY <1>1, <1>3 DEF Result
<1>8. Fine(Result([s EXCEPT !.leader_id = m.from, !.log = log, !.commit_index = c],
                  {[response EXCEPT !.index = Len(log)]}))
  BY <1>2, <1>4 DEF Result
<1>9. Fine(handle_append_entries(s, m))
  <2>. HIDE DEF Fine
  <2>. QED  BY <1>5, <1>6, <1>7, <1>8
<1>. QED  BY <1>9

LEMMA AppendResponseFacts ==
    ASSUME NEW s, Shaped(s), NEW m
    PROVE  SameVote(s, handle_append_response(s, m).node) /\ handle_append_response(s, m).out = {}
<1>. DEFINE a == Accepted(s, m.from, m.index)
<1>1. SameVote(s, s)
  BY DEF SameVote
<1>2. \A x : SameVote(s, [s EXCEPT !.next_index = x])
  BY DEF SameVote, Shaped, Fields
<1>3. SameVote(s, a)
  BY DEF Accepted, SameVote, Shaped, Fields
<1>. HIDE DEF a
<1>4. \A x : SameVote(a, [a EXCEPT !.commit_index = x])
  BY <1>3 DEF SameVote, Shaped, Fields
<1>5. SameVote(s, advance_commit_index(a, m.to))
  BY <1>3, <1>4 DEF advance_commit_index, SameVote
<1>. QED  BY <1>1, <1>2, <1>5 DEF handle_append_response, Result, a

LEMMA ReadyFacts ==
    ASSUME NEW s, Shaped(s), NEW me
    PROVE  /\ SameVote(s, ready(s, me).node)
           /\ \A o \in ready(s, me).out :
                 /\ o.type # "VoteResponse" /\ o.from = me /\ o.term = s.term
                 /\ \E p \in Voters \ {me} : o.to = p
<1>1. \A x : SameVote(s, [s EXCEPT !.last_applied = x])
  BY DEF SameVote, Shaped, Fields
<1>2. \A p : LET o == MessageFor(s, me, p) IN
         o.type # "VoteResponse" /\ o.from = me /\ o.to = p /\ o.term = s.term
  BY DEF MessageFor, Message
<1>3. /\ \E x : ready(s, me).node = [s EXCEPT !.last_applied = x]
      /\ ready(s, me).out = {MessageFor(s, me, p) : p \in Voters \ {me}}
  BY DEF ready, Result
<1>. QED  BY <1>1, <1>2, <1>3

LEMMA ProposeFacts ==
    ASSUME NEW s, Shaped(s), NEW d
    PROVE  SameVote(s, propose(s, d))
BY DEF propose, SameVote, Shaped, Fields

LEMMA TimeoutFacts ==
    ASSUME NEW s, Shaped(s), s.term \in Nat, NEW me
    PROVE  LET r == handle_election_timeout(s, me) IN
           /\ Shaped(r) /\ r.granted = {me}
           /\ \/ r.state = "PreCandidate" /\ r.term = s.term /\ r.voted_for = s.voted_for
              \/ r.state = "Candidate" /\ r.term = s.term + 1 /\ r.voted_for = me
<1>1. LET r == become_pre_candidate(s, me) IN
      Shaped(r) /\ r.granted = {me} /\ r.state = "PreCandidate" /\ r.term = s.term
      /\ r.voted_for = s.voted_for
  BY DEF become_pre_candidate, Shaped, Fields
<1>2. LET r == become_candidate(s, me) IN
      Shaped(r) /\ r.granted = {me} /\ r.state = "Candidate" /\ r.term = s.term + 1
      /\ r.voted_for = me
  <2>. DEFINE q == reset([s EXCEPT !.term = s.term + 1], s.term + 1)
  <2>1. Shaped(q) /\ q.term = s.term + 1
    BY DEF reset, Shaped, Fields
  <2>2. become_candidate(s, me) =
          [q EXCEPT !.state = "Candidate", !.voted_for = me, !.granted = {me}]
    BY DEF become_candidate
  <2>. HIDE DEF q
  <2>. QED  BY <2>1, <2>2 DEF Shaped, Fields
<1>. QED  BY <1>1, <1>2 DEF handle_election_timeout

LEMMA CheckQuorumFacts ==
    ASSUME NEW s, Shaped(s)
    PROVE  SameVote(s, check_quorum(s)) \/ Follows(s, check_quorum(s), s.term)
<1>. DEFINE q == become_follower(s, s.term, Nobody)
<1>1. \A x : SameVote(s, [s EXCEPT !.quorum_recently_active = x])
  BY DEF SameVote, Shaped, Fields
<1>2. Follows(s, q, s.term)
  BY FollowerFacts
<1>. HIDE DEF q
<1>3. \A x : Follows(s, [q EXCEPT !.quorum_recently_active = x], s.term)
  BY <1>2 DEF Follows, Shaped, Fields
<1>4. \E x : check_quorum(s) \in {[s EXCEPT !.quorum_recently_active = x],
                                 [q EXCEPT !.quorum_recently_active = x]}
  BY DEF check_quorum, q
<1>. QED  BY <1>1, <1>3, <1>4

LEMMA RequestVoteFacts ==
    ASSUME NEW s, Shaped(s), NEW m
    PROVE  LET r == handle_request_vote(s, m) IN
           \/ /\ r.node = s
              /\ \A o \in r.out : ~IsVote(o) /\ o.from = m.to /\ o.to = m.from /\ o.term = s.term
           \/ /\ s.voted_for \in {Nobody, m.from} /\ s.voted_for # m.to
              /\ Shaped(r.node) /\ r.node.term = s.term /\ r.node.state = s.state
              /\ r.node.granted = s.granted /\ r.node.voted_for = m.from
              /\ \A o \in r.out : o.from = m.to /\ o.to = m.from /\ o.term = s.term
<1>. DEFINE response == Message("VoteResponse", m.to, m.from, s.term)
            t == [s EXCEPT !.voted_for = m.from]
<1>1. LET o == Reject(response, 0) IN
      ~IsVote(o) /\ o.from = m.to /\ o.to = m.from /\ o.term = s.term
  BY DEF Reject, Message, IsVote
<1>2. response.from = m.to /\ response.to = m.from /\ response.term = s.term
  BY DEF Message
<1>3. \/ handle_request_vote(s, m) = Result(s, {Reject(response, 0)})
      \/ /\ Granted(s, m)
         /\ handle_request_vote(s, m) = Result(t, {response})
  BY Zenon DEF handle_request_vote
<1>. HIDE DEF response
<1>4. Shaped(t) /\ t.term = s.term /\ t.state = s.state /\ t.granted = s.granted
      /\ t.voted_for = m.from
  BY DEF Shaped, Fields
<1>5. Granted(s, m) => s.voted_for \in {Nobody, m.from} /\ s.voted_for # m.to
  BY DEF Granted
<1>. HIDE DEF t
<1>6. CASE handle_request_vote(s, m) = Result(s, {Reject(response, 0)})
  BY <1>1, <1>6 DEF Result
<1>7. CASE /\ Granted(s, m)
           /\ handle_request_vote(s, m) = Result(t, {response})
  BY <1>2, <1>4, <1>5, <1>7 DEF Result
<1>. QED  BY <1>3, <1>6, <1>7

LEMMA VoteResponseFacts ==
    ASSUME NEW s, Shaped(s), NEW m
    PROVE  LET r == handle_vote_response(s, m) IN
           /\ \/ r.node = s
              \/ Follows(s, r.node, s.term)
              \/ /\ s.state = "Candidate" /\ m.term = s.term
                 /\ Shaped(r.node) /\ r.node.term = s.term /\ r.node.voted_for = s.voted_for
                 /\ r.node.granted \subseteq (IF m.reject THEN s.granted ELSE s.granted \cup {m.from})
                 /\ \/ r.node.state = "Candidate"
                    \/ /\ r.node.state = "Leader"
                       /\ is_quorum(Cardinality(Voters), Cardinality(r.node.granted))
           /\ \A o \in r.out : /\ o.type # "VoteResponse" /\ o.from = m.to /\ o.term = s.term
                               /\ \E p \in Voters : o.to = p
<1>. DEFINE c == Counted(s, m)
            leader == become_leader(c, m.to)
            acks == build_append_acks(leader, m.to)
            lost == become_follower(c, c.term, Nobody)
<1>1. /\ Shaped(c) /\ c.term = s.term /\ c.voted_for = s.voted_for /\ c.state = s.state
      /\ c.granted \subseteq (IF m.reject THEN s.granted ELSE s.granted \cup {m.from})
  BY DEF Counted, Shaped, Fields
<1>2. \/ handle_vote_response(s, m) = Result(s, {})
      \/ /\ s.state = "Candidate" /\ m.term = s.term
         /\ \/ /\ is_quorum(Cardinality(Voters), Cardinality(c.granted))
               /\ handle_vote_response(s, m) = Result(leader, acks)
            \/ handle_vote_response(s, m) = Result(lost, {})
            \/ handle_vote_response(s, m) = Result(c, {})
  BY Zenon DEF handle_vote_response
<1>. HIDE DEF c
<1>3. /\ Shaped(leader) /\ leader.term = s.term /\ leader.voted_for = s.voted_for
      /\ leader.state = "Leader" /\ leader.granted = c.granted
  BY <1>1 DEF become_leader, Shaped, Fields
<1>4. Follows(s, lost, s.term)
  BY <1>1, FollowerFacts DEF Follows
<1>. HIDE DEF leader, lost
<1>5. \A o \in acks : /\ o.type # "VoteResponse" /\ o.from = m.to /\ o.term = s.term
                      /\ \E p \in Voters : o.to = p
  BY <1>3 DEF build_append_acks, Message
<1>. HIDE DEF acks
<1>. QED  BY <1>1, <1>2, <1>3, <1>4, <1>5 DEF Result

-----------------------------------------------------------------------------
(* The invariant is kept                                                   *)

\* Nothing elections look at changes in r, or r does not run for leader: it
\* may be in a higher term, and in the same term it keeps its vote.
Quiet(s, r) ==
    /\ Shaped(r) /\ r.term \in Nat /\ r.term >= s.term /\ r.granted \subseteq Voters
    /\ r.term = s.term => r.voted_for = s.voted_for
    /\ Running(r) => r.term = s.term /\ r.state = s.state /\ r.granted = s.granted

\* The messages of out can be sent by anyone: none is a granted vote.
NoVotes(out) ==
    \A o \in out : o.from \in Voters /\ o.to \in Voters /\ o.term \in Nat /\ ~IsVote(o)

LEMMA QuietStep ==
    ASSUME VoteInv, NEW n \in Voters, NEW r, Quiet(node[n], r), NEW out, NoVotes(out),
           node' = [node EXCEPT ![n] = r] \/ (node' = node /\ r = node[n]),
           msgs' = msgs \cup out
    PROVE  VoteInv'
<1>0. NodesTyped /\ MsgsTyped /\ VotesHeld /\ VotesUnique /\ VotesCounted /\ LeadersElected
  BY DEF VoteInv
<1>1. /\ DOMAIN node' = Voters /\ node'[n] = r
      /\ \A p \in Voters : p # n => node'[p] = node[p]
  BY <1>0 DEF NodesTyped
<1>2. NodesTyped'
  BY <1>0, <1>1 DEF NodesTyped, Quiet
<1>3. MsgsTyped'
  BY <1>0 DEF MsgsTyped, NoVotes
<1>4. \A m \in msgs' : IsVote(m) => m \in msgs
  BY DEF NoVotes
<1>5. VotesUnique'
  BY <1>0, <1>4 DEF VotesUnique
<1>6. \A p \in Voters :
         /\ node'[p].term \in Nat /\ node[p].term \in Nat /\ node'[p].term >= node[p].term
         /\ node'[p].term = node[p].term => node'[p].voted_for = node[p].voted_for
  BY <1>0, <1>1 DEF NodesTyped, Quiet
<1>7. VotesHeld'
  <2>. SUFFICES ASSUME NEW m \in msgs, IsVote(m)
                PROVE  \/ node'[m.from].term > m.term
                       \/ node'[m.from].term = m.term /\ node'[m.from].voted_for = m.to
    BY <1>4 DEF VotesHeld
  <2>1. m.from \in Voters /\ m.term \in Nat
    BY <1>0 DEF MsgsTyped
  <2>2. \/ node[m.from].term > m.term
        \/ node[m.from].term = m.term /\ node[m.from].voted_for = m.to
    BY <1>0 DEF VotesHeld
  <2>. QED  BY <1>6, <2>1, <2>2
<1>8. \A p \in Voters : Running(node'[p]) =>
         /\ node'[p].term = node[p].term /\ node'[p].state = node[p].state
         /\ node'[p].granted = node[p].granted /\ node'[p].voted_for = node[p].voted_for
  BY <1>1 DEF Quiet
<1>9. VotesCounted'
  <2>. SUFFICES ASSUME NEW p \in Voters, Running(node'[p])
                PROVE  node'[p].voted_for = p /\ \A v \in node'[p].granted : Counts(p, v)'
    BY DEF VotesCounted
  <2>1. Running(node[p])
    BY <1>8 DEF Running
  <2>2. node[p].voted_for = p /\ \A v \in node[p].granted : Counts(p, v)
    BY <1>0, <2>1 DEF VotesCounted
  <2>. QED  BY <1>8, <2>2 DEF Counts
<1>10. LeadersElected'
  BY <1>0, <1>8 DEF LeadersElected, Running
<1>. QED  BY <1>2, <1>3, <1>5, <1>7, <1>9, <1>10 DEF VoteInv

\* A node starts to run for a term it was not in before.
LEMMA CandidateStep ==
    ASSUME VoteInv, NEW n \in Voters, NEW r, Shaped(r), r.term = node[n].term + 1,
           r.granted = {n}, r.state = "Candidate", r.voted_for = n,
           node' = [node EXCEPT ![n] = r], msgs' = msgs
    PROVE  VoteInv'
<1>0. NodesTyped /\ MsgsTyped /\ VotesHeld /\ VotesUnique /\ VotesCounted /\ LeadersElected
  BY DEF VoteInv
<1>1. /\ DOMAIN node' = Voters /\ node'[n] = r
      /\ \A p \in Voters : p # n => node'[p] = node[p]
  BY <1>0 DEF NodesTyped
<1>2. NodesTyped' /\ MsgsTyped' /\ VotesUnique'
  BY <1>0, <1>1 DEF NodesTyped, MsgsTyped, VotesUnique
<1>3. VotesHeld'
  <2>. SUFFICES ASSUME NEW m \in msgs, IsVote(m)
                PROVE  \/ node'[m.from].term > m.term
                       \/ node'[m.from].term = m.term /\ node'[m.from].voted_for = m.to
    BY DEF VotesHeld
  <2>1. m.from \in Voters /\ m.term \in Nat /\ node[n].term \in Nat
    BY <1>0 DEF MsgsTyped, NodesTyped
  <2>2. \/ node[m.from].term > m.term
        \/ node[m.from].term = m.term /\ node[m.from].voted_for = m.to
    BY <1>0 DEF VotesHeld
  <2>. QED  BY <1>1, <2>1, <2>2
<1>4. VotesCounted'
  <2>. SUFFICES ASSUME NEW p \in Voters, Running(node'[p])
                PROVE  node'[p].voted_for = p /\ \A v \in node'[p].granted : Counts(p, v)'
    BY DEF VotesCounted
  <2>1. CASE p = n
    BY <1>1, <2>1 DEF Counts
  <2>2. CASE p # n
    BY <1>0, <1>1, <2>2 DEF VotesCounted, Counts
  <2>. QED  BY <2>1, <2>2
<1>5. LeadersElected'
  BY <1>0, <1>1 DEF LeadersElected
<1>. QED  BY <1>2, <1>3, <1>4, <1>5 DEF VoteInv

\* A node grants its vote to c, in the term it is in or in a higher one.
LEMMA GrantStep ==
    ASSUME VoteInv, NEW n \in Voters, NEW c \in Voters, NEW s, NEW r,
           \/ s = node[n]
           \/ s.term \in Nat /\ s.term > node[n].term /\ Follows(node[n], s, s.term),
           s.voted_for \in {Nobody, c}, s.voted_for # n,
           Shaped(r), r.term = s.term, r.state = s.state, r.granted = s.granted,
           r.voted_for = c,
           NEW out, \A o \in out : o.from = n /\ o.to = c /\ o.term = s.term,
           node' = [node EXCEPT ![n] = r], msgs' = msgs \cup out
    PROVE  VoteInv'
<1>0. NodesTyped /\ MsgsTyped /\ VotesHeld /\ VotesUnique /\ VotesCounted /\ LeadersElected
  BY DEF VoteInv
<1>1. /\ DOMAIN node' = Voters /\ node'[n] = r
      /\ \A p \in Voters : p # n => node'[p] = node[p]
  BY <1>0 DEF NodesTyped
<1>2. s.term \in Nat /\ node[n].term \in Nat /\ s.term >= node[n].term /\ s.granted \subseteq Voters
  BY <1>0 DEF NodesTyped, Follows
<1>3. ~Running(r)
  <2>1. CASE s = node[n]
    BY <1>0, <2>1 DEF VotesCounted, Running
  <2>2. CASE Follows(node[n], s, s.term)
    BY <2>2 DEF Follows, Running
  <2>. QED  BY <2>1, <2>2
<1>4. NodesTyped'
  BY <1>0, <1>1, <1>2 DEF NodesTyped
<1>5. MsgsTyped'
  BY <1>0, <1>2 DEF MsgsTyped
<1>6. \A m \in msgs : IsVote(m) /\ m.from = n /\ m.term = s.term => m.to = c
  <2>. SUFFICES ASSUME NEW m \in msgs, IsVote(m), m.from = n, m.term = s.term PROVE m.to = c
    OBVIOUS
  <2>1. \/ node[n].term > s.term
        \/ node[n].term = s.term /\ node[n].voted_for = m.to
    BY <1>0 DEF VotesHeld
  <2>2. node[n].term = s.term /\ node[n].voted_for = m.to
    BY <1>2, <2>1
  <2>3. s = node[n]
    BY <1>2, <2>2
  <2>4. m.to \in Voters /\ Nobody \notin Voters
    BY <1>0, NodeAssumption DEF MsgsTyped
  <2>. QED  BY <2>2, <2>3, <2>4
<1>7. VotesUnique'
  <2>. SUFFICES ASSUME NEW m1 \in msgs', NEW m2 \in msgs', IsVote(m1), IsVote(m2),
                       m1.from = m2.from, m1.term = m2.term
                PROVE  m1.to = m2.to
    BY DEF VotesUnique
  <2>1. CASE m1 \in msgs /\ m2 \in msgs
    BY <1>0, <2>1 DEF VotesUnique
  <2>2. CASE m1 \in out
    BY <1>6, <2>2
  <2>3. CASE m2 \in out
    BY <1>6, <2>3
  <2>. QED  BY <2>1, <2>2, <2>3
<1>8. VotesHeld'
  <2>. SUFFICES ASSUME NEW m \in msgs', IsVote(m)
                PROVE  \/ node'[m.from].term > m.term
                       \/ node'[m.from].term = m.term /\ node'[m.from].voted_for = m.to
    BY DEF VotesHeld
  <2>1. CASE m \in out
    BY <1>1, <2>1
  <2>2. CASE m \in msgs /\ m.from # n
    BY <1>0, <1>1, <2>2 DEF VotesHeld, MsgsTyped
  <2>3. CASE m \in msgs /\ m.from = n
    <3>1. m.term \in Nat
      BY <1>0, <2>3 DEF MsgsTyped
    <3>2. \/ node[n].term > m.term
          \/ node[n].term = m.term /\ node[n].voted_for = m.to
      BY <1>0, <2>3 DEF VotesHeld
    <3>3. m.term < s.term \/ m.term = s.term
      BY <1>2, <3>1, <3>2
    <3>. QED  BY <1>1, <1>2, <1>6, <2>3, <3>1, <3>3
  <2>. QED  BY <2>1, <2>2, <2>3
<1>9. VotesCounted'
  <2>. SUFFICES ASSUME NEW p \in Voters, Running(node'[p])
                PROVE  node'[p].voted_for = p /\ \A v \in node'[p].granted : Counts(p, v)'
    BY DEF VotesCounted
  <2>1. p # n /\ node'[p] = node[p]
    BY <1>1, <1>3
  <2>. QED  BY <1>0, <2>1 DEF VotesCounted, Counts
<1>10. LeadersElected'
  BY <1>0, <1>1, <1>3 DEF LeadersElected, Running
<1>. QED  BY <1>4, <1>5, <1>7, <1>8, <1>9, <1>10 DEF VoteInv

\* A candidate counts the answer m, and may have won with it.
LEMMA CountStep ==
    ASSUME VoteInv, NEW n \in Voters, node[n].state = "Candidate",
           NEW m \in msgs, m.type = "VoteResponse", m.to = n, m.term = node[n].term,
           NEW r, Shaped(r), r.term = node[n].term, r.voted_for = node[n].voted_for,
           r.granted \subseteq (IF m.reject THEN node[n].granted
                                ELSE node[n].granted \cup {m.from}),
           \/ r.state = "Candidate"
           \/ r.state = "Leader" /\ is_quorum(Cardinality(Voters), Cardinality(r.granted)),
           NEW out, NoVotes(out), node' = [node EXCEPT ![n] = r], msgs' = msgs \cup out
    PROVE  VoteInv'
<1>0. NodesTyped /\ MsgsTyped /\ VotesHeld /\ VotesUnique /\ VotesCounted /\ LeadersElected
  BY DEF VoteInv
<1>1. /\ DOMAIN node' = Voters /\ node'[n] = r
      /\ \A p \in Voters : p # n => node'[p] = node[p]
  BY <1>0 DEF NodesTyped
<1>2. m.from \in Voters
  BY <1>0 DEF MsgsTyped
<1>3. NodesTyped'
  BY <1>0, <1>1, <1>2 DEF NodesTyped
<1>4. MsgsTyped'
  BY <1>0 DEF MsgsTyped, NoVotes
<1>5. \A o \in msgs' : IsVote(o) => o \in msgs
  BY DEF NoVotes
<1>6. VotesUnique'
  BY <1>0, <1>5 DEF VotesUnique
<1>7. VotesHeld'
  BY <1>0, <1>1, <1>5 DEF VotesHeld, MsgsTyped
<1>8. VotesCounted'
  <2>. SUFFICES ASSUME NEW p \in Voters, Running(node'[p])
                PROVE  node'[p].voted_for = p /\ \A v \in node'[p].granted : Counts(p, v)'
    BY DEF VotesCounted
  <2>1. CASE p = n
    <3>1. node[n].voted_for = n /\ \A v \in node[n].granted : Counts(n, v)
      BY <1>0 DEF VotesCounted, Running
    <3>2. ~m.reject => Counts(n, m.from)
      BY DEF Counts, IsVote
    <3>3. \A v : Counts(n, v) => Counts(n, v)'
      BY <1>1 DEF Counts
    <3>. QED  BY <1>1, <2>1, <3>1, <3>2, <3>3
  <2>2. CASE p # n
    BY <1>0, <1>1, <2>2 DEF VotesCounted, Counts
  <2>. QED  BY <2>1, <2>2
<1>9. LeadersElected'
  BY <1>0, <1>1 DEF LeadersElected
<1>. QED  BY <1>3, <1>4, <1>6, <1>7, <1>8, <1>9 DEF VoteInv

\* The state in which a node handles a message m of msgs.
LEMMA ObservedState ==
    ASSUME VoteInv, NEW m \in msgs, NEW s, s = Observe(node[m.to], m)
    PROVE  /\ m.to \in Voters /\ m.from \in Voters /\ m.term \in Nat
           /\ Shaped(s) /\ s.term \in Nat /\ s.granted \subseteq Voters
           /\ \/ s = node[m.to]
              \/ s.term > node[m.to].term /\ Follows(node[m.to], s, s.term)
<1>1. m.to \in Voters /\ m.from \in Voters /\ m.term \in Nat
  BY DEF VoteInv, MsgsTyped
<1>2. Shaped(node[m.to]) /\ node[m.to].term \in Nat /\ node[m.to].granted \subseteq Voters
  BY <1>1 DEF VoteInv, NodesTyped
<1>3. s = node[m.to] \/ (m.term > node[m.to].term /\ Follows(node[m.to], s, m.term))
  BY <1>2, ObserveFacts
<1>. QED  BY <1>1, <1>2, <1>3 DEF Follows

LEMMA ObservedQuiet ==
    ASSUME VoteInv, NEW m \in msgs, NEW s, s = Observe(node[m.to], m), NEW r,
           SameVote(s, r) \/ Follows(s, r, s.term)
    PROVE  Quiet(node[m.to], r)
<1>1. /\ Shaped(s) /\ s.term \in Nat /\ s.granted \subseteq Voters
      /\ node[m.to].term \in Nat
      /\ \/ s = node[m.to]
         \/ s.term > node[m.to].term /\ Follows(node[m.to], s, s.term)
  BY ObservedState DEF VoteInv, NodesTyped
<1>2. CASE s = node[m.to]
  BY <1>1, <1>2 DEF Quiet, SameVote, Follows, Running
<1>3. CASE s.term > node[m.to].term /\ Follows(node[m.to], s, s.term)
  BY <1>1, <1>3 DEF Quiet, SameVote, Follows, Running
<1>. QED  BY <1>1, <1>2, <1>3

LEMMA VoteInit == Init => VoteInv
<1>. SUFFICES ASSUME Init PROVE VoteInv
  OBVIOUS
<1>1. \A n \in Voters : node[n] = NewNode
  BY DEF Init
<1>2. /\ Shaped(NewNode) /\ NewNode.term = 0 /\ NewNode.granted = {}
      /\ NewNode.state = "Follower"
  BY DEF NewNode, Shaped, Fields
<1>3. NodesTyped
  BY <1>1, <1>2 DEF Init, NodesTyped
<1>4. MsgsTyped /\ VotesHeld /\ VotesUnique
  BY DEF Init, MsgsTyped, VotesHeld, VotesUnique
<1>5. VotesCounted /\ LeadersElected
  BY <1>1, <1>2 DEF VotesCounted, LeadersElected, Running
<1>. QED  BY <1>3, <1>4, <1>5 DEF VoteInv

LEMMA VoteNext ==
    ASSUME VoteInv, restarts \in Nat, restarts' = 0, [Next]_vars
    PROVE  VoteInv' /\ restarts' \in Nat
<1>0. \A n \in Voters : Shaped(node[n]) /\ node[n].term \in Nat /\ node[n].granted \subseteq Voters
  BY DEF VoteInv, NodesTyped
<1>00. \A o : o.type # "VoteResponse" => ~IsVote(o)
  BY DEF IsVote
<1>1. ASSUME NEW n \in Voters, ElectionTimeout(n) PROVE VoteInv' /\ restarts' \in Nat
  <2>. DEFINE r == handle_election_timeout(node[n], n)
  <2>1. node' = [node EXCEPT ![n] = r] /\ msgs' = msgs /\ restarts' = restarts
    BY <1>1 DEF ElectionTimeout, client
  <2>2. /\ Shaped(r) /\ r.granted = {n}
        /\ \/ r.state = "PreCandidate" /\ r.term = node[n].term /\ r.voted_for = node[n].voted_for
           \/ r.state = "Candidate" /\ r.term = node[n].term + 1 /\ r.voted_for = n
    BY <1>0, TimeoutFacts
  <2>. HIDE DEF r
  <2>3. CASE r.state = "Candidate" /\ r.term = node[n].term + 1 /\ r.voted_for = n
    BY <2>1, <2>2, <2>3, CandidateStep
  <2>4. CASE r.state = "PreCandidate" /\ r.term = node[n].term /\ r.voted_for = node[n].voted_for
    <3>1. Quiet(node[n], r)
      BY <1>0, <2>2, <2>4 DEF Quiet, Running
    <3>2. NoVotes({}) /\ msgs' = msgs \cup {}
      BY <2>1 DEF NoVotes
    <3>. QED  BY <2>1, <3>1, <3>2, QuietStep
  <2>. QED  BY <2>2, <2>3, <2>4
<1>2. ASSUME NEW n \in Voters, CheckQuorum(n) PROVE VoteInv' /\ restarts' \in Nat
  <2>. DEFINE r == check_quorum(node[n])
  <2>1. node' = [node EXCEPT ![n] = r] /\ msgs' = msgs \cup {} /\ restarts' = restarts
    BY <1>2 DEF CheckQuorum, client
  <2>2. SameVote(node[n], r) \/ Follows(node[n], r, node[n].term)
    BY <1>0, CheckQuorumFacts
  <2>. HIDE DEF r
  <2>3. Quiet(node[n], r)
    BY <1>0, <2>2 DEF Quiet, SameVote, Follows, Running
  <2>4. NoVotes({})
    BY DEF NoVotes
  <2>. QED  BY <2>1, <2>3, <2>4, QuietStep
<1>3. ASSUME NEW n \in Voters, NEW s, SameVote(node[n], s), NEW w, HandleReady(n, s, w),
             restarts' = restarts
      PROVE  VoteInv' /\ restarts' \in Nat
  <2>. DEFINE r == ready(s, n)
  <2>1. node' = [node EXCEPT ![n] = r.node] /\ msgs' = msgs \cup r.out
    BY <1>3 DEF HandleReady, Send
  <2>2. /\ SameVote(s, r.node)
        /\ \A o \in r.out : /\ o.type # "VoteResponse" /\ o.from = n /\ o.term = s.term
                            /\ \E p \in Voters \ {n} : o.to = p
    BY <1>3, ReadyFacts DEF SameVote
  <2>. HIDE DEF r
  <2>3. Quiet(node[n], r.node)
    BY <1>0, <1>3, <2>2 DEF Quiet, SameVote, Running
  <2>4. NoVotes(r.out)
    BY <1>0, <1>00, <1>3, <2>2 DEF NoVotes, SameVote
  <2>. QED  BY <1>3, <2>1, <2>3, <2>4, QuietStep
<1>4. ASSUME NEW n \in Voters, Heartbeat(n) PROVE VoteInv' /\ restarts' \in Nat
  <2>1. SameVote(node[n], node[n])
    BY <1>0 DEF SameVote
  <2>2. HandleReady(n, node[n], pending[n]) /\ restarts' = restarts
    BY <1>4 DEF Heartbeat
  <2>. QED  BY <1>3, <2>1, <2>2
<1>5. ASSUME NEW n \in Voters, Propose(n) PROVE VoteInv' /\ restarts' \in Nat
  <2>. DEFINE s == propose(node[n], proposals')
  <2>1. SameVote(node[n], s)
    BY <1>0, ProposeFacts
  <2>2. /\ HandleReady(n, s, pending[n] \cup {Proposal(s, proposals')})
        /\ restarts' = restarts
    BY <1>5 DEF Propose
  <2>. HIDE DEF s
  <2>. QED  BY <1>3, <2>1, <2>2
<1>6. ASSUME NEW n \in Voters, NEW p \in Voters, RequestVote(n, p)
      PROVE  VoteInv' /\ restarts' \in Nat
  <2>. DEFINE o == [Message("RequestVote", n, p, node[n].term) EXCEPT !.index = last_index(node[n])]
  <2>1. msgs' = msgs \cup {o} /\ UNCHANGED <<node, restarts>>
    BY <1>6 DEF RequestVote, Send, client
  <2>2. o.type = "RequestVote" /\ o.from = n /\ o.to = p /\ o.term = node[n].term
    BY DEF Message
  <2>. HIDE DEF o
  <2>3. NoVotes({o})
    BY <1>0, <1>00, <2>2 DEF NoVotes
  <2>4. Quiet(node[n], node[n])
    BY <1>0 DEF Quiet
  <2>. QED  BY <2>1, <2>3, <2>4, QuietStep
<1>7. ASSUME NEW n \in Voters, Restart(n) PROVE FALSE
  BY <1>7 DEF Restart
<1>8. ASSUME NEW m \in msgs, NEW s, s = Observe(node[m.to], m), NEW r,
             SameVote(s, r.node) \/ Follows(s, r.node, s.term), NoVotes(r.out),
             Deliver(m, r), restarts' = restarts
      PROVE  VoteInv' /\ restarts' \in Nat
  <2>1. m.to \in Voters /\ Quiet(node[m.to], r.node)
    BY <1>8, ObservedState, ObservedQuiet
  <2>2. node' = [node EXCEPT ![m.to] = r.node] /\ msgs' = msgs \cup r.out
    BY <1>8 DEF Deliver, Send
  <2>. QED  BY <1>8, <2>1, <2>2, QuietStep
<1>9. ASSUME NEW m \in msgs, OnHeartbeat(m) PROVE VoteInv' /\ restarts' \in Nat
  <2>. DEFINE s == Observe(node[m.to], m)
              r == handle_heartbeat(s, m)
  <2>1. m.to \in Voters /\ m.from \in Voters /\ Shaped(s) /\ s.term \in Nat
    BY ObservedState
  <2>2. Deliver(m, r) /\ restarts' = restarts
    BY <1>9 DEF OnHeartbeat, client
  <2>3. s = Observe(node[m.to], m)
    OBVIOUS
  <2>. HIDE DEF s
  <2>4. /\ SameVote(s, r.node)
        /\ \A o \in r.out : o.type # "VoteResponse" /\ o.from = m.to /\ o.to = m.from /\ o.term = s.term
    BY <2>1, HeartbeatFacts
  <2>. HIDE DEF r
  <2>5. NoVotes(r.out)
    BY <1>00, <2>1, <2>4 DEF NoVotes
  <2>. QED  BY <1>8, <2>2, <2>3, <2>4, <2>5
<1>10. ASSUME NEW m \in msgs, OnAppendEntries(m) PROVE VoteInv' /\ restarts' \in Nat
  <2>. DEFINE s == Observe(node[m.to], m)
              r == handle_append_entries(s, m)
  <2>1. m.to \in Voters /\ m.from \in Voters /\ Shaped(s) /\ s.term \in Nat
    BY ObservedState
  <2>2. Deliver(m, r) /\ restarts' = restarts
    BY <1>10 DEF OnAppendEntries, client
  <2>3. s = Observe(node[m.to], m)
    OBVIOUS
  <2>. HIDE DEF s
  <2>4. /\ SameVote(s, r.node)
        /\ \A o \in r.out : o.type # "VoteResponse" /\ o.from = m.to /\ o.to = m.from /\ o.term = s.term
    BY <2>1, AppendEntriesFacts
  <2>. HIDE DEF r
  <2>5. NoVotes(r.out)
    BY <1>00, <2>1, <2>4 DEF NoVotes
  <2>. QED  BY <1>8, <2>2, <2>3, <2>4, <2>5
<1>11. ASSUME NEW m \in msgs, OnAppendResponse(m) PROVE VoteInv' /\ restarts' \in Nat
  <2>. DEFINE s == Observe(node[m.to], m)
              r == handle_append_response(s, m)
  <2>1. Shaped(s)
    BY ObservedState
  <2>2. Deliver(m, r) /\ restarts' = restarts
    BY <1>11 DEF OnAppendResponse
  <2>3. s = Observe(node[m.to], m)
    OBVIOUS
  <2>. HIDE DEF s
  <2>4. SameVote(s, r.node) /\ r.out = {}
    BY <2>1, AppendResponseFacts
  <2>. HIDE DEF r
  <2>5. NoVotes(r.out)
    BY <2>4 DEF NoVotes
  <2>. QED  BY <1>8, <2>2, <2>3, <2>4, <2>5
<1>12. ASSUME NEW m \in msgs, OnRequestVote(m) PROVE VoteInv' /\ restarts' \in Nat
  <2>. DEFINE s == Observe(node[m.to], m)
              r == handle_request_vote(s, m)
  <2>1. /\ m.to \in Voters /\ m.from \in Voters /\ Shaped(s) /\ s.term \in Nat
        /\ \/ s = node[m.to]
           \/ s.term \in Nat /\ s.term > node[m.to].term /\ Follows(node[m.to], s, s.term)
    BY ObservedState
  <2>2. Deliver(m, r) /\ restarts' = restarts
    BY <1>12 DEF OnRequestVote, client
  <2>3. s = Observe(node[m.to], m)
    OBVIOUS
  <2>. HIDE DEF s
  <2>4. \/ /\ r.node = s
           /\ \A o \in r.out : ~IsVote(o) /\ o.from = m.to /\ o.to = m.from /\ o.term = s.term
        \/ /\ s.voted_for \in {Nobody, m.from} /\ s.voted_for # m.to
           /\ Shaped(r.node) /\ r.node.term = s.term /\ r.node.state = s.state
           /\ r.node.granted = s.granted /\ r.node.voted_for = m.from
           /\ \A o \in r.out : o.from = m.to /\ o.to = m.from /\ o.term = s.term
    BY <2>1, RequestVoteFacts
  <2>. HIDE DEF r
  <2>5. CASE /\ r.node = s
             /\ \A o \in r.out : ~IsVote(o) /\ o.from = m.to /\ o.to = m.from /\ o.term = s.term
    <3>1. SameVote(s, r.node)
      BY <2>1, <2>5 DEF SameVote
    <3>2. NoVotes(r.out)
      BY <2>1, <2>5 DEF NoVotes
    <3>. QED  BY <1>8, <2>2, <2>3, <3>1, <3>2
  <2>6. CASE /\ s.voted_for \in {Nobody, m.from} /\ s.voted_for # m.to
             /\ Shaped(r.node) /\ r.node.term = s.term /\ r.node.state = s.state
             /\ r.node.granted = s.granted /\ r.node.voted_for = m.from
             /\ \A o \in r.out : o.from = m.to /\ o.to = m.from /\ o.term = s.term
    <3>1. node' = [node EXCEPT ![m.to] = r.node] /\ msgs' = msgs \cup r.out
      BY <2>2 DEF Deliver, Send
    <3>2. VoteInv'
      BY <2>1, <2>6, <3>1, GrantStep
    <3>. QED  BY <2>2, <3>2
  <2>. QED  BY <2>4, <2>5, <2>6
<1>13. ASSUME NEW m \in msgs, OnVoteResponse(m) PROVE VoteInv' /\ restarts' \in Nat
  <2>. DEFINE s == Observe(node[m.to], m)
              r == handle_vote_response(s, m)
  <2>1. /\ m.to \in Voters /\ m.from \in Voters /\ Shaped(s) /\ s.term \in Nat
        /\ s = node[m.to] \/ Follows(node[m.to], s, s.term)
    BY ObservedState
  <2>2. m.type = "VoteResponse" /\ Deliver(m, r) /\ restarts' = restarts
    BY <1>13 DEF OnVoteResponse, client
  <2>3. s = Observe(node[m.to], m)
    OBVIOUS
  <2>. HIDE DEF s
  <2>. DEFINE Counting ==
                /\ s.state = "Candidate" /\ m.term = s.term
                /\ Shaped(r.node) /\ r.node.term = s.term /\ r.node.voted_for = s.voted_for
                /\ r.node.granted \subseteq (IF m.reject THEN s.granted ELSE s.granted \cup {m.from})
                /\ \/ r.node.state = "Candidate"
                   \/ /\ r.node.state = "Leader"
                      /\ is_quorum(Cardinality(Voters), Cardinality(r.node.granted))
  <2>4. /\ r.node = s \/ Follows(s, r.node, s.term) \/ Counting
        /\ \A o \in r.out : /\ o.type # "VoteResponse" /\ o.from = m.to /\ o.term = s.term
                            /\ \E p \in Voters : o.to = p
    BY <2>1, VoteResponseFacts
  <2>. HIDE DEF r
  <2>5. NoVotes(r.out)
    BY <1>00, <2>1, <2>4 DEF NoVotes
  <2>6. CASE r.node = s \/ Follows(s, r.node, s.term)
    <3>1. SameVote(s, s)
      BY <2>1 DEF SameVote
    <3>. QED  BY <1>8, <2>2, <2>3, <2>5, <2>6, <3>1
  <2>7. CASE Counting
    <3>1. s = node[m.to]
      BY <2>1, <2>7 DEF Follows
    <3>2. node' = [node EXCEPT ![m.to] = r.node] /\ msgs' = msgs \cup r.out
      BY <2>2 DEF Deliver, Send
    <3>3. VoteInv'
      BY <2>1, <2>2, <2>5, <2>7, <3>1, <3>2, CountStep
    <3>. QED  BY <2>2, <3>3
  <2>. QED  BY <2>4, <2>6, <2>7
<1>14. CASE UNCHANGED vars
  <2>1. UNCHANGED <<node, msgs, restarts>>
    BY <1>14 DEF vars
  <2>. QED  BY <2>1 DEF VoteInv, NodesTyped, MsgsTyped, VotesHeld, VotesUnique, VotesCounted,
                        LeadersElected, Counts
<1>. QED  BY <1>1, <1>2, <1>4, <1>5, <1>6, <1>7, <1>9, <1>10, <1>11, <1>12, <1>13, <1>14
             DEF Next

\* Two leaders of one term were both elected by some voter, which sent at
\* most one of them its vote, and neither leader votes for the other.
LEMMA VoteInvSafe == VoteInv => ElectionSafety
<1>. SUFFICES ASSUME VoteInv, NEW a \in Voters, NEW b \in Voters,
                     node[a].state = "Leader", node[b].state = "Leader",
                     node[b].term = node[a].term, a # b
              PROVE  FALSE
  BY DEF ElectionSafety, Leads
<1>1. /\ NodesTyped /\ VotesHeld /\ VotesUnique /\ VotesCounted /\ LeadersElected
  BY DEF VoteInv
<1>2. node[a].granted \cap node[b].granted # {}
  BY <1>1, QuorumsMeet DEF NodesTyped, LeadersElected
<1>3. PICK v : v \in node[a].granted /\ v \in node[b].granted
  BY <1>2
<1>4. /\ node[a].voted_for = a /\ Counts(a, v)
      /\ node[b].voted_for = b /\ Counts(b, v)
  BY <1>1, <1>3 DEF VotesCounted, Running
<1>5. node[a].term \in Nat
  BY <1>1 DEF NodesTyped
<1>6. CASE v = a
  <2>1. PICK m \in msgs : IsVote(m) /\ m.from = a /\ m.to = b /\ m.term = node[a].term
    BY <1>4, <1>6 DEF Counts
  <2>. QED  BY <1>1, <1>4, <1>5, <2>1 DEF VotesHeld
<1>7. CASE v = b
  <2>1. PICK m \in msgs : IsVote(m) /\ m.from = b /\ m.to = a /\ m.term = node[a].term
    BY <1>4, <1>7 DEF Counts
  <2>. QED  BY <1>1, <1>4, <1>5, <2>1 DEF VotesHeld
<1>8. CASE v # a /\ v # b
  BY <1>1, <1>4, <1>8 DEF Counts, VotesUnique
<1>. QED  BY <1>6, <1>7, <1>8

\* The count of restarts never falls.
LEMMA RestartsCount ==
    ASSUME restarts \in Nat, [Next]_vars
    PROVE  restarts' \in Nat /\ (restarts' = 0 => restarts = 0)
<1>1. ASSUME NEW n \in Voters,
             ElectionTimeout(n) \/ CheckQuorum(n) \/ Heartbeat(n) \/ Propose(n)
             \/ \E p \in Voters : RequestVote(n, p)
      PROVE  restarts' = restarts
  BY <1>1 DEF ElectionTimeout, CheckQuorum, Heartbeat, Propose, RequestVote, client
<1>2. ASSUME NEW m \in msgs,
             OnHeartbeat(m) \/ OnAppendEntries(m) \/ OnAppendResponse(m)
             \/ OnRequestVote(m) \/ OnVoteResponse(m)
      PROVE  restarts' = restarts
  BY <1>2 DEF OnHeartbeat, OnAppendEntries, OnAppendResponse, OnRequestVote, OnVoteResponse, client
<1>3. ASSUME NEW n \in Voters, Restart(n) PROVE restarts' = restarts + 1
  BY <1>3 DEF Restart
<1>4. CASE UNCHANGED vars
  BY <1>4 DEF vars
<1>. QED  BY <1>1, <1>2, <1>3, <1>4 DEF Next

\* As long as no node restarted, no term has two leaders, whatever the network
\* does to the messages (node.rs:497-579).
THEOREM OneLeaderPerTerm == Spec => []ElectionSafety
<1>. DEFINE Inv == restarts \in Nat /\ (restarts = 0 => VoteInv)
<1>1. Init => Inv
  BY VoteInit DEF Init
<1>2. Inv /\ [Next]_vars => Inv'
  BY VoteNext, RestartsCount
<1>3. Inv => ElectionSafety
  BY VoteInvSafe DEF ElectionSafety
<1>. QED  BY <1>1, <1>2, <1>3, PTL DEF Spec

-----------------------------------------------------------------------------
(* The largest and the smallest element of a finite set                    *)

\* A finite set of natural numbers that is not empty has a largest element: a
\* smallest subset without one would lose it with any element.
LEMMA LargestExists ==
    ASSUME NEW S \in SUBSET Nat, IsFiniteSet(S), S # {}
    PROVE  \E x \in S : \A y \in S : x >= y
<1>. DEFINE Bad == {B \in SUBSET S : B # {} /\ ~ \E x \in B : \A y \in B : x >= y}
<1>. SUFFICES ASSUME Bad # {} PROVE FALSE
  OBVIOUS
<1>1. IsWellFoundedOn(StrictSubsetOrdering(S), SUBSET S)
  BY FS_StrictSubsetOrderingWellFounded, FS_FiniteSubsetsOfFinite
<1>2. PICK B \in Bad : \A C \in Bad : <<C, B>> \notin StrictSubsetOrdering(S)
  <2>. HIDE DEF StrictSubsetOrdering
  <2>. QED  BY <1>1, WFMin
<1>3. PICK x \in B : TRUE
  OBVIOUS
<1>4. B \ {x} \notin Bad
  BY <1>2, <1>3 DEF StrictSubsetOrdering
<1>5. CASE B \ {x} = {}
  BY <1>3, <1>5
<1>6. CASE B \ {x} # {}
  <2>1. PICK z \in B \ {x} : \A y \in B \ {x} : z >= y
    BY <1>4, <1>6
  <2>. QED  BY <1>3, <2>1
<1>. QED  BY <1>5, <1>6

LEMMA SmallestExists ==
    ASSUME NEW S \in SUBSET Nat, S # {}
    PROVE  \E x \in S : \A y \in S : x <= y
<1>. PICK n \in S : TRUE
  OBVIOUS
<1>. DEFINE D == {n - k : k \in {k \in S : k <= n}}
<1>1. D \in SUBSET Nat /\ D # {} /\ \A d \in D : d <= n
  OBVIOUS
<1>2. PICK x \in D : \A y \in D : x >= y
  BY <1>1, FS_BoundedSetOfNaturals, LargestExists
<1>3. PICK k \in S : k <= n /\ x = n - k
  BY <1>2
<1>4. \A y \in S : y <= n => k <= y
  BY <1>2, <1>3
<1>. QED  BY <1>3, <1>4

LEMMA MaxOf ==
    ASSUME NEW S \in SUBSET Nat, IsFiniteSet(S), S # {}
    PROVE  Max(S) \in S /\ \A y \in S : Max(S) >= y
BY LargestExists DEF Max

LEMMA MaxOfTwo ==
    ASSUME NEW a \in Nat, NEW b \in Nat
    PROVE  Max({a, b}) = IF a >= b THEN a ELSE b
BY DEF Max

LEMMA MinOfTwo ==
    ASSUME NEW a \in Nat, NEW b \in Nat
    PROVE  Min({a, b}) = IF a <= b THEN a ELSE b
BY DEF Min

-----------------------------------------------------------------------------
(* Types                                                                   *)

\* Who runs for leader or leads is past term zero, so the term of an
\* AppendEntries is never the one log_term answers for a missing entry.
NodeOK(s) ==
    /\ s \in NodeType
    /\ Running(s) => s.term > 0
    /\ s.state = "Leader" => \A p \in Voters : s.next_index[p] > 0

MessageOK(m) == m \in MessageType /\ (m.type = "AppendEntries" => m.term > 0)

TypeInv ==
    /\ DOMAIN node = Voters /\ node \in [Voters -> NodeType] /\ \A n \in Voters : NodeOK(node[n])
    /\ \A m \in msgs : MessageOK(m)
    /\ DOMAIN pending = Voters /\ proposals \in Nat

LEMMA FollowerType ==
    ASSUME NEW s, NodeOK(s), NEW t \in Nat, NEW l \in Ids
    PROVE  NodeOK(become_follower(s, t, l)) /\ become_follower(s, t, l).log = s.log
<1>1. reset(s, t) \in NodeType /\ reset(s, t).log = s.log
  BY DEF reset, NodeOK, NodeType, NoProgress, Ids
<1>. HIDE DEF reset
<1>2. become_follower(s, t, l) \in NodeType /\ become_follower(s, t, l).state = "Follower"
      /\ become_follower(s, t, l).log = s.log
  BY <1>1 DEF become_follower, NodeType, States
<1>. QED  BY <1>2 DEF NodeOK, Running

LEMMA ObserveType ==
    ASSUME NEW s, NodeOK(s), NEW m, MessageOK(m)
    PROVE  NodeOK(Observe(s, m)) /\ Observe(s, m).log = s.log
<1>1. m.term \in Nat /\ m.from \in Ids /\ Nobody \in Ids
  BY DEF MessageOK, MessageType, Ids
<1>. QED  BY <1>1, FollowerType DEF Observe

LEMMA TimeoutType ==
    ASSUME NEW me \in Voters, NEW s, NodeOK(s)
    PROVE  NodeOK(handle_election_timeout(s, me)) /\ handle_election_timeout(s, me).log = s.log
<1>1. NodeOK(become_pre_candidate(s, me)) /\ become_pre_candidate(s, me).log = s.log
  BY DEF become_pre_candidate, NodeOK, NodeType, States, Running
<1>2. NodeOK(become_candidate(s, me)) /\ become_candidate(s, me).log = s.log
  <2>. DEFINE t == s.term + 1
              u == [s EXCEPT !.term = t]
              q == reset(u, t)
              r == [q EXCEPT !.state = "Candidate", !.voted_for = me, !.granted = {me}]
  <2>1. s \in NodeType
    BY DEF NodeOK
  <2>2. t \in Nat /\ t > 0
    <3>1. s.term \in Nat
      BY <2>1 DEF NodeType
    <3>. QED  BY <3>1
  <2>3. become_candidate(s, me) = r
    BY DEF become_candidate
  <2>. HIDE DEF t
  <2>4. u \in NodeType /\ u.log = s.log
    BY <2>1, <2>2 DEF NodeType
  <2>. HIDE DEF u
  <2>5. q \in NodeType /\ q.log = s.log /\ q.term = t
    BY <2>2, <2>4 DEF reset, NodeType, NoProgress, Ids
  <2>. HIDE DEF q
  <2>6. r \in NodeType /\ r.log = s.log /\ r.term = t /\ r.state = "Candidate"
    BY <2>5 DEF NodeType, States, Ids
  <2>. HIDE DEF r
  <2>. QED  BY <2>2, <2>3, <2>6 DEF NodeOK
<1>. QED  BY <1>1, <1>2 DEF handle_election_timeout

LEMMA CheckQuorumType ==
    ASSUME NEW s, NodeOK(s)
    PROVE  NodeOK(check_quorum(s)) /\ check_quorum(s).log = s.log
<1>. DEFINE q == become_follower(s, s.term, Nobody)
            active == Cardinality(s.recent_active) + 1 >= quorum_size
<1>1. NodeOK(q) /\ q.log = s.log
  <2>1. s.term \in Nat /\ Nobody \in Ids
    BY DEF NodeOK, NodeType, Ids
  <2>. QED  BY <2>1, FollowerType
<1>. HIDE DEF q
<1>2. active \in BOOLEAN
  OBVIOUS
<1>. HIDE DEF active
<1>3. \A u : NodeOK(u) => LET r == [u EXCEPT !.quorum_recently_active = active]
                          IN  NodeOK(r) /\ r.log = u.log
  BY <1>2 DEF NodeOK, NodeType, Running
<1>4. check_quorum(s) \in {[s EXCEPT !.quorum_recently_active = active],
                           [q EXCEPT !.quorum_recently_active = active]}
  BY DEF check_quorum, q, active
<1>. QED  BY <1>1, <1>3, <1>4

LEMMA HeartbeatType ==
    ASSUME NEW s, NodeOK(s), NEW m, MessageOK(m)
    PROVE  LET r == handle_heartbeat(s, m) IN
           /\ NodeOK(r.node) /\ r.node.log = s.log
           /\ \A o \in r.out : MessageOK(o) /\ o.type = "Heartbeat"
<1>. DEFINE c == Max({s.commit_index, m.commit})
            n == [s EXCEPT !.leader_id = m.from, !.commit_index = c]
            o == Message("Heartbeat", m.to, m.from, s.term)
<1>1. /\ s.commit_index \in Nat /\ s.term \in Nat /\ m.commit \in Nat
      /\ m.from \in Voters /\ m.to \in Voters
  BY DEF NodeOK, NodeType, MessageOK, MessageType
<1>2. c \in Nat
  BY <1>1, MaxOfTwo
<1>. HIDE DEF c
<1>3. NodeOK(n) /\ n.log = s.log
  BY <1>1, <1>2 DEF NodeOK, NodeType, Running, Ids
<1>4. MessageOK(o) /\ o.type = "Heartbeat"
  BY <1>1 DEF Message, MessageOK, MessageType
<1>5. handle_heartbeat(s, m) \in {Result(s, {}), Result(n, {o})}
  BY Zenon DEF handle_heartbeat, c
<1>. HIDE DEF n, o
<1>. QED  BY <1>3, <1>4, <1>5 DEF Result

\* The entries e stand in log after index x.
Holds(log, x, e) == \A k \in 1..Len(e) : log[x + k] = e[k]

\* The log a follower is left with when it accepts the entries of m.
LEMMA ReplicatedType ==
    ASSUME NEW s, NodeOK(s), NEW m, MessageOK(m), m.type = "AppendEntries", ConsistentAt(s, m)
    PROVE  /\ m.index <= Len(s.log)
           /\ Replicated(s, m) \in Seq(Entries)
           /\ m.index # 0 => s.log[m.index].term = m.term
           /\ m.entries # <<>> => /\ Len(Replicated(s, m)) = m.index + Len(m.entries)
                                  /\ \A i \in 1..m.index : Replicated(s, m)[i] = s.log[i]
                                  /\ Holds(Replicated(s, m), m.index, m.entries)
<1>1. /\ s.log \in Seq(Entries) /\ Len(s.log) \in Nat
      /\ m.index \in Nat /\ m.entries \in Seq(Entries) /\ m.term \in Nat /\ m.term > 0
  BY DEF NodeOK, NodeType, MessageOK, MessageType
<1>2. m.index <= Len(s.log) /\ (m.index # 0 => s.log[m.index].term = m.term)
  BY <1>1 DEF ConsistentAt, log_term
<1>. DEFINE p == SubSeq(s.log, 1, m.index)
<1>3. /\ p \in Seq(Entries) /\ Len(p) = m.index
      /\ \A i \in 1..m.index : p[i] = s.log[i]
  BY <1>1, <1>2
<1>. HIDE DEF p
<1>4. Replicated(s, m) = IF m.entries = <<>> THEN s.log ELSE p \o m.entries
  BY DEF Replicated, p
<1>5. /\ p \o m.entries \in Seq(Entries) /\ Len(p \o m.entries) = m.index + Len(m.entries)
      /\ \A i \in 1..m.index : (p \o m.entries)[i] = s.log[i]
      /\ Holds(p \o m.entries, m.index, m.entries)
  <2>. DEFINE e == m.entries
              k == m.index
  <2>1. e \in Seq(Entries) /\ Len(e) \in Nat /\ k \in Nat
    BY <1>1
  <2>. HIDE DEF e, k
  <2>2. Len(p) = k /\ p \in Seq(Entries)
    BY <1>3 DEF k
  <2>3. /\ p \o e \in Seq(Entries) /\ Len(p \o e) = k + Len(e)
        /\ \A i \in 1..k : (p \o e)[i] = p[i]
        /\ \A i \in 1..Len(e) : (p \o e)[k + i] = e[i]
    BY <2>1, <2>2
  <2>. QED  BY <1>3, <2>3 DEF e, k, Holds
<1>. QED  BY <1>1, <1>2, <1>4, <1>5

LEMMA AppendEntriesType ==
    ASSUME NEW s, NodeOK(s), NEW m, MessageOK(m), m.type = "AppendEntries"
    PROVE  LET r == handle_append_entries(s, m) IN
           /\ NodeOK(r.node)
           /\ \/ r.node.log = s.log
              \/ m.term >= s.term /\ ConsistentAt(s, m) /\ r.node.log = Replicated(s, m)
           /\ \A o \in r.out : MessageOK(o) /\ o.type = "AppendResponse"
<1>. DEFINE c == IF m.commit > s.commit_index THEN Min({m.commit, m.index + Len(m.entries)})
                 ELSE s.commit_index
            response == Message("AppendResponse", m.to, m.from, s.term)
            h == find_conflict_hint(s, m.index)
            log == Replicated(s, m)
            heard == [s EXCEPT !.leader_id = m.from]
            taken == [s EXCEPT !.leader_id = m.from, !.log = log, !.commit_index = c]
            stale == Result(s, {Reject(response, last_index(s))})
            refuse == Result(heard, {Reject(response, h)})
            accept == Result(taken, {[response EXCEPT !.index = Len(log)]})
<1>1. /\ s \in NodeType /\ s.commit_index \in Nat /\ s.term \in Nat /\ s.log \in Seq(Entries)
      /\ m.commit \in Nat /\ m.index \in Nat /\ m.entries \in Seq(Entries) /\ m.term \in Nat
      /\ m.from \in Voters /\ m.to \in Voters
  BY DEF NodeOK, NodeType, MessageOK, MessageType
<1>2. c \in Nat
  <2>1. m.index + Len(m.entries) \in Nat
    BY <1>1
  <2>. QED  BY <1>1, <2>1, MinOfTwo
<1>3. h \in Nat
  <2>. DEFINE D == {0} \cup {j \in 1..m.index : log_term(s, j) # log_term(s, m.index)}
  <2>1. D \in SUBSET Nat /\ D # {} /\ \A d \in D : d <= m.index
    BY <1>1
  <2>2. IsFiniteSet(D)
    BY <1>1, <2>1, FS_BoundedSetOfNaturals
  <2>. QED  BY <2>1, <2>2, MaxOf DEF find_conflict_hint
<1>4. \/ m.term < s.term /\ handle_append_entries(s, m) = stale
      \/ ~(m.term < s.term) /\ handle_append_entries(s, m) = refuse
      \/ ~(m.term < s.term) /\ ConsistentAt(s, m) /\ handle_append_entries(s, m) = accept
  BY Zenon DEF handle_append_entries
<1>5. /\ response \in MessageType /\ response.type = "AppendResponse"
  BY <1>1 DEF Message, MessageType
<1>. HIDE DEF c, h, response
<1>6. \A x \in Nat : LET o == Reject(response, x) IN MessageOK(o) /\ o.type = "AppendResponse"
  BY <1>5 DEF Reject, MessageOK, MessageType
<1>7. \A x \in Nat : LET o == [response EXCEPT !.index = x]
                     IN  MessageOK(o) /\ o.type = "AppendResponse"
  BY <1>5 DEF MessageOK, MessageType
<1>8. NodeOK(heard) /\ heard.log = s.log
  BY <1>1 DEF NodeOK, NodeType, Running, Ids
<1>9. ConsistentAt(s, m) => log \in Seq(Entries) /\ Len(log) \in Nat
  BY ReplicatedType
<1>. HIDE DEF log
<1>10. ConsistentAt(s, m) => NodeOK(taken) /\ taken.log = log
  BY <1>1, <1>2, <1>9 DEF NodeOK, NodeType, Running, Ids
<1>11. last_index(s) \in Nat
  BY <1>1 DEF last_index
<1>. HIDE DEF heard, taken
<1>12. CASE m.term < s.term /\ handle_append_entries(s, m) = stale
  BY <1>6, <1>11, <1>12 DEF Result
<1>13. CASE ~(m.term < s.term) /\ handle_append_entries(s, m) = refuse
  BY <1>3, <1>6, <1>8, <1>13 DEF Result
<1>14. CASE ~(m.term < s.term) /\ ConsistentAt(s, m) /\ handle_append_entries(s, m) = accept
  <2>1. m.term >= s.term
    BY <1>1, <1>14
  <2>2. /\ handle_append_entries(s, m).node = taken
        /\ handle_append_entries(s, m).out = {[response EXCEPT !.index = Len(log)]}
    BY <1>14 DEF Result
  <2>. QED  BY <1>7, <1>9, <1>10, <1>14, <2>1, <2>2 DEF log
<1>. QED  BY <1>4, <1>12, <1>13, <1>14

\* A proposal, and the answers to requests for votes.
LEMMA ProposeType ==
    ASSUME NEW s, NodeOK(s), NEW d \in Nat
    PROVE  /\ NodeOK(propose(s, d)) /\ propose(s, d).log = Append(s.log, Entry(s.term, d))
           /\ propose(s, d).next_index = s.next_index
<1>1. s \in NodeType /\ s.log \in Seq(Entries) /\ Entry(s.term, d) \in Entries
  BY DEF NodeOK, NodeType, Entry, Entries
<1>2. Append(s.log, Entry(s.term, d)) \in Seq(Entries)
  BY <1>1, AppendProperties
<1>. QED  BY <1>1, <1>2 DEF propose, NodeOK, NodeType, Running

LEMMA RequestVoteType ==
    ASSUME NEW s, NodeOK(s), NEW m, MessageOK(m)
    PROVE  LET r == handle_request_vote(s, m) IN
           /\ NodeOK(r.node) /\ r.node.log = s.log
           /\ \A o \in r.out : MessageOK(o) /\ o.type = "VoteResponse"
<1>. DEFINE response == Message("VoteResponse", m.to, m.from, s.term)
            n == [s EXCEPT !.voted_for = m.from]
<1>1. /\ s \in NodeType /\ s.term \in Nat /\ m.from \in Voters /\ m.to \in Voters
  BY DEF NodeOK, NodeType, MessageOK, MessageType
<1>2. MessageOK(response) /\ response.type = "VoteResponse"
  BY <1>1 DEF Message, MessageOK, MessageType
<1>3. handle_request_vote(s, m) \in {Result(s, {Reject(response, 0)}), Result(n, {response})}
  BY Zenon DEF handle_request_vote
<1>. HIDE DEF response
<1>4. LET o == Reject(response, 0) IN MessageOK(o) /\ o.type = "VoteResponse"
  BY <1>2 DEF Reject, MessageOK, MessageType
<1>5. NodeOK(n) /\ n.log = s.log
  BY <1>1 DEF NodeOK, NodeType, Running, Ids
<1>. HIDE DEF n
<1>. QED  BY <1>2, <1>3, <1>4, <1>5 DEF Result

\* What a message takes from a log: its entries, from where they stand.
Carries(o, log) ==
    /\ o.index + Len(o.entries) <= Len(log)
    /\ \A k \in 1..Len(o.entries) : o.entries[k] = log[o.index + k]

\* The entries from k to h.
LEMMA PieceOfSeq ==
    ASSUME NEW S, NEW log, NEW k \in Nat, NEW h \in Nat, k <= h, \A i \in k..h : log[i] \in S
    PROVE  LET e == SubSeq(log, k, h)
           IN  /\ e \in Seq(S) /\ Len(e) = h - k + 1
               /\ \A i \in 1..Len(e) : e[i] = log[k - 1 + i]
<1>. DEFINE e == SubSeq(log, k, h)
<1>1. /\ e \in Seq(S) /\ Len(e) = IF k <= h THEN h - k + 1 ELSE 0
      /\ \A i \in 1..(h - k + 1) : e[i] = log[k + i - 1]
  BY SubSeqProperties
<1>. HIDE DEF e
<1>2. \A i \in 1..(h - k + 1) : k + i - 1 = k - 1 + i
  OBVIOUS
<1>. QED  BY <1>1, <1>2 DEF e

LEMMA MessageForType ==
    ASSUME NEW s, NodeOK(s), s.state = "Leader", NEW me \in Voters, NEW p \in Voters
    PROVE  LET o == MessageFor(s, me, p) IN
           /\ MessageOK(o) /\ o.type \in {"Heartbeat", "AppendEntries"}
           /\ o.from = me /\ o.to = p /\ o.term = s.term
           /\ o.type = "AppendEntries" => Carries(o, s.log)
<1>. DEFINE k == s.next_index[p]
            n == Len(s.log)
            h == Min({n, k + BatchSize - 1})
            e == SubSeq(s.log, k, h)
            beat == [Message("Heartbeat", me, p, s.term) EXCEPT !.commit = s.commit_index]
            full == [Message("AppendEntries", me, p, s.term) EXCEPT
                       !.index = k - 1, !.commit = s.commit_index, !.entries = e]
<1>1. /\ s.term \in Nat /\ s.term > 0 /\ s.log \in Seq(Entries) /\ s.commit_index \in Nat
      /\ k \in Nat /\ k > 0 /\ n \in Nat /\ BatchSize \in Nat /\ BatchSize > 0
  BY NodeAssumption DEF NodeOK, NodeType, Running
<1>2. MessageOK(beat) /\ beat.type = "Heartbeat"
      /\ beat.from = me /\ beat.to = p /\ beat.term = s.term
  <2>. DEFINE b == Message("Heartbeat", me, p, s.term)
  <2>1. b \in MessageType /\ b.type = "Heartbeat" /\ b.from = me /\ b.to = p /\ b.term = s.term
    BY <1>1 DEF Message, MessageType
  <2>. HIDE DEF b
  <2>. QED  BY <1>1, <2>1 DEF MessageOK, MessageType, b
<1>3. MessageFor(s, me, p) = IF k > n THEN beat ELSE full
  BY Zenon DEF MessageFor, last_index, get_entries
<1>4. CASE k > n
  BY <1>2, <1>3, <1>4
<1>5. CASE ~(k > n)
  <2>1. h \in Nat /\ k <= h /\ h <= n
    <3>1. k + BatchSize - 1 \in Nat /\ k <= k + BatchSize - 1
      BY <1>1
    <3>2. h = IF n <= k + BatchSize - 1 THEN n ELSE k + BatchSize - 1
      BY <1>1, <3>1, MinOfTwo
    <3>. HIDE DEF h, k, n
    <3>. QED  BY <1>1, <1>5, <3>1, <3>2
  <2>. HIDE DEF h
  <2>2. /\ e \in Seq(Entries) /\ Len(e) = h - k + 1
        /\ \A i \in 1..Len(e) : e[i] = s.log[k - 1 + i]
    <3>1. \A i \in k..h : s.log[i] \in Entries
      BY <1>1, <2>1, ElementOfSeq
    <3>2. k \in Nat /\ h \in Nat /\ k <= h
      BY <1>1, <2>1
    <3>. DEFINE log == s.log
    <3>. HIDE DEF k, log
    <3>. QED  BY <3>1, <3>2, PieceOfSeq DEF log
  <2>. HIDE DEF e
  <2>. DEFINE j == k - 1
  <2>3. j \in Nat /\ full = [Message("AppendEntries", me, p, s.term) EXCEPT
                       !.index = j, !.commit = s.commit_index, !.entries = e]
    BY <1>1
  <2>. HIDE DEF j, full
  <2>4. /\ full \in MessageType /\ full.type = "AppendEntries" /\ full.from = me /\ full.to = p
        /\ full.term = s.term /\ full.index = j /\ full.entries = e
    BY <1>1, <2>2, <2>3 DEF Message, MessageType
  <2>5. Carries(full, s.log)
    BY <1>1, <2>1, <2>2, <2>4, SMTT(40) DEF Carries, j
  <2>. QED  BY <1>1, <1>3, <1>5, <2>4, <2>5 DEF MessageOK
<1>. QED  BY <1>4, <1>5

LEMMA ReadyType ==
    ASSUME NEW s, NodeOK(s), s.state = "Leader", NEW me \in Voters
    PROVE  LET r == ready(s, me) IN
           /\ NodeOK(r.node) /\ r.node.log = s.log
           /\ \A o \in r.out :
                 /\ MessageOK(o) /\ o.type \in {"Heartbeat", "AppendEntries"}
                 /\ o.from = me /\ o.to # me /\ o.term = s.term
                 /\ o.type = "AppendEntries" => Carries(o, s.log)
<1>. DEFINE c == Max({s.last_applied, s.commit_index})
            n == [s EXCEPT !.last_applied = c]
<1>1. s \in NodeType /\ s.last_applied \in Nat /\ s.commit_index \in Nat
  BY DEF NodeOK, NodeType
<1>2. c \in Nat
  BY <1>1, MaxOfTwo
<1>3. /\ ready(s, me).node = n
      /\ ready(s, me).out = {MessageFor(s, me, p) : p \in Voters \ {me}}
  BY DEF ready, Result
<1>. HIDE DEF c
<1>4. NodeOK(n) /\ n.log = s.log
  BY <1>1, <1>2 DEF NodeOK, NodeType, Running
<1>. HIDE DEF n
<1>5. ASSUME NEW o \in ready(s, me).out
      PROVE  /\ MessageOK(o) /\ o.type \in {"Heartbeat", "AppendEntries"}
             /\ o.from = me /\ o.to # me /\ o.term = s.term
             /\ o.type = "AppendEntries" => Carries(o, s.log)
  <2>1. PICK p \in Voters \ {me} : o = MessageFor(s, me, p)
    BY <1>3
  <2>. QED  BY <2>1, MessageForType
<1>. QED  BY <1>3, <1>4, <1>5

LEMMA CountedType ==
    ASSUME NEW s, NodeOK(s), NEW m, MessageOK(m)
    PROVE  /\ NodeOK(Counted(s, m)) /\ Counted(s, m).log = s.log
           /\ Counted(s, m).term = s.term /\ Counted(s, m).state = s.state
<1>1. s \in NodeType /\ m.from \in Voters /\ m.reject \in BOOLEAN
  BY DEF NodeOK, NodeType, MessageOK, MessageType
<1>. DEFINE g == IF m.reject THEN s.granted \ {m.from} ELSE s.granted \cup {m.from}
            x == IF m.reject THEN s.rejected \cup {m.from} ELSE s.rejected \ {m.from}
<1>2. g \in SUBSET Voters /\ x \in SUBSET Voters
  BY <1>1 DEF NodeType
<1>3. Counted(s, m) = [s EXCEPT !.granted = g, !.rejected = x]
  BY DEF Counted
<1>. HIDE DEF g, x
<1>. QED  BY <1>1, <1>2, <1>3 DEF NodeOK, NodeType, Running

LEMMA LeaderType ==
    ASSUME NEW s, NodeOK(s), s.term > 0, NEW me \in Voters
    PROVE  LET r == become_leader(s, me) IN
           /\ NodeOK(r) /\ r.state = "Leader" /\ r.term = s.term
           /\ r.log = Append(s.log, Entry(s.term, NoOp))
           /\ r.log \in Seq(Entries) /\ Len(r.log) = Len(s.log) + 1
           /\ \A i \in 1..Len(s.log) : r.log[i] = s.log[i]
           /\ r.log[Len(r.log)] = Entry(s.term, NoOp)
           /\ \A o \in build_append_acks(r, me) :
                 /\ MessageOK(o) /\ o.type = "AppendEntries"
                 /\ o.from = me /\ o.to # me /\ o.term = s.term
                 /\ Carries(o, r.log)
<1>. DEFINE nx == [p \in Voters |-> last_index(s) + 1]
            lg == Append(s.log, Entry(s.term, NoOp))
            r == become_leader(s, me)
<1>1. /\ s \in NodeType /\ s.log \in Seq(Entries) /\ s.term \in Nat /\ Len(s.log) \in Nat
      /\ Entry(s.term, NoOp) \in Entries
  BY DEF NodeOK, NodeType, Entry, Entries, NoOp
<1>2. nx \in [Voters -> Nat] /\ \A p \in Voters : nx[p] > 0
  BY <1>1 DEF last_index
<1>3. /\ lg \in Seq(Entries) /\ Len(lg) = Len(s.log) + 1
      /\ \A i \in 1..Len(s.log) : lg[i] = s.log[i]
      /\ lg[Len(lg)] = Entry(s.term, NoOp)
  BY <1>1, AppendProperties
<1>4. r = [s EXCEPT !.next_index = nx, !.match_index = NoProgress, !.recent_active = {},
                    !.state = "Leader", !.leader_id = me, !.quorum_recently_active = TRUE,
                    !.log = lg]
  BY DEF become_leader
<1>. HIDE DEF nx, lg, r
<1>5. /\ r \in NodeType /\ r.state = "Leader" /\ r.term = s.term /\ r.log = lg
      /\ r.next_index = nx
  <2>1. nx \in [Voters -> Nat] /\ lg \in Seq(Entries) /\ NoProgress \in [Voters -> Nat]
    BY <1>2, <1>3 DEF NoProgress
  <2>. QED  BY <1>1, <1>4, <2>1 DEF NodeType, States, Ids
<1>6. NodeOK(r)
  BY <1>2, <1>5 DEF NodeOK
<1>7. ASSUME NEW p \in Voters \ {me}, NEW o,
             o = [Message("AppendEntries", me, p, r.term) EXCEPT
                    !.index = last_index(r) - 1, !.commit = r.commit_index,
                    !.entries = IF last_index(r) > 1 THEN <<Last(r.log)>> ELSE <<>>]
      PROVE  /\ MessageOK(o) /\ o.type = "AppendEntries"
             /\ o.from = me /\ o.to # me /\ o.term = s.term /\ Carries(o, r.log)
  <2>. DEFINE j == last_index(r) - 1
              e == IF last_index(r) > 1 THEN <<Last(r.log)>> ELSE <<>>
  <2>1. j \in Nat /\ j = Len(s.log) /\ j + 1 = Len(lg) /\ r.commit_index \in Nat
    BY <1>1, <1>3, <1>5 DEF last_index, NodeType
  <2>2. e \in Seq(Entries) /\ Len(e) <= 1 /\ \A k \in 1..Len(e) : e[k] = lg[j + k]
    BY <1>1, <1>3, <1>5, <2>1 DEF last_index, Last
  <2>. HIDE DEF j, e
  <2>3. o = [Message("AppendEntries", me, p, s.term) EXCEPT
               !.index = j, !.commit = r.commit_index, !.entries = e]
    BY <1>5, <1>7 DEF j, e
  <2>4. /\ o \in MessageType /\ o.type = "AppendEntries" /\ o.from = me /\ o.to = p
        /\ o.term = s.term /\ o.index = j /\ o.entries = e
    BY <1>1, <2>1, <2>2, <2>3 DEF Message, MessageType
  <2>5. Carries(o, lg)
    <3>1. Len(e) \in Nat
      BY <2>2
    <3>. QED  BY <1>1, <1>3, <2>1, <2>2, <2>4, <3>1 DEF Carries
  <2>. QED  BY <1>5, <2>4, <2>5 DEF MessageOK
<1>8. \A o \in build_append_acks(r, me) :
         /\ MessageOK(o) /\ o.type = "AppendEntries"
         /\ o.from = me /\ o.to # me /\ o.term = s.term /\ Carries(o, r.log)
  BY <1>7 DEF build_append_acks
<1>. QED  BY <1>3, <1>5, <1>6, <1>8 DEF r, lg

\* The indexes advance_commit_index looks at: of the peers, and the leader's own.
Reached(s, me) == [s.match_index EXCEPT ![me] = last_index(s)]

\* The index it finds is one that enough voters have reached.
LEMMA QuorumIndexFacts ==
    ASSUME NEW s, NodeOK(s), NEW me \in Voters
    PROVE  /\ QuorumIndex(s, me) \in Nat
           /\ Cardinality({p \in Voters : Reached(s, me)[p] >= QuorumIndex(s, me)}) >= quorum_size
<1>. DEFINE at == Reached(s, me)
            By(i) == {p \in Voters : at[p] >= i}
            Fit == {i \in Range(at) : Cardinality(By(i)) >= quorum_size}
<1>1. at \in [Voters -> Nat]
  BY DEF NodeOK, NodeType, Reached, last_index
<1>2. QuorumIndex(s, me) = Max(Fit)
  BY DEF QuorumIndex, Reached
<1>. HIDE DEF at
<1>3. Range(at) \in SUBSET Nat /\ Range(at) # {} /\ IsFiniteSet(Range(at))
  <2>1. Range(at) \in SUBSET Nat /\ Range(at) # {}
    BY <1>1 DEF Range
  <2>2. at \in Surjection(Voters, Range(at))
    BY <1>1 DEF Surjection, Range
  <2>. QED  BY <2>1, <2>2, NodeAssumption, FS_Surjection
<1>4. PICK low \in Range(at) : \A y \in Range(at) : low <= y
  BY <1>3, SmallestExists
<1>5. low \in Fit
  <2>1. By(low) = Voters
    BY <1>1, <1>4 DEF Range
  <2>2. Cardinality(Voters) \in Nat /\ Cardinality(Voters) # 0
    BY NodeAssumption, FS_CardinalityType, FS_EmptySet
  <2>3. Cardinality(Voters) >= quorum_size
    BY <2>2 DEF quorum_size
  <2>. QED  BY <2>1, <2>3
<1>6. Fit \in SUBSET Nat /\ Fit # {} /\ IsFiniteSet(Fit)
  BY <1>3, <1>5, FS_Subset
<1>7. Max(Fit) \in Fit
  <2>. HIDE DEF Fit
  <2>. QED  BY <1>6, MaxOf
<1>. QED  BY <1>2, <1>3, <1>7 DEF at

\* What an answer to AppendEntries does to the leader: at most it records how far
\* a peer got and commits an entry of its own term that enough voters reached.
LEMMA AppendResponseType ==
    ASSUME NEW s, NodeOK(s), NEW m, MessageOK(m)
    PROVE  LET r == handle_append_response(s, m).node IN
           /\ NodeOK(r) /\ r.log = s.log
           /\ \/ r.match_index = s.match_index
              \/ /\ s.state = "Leader" /\ m.term = s.term /\ ~m.reject
                 /\ r.match_index = [s.match_index EXCEPT ![m.from] = m.index]
           /\ \/ r.commit_index = s.commit_index
              \/ /\ s.state = "Leader" /\ m.term = s.term
                 /\ r.commit_index \in 1..Len(s.log) /\ s.log[r.commit_index].term = s.term
                 /\ Cardinality({p \in Voters : Reached(r, m.to)[p] >= r.commit_index})
                       >= quorum_size
<1>. DEFINE x == NextAfterReject(s.next_index[m.from], m.reject_hint)
            back == [s EXCEPT !.next_index[m.from] = x]
            a == Accepted(s, m.from, m.index)
            q == QuorumIndex(a, m.to)
            b == [a EXCEPT !.commit_index = q]
<1>1. /\ s \in NodeType /\ m.from \in Voters /\ m.to \in Voters /\ m.index \in Nat
      /\ m.reject_hint \in Nat /\ s.next_index \in [Voters -> Nat]
      /\ s.match_index \in [Voters -> Nat] /\ s.log \in Seq(Entries) /\ s.term \in Nat
  BY DEF NodeOK, NodeType, MessageOK, MessageType
<1>2. x \in Nat /\ x > 0
  <2>. DEFINE next == s.next_index[m.from]
              y == IF next > 1 THEN next - 1 ELSE next
              z == IF m.reject_hint > 0 THEN Min({y, m.reject_hint}) ELSE y
  <2>1. y \in Nat
    BY <1>1
  <2>2. z \in Nat
    BY <1>1, <2>1, MinOfTwo
  <2>3. x = Max({1, z})
    BY DEF NextAfterReject
  <2>. HIDE DEF x, z
  <2>. QED  BY <2>2, <2>3, MaxOfTwo
<1>. HIDE DEF x
<1>3. NodeOK(back) /\ back.log = s.log /\ back.match_index = s.match_index
      /\ back.commit_index = s.commit_index
  <2>. DEFINE nx == [s.next_index EXCEPT ![m.from] = x]
  <2>1. nx \in [Voters -> Nat] /\ (s.state = "Leader" => \A p \in Voters : nx[p] > 0)
    BY <1>1, <1>2 DEF NodeOK
  <2>2. back = [s EXCEPT !.next_index = nx]
    BY <1>1 DEF NodeType
  <2>. HIDE DEF nx, back
  <2>3. back \in NodeType /\ back.log = s.log /\ back.match_index = s.match_index
        /\ back.commit_index = s.commit_index /\ back.next_index = nx /\ back.term = s.term
        /\ back.state = s.state
    BY <1>1, <2>1, <2>2 DEF NodeType
  <2>. QED  BY <2>1, <2>3 DEF NodeOK, Running
<1>4. /\ NodeOK(a) /\ a.log = s.log /\ a.commit_index = s.commit_index /\ a.term = s.term
      /\ a.match_index = s.match_index \/ a.match_index = [s.match_index EXCEPT ![m.from] = m.index]
  <2>. DEFINE mx == [s.match_index EXCEPT ![m.from] = m.index]
              nx == [s.next_index EXCEPT ![m.from] = m.index + 1]
              ra == s.recent_active \cup {m.from}
              c == [s EXCEPT !.match_index = mx, !.next_index = nx, !.recent_active = ra]
              d == [s EXCEPT !.recent_active = ra]
  <2>1. /\ mx \in [Voters -> Nat] /\ nx \in [Voters -> Nat] /\ ra \in SUBSET Voters
        /\ s.state = "Leader" => \A p \in Voters : nx[p] > 0
    BY <1>1 DEF NodeOK, NodeType
  <2>2. a \in {c, d}
    BY <1>1 DEF Accepted, NodeType
  <2>. HIDE DEF mx, nx, ra
  <2>3. /\ c \in NodeType /\ c.log = s.log /\ c.commit_index = s.commit_index /\ c.term = s.term
        /\ c.match_index = mx /\ c.next_index = nx /\ c.state = s.state
    BY <1>1, <2>1 DEF NodeType
  <2>4. /\ d \in NodeType /\ d.log = s.log /\ d.commit_index = s.commit_index /\ d.term = s.term
        /\ d.match_index = s.match_index /\ d.next_index = s.next_index /\ d.state = s.state
    BY <1>1, <2>1 DEF NodeType
  <2>. HIDE DEF c, d
  <2>. QED  BY <2>1, <2>2, <2>3, <2>4 DEF NodeOK, Running, mx
<1>. HIDE DEF a
<1>5. q \in Nat /\ Cardinality({p \in Voters : Reached(a, m.to)[p] >= q}) >= quorum_size
  <2>1. NodeOK(a) /\ m.to \in Voters
    BY <1>1, <1>4
  <2>. QED  BY <2>1, QuorumIndexFacts, Zenon
<1>. HIDE DEF q
<1>6. /\ NodeOK(b) /\ b.log = s.log /\ b.match_index = a.match_index /\ b.commit_index = q
  BY <1>4, <1>5 DEF NodeOK, NodeType, Running
<1>7. \/ handle_append_response(s, m).node = s
      \/ handle_append_response(s, m).node = back
      \/ /\ s.state = "Leader" /\ m.term = s.term /\ ~m.reject
         /\ \/ handle_append_response(s, m).node = a
            \/ /\ q > a.commit_index /\ log_term(a, q) = a.term
               /\ handle_append_response(s, m).node = b
  <2>1. \/ handle_append_response(s, m) = Result(s, {})
        \/ handle_append_response(s, m) = Result(back, {})
        \/ /\ s.state = "Leader" /\ m.term = s.term /\ ~m.reject
           /\ handle_append_response(s, m) = Result(advance_commit_index(a, m.to), {})
    BY Zenon DEF handle_append_response, a, x
  <2>2. \/ advance_commit_index(a, m.to) = a
        \/ /\ q > a.commit_index /\ log_term(a, q) = a.term
           /\ advance_commit_index(a, m.to) = b
    BY Zenon DEF advance_commit_index, q
  <2>3. \A u : Result(u, {}).node = u
    BY DEF Result
  <2>. HIDE DEF back, b
  <2>. QED  BY <2>1, <2>2, <2>3
<1>. HIDE DEF b, back
<1>8. CASE /\ s.state = "Leader" /\ m.term = s.term /\ ~m.reject
           /\ q > a.commit_index /\ log_term(a, q) = a.term
           /\ handle_append_response(s, m).node = b
  <2>1. s.term > 0 /\ Len(s.log) \in Nat
    BY <1>1, <1>8 DEF NodeOK, Running
  <2>2. q \in 1..Len(s.log) /\ s.log[q].term = s.term
    BY <1>4, <1>5, <1>8, <2>1 DEF log_term
  <2>3. Reached(b, m.to) = Reached(a, m.to)
    BY <1>4, <1>6 DEF Reached, last_index
  <2>. QED  BY <1>4, <1>5, <1>6, <1>8, <2>2, <2>3
<1>. QED  BY <1>3, <1>4, <1>7, <1>8

LEMMA VoteResponseType ==
    ASSUME NEW s, NodeOK(s), NEW m, MessageOK(m)
    PROVE  LET r == handle_vote_response(s, m) IN
           /\ NodeOK(r.node)
           /\ \/ r.node.log = s.log /\ r.out = {} /\ (r.node.state = "Leader" => r.node = s)
              \/ /\ s.state = "Candidate" /\ m.term = s.term
                 /\ r.node.state = "Leader" /\ r.node.term = s.term
                 /\ r.node.log \in Seq(Entries) /\ Len(r.node.log) = Len(s.log) + 1
                 /\ \A i \in 1..Len(s.log) : r.node.log[i] = s.log[i]
                 /\ r.node.log[Len(r.node.log)] = Entry(s.term, NoOp)
                 /\ \A o \in r.out :
                       /\ MessageOK(o) /\ o.type = "AppendEntries"
                       /\ o.from = m.to /\ o.to # m.to /\ o.term = s.term
                       /\ Carries(o, r.node.log)
<1>. DEFINE c == Counted(s, m)
            leader == become_leader(c, m.to)
            acks == build_append_acks(leader, m.to)
            lost == become_follower(c, c.term, Nobody)
<1>1. m.to \in Voters /\ s.term \in Nat /\ (s.state = "Candidate" => s.term > 0)
  BY DEF NodeOK, NodeType, MessageOK, MessageType, Running
<1>2. NodeOK(c) /\ c.log = s.log /\ c.term = s.term /\ c.state = s.state
  BY CountedType
<1>3. \/ handle_vote_response(s, m) = Result(s, {})
      \/ /\ s.state = "Candidate" /\ m.term = s.term
         /\ \/ handle_vote_response(s, m) = Result(leader, acks)
            \/ handle_vote_response(s, m) = Result(lost, {})
            \/ handle_vote_response(s, m) = Result(c, {})
  BY Zenon DEF handle_vote_response
<1>. HIDE DEF c
<1>4. NodeOK(lost) /\ lost.log = s.log /\ lost.state = "Follower"
  <2>1. c.term \in Nat /\ Nobody \in Ids /\ Shaped(c)
    BY <1>1, <1>2 DEF Ids, NodeOK, NodeType, Shaped, Fields
  <2>2. lost.state = "Follower"
    BY <2>1, FollowerFacts DEF Follows
  <2>. QED  BY <1>2, <2>1, <2>2, FollowerType
<1>5. CASE handle_vote_response(s, m) = Result(s, {})
  BY <1>5 DEF Result
<1>6. CASE s.state = "Candidate" /\ m.term = s.term /\ handle_vote_response(s, m) = Result(leader, acks)
  <2>1. /\ NodeOK(leader) /\ leader.state = "Leader" /\ leader.term = c.term
        /\ leader.log \in Seq(Entries) /\ Len(leader.log) = Len(c.log) + 1
        /\ \A i \in 1..Len(c.log) : leader.log[i] = c.log[i]
        /\ leader.log[Len(leader.log)] = Entry(c.term, NoOp)
        /\ \A o \in acks : /\ MessageOK(o) /\ o.type = "AppendEntries"
                           /\ o.from = m.to /\ o.to # m.to /\ o.term = c.term
                           /\ Carries(o, leader.log)
    BY <1>1, <1>2, <1>6, LeaderType
  <2>. HIDE DEF leader, acks
  <2>2. handle_vote_response(s, m).node = leader /\ handle_vote_response(s, m).out = acks
    BY <1>6 DEF Result
  <2>. QED  BY <1>2, <1>6, <2>1, <2>2
<1>7. CASE s.state = "Candidate" /\ handle_vote_response(s, m) \in {Result(lost, {}), Result(c, {})}
  <2>. HIDE DEF lost
  <2>. QED  BY <1>2, <1>4, <1>7 DEF Result
<1>. QED  BY <1>3, <1>5, <1>6, <1>7

-----------------------------------------------------------------------------
(* What a step does to logs                                                *)

\* The messages of out can be sent by node n in state r: AppendEntries only by a
\* leader and out of its log, votes only for whom it voted.
SentBy(n, r, out) ==
    \A o \in out :
        /\ MessageOK(o)
        /\ IsVote(o) => o.from = n /\ o.term = r.term /\ o.to = r.voted_for
        /\ o.type = "AppendEntries" =>
              o.from = n /\ o.to # n /\ o.term = r.term /\ r.state = "Leader" /\ Carries(o, r.log)

\* Node n keeps its log, or accepts the entries of a message of its new term.
LogKept(n, r) ==
    \/ r.log = node[n].log
    \/ \E m \in msgs :
          /\ m.type = "AppendEntries" /\ m.to = n /\ m.term = r.term
          /\ ConsistentAt(node[n], m) /\ r.log = Replicated(node[n], m)

\* A step of node n that does not extend the log of a leader.
Keeps(n, r) ==
    /\ r.term >= node[n].term /\ LogKept(n, r)
    /\ r.state = "Leader" => node[n].state = "Leader" /\ r.term = node[n].term
    /\ r.term = node[n].term /\ node[n].voted_for = n => r.voted_for = n
    /\ r.term = node[n].term /\ r.state = "Candidate" => node[n].state = "Candidate"
    /\ \A p \in Voters : pending'[p] \subseteq pending[p]

\* A leader, new or not, extends its log by an entry of its term.
Extends(n, r) ==
    /\ r.term = node[n].term /\ r.voted_for = node[n].voted_for
    /\ r.state = "Leader" /\ node[n].state \in {"Candidate", "Leader"}
    /\ r.log \in Seq(Entries) /\ Len(r.log) = Len(node[n].log) + 1
    /\ \A i \in 1..Len(node[n].log) : r.log[i] = node[n].log[i]
    /\ \E d \in Nat :
          /\ r.log[Len(r.log)] = Entry(r.term, d)
          /\ \A p \in Voters : \A x \in pending'[p] :
                x \in pending[p] \/ (p = n /\ x = [index |-> Len(r.log), data |-> d, term |-> r.term])

LogStep ==
    \E n, r, out :
        /\ n \in Voters
        /\ node' = [node EXCEPT ![n] = r] /\ msgs' = msgs \cup out
        /\ DOMAIN pending' = Voters /\ proposals' \in Nat
        /\ NodeOK(r) /\ SentBy(n, r, out)
        /\ Keeps(n, r) \/ Extends(n, r)

LEMMA LogStepTyped == TypeInv /\ LogStep => TypeInv'
<1>. SUFFICES ASSUME TypeInv, LogStep PROVE TypeInv'
  OBVIOUS
<1>1. PICK n, r, out :
         /\ n \in Voters
         /\ node' = [node EXCEPT ![n] = r] /\ msgs' = msgs \cup out
         /\ DOMAIN pending' = Voters /\ proposals' \in Nat
         /\ NodeOK(r) /\ SentBy(n, r, out)
  BY DEF LogStep
<1>2. /\ DOMAIN node' = Voters /\ \A p \in Voters : node'[p] = IF p = n THEN r ELSE node[p]
      /\ node' = [p \in Voters |-> node'[p]]
  BY <1>1 DEF TypeInv
<1>3. \A p \in Voters : NodeOK(node'[p])
  BY <1>1, <1>2 DEF TypeInv
<1>4. \A p \in Voters : node'[p] \in NodeType
  BY <1>3 DEF NodeOK
<1>5. \A m \in msgs' : MessageOK(m)
  BY <1>1 DEF TypeInv, SentBy
<1>. QED  BY <1>1, <1>2, <1>3, <1>4, <1>5 DEF TypeInv

\* What a node that observed m has in common with before.
LEMMA ObservedFacts ==
    ASSUME TypeInv, NEW m \in msgs, NEW s, s = Observe(node[m.to], m)
    PROVE  /\ m.to \in Voters /\ MessageOK(m) /\ NodeOK(node[m.to]) /\ NodeOK(s) /\ Shaped(s)
           /\ s.log = node[m.to].log /\ s.term \in Nat /\ node[m.to].term \in Nat
           /\ s.term >= node[m.to].term /\ s.term >= m.term
           /\ s = node[m.to] \/ (s.term > node[m.to].term /\ s.state = "Follower")
<1>1. m.to \in Voters /\ m.term \in Nat /\ MessageOK(m) /\ NodeOK(node[m.to])
      /\ Shaped(node[m.to]) /\ node[m.to].term \in Nat
  BY DEF TypeInv, MessageOK, MessageType, NodeOK, NodeType, Shaped, Fields
<1>2. NodeOK(s) /\ s.log = node[m.to].log
  BY <1>1, ObserveType
<1>3. Shaped(s) /\ s.term \in Nat
  BY <1>2 DEF NodeOK, NodeType, Shaped, Fields
<1>4. \/ s = node[m.to] /\ ~(m.term > node[m.to].term)
      \/ m.term > node[m.to].term /\ Follows(node[m.to], s, m.term)
  BY <1>1, ObserveFacts
<1>. QED  BY <1>1, <1>2, <1>3, <1>4 DEF Follows

\* A message is handled without extending the log of a leader.
LEMMA DeliverKeeps ==
    ASSUME TypeInv, NEW m \in msgs, NEW s, s = Observe(node[m.to], m), NEW r, Deliver(m, r),
           UNCHANGED <<pending, proposals>>, NodeOK(r.node), SentBy(m.to, r.node, r.out),
           SameVote(s, r.node) \/ Follows(s, r.node, s.term),
           \/ r.node.log = s.log
           \/ /\ m.type = "AppendEntries" /\ m.term >= s.term
              /\ ConsistentAt(s, m) /\ r.node.log = Replicated(s, m)
    PROVE  LogStep
<1>1. /\ m.to \in Voters /\ MessageOK(m) /\ NodeOK(node[m.to]) /\ NodeOK(s) /\ Shaped(s)
      /\ s.log = node[m.to].log /\ s.term \in Nat /\ node[m.to].term \in Nat
      /\ s.term >= node[m.to].term /\ s.term >= m.term
      /\ s = node[m.to] \/ (s.term > node[m.to].term /\ s.state = "Follower")
  BY ObservedFacts
<1>2. r.node.term = s.term /\ (r.node.state # s.state => r.node.state = "Follower")
      /\ r.node.voted_for = s.voted_for
  BY DEF SameVote, Follows
<1>3. LogKept(m.to, r.node)
  <2>1. CASE r.node.log = s.log
    BY <1>1, <2>1 DEF LogKept
  <2>2. CASE /\ m.type = "AppendEntries" /\ m.term >= s.term
             /\ ConsistentAt(s, m) /\ r.node.log = Replicated(s, m)
    <3>1. m.term = s.term
      BY <1>1, <2>2 DEF MessageOK, MessageType
    <3>2. ConsistentAt(node[m.to], m) /\ Replicated(s, m) = Replicated(node[m.to], m)
      BY <1>1, <2>2 DEF ConsistentAt, log_term, Replicated
    <3>. QED  BY <1>2, <2>2, <3>1, <3>2 DEF LogKept
  <2>. QED  BY <2>1, <2>2
<1>4. Keeps(m.to, r.node)
  BY <1>1, <1>2, <1>3 DEF Keeps
<1>5. node' = [node EXCEPT ![m.to] = r.node] /\ msgs' = msgs \cup r.out
  BY DEF Deliver, Send
<1>. QED  BY <1>1, <1>4, <1>5 DEF LogStep, TypeInv

\* A tick changes only the node.
LEMMA TickKeeps ==
    ASSUME TypeInv, NEW n \in Voters, NEW r, NodeOK(r), node' = [node EXCEPT ![n] = r],
           UNCHANGED <<msgs, pending, proposals>>, r.log = node[n].log, r.term >= node[n].term,
           r.state # "Leader" \/ SameVote(node[n], r),
           r.term = node[n].term => r.voted_for = node[n].voted_for
                                    /\ (r.state = "Candidate" => node[n].state = "Candidate")
    PROVE  LogStep
<1>1. msgs' = msgs \cup {} /\ SentBy(n, r, {})
  BY DEF SentBy
<1>2. Keeps(n, r)
  BY DEF Keeps, LogKept, SameVote
<1>. QED  BY <1>1, <1>2 DEF LogStep, TypeInv

\* One turn of a leader's loop, from a log s that is its own or has one more entry.
LEMMA ReadyStep ==
    ASSUME TypeInv, NEW n \in Voters, NEW s, NEW w, HandleReady(n, s, w), NodeOK(s),
           SameVote(node[n], s), s.state = "Leader", proposals' \in Nat,
           \/ s.log = node[n].log /\ w = pending[n]
           \/ \E d \in Nat : /\ s.log = Append(node[n].log, Entry(s.term, d))
                             /\ w = pending[n] \cup {Proposal(s, d)}
    PROVE  LogStep
<1>. DEFINE r == ready(s, n)
<1>1. node' = [node EXCEPT ![n] = r.node] /\ msgs' = msgs \cup r.out
  BY DEF HandleReady, Send
<1>2. /\ NodeOK(r.node) /\ r.node.log = s.log
      /\ \A o \in r.out : /\ MessageOK(o) /\ o.type \in {"Heartbeat", "AppendEntries"}
                          /\ o.from = n /\ o.to # n /\ o.term = s.term
                          /\ o.type = "AppendEntries" => Carries(o, s.log)
  BY ReadyType
<1>3. SameVote(s, r.node)
  BY ReadyFacts DEF SameVote
<1>4. /\ DOMAIN pending' = Voters /\ \A p \in Voters \ {n} : pending'[p] = pending[p]
      /\ pending'[n] \subseteq w
  BY DEF HandleReady, TypeInv
<1>. HIDE DEF r
<1>5. SentBy(n, r.node, r.out)
  BY <1>2, <1>3 DEF SentBy, SameVote, IsVote
<1>6. node[n].term \in Nat /\ node[n].log \in Seq(Entries)
  BY DEF TypeInv, NodeOK, NodeType
<1>7. CASE s.log = node[n].log /\ w = pending[n]
  <2>1. Keeps(n, r.node)
    BY <1>2, <1>3, <1>4, <1>6, <1>7 DEF Keeps, LogKept, SameVote
  <2>. QED  BY <1>1, <1>2, <1>4, <1>5, <2>1 DEF LogStep
<1>8. ASSUME NEW d \in Nat, s.log = Append(node[n].log, Entry(s.term, d)),
             w = pending[n] \cup {Proposal(s, d)}
      PROVE  LogStep
  <2>1. s.log \in Seq(Entries)
    BY DEF NodeOK, NodeType
  <2>2. /\ Len(s.log) = Len(node[n].log) + 1
        /\ \A i \in 1..Len(node[n].log) : s.log[i] = node[n].log[i]
        /\ s.log[Len(s.log)] = Entry(s.term, d)
    <3>. DEFINE e == Entry(s.term, d)
    <3>1. e \in Entries
      BY DEF Entry, Entries, NodeOK, NodeType
    <3>. HIDE DEF e
    <3>2. s.log = Append(node[n].log, e)
      BY <1>8 DEF e
    <3>3. /\ Len(s.log) = Len(node[n].log) + 1
          /\ \A i \in 1..Len(node[n].log) : s.log[i] = node[n].log[i]
          /\ s.log[Len(s.log)] = e
      BY <1>6, <3>1, <3>2
    <3>. QED  BY <3>3 DEF e
  <2>3. \A p \in Voters : \A x \in pending'[p] :
           x \in pending[p] \/ (p = n /\ x = [index |-> Len(s.log), data |-> d, term |-> s.term])
    BY <1>4, <1>8 DEF Proposal, last_index
  <2>4. Extends(n, r.node)
    BY <1>2, <1>3, <2>1, <2>2, <2>3 DEF Extends, SameVote
  <2>. QED  BY <1>1, <1>2, <1>4, <1>5, <2>4 DEF LogStep
<1>. QED  BY <1>7, <1>8

\* Every step but a restart.
LEMMA LogStepNext ==
    ASSUME TypeInv, restarts \in Nat, restarts' = restarts, Next
    PROVE  LogStep
<1>0. \A n \in Voters : NodeOK(node[n]) /\ Shaped(node[n]) /\ node[n].term \in Nat
  BY DEF TypeInv, NodeOK, NodeType, Shaped, Fields
<1>1. ASSUME NEW n \in Voters, ElectionTimeout(n) PROVE LogStep
  <2>. DEFINE r == handle_election_timeout(node[n], n)
  <2>1. node' = [node EXCEPT ![n] = r] /\ UNCHANGED <<msgs, pending, proposals>>
    BY <1>1 DEF ElectionTimeout, client
  <2>2. NodeOK(r) /\ r.log = node[n].log
    BY <1>0, TimeoutType
  <2>3. \/ r.state = "PreCandidate" /\ r.term = node[n].term /\ r.voted_for = node[n].voted_for
        \/ r.state = "Candidate" /\ r.term = node[n].term + 1
    BY <1>0, TimeoutFacts
  <2>. HIDE DEF r
  <2>4. /\ r.state # "Leader" /\ r.term >= node[n].term
        /\ r.term = node[n].term => r.voted_for = node[n].voted_for /\ r.state # "Candidate"
    BY <1>0, <2>3
  <2>. QED  BY <2>1, <2>2, <2>4, TickKeeps
<1>2. ASSUME NEW n \in Voters, CheckQuorum(n) PROVE LogStep
  <2>. DEFINE r == check_quorum(node[n])
  <2>1. node' = [node EXCEPT ![n] = r] /\ UNCHANGED <<msgs, pending, proposals>>
    BY <1>2 DEF CheckQuorum, client
  <2>2. NodeOK(r) /\ r.log = node[n].log
    BY <1>0, CheckQuorumType
  <2>3. SameVote(node[n], r) \/ Follows(node[n], r, node[n].term)
    BY <1>0, CheckQuorumFacts
  <2>. HIDE DEF r
  <2>4. /\ r.state # "Leader" \/ SameVote(node[n], r)
        /\ r.term >= node[n].term /\ r.voted_for = node[n].voted_for
        /\ r.state = "Candidate" => node[n].state = "Candidate"
    BY <1>0, <2>3 DEF SameVote, Follows
  <2>. QED  BY <2>1, <2>2, <2>4, TickKeeps
<1>3. ASSUME NEW n \in Voters, Heartbeat(n) PROVE LogStep
  <2>1. SameVote(node[n], node[n])
    BY <1>0 DEF SameVote
  <2>2. /\ HandleReady(n, node[n], pending[n]) /\ node[n].state = "Leader"
        /\ proposals' = proposals
    BY <1>3 DEF Heartbeat
  <2>3. NodeOK(node[n]) /\ proposals' \in Nat
    BY <1>0, <2>2 DEF TypeInv
  <2>. QED  BY <2>1, <2>2, <2>3, ReadyStep
<1>4. ASSUME NEW n \in Voters, Propose(n) PROVE LogStep
  <2>. DEFINE s == propose(node[n], proposals')
  <2>1. /\ HandleReady(n, s, pending[n] \cup {Proposal(s, proposals')})
        /\ node[n].state = "Leader" /\ proposals' \in Nat
    BY <1>4 DEF Propose, TypeInv
  <2>2. NodeOK(s) /\ s.log = Append(node[n].log, Entry(node[n].term, proposals'))
    BY <1>0, <2>1, ProposeType
  <2>3. SameVote(node[n], s)
    BY <1>0, ProposeFacts
  <2>. HIDE DEF s
  <2>4. s.state = "Leader" /\ s.log = Append(node[n].log, Entry(s.term, proposals'))
    BY <2>1, <2>2, <2>3 DEF SameVote
  <2>. QED  BY <2>1, <2>2, <2>3, <2>4, ReadyStep
<1>5. ASSUME NEW n \in Voters, NEW p \in Voters, RequestVote(n, p) PROVE LogStep
  <2>. DEFINE o == [Message("RequestVote", n, p, node[n].term) EXCEPT !.index = last_index(node[n])]
  <2>1. msgs' = msgs \cup {o} /\ UNCHANGED <<node, pending, proposals>>
    BY <1>5 DEF RequestVote, Send, client
  <2>2. MessageOK(o) /\ o.type = "RequestVote"
    <3>1. node[n].term \in Nat /\ last_index(node[n]) \in Nat
      BY <1>0 DEF NodeOK, NodeType, last_index
    <3>. DEFINE b == Message("RequestVote", n, p, node[n].term)
                i == last_index(node[n])
    <3>2. b \in MessageType /\ b.type = "RequestVote" /\ i \in Nat
      BY <3>1 DEF Message, MessageType
    <3>3. o = [b EXCEPT !.index = i]
      OBVIOUS
    <3>. HIDE DEF b, i, o
    <3>. QED  BY <3>2, <3>3 DEF MessageOK, MessageType
  <2>. HIDE DEF o
  <2>3. SentBy(n, node[n], {o}) /\ Keeps(n, node[n])
    BY <1>0, <2>1, <2>2 DEF SentBy, IsVote, Keeps, LogKept
  <2>4. node' = [node EXCEPT ![n] = node[n]]
    BY <2>1 DEF TypeInv
  <2>. QED  BY <1>0, <2>1, <2>3, <2>4 DEF LogStep, TypeInv
<1>6. ASSUME NEW n \in Voters, Restart(n) PROVE FALSE
  BY <1>6 DEF Restart
<1>7. ASSUME NEW m \in msgs, OnHeartbeat(m) PROVE LogStep
  <2>. DEFINE s == Observe(node[m.to], m)
              r == handle_heartbeat(s, m)
  <2>1. MessageOK(m) /\ NodeOK(s) /\ Shaped(s)
    BY ObservedFacts
  <2>2. Deliver(m, r) /\ UNCHANGED <<pending, proposals>> /\ s = Observe(node[m.to], m)
    BY <1>7 DEF OnHeartbeat, client
  <2>. HIDE DEF s
  <2>3. /\ NodeOK(r.node) /\ r.node.log = s.log
        /\ \A o \in r.out : MessageOK(o) /\ o.type = "Heartbeat"
    BY <2>1, HeartbeatType
  <2>4. SameVote(s, r.node)
    BY <2>1, HeartbeatFacts
  <2>. HIDE DEF r
  <2>5. SentBy(m.to, r.node, r.out)
    BY <2>3 DEF SentBy, IsVote
  <2>. QED  BY <2>2, <2>3, <2>4, <2>5, DeliverKeeps
<1>8. ASSUME NEW m \in msgs, OnAppendEntries(m) PROVE LogStep
  <2>. DEFINE s == Observe(node[m.to], m)
              r == handle_append_entries(s, m)
  <2>1. MessageOK(m) /\ NodeOK(s) /\ Shaped(s) /\ m.type = "AppendEntries"
    BY <1>8, ObservedFacts DEF OnAppendEntries
  <2>2. Deliver(m, r) /\ UNCHANGED <<pending, proposals>> /\ s = Observe(node[m.to], m)
    BY <1>8 DEF OnAppendEntries, client
  <2>. HIDE DEF s
  <2>3. /\ NodeOK(r.node)
        /\ \/ r.node.log = s.log
           \/ m.term >= s.term /\ ConsistentAt(s, m) /\ r.node.log = Replicated(s, m)
        /\ \A o \in r.out : MessageOK(o) /\ o.type = "AppendResponse"
    BY <2>1, AppendEntriesType
  <2>4. SameVote(s, r.node)
    BY <2>1, AppendEntriesFacts
  <2>. HIDE DEF r
  <2>5. SentBy(m.to, r.node, r.out)
    BY <2>3 DEF SentBy, IsVote
  <2>. QED  BY <2>1, <2>2, <2>3, <2>4, <2>5, DeliverKeeps
<1>9. ASSUME NEW m \in msgs, OnAppendResponse(m) PROVE LogStep
  <2>. DEFINE s == Observe(node[m.to], m)
              r == handle_append_response(s, m)
  <2>1. MessageOK(m) /\ NodeOK(s) /\ Shaped(s)
    BY ObservedFacts
  <2>2. Deliver(m, r) /\ UNCHANGED <<pending, proposals>> /\ s = Observe(node[m.to], m)
    BY <1>9 DEF OnAppendResponse
  <2>. HIDE DEF s
  <2>3. NodeOK(r.node) /\ r.node.log = s.log
    BY <2>1, AppendResponseType
  <2>4. SameVote(s, r.node) /\ r.out = {}
    BY <2>1, AppendResponseFacts
  <2>. HIDE DEF r
  <2>5. SentBy(m.to, r.node, r.out)
    BY <2>4 DEF SentBy
  <2>. QED  BY <2>2, <2>3, <2>4, <2>5, DeliverKeeps
<1>10. ASSUME NEW m \in msgs, OnRequestVote(m) PROVE LogStep
  <2>. DEFINE s == Observe(node[m.to], m)
              r == handle_request_vote(s, m)
              Refuses == /\ r.node = s
                         /\ \A o \in r.out : ~IsVote(o) /\ o.from = m.to /\ o.to = m.from /\ o.term = s.term
              Grants == /\ s.voted_for \in {Nobody, m.from} /\ s.voted_for # m.to
                        /\ Shaped(r.node) /\ r.node.term = s.term /\ r.node.state = s.state
                        /\ r.node.granted = s.granted /\ r.node.voted_for = m.from
                        /\ \A o \in r.out : o.from = m.to /\ o.to = m.from /\ o.term = s.term
  <2>1. /\ m.to \in Voters /\ MessageOK(m) /\ NodeOK(s) /\ Shaped(s)
        /\ s.log = node[m.to].log /\ s.term \in Nat /\ node[m.to].term \in Nat
        /\ s.term >= node[m.to].term
        /\ s = node[m.to] \/ (s.term > node[m.to].term /\ s.state = "Follower")
    BY ObservedFacts
  <2>2. Deliver(m, r) /\ UNCHANGED <<pending, proposals>> /\ s = Observe(node[m.to], m)
    BY <1>10 DEF OnRequestVote, client
  <2>. HIDE DEF s
  <2>3. /\ NodeOK(r.node) /\ r.node.log = s.log
        /\ \A o \in r.out : MessageOK(o) /\ o.type = "VoteResponse"
    BY <2>1, RequestVoteType
  <2>4. Refuses \/ Grants
    BY <2>1, RequestVoteFacts
  <2>. HIDE DEF r
  <2>5. CASE Refuses
    <3>1. SameVote(s, r.node)
      BY <2>1, <2>5 DEF SameVote
    <3>2. SentBy(m.to, r.node, r.out)
      BY <2>3, <2>5 DEF SentBy
    <3>. QED  BY <2>2, <2>3, <3>1, <3>2, DeliverKeeps
  <2>6. CASE Grants
    <3>1. SentBy(m.to, r.node, r.out)
      BY <2>3, <2>6 DEF SentBy
    <3>2. Keeps(m.to, r.node)
      BY <2>1, <2>2, <2>3, <2>6 DEF Keeps, LogKept
    <3>3. node' = [node EXCEPT ![m.to] = r.node] /\ msgs' = msgs \cup r.out
      BY <2>2 DEF Deliver, Send
    <3>. QED  BY <2>1, <2>2, <2>3, <3>1, <3>2, <3>3 DEF LogStep, TypeInv
  <2>. QED  BY <2>4, <2>5, <2>6
<1>11. ASSUME NEW m \in msgs, OnVoteResponse(m) PROVE LogStep
  <2>. DEFINE s == Observe(node[m.to], m)
              r == handle_vote_response(s, m)
              Wins == /\ s.state = "Candidate" /\ m.term = s.term
                      /\ r.node.state = "Leader" /\ r.node.term = s.term
                      /\ r.node.log \in Seq(Entries) /\ Len(r.node.log) = Len(s.log) + 1
                      /\ \A i \in 1..Len(s.log) : r.node.log[i] = s.log[i]
                      /\ r.node.log[Len(r.node.log)] = Entry(s.term, NoOp)
                      /\ \A o \in r.out :
                            /\ MessageOK(o) /\ o.type = "AppendEntries"
                            /\ o.from = m.to /\ o.to # m.to /\ o.term = s.term
                            /\ Carries(o, r.node.log)
              Waits == r.node.log = s.log /\ r.out = {} /\ (r.node.state = "Leader" => r.node = s)
  <2>1. /\ m.to \in Voters /\ MessageOK(m) /\ NodeOK(s) /\ Shaped(s)
        /\ s.log = node[m.to].log /\ s.term \in Nat /\ node[m.to].term \in Nat
        /\ s.term >= node[m.to].term
        /\ s = node[m.to] \/ (s.term > node[m.to].term /\ s.state = "Follower")
    BY ObservedFacts
  <2>2. Deliver(m, r) /\ UNCHANGED <<pending, proposals>> /\ s = Observe(node[m.to], m)
    BY <1>11 DEF OnVoteResponse, client
  <2>. HIDE DEF s
  <2>3. NodeOK(r.node) /\ (Waits \/ Wins)
    BY <2>1, VoteResponseType
  <2>4. \/ r.node = s \/ Follows(s, r.node, s.term)
        \/ /\ s.state = "Candidate" /\ r.node.term = s.term /\ r.node.voted_for = s.voted_for
    BY <2>1, VoteResponseFacts
  <2>5. node' = [node EXCEPT ![m.to] = r.node] /\ msgs' = msgs \cup r.out
    BY <2>2 DEF Deliver, Send
  <2>. HIDE DEF r
  <2>6. CASE Waits
    <3>1. SentBy(m.to, r.node, r.out)
      BY <2>6 DEF SentBy
    <3>2. Keeps(m.to, r.node)
      BY <2>1, <2>2, <2>4, <2>6 DEF Keeps, LogKept, Follows
    <3>. QED  BY <2>1, <2>2, <2>3, <2>5, <3>1, <3>2 DEF LogStep, TypeInv
  <2>7. CASE Wins
    <3>1. s = node[m.to]
      BY <2>1, <2>7
    <3>2. SentBy(m.to, r.node, r.out)
      BY <2>7 DEF SentBy, IsVote
    <3>3. r.node.voted_for = s.voted_for
      BY <2>4, <2>7 DEF Follows
    <3>4. NoOp \in Nat
      BY DEF NoOp
    <3>5. Extends(m.to, r.node)
      BY <2>2, <2>7, <3>1, <3>3, <3>4 DEF Extends
    <3>. QED  BY <2>1, <2>2, <2>3, <2>5, <3>2, <3>5 DEF LogStep, TypeInv
  <2>. QED  BY <2>3, <2>6, <2>7
<1>. QED  BY <1>1, <1>2, <1>3, <1>4, <1>5, <1>6, <1>7, <1>8, <1>9, <1>10, <1>11 DEF Next

LEMMA NewNodeType == NodeOK(NewNode)
<1>1. Entry(0, NoOp) \in Entries
  BY DEF Entry, Entries, NoOp
<1>. DEFINE e == Entry(0, NoOp)
            log == <<e>>
<1>2. log \in Seq(Entries)
  <2>. HIDE DEF e
  <2>. QED  BY <1>1 DEF e
<1>3. NoProgress \in [Voters -> Nat]
  BY DEF NoProgress
<1>4. NewNode = [term |-> 0, voted_for |-> Nobody, log |-> log,
                 commit_index |-> 0, last_applied |-> 0,
                 state |-> "Follower", leader_id |-> Nobody, granted |-> {}, rejected |-> {},
                 next_index |-> NoProgress, match_index |-> NoProgress,
                 recent_active |-> {}, quorum_recently_active |-> TRUE]
  BY DEF NewNode
<1>. HIDE DEF log
<1>5. NewNode \in NodeType /\ NewNode.state = "Follower"
  BY <1>2, <1>3, <1>4 DEF NodeType, States, Ids
<1>. QED  BY <1>5 DEF NodeOK, Running

LEMMA TypeInit == Init => TypeInv
<1>. SUFFICES ASSUME Init PROVE TypeInv
  OBVIOUS
<1>1. NodeOK(NewNode) /\ NewNode \in NodeType
  BY NewNodeType DEF NodeOK
<1>. QED  BY <1>1 DEF Init, TypeInv

LEMMA NextRestarts == Next => restarts' = restarts \/ \E n \in Voters : Restart(n)
BY DEF Next, ElectionTimeout, CheckQuorum, Heartbeat, Propose, RequestVote, OnHeartbeat,
       OnAppendEntries, OnAppendResponse, OnRequestVote, OnVoteResponse, client

LEMMA TypeNext ==
    ASSUME TypeInv, restarts \in Nat, [Next]_vars
    PROVE  TypeInv'
<1>1. CASE UNCHANGED vars
  BY <1>1 DEF vars, TypeInv
<1>2. CASE Next /\ restarts' = restarts
  BY <1>2, LogStepNext, LogStepTyped
<1>3. ASSUME NEW n \in Voters, Restart(n) PROVE TypeInv'
  <2>1. NodeOK(NewNode) /\ NewNode \in NodeType
    BY NewNodeType DEF NodeOK
  <2>2. /\ node' = [node EXCEPT ![n] = NewNode] /\ UNCHANGED <<msgs, proposals>>
        /\ pending' = [pending EXCEPT ![n] = {}]
    BY <1>3 DEF Restart
  <2>. QED  BY <2>1, <2>2 DEF TypeInv
<1>. QED  BY <1>1, <1>2, <1>3, NextRestarts

-----------------------------------------------------------------------------
(* The log of a term                                                       *)

\* A majority sent n its vote in term t, n sent no other candidate a vote in
\* that term, and n is no longer a candidate in it.
Elected(n, t) ==
    /\ n \in Voters
    /\ \E Q \in SUBSET Voters :
          /\ is_quorum(Cardinality(Voters), Cardinality(Q))
          /\ \A v \in Q : v = n \/ \E m \in msgs : IsVote(m) /\ m.from = v /\ m.to = n /\ m.term = t
    /\ \A m \in msgs : IsVote(m) /\ m.from = n /\ m.term = t => m.to = n
    /\ \/ node[n].term > t
       \/ node[n].term = t /\ node[n].voted_for = n /\ node[n].state # "Candidate"

\* Each entry of a log comes, with all before it, from the log of its term.
Covered(L, log) ==
    \A i \in 1..Len(log) :
        i <= Len(L[log[i].term]) /\ \A j \in 1..i : log[j] = L[log[i].term][j]

\* L gives for every term the longest log of its leader, E the leader.
ElectedLogs(L, E) == \A t \in Nat : t > 0 /\ L[t] # <<>> => Elected(E[t], t)

LeaderLogs(L, E) ==
    \A n \in Voters : node[n].state = "Leader" =>
        /\ node[n].log = L[node[n].term] /\ node[n].log # <<>> /\ E[node[n].term] = n

LogsCovered(L) == (\A t \in Nat : Covered(L, L[t])) /\ \A n \in Voters : Covered(L, node[n].log)

SentLogs(L, E) ==
    \A m \in msgs : m.type = "AppendEntries" =>
        m.from # m.to /\ E[m.term] = m.from /\ L[m.term] # <<>> /\ Carries(m, L[m.term])

PendingLogs(L) ==
    \A n \in Voters : \A x \in pending[n] :
        /\ x.term \in Nat /\ x.index \in 1..Len(L[x.term])
        /\ L[x.term][x.index] = Entry(x.term, x.data)

LogInv(L, E) ==
    /\ L \in [Nat -> Seq(Entries)] /\ E \in [Nat -> Ids]
    /\ ElectedLogs(L, E) /\ LeaderLogs(L, E) /\ LogsCovered(L) /\ SentLogs(L, E) /\ PendingLogs(L)

\* A leader was elected in its term.
LEMMA LeaderElected ==
    VoteInv => \A n \in Voters : node[n].state = "Leader" => Elected(n, node[n].term)
<1>. SUFFICES ASSUME VoteInv, NEW n \in Voters, node[n].state = "Leader"
              PROVE  Elected(n, node[n].term)
  OBVIOUS
<1>. DEFINE Q == node[n].granted
            t == node[n].term
<1>1. Q \in SUBSET Voters /\ t \in Nat
  BY DEF VoteInv, NodesTyped
<1>2. is_quorum(Cardinality(Voters), Cardinality(Q))
  BY DEF VoteInv, LeadersElected
<1>3. /\ node[n].voted_for = n
      /\ \A v \in Q : v = n \/ \E m \in msgs : IsVote(m) /\ m.from = v /\ m.to = n /\ m.term = t
  BY DEF VoteInv, VotesCounted, Counts, Running
<1>4. \A m \in msgs : IsVote(m) /\ m.from = n /\ m.term = t => m.to = n
  BY <1>1, <1>3 DEF VoteInv, VotesHeld
<1>. QED  BY <1>1, <1>2, <1>3, <1>4 DEF Elected

\* No one else was elected in the term of a leader.
LEMMA ElectedAlone ==
    VoteInv => \A n, c \in Voters :
        node[n].state = "Leader" /\ Elected(c, node[n].term) => c = n
<1>. SUFFICES ASSUME VoteInv, NEW n \in Voters, NEW c \in Voters, node[n].state = "Leader",
                     Elected(c, node[n].term), c # n
              PROVE  FALSE
  OBVIOUS
<1>. DEFINE t == node[n].term
<1>1. node[n].granted \in SUBSET Voters /\ t \in Nat
  BY DEF VoteInv, NodesTyped
<1>2. /\ is_quorum(Cardinality(Voters), Cardinality(node[n].granted))
      /\ node[n].voted_for = n /\ \A v \in node[n].granted : Counts(n, v)
  BY DEF VoteInv, LeadersElected, VotesCounted, Running
<1>3. PICK Q \in SUBSET Voters :
        /\ is_quorum(Cardinality(Voters), Cardinality(Q))
        /\ \A v \in Q : v = c \/ \E m \in msgs : IsVote(m) /\ m.from = v /\ m.to = c /\ m.term = t
  BY DEF Elected
<1>4. PICK v : v \in node[n].granted /\ v \in Q
  BY <1>1, <1>2, <1>3, QuorumsMeet
<1>5. v = n \/ \E m \in msgs : IsVote(m) /\ m.from = v /\ m.to = n /\ m.term = t
  BY <1>2, <1>4 DEF Counts
<1>6. CASE v = n
  <2>1. PICK m \in msgs : IsVote(m) /\ m.from = n /\ m.to = c /\ m.term = t
    BY <1>3, <1>4, <1>6
  <2>. QED  BY <1>1, <1>2, <2>1 DEF VoteInv, VotesHeld
<1>7. CASE v = c
  <2>1. PICK m \in msgs : IsVote(m) /\ m.from = c /\ m.to = n /\ m.term = t
    BY <1>5, <1>7
  <2>. QED  BY <2>1 DEF Elected
<1>8. CASE v # n /\ v # c
  BY <1>3, <1>4, <1>5, <1>8 DEF VoteInv, VotesUnique
<1>. QED  BY <1>6, <1>7, <1>8

\* The same of the next state.
LEMMA LeaderElectedNext ==
    VoteInv' => \A n \in Voters : \A t :
        node'[n].state = "Leader" /\ node'[n].term = t => Elected(n, t)'
<1>1. (VoteInv => \A n \in Voters : node[n].state = "Leader" => Elected(n, node[n].term))'
  BY LeaderElected, PTL
<1>. QED  BY <1>1

LEMMA ElectedAloneNext ==
    VoteInv' => \A n, c \in Voters : \A t :
        node'[n].state = "Leader" /\ node'[n].term = t /\ Elected(c, t)' => c = n
<1>1. (VoteInv => \A n, c \in Voters :
          node[n].state = "Leader" /\ Elected(c, node[n].term) => c = n)'
  BY ElectedAlone, PTL
<1>. QED  BY <1>1

\* Being elected lasts.
LEMMA ElectedLasts ==
    ASSUME TypeInv, NEW n \in Voters, NEW r, NEW out, node' = [node EXCEPT ![n] = r],
           msgs' = msgs \cup out, NodeOK(r), SentBy(n, r, out), Keeps(n, r) \/ Extends(n, r),
           NEW c, NEW t \in Nat, Elected(c, t)
    PROVE  Elected(c, t)'
<1>1. /\ c \in Voters
      /\ \E Q \in SUBSET Voters :
           /\ is_quorum(Cardinality(Voters), Cardinality(Q))
           /\ \A v \in Q : v = c \/ \E m \in msgs' : IsVote(m) /\ m.from = v /\ m.to = c /\ m.term = t
  BY DEF Elected
<1>2. \A p \in Voters : node'[p] = IF p = n THEN r ELSE node[p]
  BY DEF TypeInv
<1>3. r.term \in Nat /\ node[n].term \in Nat /\ r.term >= node[n].term
  BY DEF TypeInv, NodeOK, NodeType, Keeps, Extends
<1>4. /\ r.term = node[n].term /\ node[n].voted_for = n => r.voted_for = n
      /\ r.term = node[n].term /\ r.state = "Candidate" => node[n].state = "Candidate"
  BY DEF Keeps, Extends
<1>5. \/ node'[c].term > t
      \/ node'[c].term = t /\ node'[c].voted_for = c /\ node'[c].state # "Candidate"
  <2>1. CASE c = n
    BY <1>2, <1>3, <1>4, <2>1 DEF Elected
  <2>2. CASE c # n
    BY <1>1, <1>2, <2>2 DEF Elected
  <2>. QED  BY <2>1, <2>2
<1>6. ASSUME NEW m \in out, IsVote(m), m.from = c, m.term = t PROVE m.to = c
  <2>1. c = n /\ r.term = t /\ m.to = r.voted_for
    BY <1>6 DEF SentBy
  <2>. QED  BY <1>1, <1>2, <1>3, <1>5, <2>1
<1>7. \A m \in msgs' : IsVote(m) /\ m.from = c /\ m.term = t => m.to = c
  BY <1>6 DEF Elected
<1>. QED  BY <1>1, <1>5, <1>7 DEF Elected

\* The log of every term is as long in M as in L, or longer.
Grown(L, M) ==
    \A t \in Nat : Len(L[t]) <= Len(M[t]) /\ \A j \in 1..Len(L[t]) : L[t][j] = M[t][j]

LEMMA PrefixGrown ==
    ASSUME NEW log \in Seq(Entries), NEW a \in Seq(Entries), NEW b \in Seq(Entries),
           Len(a) <= Len(b), \A j \in 1..Len(a) : a[j] = b[j],
           NEW i \in 1..Len(log), i <= Len(a), \A j \in 1..i : log[j] = a[j]
    PROVE  i <= Len(b) /\ \A j \in 1..i : log[j] = b[j]
OBVIOUS

LEMMA CoveredGrown ==
    ASSUME NEW L \in [Nat -> Seq(Entries)], NEW M \in [Nat -> Seq(Entries)], Grown(L, M),
           NEW log \in Seq(Entries), Covered(L, log)
    PROVE  Covered(M, log)
<1>. SUFFICES ASSUME NEW i \in 1..Len(log)
              PROVE  i <= Len(M[log[i].term]) /\ \A j \in 1..i : log[j] = M[log[i].term][j]
  BY DEF Covered
<1>. DEFINE a == L[log[i].term]
            b == M[log[i].term]
<1>1. log[i] \in Entries
  OBVIOUS
<1>2. log[i].term \in Nat
  BY <1>1 DEF Entries
<1>3. a \in Seq(Entries) /\ b \in Seq(Entries)
  BY <1>2
<1>4. Len(a) <= Len(b) /\ \A j \in 1..Len(a) : a[j] = b[j]
  BY <1>2 DEF Grown
<1>5. i <= Len(a) /\ \A j \in 1..i : log[j] = a[j]
  BY DEF Covered
<1>. HIDE DEF a, b
<1>6. i <= Len(b) /\ \A j \in 1..i : log[j] = b[j]
  BY <1>3, <1>4, <1>5, PrefixGrown, ZenonT(60)
<1>. QED  BY <1>6 DEF b

LEMMA CarriesGrown ==
    ASSUME NEW m \in MessageType, NEW a \in Seq(Entries), NEW b \in Seq(Entries), Carries(m, a),
           Len(a) <= Len(b), \A j \in 1..Len(a) : a[j] = b[j]
    PROVE  Carries(m, b)
<1>. DEFINE x == m.index
            e == m.entries
<1>1. /\ x \in Nat /\ Len(e) \in Nat /\ x + Len(e) <= Len(a) /\ Len(a) \in Nat /\ Len(b) \in Nat
      /\ \A k \in 1..Len(e) : e[k] = a[x + k]
  <2>1. x \in Nat /\ e \in Seq(Entries)
    BY DEF MessageType
  <2>2. x + Len(e) <= Len(a) /\ \A k \in 1..Len(e) : e[k] = a[x + k]
    BY DEF Carries
  <2>. HIDE DEF x, e
  <2>. QED  BY <2>1, <2>2
<1>. HIDE DEF x, e
<1>2. x + Len(e) <= Len(b) /\ \A k \in 1..Len(e) : e[k] = b[x + k]
  <2>1. \A k \in 1..Len(e) : x + k \in 1..Len(a)
    BY <1>1
  <2>. QED  BY <1>1, <2>1
<1>. QED  BY <1>2 DEF Carries, x, e

LEMMA Within ==
    ASSUME NEW x \in Nat, NEW y \in Nat, x <= y, NEW i \in 1..x
    PROVE  i \in 1..y /\ \A j \in 1..i : j \in 1..x
OBVIOUS

\* A log that agrees with a covered one as far as it goes is covered.
LEMMA CoveredPrefix ==
    ASSUME NEW L \in [Nat -> Seq(Entries)], NEW a \in Seq(Entries), NEW log \in Seq(Entries),
           Covered(L, a), Len(log) <= Len(a), \A j \in 1..Len(log) : log[j] = a[j]
    PROVE  Covered(L, log)
<1>. SUFFICES ASSUME NEW i \in 1..Len(log)
              PROVE  i <= Len(L[log[i].term]) /\ \A j \in 1..i : log[j] = L[log[i].term][j]
  BY DEF Covered
<1>1. Len(log) \in Nat /\ Len(a) \in Nat
  BY LenProperties, Zenon
<1>2. i \in 1..Len(a) /\ \A j \in 1..i : j \in 1..Len(log)
  BY <1>1, Within, Zenon
<1>3. log[i] = a[i]
  OBVIOUS
<1>4. i <= Len(L[a[i].term]) /\ \A j \in 1..i : a[j] = L[a[i].term][j]
  BY <1>2 DEF Covered
<1>. QED  BY <1>2, <1>3, <1>4

\* A follower that accepts entries of term t holds a beginning of the log of t.
LEMMA ReplicatedCovered ==
    ASSUME NEW L \in [Nat -> Seq(Entries)], NEW s, NodeOK(s), Covered(L, s.log),
           NEW m, MessageOK(m), m.type = "AppendEntries", ConsistentAt(s, m),
           Carries(m, L[m.term]), Covered(L, L[m.term])
    PROVE  Covered(L, Replicated(s, m))
<1>. DEFINE a == L[m.term]
            log == Replicated(s, m)
            x == m.index
            e == m.entries
<1>1. /\ m \in MessageType /\ m.term \in Nat /\ x \in Nat /\ e \in Seq(Entries)
      /\ s.log \in Seq(Entries) /\ a \in Seq(Entries)
  BY DEF MessageOK, MessageType, NodeOK, NodeType
<1>2. CASE e = <<>>
  BY <1>2 DEF Replicated
<1>3. CASE e # <<>>
  <2>1. /\ x <= Len(s.log) /\ log \in Seq(Entries) /\ (x # 0 => s.log[x].term = m.term)
        /\ Len(log) = x + Len(e)
        /\ \A i \in 1..x : log[i] = s.log[i]
        /\ \A i \in 1..Len(e) : log[x + i] = e[i]
    <3>1. /\ m.index <= Len(s.log)
          /\ Replicated(s, m) \in Seq(Entries)
          /\ m.index # 0 => s.log[m.index].term = m.term
      BY ReplicatedType
    <3>2. /\ Len(Replicated(s, m)) = m.index + Len(m.entries)
          /\ \A i \in 1..m.index : Replicated(s, m)[i] = s.log[i]
          /\ Holds(Replicated(s, m), m.index, m.entries)
      <4>1. m.entries # <<>>
        BY <1>3
      <4>. HIDE DEF e, x, log, a
      <4>2. Len(Replicated(s, m)) = m.index + Len(m.entries)
        BY <4>1, ReplicatedType
      <4>3. \A i \in 1..m.index : Replicated(s, m)[i] = s.log[i]
        BY <4>1, ReplicatedType
      <4>4. Holds(Replicated(s, m), m.index, m.entries)
        BY <4>1, ReplicatedType
      <4>. QED  BY <4>2, <4>3, <4>4
    <3>. QED  BY <3>1, <3>2 DEF Holds
  <2>2. x + Len(e) <= Len(a) /\ \A k \in 1..Len(e) : e[k] = a[x + k]
    BY DEF Carries
  <2>. HIDE DEF a, log, x, e
  <2>3. \A i \in 1..x : s.log[i] = a[i]
    <3>1. CASE x = 0
      BY <3>1
    <3>2. CASE x # 0
      <4>1. x \in 1..Len(s.log) /\ s.log[x].term = m.term
        BY <1>1, <2>1, <3>2
      <4>. QED  BY <4>1, ZenonT(60) DEF Covered, a
    <3>. QED  BY <3>1, <3>2
  <2>4. \A j \in 1..Len(log) : log[j] = a[j]
    <3>. SUFFICES ASSUME NEW j \in 1..Len(log) PROVE log[j] = a[j]
      OBVIOUS
    <3>1. CASE j <= x
      <4>1. j \in 1..x
        BY <1>1, <3>1
      <4>. QED  BY <2>1, <2>3, <4>1
    <3>2. CASE j > x
      <4>1. j - x \in 1..Len(e) /\ j = x + (j - x)
        BY <1>1, <2>1, <3>2
      <4>. QED  BY <2>1, <2>2, <4>1
    <3>. QED  BY <1>1, <3>1, <3>2
  <2>5. Len(log) <= Len(a)
    BY <2>1, <2>2
  <2>6. Covered(L, a)
    BY DEF a
  <2>7. Covered(L, log)
    BY <1>1, <2>1, <2>4, <2>5, <2>6, CoveredPrefix
  <2>. QED  BY <2>7 DEF log
<1>. QED  BY <1>2, <1>3

\* A leader accepts no entries: only it sends any in its term.
LEMMA LeaderKeepsLog ==
    ASSUME NEW L, NEW E, LogInv(L, E), NEW n \in Voters, NEW r, Keeps(n, r), r.state = "Leader"
    PROVE  node[n].state = "Leader" /\ r.term = node[n].term /\ r.log = node[n].log
<1>1. node[n].state = "Leader" /\ r.term = node[n].term
  BY DEF Keeps
<1>2. CASE r.log # node[n].log
  <2>1. PICK m \in msgs : m.type = "AppendEntries" /\ m.to = n /\ m.term = r.term
    BY <1>2 DEF Keeps, LogKept
  <2>2. E[r.term] = m.from /\ m.from # n
    BY <2>1 DEF LogInv, SentLogs
  <2>. QED  BY <1>1, <2>2 DEF LogInv, LeaderLogs
<1>. QED  BY <1>1, <1>2

\* A step that extends no leader's log leaves the logs of the terms as they are.
LEMMA LogInvKept ==
    ASSUME TypeInv, TypeInv', NEW L, NEW E, LogInv(L, E),
           NEW n \in Voters, NEW r, NEW out, node' = [node EXCEPT ![n] = r],
           msgs' = msgs \cup out, NodeOK(r), SentBy(n, r, out), Keeps(n, r)
    PROVE  LogInv(L, E)'
<1>1. L \in [Nat -> Seq(Entries)] /\ E \in [Nat -> Ids]
  BY DEF LogInv
<1>2. \A p \in Voters : node'[p] = IF p = n THEN r ELSE node[p]
  BY DEF TypeInv
<1>3. ElectedLogs(L, E)'
  BY ElectedLasts DEF LogInv, ElectedLogs
<1>4. r.state = "Leader" => /\ node[n].state = "Leader" /\ r.term = node[n].term
                            /\ r.log = node[n].log
  BY LeaderKeepsLog
<1>5. LeaderLogs(L, E)'
  BY <1>2, <1>4 DEF LogInv, LeaderLogs
<1>6. LogsCovered(L)'
  <2>1. Covered(L, r.log)
    <3>1. CASE r.log = node[n].log
      BY <3>1 DEF LogInv, LogsCovered
    <3>2. ASSUME NEW m \in msgs, m.type = "AppendEntries",
                 ConsistentAt(node[n], m), r.log = Replicated(node[n], m)
          PROVE  Covered(L, r.log)
      <4>1. NodeOK(node[n]) /\ MessageOK(m) /\ m.term \in Nat
        BY DEF TypeInv, MessageOK, MessageType
      <4>2. Covered(L, node[n].log) /\ Covered(L, L[m.term]) /\ Carries(m, L[m.term])
        BY <3>2, <4>1 DEF LogInv, LogsCovered, SentLogs
      <4>. QED  BY <1>1, <3>2, <4>1, <4>2, ReplicatedCovered
    <3>. QED  BY <3>1, <3>2 DEF Keeps, LogKept
  <2>. QED  BY <1>2, <2>1 DEF LogInv, LogsCovered
<1>7. SentLogs(L, E)'
  <2>1. ASSUME NEW m \in out, m.type = "AppendEntries"
        PROVE  m.from # m.to /\ E[m.term] = m.from /\ L[m.term] # <<>> /\ Carries(m, L[m.term])
    <3>1. m.from = n /\ m.to # n /\ m.term = r.term /\ r.state = "Leader" /\ Carries(m, r.log)
      BY <2>1 DEF SentBy
    <3>2. r.log = L[r.term] /\ r.log # <<>> /\ E[r.term] = n
      BY <1>4, <3>1 DEF LogInv, LeaderLogs
    <3>. QED  BY <3>1, <3>2
  <2>. QED  BY <2>1 DEF LogInv, SentLogs
<1>8. PendingLogs(L)'
  BY DEF LogInv, PendingLogs, Keeps
<1>. QED  BY <1>1, <1>3, <1>5, <1>6, <1>7, <1>8 DEF LogInv

\* A leader that extends its log extends the log of its term.
LEMMA LogInvExtended ==
    ASSUME TypeInv, TypeInv', VoteInv', NEW L, NEW E, LogInv(L, E),
           NEW n \in Voters, NEW r, NEW out, node' = [node EXCEPT ![n] = r],
           msgs' = msgs \cup out, NodeOK(r), SentBy(n, r, out), Extends(n, r)
    PROVE  \E M, F : LogInv(M, F)'
<1>. DEFINE t == r.term
            M == [L EXCEPT ![t] = r.log]
            F == [E EXCEPT ![t] = n]
<1>1. L \in [Nat -> Seq(Entries)] /\ E \in [Nat -> Ids]
  BY DEF LogInv
<1>2. /\ t \in Nat /\ t > 0 /\ t = node[n].term /\ r.state = "Leader"
      /\ r.log \in Seq(Entries) /\ node[n].log \in Seq(Entries)
  BY DEF NodeOK, NodeType, Running, Extends, TypeInv
<1>3. \A p \in Voters : node'[p] = IF p = n THEN r ELSE node[p]
  BY DEF TypeInv
<1>. HIDE DEF t
<1>4. /\ M \in [Nat -> Seq(Entries)] /\ F \in [Nat -> Ids]
      /\ M[t] = r.log /\ F[t] = n /\ \A u \in Nat : u # t => M[u] = L[u] /\ F[u] = E[u]
  BY <1>1, <1>2 DEF Ids
<1>. HIDE DEF M, F
<1>5. \A c : Elected(c, t)' => c = n
  <2>2. node'[n].state = "Leader" /\ node'[n].term = t
    BY <1>2, <1>3 DEF t
  <2>3. \A c : Elected(c, t)' => c \in Voters
    BY DEF Elected
  <2>. QED  BY <2>2, <2>3, ElectedAloneNext
<1>6. Elected(n, t)'
  <2>1. node'[n].state = "Leader" /\ node'[n].term = t
    BY <1>2, <1>3 DEF t
  <2>. QED  BY <2>1, LeaderElectedNext
<1>7. L[t] = <<>> \/ (E[t] = n /\ L[t] = node[n].log)
  <2>. SUFFICES ASSUME L[t] # <<>> PROVE E[t] = n /\ L[t] = node[n].log
    OBVIOUS
  <2>1. Elected(E[t], t)
    BY <1>2 DEF LogInv, ElectedLogs
  <2>2. E[t] = n
    BY <1>2, <1>5, <2>1, ElectedLasts
  <2>3. node[n].state # "Candidate"
    BY <1>2, <2>1, <2>2 DEF Elected
  <2>. QED  BY <1>2, <2>2, <2>3 DEF LogInv, LeaderLogs, Extends
<1>8. Grown(L, M)
  <2>1. Len(L[t]) <= Len(r.log) /\ \A j \in 1..Len(L[t]) : L[t][j] = r.log[j]
    <3>1. CASE L[t] = <<>>
      BY <1>2, <3>1
    <3>2. CASE L[t] = node[n].log
      <4>1. /\ Len(r.log) = Len(node[n].log) + 1
            /\ \A i \in 1..Len(node[n].log) : r.log[i] = node[n].log[i]
        BY DEF Extends
      <4>2. Len(node[n].log) \in Nat
        BY <1>2
      <4>3. Len(node[n].log) <= Len(r.log)
        BY <4>1, <4>2
      <4>. QED  BY <3>2, <4>1, <4>3, Zenon
    <3>. QED  BY <1>7, <3>1, <3>2
  <2>2. \A u \in Nat : Len(L[u]) \in Nat
    BY <1>1
  <2>3. ASSUME NEW u \in Nat
        PROVE  Len(L[u]) <= Len(M[u]) /\ \A j \in 1..Len(L[u]) : L[u][j] = M[u][j]
    <3>1. CASE u = t
      BY <1>4, <2>1, <3>1
    <3>2. CASE u # t
      <4>1. M[u] = L[u] /\ Len(L[u]) \in Nat
        BY <1>4, <2>2, <3>2
      <4>. QED  BY <4>1
    <3>. QED  BY <3>1, <3>2
  <2>. QED  BY <2>3 DEF Grown
<1>9. ElectedLogs(M, F)'
  <2>. SUFFICES ASSUME NEW u \in Nat, u > 0, M[u] # <<>> PROVE Elected(F[u], u)'
    BY DEF ElectedLogs
  <2>1. CASE u = t
    BY <1>4, <1>6, <2>1
  <2>2. CASE u # t
    <3>1. Elected(E[u], u)
      BY <1>4, <2>2 DEF LogInv, ElectedLogs
    <3>2. Elected(E[u], u)'
      BY <3>1, ElectedLasts
    <3>. QED  BY <1>4, <2>2, <3>2
  <2>. QED  BY <2>1, <2>2
<1>10. LeaderLogs(M, F)'
  <2>. SUFFICES ASSUME NEW p \in Voters, node'[p].state = "Leader"
                PROVE  /\ node'[p].log = M[node'[p].term] /\ node'[p].log # <<>>
                       /\ F[node'[p].term] = p
    BY DEF LeaderLogs
  <2>1. CASE p = n
    <3>1. r.log # <<>>
      BY <1>2 DEF Extends
    <3>. QED  BY <1>3, <1>4, <2>1, <3>1 DEF t
  <2>2. CASE p # n
    <3>1. node'[p] = node[p] /\ node[p].term \in Nat
      BY <1>3, <2>2 DEF TypeInv, NodeOK, NodeType
    <3>2. node[p].term # t
      BY <1>5, <2>2, <3>1, LeaderElectedNext
    <3>3. /\ node[p].log = L[node[p].term] /\ node[p].log # <<>> /\ E[node[p].term] = p
      BY <3>1 DEF LogInv, LeaderLogs
    <3>. QED  BY <1>4, <3>1, <3>2, <3>3
  <2>. QED  BY <2>1, <2>2
<1>11. Covered(M, r.log)
  <2>. SUFFICES ASSUME NEW i \in 1..Len(r.log)
                PROVE  i <= Len(M[r.log[i].term]) /\ \A j \in 1..i : r.log[j] = M[r.log[i].term][j]
    BY DEF Covered
  <2>0. Len(r.log) = Len(node[n].log) + 1 /\ Len(node[n].log) \in Nat
    BY <1>2 DEF Extends
  <2>1. CASE i = Len(r.log)
    <3>1. r.log[i].term = t
      BY <2>1 DEF Extends, Entry, t
    <3>2. M[r.log[i].term] = r.log
      BY <1>4, <3>1
    <3>. QED  BY <2>0, <2>1, <3>2
  <2>2. CASE i # Len(r.log)
    <3>1. i \in 1..Len(node[n].log) /\ \A j \in 1..i : r.log[j] = node[n].log[j]
      <4>. DEFINE k == Len(node[n].log)
                  l == Len(r.log)
      <4>1. \A j \in 1..k : r.log[j] = node[n].log[j]
        BY <1>2 DEF Extends
      <4>2. k \in Nat /\ l = k + 1 /\ i \in 1..l /\ i # l
        BY <2>0, <2>2
      <4>. HIDE DEF k, l
      <4>3. i \in 1..k /\ \A j \in 1..i : j \in 1..k
        BY <4>2
      <4>4. \A j \in 1..i : r.log[j] = node[n].log[j]
        BY <4>1, <4>3
      <4>. QED  BY <4>3, <4>4 DEF k
    <3>2. Covered(M, node[n].log)
      BY <1>1, <1>2, <1>4, <1>8, CoveredGrown DEF LogInv, LogsCovered
    <3>3. /\ i <= Len(M[node[n].log[i].term])
          /\ \A j \in 1..i : node[n].log[j] = M[node[n].log[i].term][j]
      BY <3>1, <3>2 DEF Covered
    <3>4. r.log[i] = node[n].log[i]
      BY <3>1
    <3>. QED  BY <3>1, <3>3, <3>4
  <2>. QED  BY <2>1, <2>2
<1>12. LogsCovered(M)'
  <2>1. \A u \in Nat : Covered(M, M[u])
    <3>. SUFFICES ASSUME NEW u \in Nat, u # t PROVE Covered(M, M[u])
      BY <1>4, <1>11
    <3>. QED  BY <1>1, <1>4, <1>8, CoveredGrown DEF LogInv, LogsCovered
  <2>2. \A p \in Voters : Covered(M, node'[p].log)
    <3>. SUFFICES ASSUME NEW p \in Voters, p # n PROVE Covered(M, node[p].log)
      BY <1>3, <1>11
    <3>1. node[p].log \in Seq(Entries) /\ Covered(L, node[p].log)
      BY DEF TypeInv, NodeOK, NodeType, LogInv, LogsCovered
    <3>. QED  BY <1>1, <1>4, <1>8, <3>1, CoveredGrown
  <2>. QED  BY <2>1, <2>2 DEF LogsCovered
<1>13. SentLogs(M, F)'
  <2>. SUFFICES ASSUME NEW m \in msgs', m.type = "AppendEntries"
                PROVE  /\ m.from # m.to /\ F[m.term] = m.from
                       /\ M[m.term] # <<>> /\ Carries(m, M[m.term])
    BY DEF SentLogs
  <2>1. CASE m \in msgs
    <3>1. m.from # m.to /\ E[m.term] = m.from /\ L[m.term] # <<>> /\ Carries(m, L[m.term])
      BY <2>1 DEF LogInv, SentLogs
    <3>2. m \in MessageType /\ m.term \in Nat
      BY <2>1 DEF TypeInv, MessageOK, MessageType
    <3>3. /\ L[m.term] \in Seq(Entries) /\ M[m.term] \in Seq(Entries)
          /\ Len(L[m.term]) <= Len(M[m.term])
          /\ \A j \in 1..Len(L[m.term]) : L[m.term][j] = M[m.term][j]
      BY <1>1, <1>4, <1>8, <3>2 DEF Grown
    <3>4. Carries(m, M[m.term])
      BY <3>1, <3>2, <3>3, CarriesGrown
    <3>5. M[m.term] # <<>>
      BY <3>1, <3>3
    <3>6. F[m.term] = m.from
      BY <1>4, <1>7, <3>1, <3>2
    <3>. QED  BY <3>1, <3>4, <3>5, <3>6
  <2>2. CASE m \in out
    <3>1. m.from = n /\ m.to # n /\ m.term = t /\ Carries(m, r.log)
      BY <2>2 DEF SentBy, t
    <3>2. r.log # <<>>
      BY <1>2 DEF Extends
    <3>. QED  BY <1>4, <3>1, <3>2
  <2>. QED  BY <2>1, <2>2
<1>14. PendingLogs(M)'
  <2>. SUFFICES ASSUME NEW p \in Voters, NEW x \in pending'[p]
                PROVE  /\ x.term \in Nat /\ x.index \in 1..Len(M[x.term])
                       /\ M[x.term][x.index] = Entry(x.term, x.data)
    BY DEF PendingLogs
  <2>1. CASE x \in pending[p]
    <3>1. /\ x.term \in Nat /\ x.index \in 1..Len(L[x.term])
          /\ L[x.term][x.index] = Entry(x.term, x.data)
      BY <2>1 DEF LogInv, PendingLogs
    <3>2. /\ Len(L[x.term]) <= Len(M[x.term]) /\ Len(L[x.term]) \in Nat /\ Len(M[x.term]) \in Nat
          /\ \A j \in 1..Len(L[x.term]) : L[x.term][j] = M[x.term][j]
      <4>. DEFINE u == x.term
      <4>1. u \in Nat
        BY <3>1
      <4>. HIDE DEF u
      <4>2. L[u] \in Seq(Entries) /\ M[u] \in Seq(Entries)
        BY <1>1, <1>4, <4>1
      <4>3. Len(L[u]) <= Len(M[u]) /\ \A j \in 1..Len(L[u]) : L[u][j] = M[u][j]
        BY <1>8, <4>1 DEF Grown
      <4>. QED  BY <4>2, <4>3 DEF u
    <3>. QED  BY <3>1, <3>2
  <2>2. CASE x \notin pending[p]
    <3>1. PICK d \in Nat : /\ r.log[Len(r.log)] = Entry(t, d)
                           /\ x = [index |-> Len(r.log), data |-> d, term |-> t]
      BY <2>2 DEF Extends, t
    <3>2. x.index = Len(r.log) /\ x.data = d /\ x.term = t
      BY <3>1
    <3>3. Len(r.log) \in 1..Len(r.log)
      BY <1>2 DEF Extends
    <3>. QED  BY <1>2, <1>4, <3>1, <3>2, <3>3
  <2>. QED  BY <2>1, <2>2
<1>15. LogInv(M, F)'
  BY <1>4, <1>9, <1>10, <1>12, <1>13, <1>14 DEF LogInv
<1>. QED  BY <1>15

LEMMA LogInit == Init => \E L, E : LogInv(L, E)
<1>. SUFFICES ASSUME Init PROVE \E L, E : LogInv(L, E)
  OBVIOUS
<1>. DEFINE first == NewNode.log
            L == [t \in Nat |-> IF t = 0 THEN first ELSE <<>>]
            E == [t \in Nat |-> Nobody]
<1>1. /\ first \in Seq(Entries) /\ Len(first) = 1 /\ first[1].term = 0
      /\ NewNode.state = "Follower"
  BY DEF NewNode, Entry, Entries, NoOp
<1>2. \A n \in Voters : node[n] = NewNode
  BY DEF Init
<1>. HIDE DEF first
<1>3. L \in [Nat -> Seq(Entries)] /\ E \in [Nat -> Ids]
  BY <1>1 DEF Ids
<1>4. L[0] = first /\ \A t \in Nat : t # 0 => L[t] = <<>>
  OBVIOUS
<1>. HIDE DEF L, E
<1>5. Covered(L, first)
  <2>. SUFFICES ASSUME NEW i \in 1..Len(first)
                PROVE  /\ i <= Len(L[first[i].term])
                       /\ \A j \in 1..i : first[j] = L[first[i].term][j]
    BY DEF Covered
  <2>1. i = 1
    BY <1>1
  <2>2. L[first[i].term] = first
    BY <1>1, <1>4, <2>1
  <2>. QED  BY <1>1, <2>1, <2>2
<1>6. Covered(L, <<>>)
  BY DEF Covered
<1>7. ElectedLogs(L, E)
  BY <1>4 DEF ElectedLogs
<1>8. LeaderLogs(L, E)
  BY <1>1, <1>2 DEF LeaderLogs
<1>9. LogsCovered(L)
  BY <1>2, <1>4, <1>5, <1>6 DEF LogsCovered, first
<1>10. SentLogs(L, E) /\ PendingLogs(L)
  BY DEF Init, SentLogs, PendingLogs
<1>11. LogInv(L, E)
  BY <1>3, <1>7, <1>8, <1>9, <1>10 DEF LogInv
<1>. QED  BY <1>11

LEMMA LogNext ==
    ASSUME TypeInv, restarts \in Nat, restarts' = 0, VoteInv, [Next]_vars,
           \E L, E : LogInv(L, E)
    PROVE  (\E L, E : LogInv(L, E))'
<1>1. PICK L, E : LogInv(L, E)
  OBVIOUS
<1>2. TypeInv' /\ VoteInv' /\ restarts' = restarts
  BY TypeNext, VoteNext, RestartsCount
<1>3. CASE UNCHANGED vars
  <2>1. LogInv(L, E)'
    <3>1. UNCHANGED <<node, msgs, pending>>
      BY <1>3 DEF vars
    <3>2. ElectedLogs(L, E)'
      <4>1. \A n, t : Elected(n, t) => Elected(n, t)'
        BY <3>1 DEF Elected
      <4>. QED  BY <1>1, <4>1 DEF LogInv, ElectedLogs
    <3>3. (LeaderLogs(L, E) /\ LogsCovered(L))'
      BY <1>1, <3>1 DEF LogInv, LeaderLogs, LogsCovered
    <3>4. (SentLogs(L, E) /\ PendingLogs(L))'
      BY <1>1, <3>1 DEF LogInv, SentLogs, PendingLogs
    <3>. QED  BY <1>1, <3>2, <3>3, <3>4 DEF LogInv
  <2>. QED  BY <2>1
<1>4. CASE Next
  <2>1. PICK n, r, out :
          /\ n \in Voters
          /\ node' = [node EXCEPT ![n] = r] /\ msgs' = msgs \cup out
          /\ NodeOK(r) /\ SentBy(n, r, out)
          /\ Keeps(n, r) \/ Extends(n, r)
    BY <1>2, <1>4, LogStepNext DEF LogStep
  <2>2. CASE Keeps(n, r)
    <3>1. LogInv(L, E)'
      BY <1>1, <1>2, <2>1, <2>2, LogInvKept
    <3>. QED  BY <3>1
  <2>3. CASE Extends(n, r)
    <3>1. \E M, F : LogInv(M, F)'
      BY <1>1, <1>2, <2>1, <2>3, LogInvExtended
    <3>. QED  BY <3>1
  <2>. QED  BY <2>1, <2>2, <2>3
<1>. QED  BY <1>3, <1>4

\* Two logs with an entry of the same term at an index both agree with the log
\* of that term up to it.
LEMMA LogInvMatches ==
    ASSUME TypeInv, NEW L, NEW E, LogInv(L, E), NEW n \in Voters, NEW p \in Voters,
           NEW i \in 1..Min({Len(node[n].log), Len(node[p].log)}),
           node[n].log[i].term = node[p].log[i].term
    PROVE  SubSeq(node[n].log, 1, i) = SubSeq(node[p].log, 1, i)
<1>. DEFINE a == node[n].log
            b == node[p].log
            c == L[a[i].term]
<1>1. a \in Seq(Entries) /\ b \in Seq(Entries) /\ Covered(L, a) /\ Covered(L, b)
  BY DEF TypeInv, NodeOK, NodeType, LogInv, LogsCovered
<1>. HIDE DEF a, b
<1>2. Len(a) \in Nat /\ Len(b) \in Nat
  BY <1>1
<1>3. i \in 1..Len(a) /\ i \in 1..Len(b)
  <2>1. i \in 1..Min({Len(a), Len(b)})
    BY DEF a, b
  <2>. QED  BY <1>2, <2>1, MinOfTwo
<1>4. \A j \in 1..i : a[j] = c[j]
  BY <1>1, <1>3 DEF Covered
<1>5. \A j \in 1..i : b[j] = c[j]
  <2>1. L[b[i].term] = c
    BY DEF a, b
  <2>. QED  BY <1>1, <1>3, <2>1 DEF Covered
<1>6. SubSeq(a, 1, i) = SubSeq(b, 1, i)
  BY <1>1, <1>3, <1>4, <1>5
<1>. QED  BY <1>6 DEF a, b

-----------------------------------------------------------------------------
(* Theorems                                                                *)

ClientTyped == DOMAIN applied = Voters /\ DOMAIN answered = Voters

ClusterInv ==
    /\ restarts \in Nat /\ TypeInv /\ ClientTyped
    /\ restarts = 0 => VoteInv /\ \E L, E : LogInv(L, E)

LEMMA ClusterInit == Init => ClusterInv
BY TypeInit, VoteInit, LogInit DEF Init, ClusterInv, ClientTyped

LEMMA ClientNext == ClientTyped /\ [Next]_vars => ClientTyped'
<1>1. ASSUME ClientTyped, NEW n \in Voters, NEW s, NEW w, HandleReady(n, s, w)
      PROVE  ClientTyped'
  BY <1>1 DEF HandleReady, ClientTyped
<1>2. ASSUME ClientTyped, NEW n \in Voters, Heartbeat(n) \/ Propose(n) PROVE ClientTyped'
  BY <1>1, <1>2 DEF Heartbeat, Propose
<1>3. ASSUME ClientTyped, UNCHANGED <<applied, answered>> PROVE ClientTyped'
  BY <1>3 DEF ClientTyped
<1>. QED  BY <1>2, <1>3 DEF vars, Next, ElectionTimeout, CheckQuorum, Restart, RequestVote,
             OnHeartbeat, OnAppendEntries, OnAppendResponse, OnRequestVote, OnVoteResponse, client

LEMMA ClusterNext == ClusterInv /\ [Next]_vars => ClusterInv'
<1>. SUFFICES ASSUME ClusterInv, [Next]_vars PROVE ClusterInv'
  OBVIOUS
<1>1. restarts' \in Nat /\ (restarts' = 0 => restarts = 0) /\ TypeInv'
  BY RestartsCount, TypeNext DEF ClusterInv
<1>2. ASSUME restarts' = 0 PROVE (VoteInv /\ \E L, E : LogInv(L, E))'
  <2>1. restarts = 0 /\ VoteInv /\ \E L, E : LogInv(L, E)
    BY <1>1, <1>2 DEF ClusterInv
  <2>2. VoteInv'
    BY <1>2, <2>1, VoteNext
  <2>3. (\E L, E : LogInv(L, E))'
    BY <1>2, <2>1, LogNext DEF ClusterInv
  <2>. QED  BY <2>2, <2>3
<1>. QED  BY <1>1, <1>2, ClientNext DEF ClusterInv

\* Nodes and messages keep their types, a leader's next_index never falls below
\* one, and as long as no node restarted two logs agree up to every entry they
\* share the term of (node.rs:387-470, 863-908).
THEOREM SharedEntriesAgree == Spec => []LogsAgree
<1>1. ClusterInv => LogsAgree
  <2>. SUFFICES ASSUME ClusterInv PROVE LogsAgree
    OBVIOUS
  <2>1. TypeOK
    BY DEF ClusterInv, TypeInv, TypeOK, NodeOK, MessageOK
  <2>2. LogMatching
    BY LogInvMatches DEF ClusterInv, LogMatching
  <2>. QED  BY <2>1, <2>2 DEF LogsAgree
<1>. QED  BY <1>1, ClusterInit, ClusterNext, PTL DEF Spec

\* A node that leads before and after a step only adds to its log, as long as
\* no node restarted (node.rs:387-470, 734-748).
THEOREM LeadersOnlyAppend == Spec => LeaderAppendOnly
<1>. DEFINE Grows ==
        restarts = 0 =>
            \A n \in Voters : Leads(n, node[n].term) /\ Leads(n, node[n].term)' =>
                IsPrefix(node[n].log, node'[n].log)
<1>0. \A n \in Voters : ClusterInv => node[n].log \in Seq(Entries)
  BY DEF ClusterInv, TypeInv, NodeOK, NodeType
<1>1. \A a, b \in Seq(Entries) :
         (Len(a) <= Len(b) /\ \A i \in 1..Len(a) : b[i] = a[i]) => IsPrefix(a, b)
  <2>. SUFFICES ASSUME NEW a \in Seq(Entries), NEW b \in Seq(Entries),
                       Len(a) <= Len(b), \A i \in 1..Len(a) : b[i] = a[i]
                PROVE  IsPrefix(a, b)
    OBVIOUS
  <2>1. SubSeq(a, 1, Len(a)) = SubSeq(b, 1, Len(a))
    OBVIOUS
  <2>. QED  BY <2>1 DEF IsPrefix
<1>2. ASSUME ClusterInv, [Next]_vars, restarts = 0, NEW n \in Voters,
             node[n].state = "Leader", node'[n].state = "Leader"
      PROVE  IsPrefix(node[n].log, node'[n].log)
  <2>1. node[n].log \in Seq(Entries) /\ Len(node[n].log) \in Nat
    BY <1>0, <1>2
  <2>2. CASE node'[n].log = node[n].log
    BY <1>1, <2>1, <2>2
  <2>3. CASE UNCHANGED vars
    BY <2>2, <2>3 DEF vars
  <2>4. CASE Next /\ restarts' = restarts
    <3>1. PICK k, r, out :
            /\ k \in Voters
            /\ node' = [node EXCEPT ![k] = r]
            /\ Keeps(k, r) \/ Extends(k, r)
      BY <1>2, <2>4, LogStepNext DEF LogStep, ClusterInv
    <3>2. node'[n] = IF n = k THEN r ELSE node[n]
      BY <1>2, <3>1 DEF ClusterInv, TypeInv
    <3>3. CASE n # k
      BY <2>2, <3>2, <3>3
    <3>4. CASE n = k /\ Keeps(k, r)
      <4>1. PICK L, E : LogInv(L, E)
        BY <1>2 DEF ClusterInv
      <4>2. node'[n].log = node[n].log
        BY <1>2, <3>2, <3>4, <4>1, LeaderKeepsLog
      <4>. QED  BY <2>2, <4>2
    <3>5. CASE n = k /\ Extends(k, r)
      <4>1. /\ r.log \in Seq(Entries) /\ Len(r.log) = Len(node[n].log) + 1
            /\ \A i \in 1..Len(node[n].log) : r.log[i] = node[n].log[i]
        BY <3>5 DEF Extends
      <4>2. Len(node[n].log) <= Len(r.log)
        BY <2>1, <4>1
      <4>3. IsPrefix(node[n].log, r.log)
        BY <1>1, <2>1, <4>1, <4>2
      <4>. QED  BY <3>2, <3>5, <4>3
    <3>. QED  BY <3>1, <3>3, <3>4, <3>5
  <2>5. ASSUME NEW k \in Voters, Restart(k) PROVE IsPrefix(node[n].log, node'[n].log)
    <3>1. node'[n] = IF n = k THEN NewNode ELSE node[n]
      BY <1>2, <2>5 DEF Restart, ClusterInv, TypeInv
    <3>2. NewNode.state = "Follower"
      BY DEF NewNode
    <3>. QED  BY <1>2, <2>2, <3>1, <3>2
  <2>6. Next => restarts' = restarts \/ \E k \in Voters : Restart(k)
    BY NextRestarts
  <2>. QED  BY <1>2, <2>3, <2>4, <2>5, <2>6
<1>3. ClusterInv /\ [Next]_vars => Grows
  BY <1>2 DEF Leads
<1>. QED  BY <1>3, ClusterInit, ClusterNext, PTL DEF Spec, LeaderAppendOnly

\* A client that is told of success by a leader still in the term of its
\* proposal finds its entry applied at the index it was given, as long as no
\* node restarted (runtime.rs:126-160, 229-284).
THEOREM AnswersApplied == Spec => AnsweredApplied
<1>. DEFINE Honest ==
        restarts = 0 =>
            \A n \in Voters : \A p \in answered'[n] \ answered[n] :
                p.term = node[n].term =>
                    [index |-> p.index, entry |-> Entry(p.term, p.data)] \in applied'[n]
<1>1. ASSUME ClusterInv, restarts = 0, NEW n \in Voters, NEW s, NEW w, HandleReady(n, s, w),
             \A x \in w : x.term = node[n].term => s.log[x.index] = Entry(x.term, x.data)
      PROVE  Honest
  <2>. SUFFICES ASSUME NEW k \in Voters, NEW p \in answered'[k] \ answered[k],
                       p.term = node[k].term
                PROVE  [index |-> p.index, entry |-> Entry(p.term, p.data)] \in applied'[k]
    BY <1>1
  <2>. DEFINE indexes == (s.last_applied + 1)..(s.last_applied + Len(committed_entries(s)))
  <2>1. /\ answered' = [answered EXCEPT ![n] = @ \cup {x \in w : x.index \in indexes}]
        /\ applied' = [applied EXCEPT ![n] =
                         @ \cup {[index |-> i, entry |-> s.log[i]] : i \in indexes}]
    BY <1>1 DEF HandleReady
  <2>. HIDE DEF indexes
  <2>2. k = n /\ p \in w /\ p.index \in indexes
    BY <1>1, <2>1 DEF ClusterInv, ClientTyped
  <2>3. [index |-> p.index, entry |-> s.log[p.index]] \in applied'[k]
    BY <1>1, <2>1, <2>2 DEF ClusterInv, ClientTyped
  <2>. QED  BY <1>1, <2>2, <2>3
<1>2. ASSUME ClusterInv, restarts = 0, NEW n \in Voters, node[n].state = "Leader",
             NEW x \in pending[n], x.term = node[n].term
      PROVE  x.index \in 1..Len(node[n].log) /\ node[n].log[x.index] = Entry(x.term, x.data)
  <2>1. PICK L, E : LogInv(L, E)
    BY <1>2 DEF ClusterInv
  <2>2. node[n].log = L[node[n].term]
    BY <1>2, <2>1 DEF LogInv, LeaderLogs
  <2>3. x.index \in 1..Len(L[x.term]) /\ L[x.term][x.index] = Entry(x.term, x.data)
    BY <1>2, <2>1 DEF LogInv, PendingLogs
  <2>. QED  BY <1>2, <2>2, <2>3
<1>3. ASSUME ClusterInv, restarts = 0, NEW n \in Voters, Heartbeat(n) PROVE Honest
  <2>1. node[n].state = "Leader" /\ HandleReady(n, node[n], pending[n])
    BY <1>3 DEF Heartbeat
  <2>. QED  BY <1>1, <1>2, <1>3, <2>1
<1>4. ASSUME ClusterInv, restarts = 0, NEW n \in Voters, Propose(n) PROVE Honest
  <2>. DEFINE d == proposals'
              s == propose(node[n], d)
  <2>1. /\ node[n].state = "Leader" /\ HandleReady(n, s, pending[n] \cup {Proposal(s, d)})
        /\ d \in Nat /\ NodeOK(node[n]) /\ node[n].log \in Seq(Entries) /\ node[n].term \in Nat
    <3>1. /\ node[n].state = "Leader" /\ d = proposals + 1
          /\ HandleReady(n, s, pending[n] \cup {Proposal(s, d)})
      BY <1>4 DEF Propose
    <3>2. NodeOK(node[n]) /\ proposals \in Nat
      BY <1>4 DEF ClusterInv, TypeInv
    <3>3. node[n].log \in Seq(Entries) /\ node[n].term \in Nat
      BY <3>2 DEF NodeOK, NodeType
    <3>. HIDE DEF s, d
    <3>. QED  BY <3>1, <3>2, <3>3
  <2>. HIDE DEF d
  <2>2. s.log = Append(node[n].log, Entry(node[n].term, d)) /\ s.term = node[n].term
    BY <2>1, ProposeType, ProposeFacts DEF propose, NodeOK, NodeType
  <2>. HIDE DEF s
  <2>3. /\ \A i \in 1..Len(node[n].log) : s.log[i] = node[n].log[i]
        /\ s.log[Len(s.log)] = Entry(node[n].term, d)
    <3>. DEFINE e == Entry(node[n].term, d)
    <3>1. e \in Entries
      BY <2>1 DEF Entry, Entries
    <3>2. s.log = Append(node[n].log, e)
      BY <2>2
    <3>. HIDE DEF e
    <3>3. /\ \A i \in 1..Len(node[n].log) : s.log[i] = node[n].log[i]
          /\ s.log[Len(s.log)] = e
      BY <2>1, <3>1, <3>2
    <3>. QED  BY <3>3 DEF e
  <2>4. ASSUME NEW x \in pending[n] \cup {Proposal(s, d)}, x.term = node[n].term
        PROVE  s.log[x.index] = Entry(x.term, x.data)
    <3>1. CASE x \in pending[n]
      BY <1>2, <1>4, <2>1, <2>3, <2>4, <3>1
    <3>2. CASE x = Proposal(s, d)
      BY <2>2, <2>3, <3>2 DEF Proposal, last_index
    <3>. QED  BY <2>4, <3>1, <3>2
  <2>. QED  BY <1>1, <1>4, <2>1, <2>4
<1>5. ASSUME UNCHANGED answered PROVE Honest
  BY <1>5
<1>6. ASSUME ClusterInv, [Next]_vars, restarts = 0 PROVE Honest
  <2>. HIDE DEF Honest
  <2>. QED  BY <1>3, <1>4, <1>5, <1>6
            DEF vars, Next, ElectionTimeout, CheckQuorum, Restart, RequestVote, OnHeartbeat,
                OnAppendEntries, OnAppendResponse, OnRequestVote, OnVoteResponse, client
<1>7. ClusterInv /\ [Next]_vars => Honest
  BY <1>6
<1>. QED  BY <1>7, ClusterInit, ClusterNext, PTL DEF Spec, AnsweredApplied

-----------------------------------------------------------------------------
(* What leaders commit                                                     *)

\* r leads with the progress that s had, or with none.
MatchKept(s, r) ==
    r.state = "Leader" =>
        \/ s.state = "Leader" /\ r.term = s.term /\ r.match_index = s.match_index
        \/ r.match_index = NoProgress

LEMMA NodeShape ==
    ASSUME NEW s, NodeOK(s) PROVE Shaped(s) /\ s.match_index \in [Voters -> Nat]
BY DEF NodeOK, NodeType, Shaped, Fields

\* No handler but that of an acceptance raises match_index.
LEMMA TickMatch ==
    ASSUME NEW s, NodeOK(s), NEW me
    PROVE  /\ handle_election_timeout(s, me).state # "Leader"
           /\ MatchKept(s, check_quorum(s)) /\ MatchKept(s, ready(s, me).node)
<1>0. Shaped(s) /\ s.term \in Nat
  BY DEF NodeOK, NodeType, Shaped, Fields
<1>1. handle_election_timeout(s, me).state # "Leader"
  BY <1>0, TimeoutFacts
<1>. DEFINE q == become_follower(s, s.term, Nobody)
<1>2. Shaped(q) /\ q.state = "Follower"
  BY <1>0, FollowerFacts DEF Follows
<1>. HIDE DEF q
<1>3. \A x : MatchKept(s, [s EXCEPT !.quorum_recently_active = x])
  BY <1>0 DEF MatchKept, Shaped, Fields
<1>4. \A x : [q EXCEPT !.quorum_recently_active = x].state = "Follower"
  BY <1>2 DEF Shaped, Fields
<1>5. \E x : check_quorum(s) \in {[s EXCEPT !.quorum_recently_active = x],
                                 [q EXCEPT !.quorum_recently_active = x]}
  BY DEF check_quorum, q
<1>6. MatchKept(s, check_quorum(s))
  BY <1>3, <1>4, <1>5 DEF MatchKept
<1>7. \A x : MatchKept(s, [s EXCEPT !.last_applied = x])
  BY <1>0 DEF MatchKept, Shaped, Fields
<1>8. \E x : ready(s, me).node = [s EXCEPT !.last_applied = x]
  BY DEF ready, Result
<1>. QED  BY <1>1, <1>6, <1>7, <1>8

LEMMA MessageMatch ==
    ASSUME NEW s, NodeOK(s), NEW m, MessageOK(m)
    PROVE  /\ MatchKept(s, handle_heartbeat(s, m).node)
           /\ MatchKept(s, handle_append_entries(s, m).node)
           /\ MatchKept(s, handle_request_vote(s, m).node)
           /\ MatchKept(s, handle_vote_response(s, m).node)
<1>0. Shaped(s) /\ s.term \in Nat
  BY DEF NodeOK, NodeType, Shaped, Fields
<1>00. MatchKept(s, s) /\ \A u, out : Result(u, out).node = u
  BY DEF MatchKept, Result
<1>1. MatchKept(s, handle_heartbeat(s, m).node)
  <2>1. \A x, y : MatchKept(s, [s EXCEPT !.leader_id = x, !.commit_index = y])
    BY <1>0 DEF MatchKept, Shaped, Fields
  <2>2. PICK x, y, out : handle_heartbeat(s, m) \in
           {Result(s, out), Result([s EXCEPT !.leader_id = x, !.commit_index = y], out)}
    BY Zenon DEF handle_heartbeat
  <2>. DEFINE u == [s EXCEPT !.leader_id = x, !.commit_index = y]
  <2>3. MatchKept(s, u) /\ handle_heartbeat(s, m) \in {Result(s, out), Result(u, out)}
    BY <2>1, <2>2
  <2>. HIDE DEF u
  <2>. QED  BY <1>00, <2>3
<1>2. MatchKept(s, handle_append_entries(s, m).node)
  <2>1. \A x : MatchKept(s, [s EXCEPT !.leader_id = x])
    BY <1>0 DEF MatchKept, Shaped, Fields
  <2>2. \A x, y, z : MatchKept(s, [s EXCEPT !.leader_id = x, !.log = y, !.commit_index = z])
    BY <1>0 DEF MatchKept, Shaped, Fields
  <2>3. PICK x, y, z, out : handle_append_entries(s, m) \in
           {Result(s, out), Result([s EXCEPT !.leader_id = x], out),
            Result([s EXCEPT !.leader_id = x, !.log = y, !.commit_index = z], out)}
    BY Zenon DEF handle_append_entries
  <2>. DEFINE u == [s EXCEPT !.leader_id = x]
              v == [s EXCEPT !.leader_id = x, !.log = y, !.commit_index = z]
  <2>4. /\ MatchKept(s, u) /\ MatchKept(s, v)
        /\ handle_append_entries(s, m) \in {Result(s, out), Result(u, out), Result(v, out)}
    BY <2>1, <2>2, <2>3
  <2>. HIDE DEF u, v
  <2>. QED  BY <1>00, <2>4
<1>3. MatchKept(s, handle_request_vote(s, m).node)
  <2>1. \A x : MatchKept(s, [s EXCEPT !.voted_for = x])
    BY <1>0 DEF MatchKept, Shaped, Fields
  <2>2. PICK x, out : handle_request_vote(s, m) \in
           {Result(s, out), Result([s EXCEPT !.voted_for = x], out)}
    BY Zenon DEF handle_request_vote
  <2>. DEFINE u == [s EXCEPT !.voted_for = x]
  <2>3. MatchKept(s, u) /\ handle_request_vote(s, m) \in {Result(s, out), Result(u, out)}
    BY <2>1, <2>2
  <2>. HIDE DEF u
  <2>. QED  BY <1>00, <2>3
<1>4. MatchKept(s, handle_vote_response(s, m).node)
  <2>. DEFINE c == Counted(s, m)
              leader == become_leader(c, m.to)
              lost == become_follower(c, c.term, Nobody)
  <2>1. Shaped(c) /\ MatchKept(s, c)
    BY <1>0 DEF Counted, MatchKept, Shaped, Fields
  <2>2. \E out : handle_vote_response(s, m) \in
           {Result(s, out), Result(leader, out), Result(lost, out), Result(c, out)}
    BY Zenon DEF handle_vote_response
  <2>. HIDE DEF c
  <2>3. leader.match_index = NoProgress
    BY <2>1 DEF become_leader, Shaped, Fields
  <2>4. lost.state = "Follower"
    BY <2>1, FollowerFacts DEF Follows
  <2>. HIDE DEF leader, lost
  <2>5. MatchKept(s, leader) /\ MatchKept(s, lost)
    BY <2>3, <2>4 DEF MatchKept
  <2>. QED  BY <1>00, <2>1, <2>2, <2>5
<1>. QED  BY <1>1, <1>2, <1>3, <1>4

\* Voter p told the leader of term t that its log reaches index i.
Told(sent, p, t, i) ==
    \E m \in sent : /\ m.type = "AppendResponse" /\ ~m.reject /\ m.from = p
                    /\ m.term = t /\ m.index >= i

\* What a leader knows of a follower's log, the follower told it in this term.
ProgressTold ==
    \A n, p \in Voters :
        node[n].state = "Leader" /\ node[n].match_index[p] > 0 =>
            Told(msgs, p, node[n].term, node[n].match_index[p])

CommitInv == restarts \in Nat /\ TypeInv /\ ProgressTold /\ CommittedAcknowledged

LEMMA ProgressKept ==
    ASSUME TypeInv, ProgressTold, NEW n \in Voters, NEW r, node' = [node EXCEPT ![n] = r],
           msgs \subseteq msgs', MatchKept(node[n], r)
    PROVE  ProgressTold'
<1>1. \A p \in Voters : node'[p] = IF p = n THEN r ELSE node[p]
  BY DEF TypeInv
<1>2. \A p, t, i : Told(msgs, p, t, i) => Told(msgs', p, t, i)
  BY DEF Told
<1>3. \A p \in Voters : NoProgress[p] = 0
  BY DEF NoProgress
<1>4. ASSUME NEW k \in Voters, NEW p \in Voters, node'[k].state = "Leader",
             node'[k].match_index[p] > 0
      PROVE  Told(msgs', p, node'[k].term, node'[k].match_index[p])
  <2>1. CASE k = n
    <3>1. r.match_index # NoProgress
      BY <1>1, <1>3, <1>4, <2>1
    <3>2. node[n].state = "Leader" /\ r.term = node[n].term /\ r.match_index = node[n].match_index
      BY <1>1, <1>4, <2>1, <3>1 DEF MatchKept
    <3>. QED  BY <1>1, <1>2, <1>4, <2>1, <3>2 DEF ProgressTold
  <2>2. CASE k # n
    BY <1>1, <1>2, <1>4, <2>2 DEF ProgressTold
  <2>. QED  BY <2>1, <2>2
<1>. QED  BY <1>4 DEF ProgressTold

\* A voter that acknowledged an entry has done so ever after.
LEMMA AcknowledgedGrows ==
    ASSUME msgs \subseteq msgs', NEW c, is_quorum(Cardinality(Voters), Cardinality(Acknowledged(c)) + 1)
    PROVE  is_quorum(Cardinality(Voters), Cardinality(Acknowledged(c)') + 1)
<1>. DEFINE A == Acknowledged(c)
            B == Acknowledged(c)'
<1>1. A \subseteq B /\ B \subseteq Voters
  BY DEF Acknowledged
<1>2. is_quorum(Cardinality(Voters), Cardinality(A) + 1)
  OBVIOUS
<1>. HIDE DEF A, B
<1>3. IsFiniteSet(Voters) /\ IsFiniteSet(B) /\ IsFiniteSet(A) /\ Cardinality(A) <= Cardinality(B)
  BY <1>1, NodeAssumption, FS_Subset
<1>4. Cardinality(A) \in Nat /\ Cardinality(B) \in Nat /\ Cardinality(Voters) \in Nat
  BY <1>3, FS_CardinalityType
<1>5. is_quorum(Cardinality(Voters), Cardinality(B) + 1)
  BY <1>2, <1>3, <1>4 DEF is_quorum
<1>. QED  BY <1>5 DEF B

LEMMA CommittedKept ==
    ASSUME CommittedAcknowledged, committed' = committed, msgs \subseteq msgs'
    PROVE  CommittedAcknowledged'
BY AcknowledgedGrows DEF CommittedAcknowledged

\* A leader commits what enough voters told it, itself included.
LEMMA CommitStep ==
    ASSUME TypeInv, ProgressTold, CommittedAcknowledged, NEW m \in msgs, OnAppendResponse(m)
    PROVE  ProgressTold' /\ CommittedAcknowledged'
<1>. DEFINE n == m.to
            old == node[n]
            s == Observe(old, m)
            r == handle_append_response(s, m).node
            new == {[index |-> i, entry |-> old.log[i], term |-> old.term] :
                       i \in (old.commit_index + 1)..r.commit_index}
<1>1. /\ n \in Voters /\ MessageOK(m) /\ NodeOK(s) /\ Shaped(s)
      /\ s = old \/ (s.term > old.term /\ s.state = "Follower")
  BY ObservedFacts
<1>2. /\ NodeOK(r) /\ r.log = s.log
      /\ \/ r.match_index = s.match_index
         \/ /\ s.state = "Leader" /\ m.term = s.term /\ ~m.reject
            /\ r.match_index = [s.match_index EXCEPT ![m.from] = m.index]
      /\ \/ r.commit_index = s.commit_index
         \/ /\ s.state = "Leader" /\ m.term = s.term
            /\ r.commit_index \in 1..Len(s.log) /\ s.log[r.commit_index].term = s.term
            /\ Cardinality({p \in Voters : Reached(r, n)[p] >= r.commit_index}) >= quorum_size
  BY <1>1, AppendResponseType, Zenon
<1>3. SameVote(s, r)
  BY <1>1, AppendResponseFacts
<1>4. s.commit_index = old.commit_index
  <2>1. Shaped(old)
    BY <1>1 DEF TypeInv, NodeOK, NodeType, Shaped, Fields
  <2>2. \A t, l : become_follower(old, t, l).commit_index = old.commit_index
    <3>1. \A t : Shaped(reset(old, t)) /\ reset(old, t).commit_index = old.commit_index
      BY <2>1 DEF reset, Shaped, Fields
    <3>. HIDE DEF reset, old
    <3>. QED  BY <3>1 DEF become_follower, Shaped, Fields
  <2>. QED  BY <2>2 DEF Observe
<1>5. /\ node' = [node EXCEPT ![n] = r] /\ msgs \subseteq msgs'
      /\ committed' = committed \cup new
  BY DEF OnAppendResponse, Deliver, Send
<1>6. /\ old.commit_index \in Nat /\ old.match_index \in [Voters -> Nat] /\ r.commit_index \in Nat
      /\ r.match_index \in [Voters -> Nat] /\ m.index \in Nat /\ m.from \in Voters
  BY <1>1, <1>2 DEF TypeInv, NodeOK, NodeType, MessageOK, MessageType
<1>. HIDE DEF r, s
<1>7. ProgressTold'
  <2>1. CASE r.match_index = s.match_index
    <3>1. MatchKept(node[n], r)
      BY <1>1, <1>3, <2>1 DEF MatchKept, SameVote
    <3>. QED  BY <1>1, <1>5, <3>1, ProgressKept
  <2>2. CASE /\ s.state = "Leader" /\ m.term = s.term /\ ~m.reject
             /\ r.match_index = [s.match_index EXCEPT ![m.from] = m.index]
    <3>1. s = old /\ r.term = old.term /\ m.term = old.term
      BY <1>1, <1>3, <2>2 DEF SameVote
    <3>2. \A p \in Voters : r.match_index[p] = IF p = m.from THEN m.index ELSE old.match_index[p]
      BY <1>6, <2>2, <3>1
    <3>3. \A p, t, i : Told(msgs, p, t, i) => Told(msgs', p, t, i)
      BY <1>5 DEF Told
    <3>4. m.type = "AppendResponse"
      BY DEF OnAppendResponse
    <3>5. Told(msgs', m.from, old.term, m.index)
      BY <1>5, <1>6, <2>2, <3>1, <3>4 DEF Told
    <3>6. \A k \in Voters : node'[k] = IF k = n THEN r ELSE node[k]
      BY <1>5 DEF TypeInv
    <3>7. ASSUME NEW k \in Voters, NEW p \in Voters, node'[k].state = "Leader",
                 node'[k].match_index[p] > 0
          PROVE  Told(msgs', p, node'[k].term, node'[k].match_index[p])
      <4>1. CASE k # n
        BY <3>3, <3>6, <3>7, <4>1 DEF ProgressTold
      <4>2. CASE k = n /\ p = m.from
        BY <3>1, <3>2, <3>5, <3>6, <4>2
      <4>3. CASE k = n /\ p # m.from
        <5>1. r.match_index[p] = old.match_index[p] /\ old.match_index[p] > 0
              /\ old.state = "Leader"
          BY <1>3, <2>2, <3>1, <3>2, <3>6, <3>7, <4>3
        <5>2. Told(msgs, p, old.term, old.match_index[p])
          BY <1>1, <5>1 DEF ProgressTold
        <5>. QED  BY <3>1, <3>3, <3>6, <4>3, <5>1, <5>2
      <4>. QED  BY <4>1, <4>2, <4>3
    <3>. QED  BY <3>7 DEF ProgressTold
  <2>. QED  BY <1>2, <2>1, <2>2
<1>8. CommittedAcknowledged'
  <2>1. CASE r.commit_index = s.commit_index
    <3>1. new = {}
      BY <1>4, <1>6, <2>1
    <3>. QED  BY <1>5, <3>1, CommittedKept
  <2>2. CASE /\ s.state = "Leader" /\ m.term = s.term
             /\ r.commit_index \in 1..Len(s.log) /\ s.log[r.commit_index].term = s.term
             /\ Cardinality({p \in Voters : Reached(r, n)[p] >= r.commit_index}) >= quorum_size
    <3>. DEFINE q == r.commit_index
                S == {p \in Voters : Reached(r, n)[p] >= q}
    <3>1. s = old /\ r.term = old.term /\ r.state = "Leader"
      BY <1>1, <1>3, <2>2 DEF SameVote
    <3>2. \A p \in Voters : p # n => Reached(r, n)[p] = r.match_index[p]
      BY <1>1, <1>6 DEF Reached
    <3>3. node'[n] = r
      BY <1>1, <1>5 DEF TypeInv
    <3>4. \A p \in S \ {n} : Told(msgs', p, old.term, q)
      <4>. SUFFICES ASSUME NEW p \in Voters, p # n, Reached(r, n)[p] >= q
                    PROVE  Told(msgs', p, old.term, q)
        OBVIOUS
      <4>1. r.match_index[p] >= q /\ r.match_index[p] > 0 /\ r.match_index[p] \in Nat
        BY <1>6, <2>2, <3>2
      <4>2. Told(msgs', p, old.term, r.match_index[p])
        BY <1>1, <1>7, <3>1, <3>3, <4>1 DEF ProgressTold
      <4>3. PICK o \in msgs' : /\ o.type = "AppendResponse" /\ ~o.reject /\ o.from = p
                               /\ o.term = old.term /\ o.index >= r.match_index[p]
        BY <4>2 DEF Told
      <4>4. o.index \in Nat
        <5>1. msgs' = msgs
          BY <1>1, AppendResponseFacts DEF OnAppendResponse, Deliver, Send, s
        <5>. QED  BY <4>3, <5>1 DEF TypeInv, MessageOK, MessageType
      <4>5. o.index >= q
        BY <1>6, <4>1, <4>3, <4>4
      <4>. QED  BY <4>3, <4>5 DEF Told
    <3>5. ASSUME NEW c \in new
          PROVE  /\ is_quorum(Cardinality(Voters), Cardinality(Acknowledged(c)') + 1)
                 /\ \E d \in committed' : d.term = c.term /\ d.entry.term = c.term /\ d.index >= c.index
      <4>1. PICK i \in (old.commit_index + 1)..q :
               c = [index |-> i, entry |-> old.log[i], term |-> old.term]
        BY <3>5
      <4>2. c.index = i /\ c.term = old.term /\ i \in Nat /\ i <= q /\ q \in (old.commit_index + 1)..q
        BY <1>6, <4>1
      <4>. DEFINE A == Acknowledged(c)'
      <4>3. S \ {n} \subseteq A /\ A \subseteq Voters
        <5>. SUFFICES ASSUME NEW p \in S \ {n} PROVE p \in A
          BY DEF Acknowledged
        <5>1. PICK o \in msgs' : /\ o.type = "AppendResponse" /\ ~o.reject /\ o.from = p
                                 /\ o.term = old.term /\ o.index >= q
          BY <3>4 DEF Told
        <5>2. o.index \in Nat
          <6>1. msgs' = msgs
            BY <1>1, AppendResponseFacts DEF OnAppendResponse, Deliver, Send, s
          <6>. QED  BY <5>1, <6>1 DEF TypeInv, MessageOK, MessageType
        <5>3. o.index >= c.index
          BY <1>6, <4>2, <5>1, <5>2
        <5>. QED  BY <4>2, <5>1, <5>3 DEF Acknowledged
      <4>4. is_quorum(Cardinality(Voters), Cardinality(A) + 1)
        <5>. HIDE DEF A, S
        <5>1. IsFiniteSet(Voters) /\ IsFiniteSet(A) /\ IsFiniteSet(A \cup {n})
          BY <4>3, NodeAssumption, FS_Subset, FS_AddElement
        <5>2. S \subseteq A \cup {n}
          BY <4>3
        <5>3. IsFiniteSet(S) /\ Cardinality(S) <= Cardinality(A \cup {n})
          BY <5>1, <5>2, FS_Subset
        <5>4. Cardinality(A \cup {n}) <= Cardinality(A) + 1
          <6>1. Cardinality(A) \in Nat
            BY <5>1, FS_CardinalityType
          <6>. QED  BY <5>1, <6>1, FS_AddElement
        <5>5. /\ Cardinality(S) \in Nat /\ Cardinality(A) \in Nat /\ Cardinality(Voters) \in Nat
              /\ Cardinality(A \cup {n}) \in Nat
          BY <5>1, <5>3, FS_CardinalityType
        <5>6. Cardinality(S) >= quorum_size
          BY <2>2 DEF S
        <5>. QED  BY <5>3, <5>4, <5>5, <5>6 DEF is_quorum, quorum_size
      <4>5. \E d \in committed' : d.term = c.term /\ d.entry.term = c.term /\ d.index >= c.index
        <5>. DEFINE d == [index |-> q, entry |-> old.log[q], term |-> old.term]
        <5>1. d \in committed'
          BY <1>5, <4>2
        <5>2. d.term = old.term /\ d.entry.term = old.term /\ d.index = q
          BY <2>2, <3>1
        <5>3. d.index >= c.index
          BY <1>6, <4>2, <5>2
        <5>. QED  BY <4>2, <5>1, <5>2, <5>3
      <4>. QED  BY <4>4, <4>5
    <3>6. ASSUME NEW c \in committed
          PROVE  /\ is_quorum(Cardinality(Voters), Cardinality(Acknowledged(c)') + 1)
                 /\ \E d \in committed' : d.term = c.term /\ d.entry.term = c.term /\ d.index >= c.index
      BY <1>5, AcknowledgedGrows DEF CommittedAcknowledged
    <3>. HIDE DEF new
    <3>. QED  BY <1>5, <3>5, <3>6 DEF CommittedAcknowledged
  <2>. QED  BY <1>2, <2>1, <2>2
<1>. QED  BY <1>7, <1>8

LEMMA CommitInit == Init => CommitInv
<1>. SUFFICES ASSUME Init PROVE CommitInv
  OBVIOUS
<1>1. \A n \in Voters : node[n].state = "Follower"
  BY DEF Init, NewNode
<1>2. ProgressTold /\ CommittedAcknowledged
  BY <1>1 DEF Init, ProgressTold, CommittedAcknowledged
<1>. QED  BY <1>2, TypeInit DEF Init, CommitInv

LEMMA CommitNext == CommitInv /\ [Next]_vars => CommitInv'
<1>. SUFFICES ASSUME CommitInv, [Next]_vars PROVE (ProgressTold /\ CommittedAcknowledged)'
  BY TypeNext, RestartsCount DEF CommitInv
<1>0. TypeInv /\ ProgressTold /\ CommittedAcknowledged /\ \A n \in Voters : NodeOK(node[n])
  BY DEF CommitInv, TypeInv
<1>1. ASSUME NEW n \in Voters, NEW r, node' = [node EXCEPT ![n] = r], msgs \subseteq msgs',
             MatchKept(node[n], r), committed' = committed
      PROVE  (ProgressTold /\ CommittedAcknowledged)'
  BY <1>0, <1>1, ProgressKept, CommittedKept
<1>2. ASSUME NEW m \in msgs, NEW s, s = Observe(node[m.to], m), NEW r, Deliver(m, r),
             MatchKept(s, r.node), committed' = committed
      PROVE  (ProgressTold /\ CommittedAcknowledged)'
  <2>1. m.to \in Voters /\ (s = node[m.to] \/ s.state = "Follower")
    BY <1>0, <1>2, ObservedFacts
  <2>2. MatchKept(node[m.to], r.node)
    BY <1>2, <2>1 DEF MatchKept
  <2>3. node' = [node EXCEPT ![m.to] = r.node] /\ msgs \subseteq msgs'
    BY <1>2 DEF Deliver, Send
  <2>. QED  BY <1>1, <1>2, <2>1, <2>2, <2>3
<1>3. ASSUME NEW n \in Voters, ElectionTimeout(n)
      PROVE  (ProgressTold /\ CommittedAcknowledged)'
  <2>1. MatchKept(node[n], handle_election_timeout(node[n], n))
    BY <1>0, TickMatch DEF MatchKept
  <2>. QED  BY <1>1, <1>3, <2>1 DEF ElectionTimeout, client
<1>4. ASSUME NEW n \in Voters, CheckQuorum(n)
      PROVE  (ProgressTold /\ CommittedAcknowledged)'
  <2>1. MatchKept(node[n], check_quorum(node[n]))
    BY <1>0, TickMatch
  <2>. QED  BY <1>1, <1>4, <2>1 DEF CheckQuorum, client
<1>5. ASSUME NEW n \in Voters, Heartbeat(n)
      PROVE  (ProgressTold /\ CommittedAcknowledged)'
  <2>1. MatchKept(node[n], ready(node[n], n).node)
    BY <1>0, TickMatch
  <2>2. node' = [node EXCEPT ![n] = ready(node[n], n).node] /\ msgs \subseteq msgs'
        /\ committed' = committed
    BY <1>5 DEF Heartbeat, HandleReady, Send
  <2>. QED  BY <1>1, <2>1, <2>2
<1>6. ASSUME NEW n \in Voters, Propose(n)
      PROVE  (ProgressTold /\ CommittedAcknowledged)'
  <2>. DEFINE s == propose(node[n], proposals')
  <2>1. proposals' \in Nat
    BY <1>0, <1>6 DEF Propose, TypeInv
  <2>2. NodeOK(s) /\ s.state = node[n].state /\ s.term = node[n].term
        /\ s.match_index = node[n].match_index
    <3>1. NodeOK(s) /\ SameVote(node[n], s)
      BY <1>0, <2>1, ProposeType, ProposeFacts, NodeShape
    <3>2. Shaped(node[n])
      BY <1>0, NodeShape
    <3>. QED  BY <3>1, <3>2 DEF propose, SameVote, Shaped, Fields
  <2>3. node' = [node EXCEPT ![n] = ready(s, n).node] /\ msgs \subseteq msgs'
        /\ committed' = committed
    BY <1>6 DEF Propose, HandleReady, Send
  <2>. HIDE DEF s
  <2>4. MatchKept(s, ready(s, n).node)
    BY <2>2, TickMatch
  <2>5. MatchKept(node[n], ready(s, n).node)
    BY <2>2, <2>4 DEF MatchKept
  <2>. QED  BY <1>1, <2>3, <2>5
<1>7. ASSUME NEW n \in Voters, NEW p \in Voters, RequestVote(n, p)
      PROVE  (ProgressTold /\ CommittedAcknowledged)'
  <2>1. node' = [node EXCEPT ![n] = node[n]] /\ msgs \subseteq msgs' /\ committed' = committed
    BY <1>0, <1>7 DEF RequestVote, Send, client, TypeInv
  <2>2. MatchKept(node[n], node[n])
    BY DEF MatchKept
  <2>. QED  BY <1>1, <2>1, <2>2
<1>8. ASSUME NEW n \in Voters, Restart(n)
      PROVE  (ProgressTold /\ CommittedAcknowledged)'
  <2>1. node' = [node EXCEPT ![n] = NewNode] /\ msgs \subseteq msgs' /\ committed' = committed
    BY <1>8 DEF Restart
  <2>2. MatchKept(node[n], NewNode)
    BY DEF MatchKept, NewNode
  <2>. QED  BY <1>1, <2>1, <2>2
<1>9. ASSUME NEW m \in msgs,
             OnHeartbeat(m) \/ OnAppendEntries(m) \/ OnRequestVote(m) \/ OnVoteResponse(m)
      PROVE  (ProgressTold /\ CommittedAcknowledged)'
  <2>. DEFINE s == Observe(node[m.to], m)
  <2>1. MessageOK(m) /\ NodeOK(s)
    BY <1>0, ObservedFacts
  <2>2. /\ \/ Deliver(m, handle_heartbeat(s, m)) \/ Deliver(m, handle_append_entries(s, m))
           \/ Deliver(m, handle_request_vote(s, m)) \/ Deliver(m, handle_vote_response(s, m))
        /\ committed' = committed /\ s = Observe(node[m.to], m)
    BY <1>9 DEF OnHeartbeat, OnAppendEntries, OnRequestVote, OnVoteResponse, client
  <2>. HIDE DEF s
  <2>3. /\ MatchKept(s, handle_heartbeat(s, m).node)
        /\ MatchKept(s, handle_append_entries(s, m).node)
        /\ MatchKept(s, handle_request_vote(s, m).node)
        /\ MatchKept(s, handle_vote_response(s, m).node)
    BY <2>1, MessageMatch
  <2>. QED  BY <1>2, <2>2, <2>3
<1>10. ASSUME NEW m \in msgs, OnAppendResponse(m)
       PROVE  (ProgressTold /\ CommittedAcknowledged)'
  BY <1>0, <1>10, CommitStep
<1>11. CASE UNCHANGED vars
  <2>1. ProgressTold'
    BY <1>0, <1>11 DEF vars, ProgressTold
  <2>2. committed' = committed /\ msgs \subseteq msgs'
    BY <1>11 DEF vars
  <2>. QED  BY <1>0, <2>1, <2>2, CommittedKept
<1>. QED  BY <1>3, <1>4, <1>5, <1>6, <1>7, <1>8, <1>9, <1>10, <1>11 DEF Next

\* What a leader commits is an entry of its own term or comes before one, and a
\* majority, the leader included, acknowledged it in that term, however often
\* nodes restart (node.rs:472-495, 802-832).
THEOREM MajorityAcknowledged == Spec => []CommittedAcknowledged
<1>1. CommitInv => CommittedAcknowledged
  BY DEF CommitInv
<1>. QED  BY <1>1, CommitInit, CommitNext, PTL DEF Spec

=============================================================================
