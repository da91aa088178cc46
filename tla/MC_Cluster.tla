----------------------------- MODULE MC_Cluster -----------------------------
(***************************************************************************)
(* What the nodes of a cluster do together, each part with a small         *)
(* instance: failover, replicas, routed calls, scattered searches, the     *)
(* hash ring, the Raft log in memory, the replicated state machine and     *)
(* replication between regions.  As in MC_Storage, a behaviour is about    *)
(* the part that the variable part names.                                  *)
(***************************************************************************)
EXTENDS Failover, Replication, ClusterRouting, ClusterSearch, HashRing, RaftLog,
        ReplicatedState, CrossRegion, TLC

CONSTANTS Parts, n1, n2, n3, c1, c2, c3

VARIABLE part

-----------------------------------------------------------------------------
(* The values of constants                                                 *)

\* Two tasks fail over on one node and one on another.
TwoNodes == {n1, n2}
ThreeCallers == {c1, c2, c3}
TwoAndOne == c1 :> n1 @@ c2 :> n1 @@ c3 :> n2

ThreeNodes == {n1, n2, n3}
Assignment == {<<n1, n2, n3>>}
MCLevels == {[kind |-> "All", n |-> 0], [kind |-> "Quorum", n |-> 0],
             [kind |-> "One", n |-> 0], [kind |-> "N", n |-> 2]}

\* Every node has the collection and an id of its own, or the second lacks the
\* collection and all share an id.
Apart == [n \in 1..3 |-> [there |-> TRUE, ids |-> {n}]]
Shared == [n \in 1..3 |-> [there |-> n # 2, ids |-> {1, n}]]
MCHolds == {Apart, Shared}

ClusterVars == <<part, failoverVars, replicationVars, RoutingVars, SearchVars, RingVars,
                  LogVars, StateVars, RegionVars>>

\* A part that rests does so in one of its initial states.
ClusterInit ==
    /\ part \in Parts
    /\ FailoverInit /\ ReplicationInit /\ RoutingInit /\ LogInit /\ StateInit
    /\ SearchInit
    /\ part # "search" => uhold = Apart /\ ulinks = {} /\ \A n \in UNodes : uowner[n] = {}
    /\ RingInit /\ (part # "ring" => \A v \in DOMAIN ghash : ghash[v] = 0)
    /\ RegionInit /\ (part # "regions" => \A r \in XRegions : xconf[r] = "absent")

FailoverOnly == UNCHANGED <<part, replicationVars, RoutingVars, SearchVars, RingVars,
                                  LogVars, StateVars, RegionVars>>
ReplicationOnly == UNCHANGED <<part, failoverVars, RoutingVars, SearchVars, RingVars,
                                     LogVars, StateVars, RegionVars>>
RoutingOnly == UNCHANGED <<part, failoverVars, replicationVars, SearchVars, RingVars,
                                 LogVars, StateVars, RegionVars>>
SearchOnly == UNCHANGED <<part, failoverVars, replicationVars, RoutingVars, RingVars,
                                LogVars, StateVars, RegionVars>>
RingOnly == UNCHANGED <<part, failoverVars, replicationVars, RoutingVars, SearchVars,
                              LogVars, StateVars, RegionVars>>
LogOnly == UNCHANGED <<part, failoverVars, replicationVars, RoutingVars, SearchVars,
                             RingVars, StateVars, RegionVars>>
StateOnly == UNCHANGED <<part, failoverVars, replicationVars, RoutingVars, SearchVars,
                               RingVars, LogVars, RegionVars>>
RegionOnly == UNCHANGED <<part, failoverVars, replicationVars, RoutingVars, SearchVars,
                                RingVars, LogVars, StateVars>>

ClusterNext ==
    \/ part = "failover" /\ FailoverNext /\ FailoverOnly
    \/ part = "replication" /\ ReplicationNext /\ ReplicationOnly
    \/ part = "routing" /\ RoutingNext /\ RoutingOnly
    \/ part = "search" /\ SearchNext /\ SearchOnly
    \/ part = "ring" /\ RingNext /\ RingOnly
    \/ part = "log" /\ LogNext /\ LogOnly
    \/ part = "state" /\ StateNext /\ StateOnly
    \/ part = "regions" /\ RegionNext /\ RegionOnly

\* The k-th task or timer of the part.
Turn(k) ==
    \/ part = "failover" /\ k < 4 /\ Step(<<c1, c2, c3>>[k]) /\ FailoverOnly
    \/ part = "replication" /\ k = 1 /\ (\E w \in Writers : Coordinate(w)) /\ ReplicationOnly
    \/ part = "routing" /\ k = 1 /\ RoutingStep /\ RoutingOnly
    \/ part = "search" /\ SearchTurn(k - 1) /\ SearchOnly
    \/ part = "state" /\ k = 1 /\ HandleReadyOf(ZLeader) /\ StateOnly

\* Tokio runs every task that can go on and its timers run out: callers of
\* execute_failover, the one writer, the tasks and timers of a routed call (which
\* end it whichever comes first), those of a search, and the leader's event loop,
\* which goes on after an error.
ClusterFairness == \A k \in 1..4 : WF_ClusterVars(Turn(k))

ClusterSpec == ClusterInit /\ [][ClusterNext]_ClusterVars /\ ClusterFairness

-----------------------------------------------------------------------------
(* What the runs check, besides the properties that Failover, Replication, *)
(* RaftLog, ReplicatedState and CrossRegion state of their own parts, each *)
(* of which holds of the initial state a resting part is in.               *)

\* Through re-routing, timeouts and changing topologies a client is told of no
\* more than is stored, requests go in circles only where topologies differ
\* (StorageRouter, ClusterServer), replicas of a key are different nodes
\* (HashRing), a scattered search or a replication call reports what the nodes it
\* reached have (ClusterClient), and the two ways to read the Raft log agree
\* (MemStorage).
RoutingSafe ==
    /\ part = "routing" => RoutingTypeOK /\ CountedStored /\ ShardsRouted /\ OneHop
    /\ part = "ring" => RingTypeOK /\ ReplicasDistinct
    /\ part = "search" => SearchTypeOK /\ AnswerBest /\ PartialAnswers /\ ReplicationReported
    /\ part = "log" => LogTypeOK /\ EntriesAgree

\* A failover is the latest event of the log as soon as it is logged, and a node
\* that joins or leaves the ring moves no shard of others.
ClusterSteps == LatestLogged /\ MinimalMovement

\* Someone waits for an answer of the part: a caller of execute_failover (c1 and
\* c2 are alike) or of coordinate_write, the k-th proposal, the client of a routed
\* insert or of a scattered search.
Waits(k) ==
    \/ part = "failover" /\ FailoverWaits(<<c1, c3>>[k])
    \/ part = "state" /\ ProposalWaits(k)
    \/ part = "replication" /\ \E w \in Writers : WriteWaits(w)
    \/ part = "routing" /\ ClientWaits
    \/ part = "search" /\ SearchWaits

\* Whoever waits is answered in the end.
ClusterAnswers == \A k \in 1..2 : Waits(k) ~> ~Waits(k)

=============================================================================
