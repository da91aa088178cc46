--------------------------- MODULE ClusterRouting ---------------------------
(***************************************************************************)
(* How requests find their node: the topology each node keeps for itself   *)
(* (src/src/cluster/config.rs, mod.rs), the router that stores locally or  *)
(* forwards (storage_router.rs), the handlers of the cluster server        *)
(* (server.rs), which route again, and the client's connections            *)
(* (client.rs).                                                            *)
(*                                                                         *)
(* Nodes stop and start again, answers are late, topologies differ: each   *)
(* node assigns shards to nodes in the order of a hash map of its own. A   *)
(* vector is its id; a request is a tree of calls, one per node it is at.  *)
(***************************************************************************)
EXTENDS Integers, FiniteSets, FiniteSetsExt

CONSTANTS
    RNodes,             \* nodes
    RShards,            \* shard_count of the configuration
    RRebalanced,        \* the 256 of rebalance_shards
    RVectors,           \* vector ids
    RCallIds,           \* bound: calls, 1..N; the first is the client's
    RMaxHops,           \* bound: forwards before nobody waits any more
    RMaxChanges         \* bound: changes of topologies, connections and nodes

ASSUME RoutingAssumption ==
    /\ RShards \in Nat \ {0} /\ RRebalanced \in Nat /\ RVectors \subseteq Nat
    /\ RCallIds = 1..Cardinality(RCallIds) /\ RMaxHops \in Nat /\ RMaxChanges \in Nat

VARIABLES
    rtopo,       \* per node: the nodes it knows and the owner of each shard
    rpool,       \* per node: the nodes it has connections to
    rstore,      \* per node: the vectors it stores
    rdown,       \* the nodes that do not answer
    rcall,       \* the calls
    rchanges,    \* changes so far
    rdiffer      \* history: two topologies differed at some time

RoutingVars == <<rtopo, rpool, rstore, rdown, rcall, rchanges, rdiffer>>

RShardIds == 0..(RShards - 1)
Unassigned == "unassigned"
NoCall == [at |-> "free"]

\* init_single_node: the node alone owns every shard.
init_single_node(n) == [nodes |-> {n}, owner |-> [s \in RShardIds |-> n]]

RoutingInit ==
    /\ rtopo = [n \in RNodes |-> init_single_node(n)]
    /\ rpool = [n \in RNodes |-> {}] /\ rstore = [n \in RNodes |-> {}]
    /\ rdown = {} /\ rcall = [c \in RCallIds |-> NoCall] /\ rchanges = 0 /\ rdiffer = FALSE

-----------------------------------------------------------------------------
(* The topology                                                            *)

\* The order in which the nodes of a topology come out of its hash map.
Orders(nodes) == {o \in [0..(Cardinality(nodes) - 1) -> nodes] : \A i, k \in DOMAIN o : o[i] = o[k] => i = k}

\* rebalance_shards: round robin over the active nodes, for a fixed number of
\* shards; without nodes nothing changes.
rebalance_shards(t, order) ==
    IF t.nodes = {} THEN t
    ELSE [t EXCEPT !.owner = [s \in RShardIds |->
             IF s < RRebalanced THEN order[s % Cardinality(t.nodes)] ELSE Unassigned]]

\* ClusterTopology::remove_node
Without(t, m) == [nodes |-> t.nodes \ {m},
                  owner |-> [s \in RShardIds |-> IF t.owner[s] = m THEN Unassigned ELSE t.owner[s]]]

Change == rchanges < RMaxChanges /\ rchanges' = rchanges + 1

Differ(topo) == \E n, m \in RNodes : topo[n] # topo[m]

Retopologise(n, t) ==
    /\ \E order \in Orders(t.nodes) : rtopo' = [rtopo EXCEPT ![n] = rebalance_shards(t, order)]
    /\ rdiffer' = (rdiffer \/ \E c \in RCallIds : rcall[c] # NoCall /\ Differ(rtopo))
    /\ Change

\* ClusterManager::add_node and remove_node
add_node(n, m) ==
    /\ m \notin rtopo[n].nodes
    /\ Retopologise(n, [rtopo[n] EXCEPT !.nodes = @ \cup {m}])
    /\ UNCHANGED <<rpool, rstore, rdown, rcall>>

remove_node(n, m) ==
    /\ m \in rtopo[n].nodes /\ m # n
    /\ Retopologise(n, Without(rtopo[n], m))
    /\ UNCHANGED <<rpool, rstore, rdown, rcall>>

\* get_node_for_vector, with the hash of the id
get_shard_for_vector(v) == v % RShards

get_node_for_vector(n, v) ==
    LET o == rtopo[n].owner[get_shard_for_vector(v)] IN IF o \in rtopo[n].nodes THEN o ELSE Unassigned

-----------------------------------------------------------------------------
(* Connections                                                             *)

\* connect opens every channel of the pool.
connect(n, m) ==
    /\ m # n /\ m \notin rpool[n] /\ {n, m} \cap rdown = {} /\ Change
    /\ rpool' = [rpool EXCEPT ![n] = @ \cup {m}]
    /\ UNCHANGED <<rtopo, rstore, rdown, rcall, rdiffer>>

disconnect(n, m) ==
    /\ m \in rpool[n] /\ Change /\ rpool' = [rpool EXCEPT ![n] = @ \ {m}]
    /\ UNCHANGED <<rtopo, rstore, rdown, rcall, rdiffer>>

\* send_heartbeat: a failure drops the pool, and nothing connects again.
send_heartbeat(n, m) ==
    /\ m \in rpool[n] /\ m \in rdown
    /\ rpool' = [rpool EXCEPT ![n] = @ \ {m}]
    /\ UNCHANGED <<rtopo, rstore, rdown, rcall, rchanges, rdiffer>>

\* try_join_seed: the server answers join_cluster without a topology, which the
\* client takes for a failure, so join_cluster connects to nobody.
try_join_seed(n, m) == {}

join_cluster(n) ==
    /\ rpool' = [rpool EXCEPT ![n] = @ \cup UNION {try_join_seed(n, m) : m \in RNodes}]
    /\ UNCHANGED <<rtopo, rstore, rdown, rcall, rchanges, rdiffer>>

\* A node stops answering, and its calls end; or it is back with its data.
StopNode(n) ==
    /\ n \notin rdown /\ Change /\ rdown' = rdown \cup {n}
    /\ rcall' = [c \in RCallIds |-> IF rcall[c] # NoCall /\ rcall[c].node = n
                                   THEN [rcall[c] EXCEPT !.at = "dead"] ELSE rcall[c]]
    /\ UNCHANGED <<rtopo, rpool, rstore, rdiffer>>

StartNode(n) ==
    /\ n \in rdown /\ Change /\ rdown' = rdown \ {n}
    /\ UNCHANGED <<rtopo, rpool, rstore, rcall, rdiffer>>

-----------------------------------------------------------------------------
(* Calls                                                                   *)

RoutedCall(n, kind, vs, hops, parent) ==
    [at |-> "start", node |-> n, kind |-> kind, vs |-> vs, hops |-> hops, parent |-> parent,
     waiting |-> {}, count |-> 0, failed |-> FALSE, asked |-> {}]

FreeCalls == {c \in RCallIds : rcall[c] = NoCall}

\* A client calls insert or batch_insert of node n's router.
ClientInsert(n, vs) ==
    /\ \A c \in RCallIds : rcall[c] = NoCall /\ n \notin rdown
    /\ rcall' = [rcall EXCEPT ![1] = RoutedCall(n, "insert", vs, 0, 0)]
    /\ rdiffer' = Differ(rtopo)
    /\ UNCHANGED <<rtopo, rpool, rstore, rdown, rchanges>>

\* replicate: one call per replica that is not the node itself; what they
\* answer does not matter.
replicate(n, v, replicas) ==
    /\ \A c \in RCallIds : rcall[c] = NoCall /\ n \notin rdown
    /\ rcall' = [rcall EXCEPT ![1] = [RoutedCall(n, "replicate", {v}, 0, 0) EXCEPT !.asked = {[to |-> m, vs |-> {v}] : m \in replicas \ {n}}]]
    /\ rdiffer' = Differ(rtopo)
    /\ UNCHANGED <<rtopo, rpool, rstore, rdown, rchanges>>

\* local_insert: Collection::upsert may fail.
local_insert(n, vs) == {[rstore EXCEPT ![n] = @ \cup vs], rstore}

\* Where the vectors of a call go; vectors without a node stay here.
Here(n, v) == get_node_for_vector(n, v) \in {n, Unassigned}
Groups(n, vs) ==
    LET away == {v \in vs : ~Here(n, v)} IN
    {[to |-> m, vs |-> {v \in away : get_node_for_vector(n, v) = m}] : m \in {get_node_for_vector(n, v) : v \in away}}

\* forward_insert, forward_batch_insert, client.replicate: a call at the other
\* node, if there is a connection.
Forwarded(id, g) ==
    LET f == Min(FreeCalls) IN
    [rcall EXCEPT ![f] = [RoutedCall(g.to, "insert", g.vs, rcall[id].hops + 1, id)
                            EXCEPT !.at = IF g.to \in rdown THEN "dead" ELSE @],
                  ![id].waiting = @ \cup {f}, ![id].asked = @ \ {g}]

\* The handler groups its vectors by node: its own part is stored, the others
\* are forwarded one after the other.
InsertHere(id) ==
    LET c == rcall[id]
        own == {v \in c.vs : Here(c.node, v)}
    IN
    /\ c.at = "start"
    /\ IF c.kind = "replicate" \/ own = {} THEN
          /\ rcall' = [rcall EXCEPT ![id].at = "wait",
                         ![id].asked = IF c.kind = "replicate" THEN @ ELSE Groups(c.node, c.vs)]
          /\ UNCHANGED rstore
       ELSE \E store \in local_insert(c.node, own) :
          /\ rstore' = store
          /\ rcall' = [rcall EXCEPT ![id].at = "wait", ![id].asked = Groups(c.node, c.vs),
                         ![id].count = IF own \subseteq store[c.node] THEN Cardinality(own) ELSE 0,
                         ![id].failed = ~(own \subseteq store[c.node])]
    /\ UNCHANGED <<rtopo, rpool, rdown, rchanges, rdiffer>>

InsertThere(id, g) ==
    LET c == rcall[id] IN
    /\ c.at = "wait" /\ g \in c.asked
    /\ IF g.to \in rpool[c.node] /\ c.hops < RMaxHops /\ FreeCalls # {}
       THEN rcall' = Forwarded(id, g)
       ELSE rcall' = [rcall EXCEPT ![id].asked = @ \ {g}, ![id].failed = TRUE]
    /\ UNCHANGED <<rtopo, rpool, rstore, rdown, rchanges, rdiffer>>

\* The answer of a call that has all its answers: the server reports a batch with
\* a failed part as failed, and the count is lost.
Collect(id, f) ==
    LET c == rcall[id] IN
    /\ c.at = "wait" /\ f \in c.waiting /\ rcall[f].at = "done"
    /\ rcall' = [rcall EXCEPT ![id].waiting = @ \ {f},
                              ![id].count = IF rcall[f].failed THEN @ ELSE @ + rcall[f].count,
                              ![id].failed = (@ \/ rcall[f].failed)]
    /\ UNCHANGED <<rtopo, rpool, rstore, rdown, rchanges, rdiffer>>

\* Mutant: a call that timed out counts as done.
TimedOut_AsDone(id, f) ==
    [rcall EXCEPT ![id].waiting = @ \ {f}, ![id].count = @ + Cardinality(rcall[f].vs), ![f].parent = 0]

TimedOut(id, f) == [rcall EXCEPT ![id].waiting = @ \ {f}, ![id].failed = TRUE, ![f].parent = 0]

\* REMOTE_TIMEOUT: the caller goes on; the call may still run at the other node.
Timeout(id, f) ==
    /\ rcall[id].at = "wait" /\ f \in rcall[id].waiting /\ rcall[f].at # "done"
    /\ rcall' = TimedOut(id, f)
    /\ UNCHANGED <<rtopo, rpool, rstore, rdown, rchanges, rdiffer>>

Answered(id) ==
    /\ rcall[id].at = "wait" /\ rcall[id].waiting = {} /\ rcall[id].asked = {}
    /\ rcall' = [rcall EXCEPT ![id].at = "done"]
    /\ UNCHANGED <<rtopo, rpool, rstore, rdown, rchanges, rdiffer>>

RoutingStep ==
    \E id \in RCallIds :
        \/ InsertHere(id) \/ Answered(id)
        \/ \E g \in [to : RNodes, vs : SUBSET RVectors] : InsertThere(id, g)
        \/ \E f \in RCallIds : Collect(id, f) \/ Timeout(id, f)

RoutingNext ==
    \/ RoutingStep
    \/ \E n \in RNodes :
         \/ \E vs \in (SUBSET RVectors) \ {{}} : ClientInsert(n, vs)
         \/ \E v \in RVectors : replicate(n, v, RNodes)
         \/ \E m \in RNodes : add_node(n, m) \/ remove_node(n, m) \/ connect(n, m) \/ disconnect(n, m) \/ send_heartbeat(n, m)
         \/ join_cluster(n) \/ StopNode(n) \/ StartNode(n)
-----------------------------------------------------------------------------
\* Every variable has its type.
RoutingTypeOK ==
    /\ \A n \in RNodes : /\ rtopo[n].nodes \subseteq RNodes
                         /\ rtopo[n].owner \in [RShardIds -> RNodes \cup {Unassigned}]
    /\ rpool \in [RNodes -> SUBSET RNodes] /\ rstore \in [RNodes -> SUBSET RVectors]
    /\ \A c \in RCallIds : rcall[c] # NoCall => rcall[c].count \in 0..Cardinality(RVectors)

\* What a client is told is stored is stored: the count never exceeds what some
\* node has, and an answer without failures means all of it, through re-routing,
\* timeouts, stops and topologies that change on the way.
CountedStored ==
    rcall[1] # NoCall /\ rcall[1].kind = "insert" /\ rcall[1].at = "done" =>
        LET stored == {v \in rcall[1].vs : \E n \in RNodes : v \in rstore[n]} IN
        /\ rcall[1].count <= Cardinality(stored)
        /\ ~rcall[1].failed => stored = rcall[1].vs

\* No node routes to a node it has removed, and it has an owner for every shard
\* that rebalance_shards covers.
ShardsRouted ==
    \A n \in RNodes : \A s \in RShardIds :
        /\ rtopo[n].owner[s] \in rtopo[n].nodes \cup {Unassigned}
        /\ s < RRebalanced /\ rtopo[n].nodes # {} => rtopo[n].owner[s] # Unassigned

\* A vector is forwarded more than once only if two nodes disagree about the
\* topology while the request is under way: then it may go in circles. Calls of
\* replicate are excepted, since a replica routes them to the owner again.
OneHop ==
    \A c \in RCallIds : rcall[c] # NoCall /\ rcall[1].kind = "insert" /\ rcall[c].hops > 1 =>
        rdiffer \/ Differ(rtopo)

\* The client waits: it gets an answer in the end, also when a node on the way is
\* down for good, unless the node it called stops.
ClientWaits == rcall[1] # NoCall /\ rcall[1].at \notin {"done", "dead"}
=============================================================================
