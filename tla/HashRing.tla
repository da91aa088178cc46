------------------------------ MODULE HashRing ------------------------------
(***************************************************************************)
(* The consistent hash ring and the shard router of                       *)
(* src/src/cluster/hash_ring.rs. The hash is external: where the virtual   *)
(* nodes land on the ring is any function, collisions included, and keys   *)
(* land anywhere.                                                          *)
(***************************************************************************)
EXTENDS Integers, Sequences, FiniteSets, FiniteSetsExt, SequencesExt

CONSTANTS
    GNodes,             \* node names
    GVirtual,           \* VIRTUAL_NODES
    GSize               \* positions of the ring, 0..GSize-1

ASSUME RingAssumption == GVirtual \in Nat \ {0} /\ GSize \in Nat \ {0}

VARIABLES
    ghash,       \* where the virtual nodes of each node land
    gring,       \* ring: position -> node, or nobody
    gnodes       \* nodes, in the order of joining

RingVars == <<ghash, gring, gnodes>>

Positions == 0..(GSize - 1)
Vacant == "vacant"

\* The virtual nodes of a node are numbered in the order of their positions.
RingInit ==
    /\ ghash \in {h \in [GNodes \X (1..GVirtual) -> Positions] :
                    \A n \in GNodes, i, k \in 1..GVirtual : i < k => h[<<n, i>>] <= h[<<n, k>>]}
    /\ gring = [p \in Positions |-> Vacant] /\ gnodes = <<>>

Spots(n) == {ghash[<<n, i>>] : i \in 1..GVirtual}

\* Virtual nodes of different nodes that land on one position.
Collisions == \E n, m \in GNodes : n # m /\ Spots(n) \cap Spots(m) # {}

\* HashRing::add_node: a position that is taken is overwritten.
ring_add_node(n) ==
    /\ n \notin ToSet(gnodes)
    /\ gring' = [p \in Positions |-> IF p \in Spots(n) THEN n ELSE gring[p]]
    /\ gnodes' = Append(gnodes, n) /\ UNCHANGED ghash

RemovedSpots(n) == [p \in Positions |-> IF p \in Spots(n) THEN Vacant ELSE gring[p]]

\* remove_node clears the positions, whoever they belong to by now.
ring_remove_node(n) ==
    /\ gring' = RemovedSpots(n)
    /\ gnodes' = SelectSeq(gnodes, LAMBDA m : m # n) /\ UNCHANGED ghash

RingNext == \E n \in GNodes : ring_add_node(n) \/ ring_remove_node(n)

-----------------------------------------------------------------------------
Taken(ring) == {p \in Positions : ring[p] # Vacant}

\* Mutant: the key modulo the number of virtual nodes.
get_node_Modulo(ring, key) ==
    IF Taken(ring) = {} THEN Vacant
    ELSE ring[SetToSortSeq(Taken(ring), LAMBDA p, q : p < q)[1 + (key % Cardinality(Taken(ring)))]]

\* get_node: the first node at or after the key, or the first of all.
get_node(ring, key) ==
    IF Taken(ring) = {} THEN Vacant
    ELSE LET after == {p \in Taken(ring) : p >= key}
         IN  ring[IF after # {} THEN Min(after) ELSE Min(Taken(ring))]

\* The nodes at the positions from a to b, each once, in order of appearance.
Walk(ring, ps) == {n \in GNodes : \E p \in ps : ring[p] = n}
FirstSeen(ring, ps, n) == Min({p \in ps : ring[p] = n})

\* get_nodes: walking from the key around the ring, each node once, up to count.
get_nodes(ring, key, count) ==
    LET after == {p \in Taken(ring) : p >= key}
        first == SetToSortSeq(Walk(ring, after), LAMBDA n, m : FirstSeen(ring, after, n) < FirstSeen(ring, after, m))
        rest == SetToSortSeq(Walk(ring, Taken(ring)) \ ToSet(first),
                             LAMBDA n, m : FirstSeen(ring, Taken(ring), n) < FirstSeen(ring, Taken(ring), m))
        all == first \o rest
    IN  SubSeq(all, 1, Min({count, Len(all)}))

\* calculate_shard_mapping and get_node_for_shard: the key of a shard is external.
calculate_shard_mapping(ring, keys) == [s \in DOMAIN keys |-> get_node(ring, keys[s])]

-----------------------------------------------------------------------------
\* One shard for each key.
EveryKey == [p \in Positions |-> p]

\* Every variable has its type.
RingTypeOK ==
    /\ gring \in [Positions -> GNodes \cup {Vacant}] /\ ToSet(gnodes) \subseteq GNodes
    /\ IsInjective(gnodes)

\* What consistent hashing is for: a node that joins takes shards over and no shard
\* moves between two others; a node that leaves gives up its own shards and no
\* others. Positions that virtual nodes of two nodes share are excepted.
MinimalMovement ==
    [][gnodes' # gnodes /\ ~Collisions =>
         LET old == calculate_shard_mapping(gring, EveryKey)
             new == calculate_shard_mapping(gring', EveryKey) IN
         \A n \in GNodes, s \in Positions : old[s] # new[s] =>
             /\ ring_add_node(n) => new[s] = n
             /\ ring_remove_node(n) => old[s] = n]_RingVars

\* The replicas of a key are different nodes, the first is the one get_node
\* names, there are as many as asked for or as there are nodes, and no node that
\* has left is among them.
ReplicasDistinct ==
    \A key \in Positions, count \in 1..Cardinality(GNodes) :
        LET r == get_nodes(gring, key, count) IN
        /\ IsInjective(r) /\ ToSet(r) \subseteq ToSet(gnodes)
        /\ Len(r) > 0 => r[1] = get_node(gring, key)
        /\ ~Collisions => Len(r) = Min({count, Len(gnodes)})
=============================================================================
