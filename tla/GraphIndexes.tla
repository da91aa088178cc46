---------------------------- MODULE GraphIndexes ----------------------------
(* The two graph indexes.                                                  *)
EXTENDS Integers, Sequences, FiniteSets, FiniteSetsExt, SequencesExt

-----------------------------------------------------------------------------
(***************************************************************************)
(* The graph index of src/src/index/hnsw.rs, the one collections use. A    *)
(* vector is a place: on a line, or, for Cosine and Dot, on an arc of unit *)
(* vectors shorter than half a circle. Distances matter by their order     *)
(* only. The level of a new node is any level, as random_level draws it.   *)
(***************************************************************************)

CONSTANTS
    HIds, HPlaces,      \* ids and places of vectors, both numbers
    HMetrics,           \* out of Euclidean, Manhattan, Cosine and Dot
    HMaxLevel,          \* the 16 of random_level
    HM,                 \* HnswConfig.m
    HEf,                \* HnswConfig.ef_construct and ef
    HMaxOps             \* bound: operations

ASSUME HnswAssumption ==
    /\ HIds \subseteq Nat /\ HPlaces \subseteq Nat /\ HPlaces # {} /\ IsFiniteSet(HPlaces)
    /\ HMetrics \subseteq {"Euclidean", "Manhattan", "Cosine", "Dot"}
    /\ HMaxLevel \in Nat /\ HM \in Nat \ {0} /\ HEf \in Nat \ {0} /\ HMaxOps \in Nat

VARIABLES
    hmetric,     \* distance
    hplace,      \* vectors: the places of the ids that are in the index
    hlayers,     \* layers: for each, the neighbours of the ids that have a list
    hentry,      \* entry_point: a set of at most one id
    hmax,        \* max_layer
    hops,
    hagain       \* history: ids added while they were in the index

HnswVars == <<hmetric, hplace, hlayers, hentry, hmax, hops, hagain>>

HnswInit ==
    /\ hmetric \in HMetrics
    /\ hplace = <<>> /\ hlayers = <<>> /\ hentry = {} /\ hmax = 0 /\ hops = 0 /\ hagain = {}

Gap(a, b) == IF a > b THEN a - b ELSE b - a

\* Distance::calculate: the dot product, which is taken for a distance as it is,
\* is the larger the nearer two unit vectors are.
Calculated(a, b) == IF hmetric = "Dot" THEN Max(HPlaces) - Gap(a, b) ELSE Gap(a, b)

\* distance: none if the id is not in the index.
Known(place, id) == id \in DOMAIN place
Dist(place, q, id) == <<Calculated(q, place[id]), id>>

\* The order of the heaps: by distance, then by id.
Nearer(a, b) == a[1] < b[1] \/ (a[1] = b[1] /\ a[2] < b[2])
Nearest(s) == CHOOSE a \in s : \A b \in s \ {a} : Nearer(a, b)
Farthest(s) == CHOOSE a \in s : \A b \in s \ {a} : Nearer(b, a)

\* One neighbour of the node at hand: it enters the results while there is room
\* or if it is nearer than the worst of them.
Visit(place, q, ef, acc, id) ==
    IF id \in acc.visited THEN acc
    ELSE LET seen == [acc EXCEPT !.visited = @ \cup {id}] IN
         IF ~Known(place, id) THEN seen
         ELSE LET d == Dist(place, q, id) IN
              IF Cardinality(acc.results) < ef
              THEN [seen EXCEPT !.candidates = @ \cup {d}, !.results = @ \cup {d}]
              ELSE IF d[1] < Farthest(acc.results)[1]
                   THEN [seen EXCEPT !.candidates = @ \cup {d},
                                     !.results = (@ \ {Farthest(@)}) \cup {d}]
                   ELSE seen

\* The loop of search_layer.
RECURSIVE Explore(_, _, _, _, _)
Explore(place, edges, q, ef, acc) ==
    IF acc.candidates = {} THEN acc.results
    ELSE LET c == Nearest(acc.candidates) IN
         IF c[1] > Farthest(acc.results)[1] /\ Cardinality(acc.results) >= ef THEN acc.results
         ELSE LET here == [acc EXCEPT !.candidates = @ \ {c}]
                  near == IF c[2] \in DOMAIN edges THEN edges[c[2]] ELSE <<>>
              IN  Explore(place, edges, q, ef,
                          FoldLeft(LAMBDA a, id : Visit(place, q, ef, a, id), here, near))

\* search_layer: the ids found, nearest first.
search_layer(place, edges, q, entry, ef) ==
    LET start == IF Known(place, entry) THEN {Dist(place, q, entry)} ELSE {}
        found == Explore(place, edges, q, ef,
                         [candidates |-> start, results |-> start, visited |-> {d[2] : d \in start}])
    IN  [i \in 1..Cardinality(found) |->
            (SetToSortSeq(found, Nearer))[i][2]]

FirstOr(s, default) == IF s = <<>> THEN default ELSE s[1]

\* The descent through layers (numbered from 0) hi..lo with ef 1.
Descend(place, layers, q, entry, hi, lo) ==
    FoldLeft(LAMBDA e, k : FirstOr(search_layer(place, layers[hi - k + 2], q, e, 1), e),
             entry, [k \in 1..(hi - lo + 1) |-> k])

-----------------------------------------------------------------------------
\* select_neighbors
select_neighbors(found) == SubSeq(found, 1, Min({HM, Len(found)}))

\* The list of the new node, and the edges back from those that have a list.
Linked(edges, id, near) ==
    LET own == [x \in DOMAIN edges \cup {id} |-> IF x = id THEN near ELSE edges[x]] IN
    [x \in DOMAIN own |-> IF x \in ToSet(near) /\ id \notin ToSet(own[x])
                          THEN Append(own[x], id) ELSE own[x]]

\* The layers level..0: search, link, and go on from the nearest.
Connect(place, layers, id, q, entry, level) ==
    FoldLeft(LAMBDA acc, k :
                 LET l == level - k + 2
                     found == search_layer(place, acc.layers[l], q, acc.entry, IF l = 1 THEN HEf ELSE HM)
                 IN  [layers |-> [acc.layers EXCEPT ![l] = Linked(@, id, select_neighbors(found))],
                      entry |-> FirstOr(found, acc.entry)],
             [layers |-> layers, entry |-> entry],
             [k \in 1..(level + 1) |-> k]).layers

NoEdges == [x \in {} |-> <<>>]

\* add: the first vector only becomes the entry point and gets no list.
HnswAdd(id, q, level) ==
    /\ hops < HMaxOps /\ hops' = hops + 1
    /\ LET more == [k \in 1..Max({0, level + 1 - Len(hlayers)}) |-> NoEdges]
           layers == hlayers \o more
           place == [x \in DOMAIN hplace \cup {id} |-> IF x = id THEN q ELSE hplace[x]]
       IN  /\ hplace' = place
           /\ hlayers' = IF hentry = {} THEN layers
                         ELSE LET e == CHOOSE x \in hentry : TRUE
                                  at == Descend(place, layers, q, e, Len(layers) - 1, level + 1)
                              IN  Connect(place, layers, id, q, at, level)
    /\ hentry' = IF hentry = {} \/ level > hmax THEN {id} ELSE hentry
    /\ hmax' = Max({hmax, level})
    /\ hagain' = IF Known(hplace, id) THEN hagain \cup {id} ELSE hagain
    /\ UNCHANGED hmetric

\* Mutant: the edges to the id stay.
Unlinked_OwnList(edges, id) == [x \in DOMAIN edges \ {id} |-> edges[x]]

Unlinked(edges, id) ==
    [x \in DOMAIN edges \ {id} |-> SelectSeq(edges[x], LAMBDA e : e # id)]

\* remove: entry_point is left as it is.
HnswRemove(id) ==
    /\ hops < HMaxOps /\ hops' = hops + 1
    /\ hlayers' = [l \in DOMAIN hlayers |-> Unlinked(hlayers[l], id)]
    /\ hplace' = [x \in DOMAIN hplace \ {id} |-> hplace[x]]
    /\ hagain' = hagain \ {id}
    /\ UNCHANGED <<hmetric, hentry, hmax>>

Limited(found, limit) == SubSeq(found, 1, Min({limit, Len(found)}))

\* search: down the layers with ef 1, then layer 0 with ef.
HnswSearch(q, limit) ==
    IF hentry = {} THEN <<>>
    ELSE LET e == CHOOSE x \in hentry : TRUE
             at == Descend(hplace, hlayers, q, e, Len(hlayers) - 1, 1)
         IN  Limited(search_layer(hplace, hlayers[1], q, at, Max({HEf, limit})), limit)

HnswNext ==
    \/ \E id \in HIds, q \in HPlaces, level \in 0..HMaxLevel : HnswAdd(id, q, level)
    \/ \E id \in HIds : HnswRemove(id)

-----------------------------------------------------------------------------
\* Every variable has its type.
HnswTypeOK ==
    /\ hmetric \in HMetrics /\ DOMAIN hplace \subseteq HIds /\ hentry \subseteq HIds /\ Cardinality(hentry) <= 1
    /\ hmax \in 0..HMaxLevel /\ Len(hlayers) <= HMaxLevel + 1
    /\ \A l \in DOMAIN hlayers : \A x \in DOMAIN hlayers[l] : hlayers[l][x] \in Seq(HIds)

\* remove clears every layer: no list names, or belongs to, a vector that is gone.
EdgesLive ==
    \A l \in DOMAIN hlayers : \A x \in DOMAIN hlayers[l] :
        Known(hplace, x) /\ ToSet(hlayers[l][x]) \subseteq DOMAIN hplace

\* Edges go both ways wherever both ends have a list; vectors that were added
\* again got a new list that forgets the edges back.
EdgesReturn ==
    \A l \in DOMAIN hlayers : \A x \in DOMAIN hlayers[l] : \A y \in ToSet(hlayers[l][x]) :
        y \in DOMAIN hlayers[l] /\ {x, y} \cap hagain = {} => x \in ToSet(hlayers[l][y])

\* A search returns distinct vectors of the index, at most the limit, nearest
\* first, but with Dot farthest first. It finds something exactly as long as the
\* entry point is in the index: remove does not choose another.
SearchSound ==
    \A q \in HPlaces, limit \in 1..2 :
        LET r == HnswSearch(q, limit) IN
        /\ ToSet(r) \subseteq DOMAIN hplace /\ IsInjective(r) /\ Len(r) <= limit
        /\ \A i \in 1..(Len(r) - 1) :
             LET near == Gap(q, hplace[r[i]])
                 next == Gap(q, hplace[r[i + 1]])
             IN  IF hmetric = "Dot" THEN near >= next ELSE near <= next
        /\ r # <<>> <=> hentry # {} /\ hentry \subseteq DOMAIN hplace

-----------------------------------------------------------------------------
(***************************************************************************)
(* The indexes of src/src/index/vector_index.rs: MultiVectorIndex with its *)
(* exact flat index and its graph index, which is not the one of hnsw.rs:  *)
(* it links both ways, prunes long lists, keeps candidates on a stack and  *)
(* never removes. Both get the same vectors here, so that the exact index  *)
(* is the reference of the other. A vector is a place, as above.           *)
(***************************************************************************)

CONSTANTS
    VPlaces,            \* places of vectors
    VMetrics,           \* out of Euclidean, Cosine and DotProduct
    VMaxLayer,          \* HnswConfig.max_layer
    VM,                 \* HnswConfig.m
    VEf,                \* ef_construction and ef_search
    VMaxNodes           \* bound: vectors

ASSUME VectorIndexesAssumption ==
    /\ VPlaces \subseteq Nat /\ VPlaces # {} /\ IsFiniteSet(VPlaces)
    /\ VMetrics \subseteq {"Euclidean", "Cosine", "DotProduct"} /\ VMaxLayer \in Nat /\ VM \in Nat \ {0}
    /\ VEf \in Nat \ {0} /\ VMaxNodes \in Nat

VARIABLES
    vmetric,     \* metric of both indexes
    vnodes,      \* nodes: [place, connections]; connections[l + 1] is layer l
    ventry,      \* entry_point: a node, 0 if none
    vflat,       \* the places in the flat index
    vpruned      \* history: whether a list was pruned

VectorIndexesVars == <<vmetric, vnodes, ventry, vflat, vpruned>>

VectorIndexesInit ==
    /\ vmetric \in VMetrics
    /\ vnodes = <<>> /\ ventry = 0 /\ vflat = <<>> /\ vpruned = FALSE

\* distance: the dot product is negated; cosine_similarity returns the distance,
\* and 1.0 minus it is the smaller the farther two vectors are.
NodeGap(a, b) == IF vmetric = "Cosine" THEN Max(VPlaces) - Gap(a, b) ELSE Gap(a, b)
MaxLayer(nodes, n) == Len(nodes[n].connections) - 1
LayerOf(nodes, n, l) == IF l < Len(nodes[n].connections) THEN nodes[n].connections[l + 1] ELSE <<>>

\* Results and candidates are sequences of <<distance, node>>.
WorstOf(results) == Max({r[1] : r \in ToSet(results)})
SortedByDistance(s) == SortSeq(s, LAMBDA a, b : a[1] < b[1])
NodesIn(s) == [i \in DOMAIN s |-> s[i][2]]

\* A neighbour that was not visited: it goes to both lists while there is room,
\* or in place of the first of the worst results.
VisitNode(nodes, q, ef, acc, n) ==
    LET d == <<NodeGap(q, nodes[n].place), n>>
        worst == WorstOf(acc.results)
        drop == SelectInSeq(acc.results, LAMBDA r : r[1] = worst)
        seen == [acc EXCEPT !.visited = @ \cup {n}]
    IN  IF n \in acc.visited THEN acc
        ELSE IF Len(acc.results) < ef
        THEN [seen EXCEPT !.results = Append(@, d), !.candidates = Append(@, d)]
        ELSE IF d[1] < worst
        THEN [seen EXCEPT !.results = Append(RemoveAt(@, drop), d), !.candidates = Append(@, d)]
        ELSE seen

\* The loop of search_layer takes the candidate that was added last.
RECURSIVE Walk(_, _, _, _, _)
Walk(nodes, q, ef, l, acc) ==
    IF acc.candidates = <<>> THEN acc.results
    ELSE LET c == Last(acc.candidates) IN
         IF c[1] > WorstOf(acc.results) /\ Len(acc.results) >= ef THEN acc.results
         ELSE Walk(nodes, q, ef, l,
                   FoldLeft(LAMBDA a, n : VisitNode(nodes, q, ef, a, n),
                            [acc EXCEPT !.candidates = Front(@)], LayerOf(nodes, c[2], l)))

SearchLayer(nodes, q, entry, ef, l) ==
    LET d == <<NodeGap(q, nodes[entry].place), entry>> IN
    SortedByDistance(Walk(nodes, q, ef, l,
                          [candidates |-> <<d>>, results |-> <<d>>, visited |-> {entry}]))

\* From the entry point through layers hi..lo with ef 1.
DescendTo(nodes, q, entry, hi, lo) ==
    FoldLeft(LAMBDA e, k : SearchLayer(nodes, q, e, 1, hi - k + 1)[1][2],
             entry, [k \in 1..(hi - lo + 1) |-> k])

\* The neighbours of the new node n in layers top..0: [layer -> nodes].
Neighbours(nodes, n, q, entry, top) ==
    FoldLeft(LAMBDA acc, k :
                 LET l == top - k + 1
                     found == SearchLayer(nodes, q, acc.entry, IF l = 0 THEN VEf ELSE VM, l)
                     near == SubSeq(NodesIn(found), 1, Min({VM, Len(found)}))
                 IN  [near |-> [acc.near EXCEPT ![l + 1] = near], entry |-> found[1][2]],
             [near |-> [l \in 1..(top + 1) |-> <<>>], entry |-> entry],
             [k \in 1..(top + 1) |-> k]).near

\* A list longer than twice m is cut to the m nearest.
Pruned(nodes, n, list) ==
    IF Len(list) <= VM * 2 THEN list
    ELSE SubSeq(NodesIn(SortedByDistance([i \in DOMAIN list |->
             <<NodeGap(nodes[n].place, nodes[list[i]].place), list[i]>>])), 1, VM)

\* The connections back, where the neighbour has the layer.
Returned(nodes, n, near) ==
    [x \in DOMAIN nodes |-> [nodes[x] EXCEPT !.connections =
        [l \in DOMAIN @ |-> IF l \in DOMAIN near /\ x \in ToSet(near[l]) /\ n \notin ToSet(@[l])
                            THEN Pruned(nodes, x, Append(@[l], n)) ELSE @[l]]]]

TopLayer(layer, entry_layer) == Min({layer, entry_layer})

\* MultiVectorIndex::insert, for both kinds of index.
InsertVector(q, layer) ==
    LET n == Len(vnodes) + 1
        nodes == Append(vnodes, [place |-> q, connections |-> [l \in 1..(layer + 1) |-> <<>>]])
        e_max == MaxLayer(nodes, ventry)
        top == TopLayer(layer, e_max)
        near == Neighbours(nodes, n, q, DescendTo(nodes, q, ventry, e_max, layer + 1), top)
        own == [nodes EXCEPT ![n].connections =
                   [l \in DOMAIN @ |-> IF l <= top + 1 THEN near[l] ELSE <<>>]]
    IN  /\ Len(vnodes) < VMaxNodes /\ UNCHANGED vmetric
        /\ vflat' = Append(vflat, q)
        /\ IF ventry = 0 THEN vnodes' = nodes /\ ventry' = n /\ UNCHANGED vpruned
           ELSE /\ vnodes' = Returned(own, n, near)
                /\ ventry' = IF layer > e_max THEN n ELSE ventry
                /\ vpruned' = (vpruned \/ \E x \in DOMAIN own, l \in DOMAIN near :
                                  x \in ToSet(near[l]) /\ Len(LayerOf(own, x, l - 1)) >= VM * 2)

\* HnswIndex::search: the nodes found, nearest first.
SearchGraph(q, k) ==
    IF ventry = 0 THEN <<>>
    ELSE LET at == DescendTo(vnodes, q, ventry, MaxLayer(vnodes, ventry), 1)
             found == SearchLayer(vnodes, q, at, Max({VEf, k}), 0)
         IN  SubSeq(found, 1, Min({k, Len(found)}))

\* FlatIndex::search
SearchFlat(q, k) ==
    LET all == SortedByDistance([n \in DOMAIN vflat |-> <<NodeGap(q, vflat[n]), n>>])
    IN  SubSeq(all, 1, Min({k, Len(all)}))

VectorIndexesNext == \E q \in VPlaces, layer \in 0..VMaxLayer : InsertVector(q, layer)

-----------------------------------------------------------------------------
\* Every variable has its type.
VectorIndexesTypeOK ==
    /\ vmetric \in VMetrics /\ ventry \in 0..Len(vnodes) /\ Len(vflat) = Len(vnodes)
    /\ \A n \in DOMAIN vnodes : Len(vnodes[n].connections) \in 1..(VMaxLayer + 1)

\* Lists never name the node itself and never grow past twice m, and a
\* connection of a layer leads to a node that has this layer: search_layer never
\* ends up on a node it cannot leave for want of the layer.
ConnectionsHaveLayer ==
    \A n \in DOMAIN vnodes : \A l \in DOMAIN vnodes[n].connections :
        LET list == vnodes[n].connections[l] IN
        /\ Len(list) <= VM * 2 /\ n \notin ToSet(list) /\ IsInjective(list)
        /\ \A x \in ToSet(list) : l \in DOMAIN vnodes[x].connections

\* Until the first list is pruned the graph index loses no vector: asked for all
\* it returns what the flat index returns, in the same order: nearest first, but
\* with Cosine farthest first. Pruning one side of a connection can cut vectors off.
GraphFindsAll ==
    ~vpruned => \A q \in VPlaces :
        LET g == SearchGraph(q, Len(vnodes))
            f == SearchFlat(q, Len(vflat))
            GapAt(i) == Gap(q, vnodes[g[i][2]].place)
        IN  /\ ToSet(g) = ToSet(f) /\ \A i \in DOMAIN g : g[i][1] = f[i][1]
            /\ \A i \in 1..(Len(g) - 1) : IF vmetric = "Cosine" THEN GapAt(i) >= GapAt(i + 1)
                                           ELSE GapAt(i) <= GapAt(i + 1)
=============================================================================
