---------------------------- MODULE MappedStore ----------------------------
(***************************************************************************)
(* The memory-mapped vector file and the disk index over it                *)
(* (src/src/storage/mmap.rs). The file keeps its slots when the process    *)
(* ends; the number of vectors in it is kept in memory alone. An index     *)
(* holds the storage behind an Arc, so nothing is appended while it lives. *)
(* A beam search is one step for each turn of its loop.                    *)
(*                                                                         *)
(* Vectors and codes are single numbers, so both distances are differences.*)
(***************************************************************************)
EXTENDS Integers, Sequences, FiniteSets, FiniteSetsExt, SequencesExt

CONSTANTS
    YPlaces,      \* vectors and codes, naturals above 0
    YCapacity,    \* slots of the file
    YNeighbours,  \* the lists of neighbours a caller gives to add
    YBeam,        \* beam_width
    YList,        \* search_list_size
    YMaxNodes,    \* bound: vectors of the index
    YMaxAppends   \* bound: appends

ASSUME MappedAssumption ==
    /\ YPlaces \subseteq Nat \ {0} /\ IsFiniteSet(YPlaces) /\ YCapacity \in Nat \ {0}
    /\ YNeighbours \subseteq Seq(Nat) /\ YBeam \in Nat \ {0} /\ YList \in Nat \ {0} /\ YMaxNodes \in Nat /\ YMaxAppends \in Nat

VARIABLES
    mapFile,    \* the slots, 0 for one never written
    mapCount,   \* count
    mapGiven,   \* ghost: the vectors appended since the file was opened
    mapCalls,   \* appends so far
    mapIndex,   \* the index: [there, codes, graph, entry]
    mapSearch   \* a running or finished search_beam

MappedVars == <<mapFile, mapCount, mapGiven, mapCalls, mapIndex, mapSearch>>

Far == 1000      \* f32::MAX
NoIndex == [there |-> FALSE, codes |-> <<>>, graph |-> <<>>, entry |-> 0]
NoBeam == [at |-> "none"]
Nodes == 0..YMaxNodes

MappedInit ==
    /\ mapFile = [i \in 0..(YCapacity - 1) |-> 0] /\ mapCount = 0 /\ mapGiven = <<>>
    /\ mapCalls = 0 /\ mapIndex = NoIndex /\ mapSearch = NoBeam

-----------------------------------------------------------------------------
(* MmapVectorStorage                                                       *)

\* create truncates the file and allocates it anew.
create_store ==
    /\ ~mapIndex.there
    /\ mapFile' = [i \in DOMAIN mapFile |-> 0] /\ mapCount' = 0 /\ mapGiven' = <<>>
    /\ UNCHANGED <<mapCalls, mapIndex, mapSearch>>

\* open, after a restart: the slots are there, the count starts at 0.
open_store ==
    /\ mapCount' = 0 /\ mapGiven' = <<>> /\ mapIndex' = NoIndex /\ mapSearch' = NoBeam
    /\ UNCHANGED <<mapFile, mapCalls>>

\* get, {} for None.
get_vector(idx) == IF idx >= mapCount THEN {} ELSE {mapFile[idx]}

\* append: refused for another dimension, and when the file is full.
append(v, fits) ==
    LET ok == fits /\ mapCount < YCapacity IN
    /\ ~mapIndex.there /\ mapCalls < YMaxAppends
    /\ mapCalls' = mapCalls + 1
    /\ mapFile' = IF ok THEN [mapFile EXCEPT ![mapCount] = v] ELSE mapFile
    /\ mapCount' = IF ok THEN mapCount + 1 ELSE mapCount
    /\ mapGiven' = IF ok THEN Append(mapGiven, v) ELSE mapGiven
    /\ UNCHANGED <<mapIndex, mapSearch>>

-----------------------------------------------------------------------------
(* DiskANNIndex                                                            *)

new_index ==
    /\ ~mapIndex.there
    /\ mapIndex' = [NoIndex EXCEPT !.there = TRUE]
    /\ UNCHANGED <<mapFile, mapCount, mapGiven, mapCalls, mapSearch>>

\* add: the caller names the neighbours; nothing links back.
add_node(code, neighbors) ==
    /\ mapIndex.there /\ Len(mapIndex.codes) < YMaxNodes /\ mapSearch = NoBeam
    /\ mapIndex' = [mapIndex EXCEPT !.codes = Append(@, code), !.graph = Append(@, neighbors)]
    /\ UNCHANGED <<mapFile, mapCount, mapGiven, mapCalls, mapSearch>>

set_entry_point(id) ==
    /\ mapIndex.there /\ mapSearch = NoBeam /\ id # mapIndex.entry
    /\ mapIndex' = [mapIndex EXCEPT !.entry = id]
    /\ UNCHANGED <<mapFile, mapCount, mapGiven, mapCalls, mapSearch>>

Gap(a, b) == IF a < b THEN b - a ELSE a - b

\* pq_distance: a node that was never added is as far as can be.
pq_distance(query, id) == IF id < Len(mapIndex.codes) THEN Gap(query, mapIndex.codes[id + 1]) ELSE Far

\* full: whether the caller gave the vector itself, equal to its code here.
StartBeam(query, full, k) ==
    /\ mapIndex.there /\ mapSearch = NoBeam
    /\ mapSearch' = [at |-> "walking", query |-> query, full |-> full, k |-> k, visited |-> {},
                     candidates |-> {<<0, mapIndex.entry>>}, results |-> {}, answer |-> <<>>]
    /\ UNCHANGED <<mapFile, mapCount, mapGiven, mapCalls, mapIndex>>

\* The heap gives its greatest pair: the candidate that is farthest away.
Popped(s) == CHOOSE c \in s.candidates :
                \A d \in s.candidates : d[1] < c[1] \/ (d[1] = c[1] /\ d[2] <= c[2])

\* The neighbours, beam_width of them at a time.
Chunked(neighbors) ==
    UNION {{neighbors[i] : i \in {j \in DOMAIN neighbors : (j - 1) \div YBeam = c}} : c \in 0..Len(neighbors)}

\* With the full vector, the distance to what the storage holds, and the
\* neighbours it does not hold are left out; otherwise the codes.
Expanded(s, id) ==
    LET near == IF id < Len(mapIndex.graph) THEN Chunked(mapIndex.graph[id + 1]) ELSE {} IN
    IF s.full THEN UNION {{<<Gap(s.query, v), n>> : v \in get_vector(n)} : n \in near}
    ELSE {<<pq_distance(s.query, n), n>> : n \in near}

\* One turn of the loop.
Turn ==
    LET s == mapSearch  c == Popped(s)  id == c[2]  seen == s.visited \cup {id} IN
    /\ s.at = "walking" /\ s.candidates # {}
    /\ mapSearch' =
         IF id \in s.visited THEN [s EXCEPT !.candidates = @ \ {c}]
         ELSE [s EXCEPT !.visited = seen,
                        !.results = @ \cup {<<pq_distance(s.query, id), id>>},
                        !.candidates = (@ \ {c}) \cup Expanded(s, id),
                        !.at = IF Cardinality(seen) >= YList THEN "ending" ELSE @]
    /\ UNCHANGED <<mapFile, mapCount, mapGiven, mapCalls, mapIndex>>

Ordered(taken) == SetToSortSeq(taken, LAMBDA a, b : a[1] < b[1] \/ (a[1] = b[1] /\ a[2] < b[2]))

\* The heap of results is iterated in no particular order, k of them are
\* taken, and those are sorted.
EndBeam ==
    LET s == mapSearch IN
    /\ s.at = "ending" \/ (s.at = "walking" /\ s.candidates = {})
    /\ \E taken \in kSubset(Min({s.k, Cardinality(s.results)}), s.results) :
         mapSearch' = [s EXCEPT !.at = "done", !.candidates = {}, !.answer = Ordered(taken)]
    /\ UNCHANGED <<mapFile, mapCount, mapGiven, mapCalls, mapIndex>>

MappedNext ==
    \/ create_store \/ open_store \/ new_index \/ Turn \/ EndBeam
    \/ \E v \in YPlaces, fits \in BOOLEAN : append(v, fits)
    \/ \E v \in YPlaces, near \in YNeighbours : add_node(v, near)
    \/ \E id \in Nodes : set_entry_point(id)
    \/ \E q \in YPlaces, full \in BOOLEAN, k \in 1..2 : StartBeam(q, full, k)

-----------------------------------------------------------------------------
(* Properties                                                              *)

\* Types, and the limit of the search list.
MappedTypeOK ==
    /\ mapFile \in [0..(YCapacity - 1) -> YPlaces \cup {0}] /\ mapCount \in 0..YCapacity
    /\ Len(mapIndex.codes) = Len(mapIndex.graph)
    /\ mapSearch # NoBeam => Cardinality(mapSearch.visited) <= YList

\* The vectors appended since the file was opened are read at the indices
\* append returned, and no others are, whatever an earlier process left in the
\* file and however many appends were refused (mmap.rs, get and append).
AppendsReadBack ==
    /\ mapCount = Len(mapGiven)
    /\ \A i \in 0..YCapacity : get_vector(i) = IF i < Len(mapGiven) THEN {mapGiven[i + 1]} ELSE {}

\* The nodes a search can come to: those the storage holds, when it is asked
\* with the full vector.
Follows(a, b) ==
    /\ a < Len(mapIndex.graph) /\ \E i \in DOMAIN mapIndex.graph[a + 1] : mapIndex.graph[a + 1][i] = b
    /\ mapSearch.full => b < mapCount

Reach == LET next(r) == r \cup {b \in Nodes : \E a \in r : Follows(a, b)}
         IN next(next(next(next({mapIndex.entry}))))

\* A search that was not cut by its list has seen every node it can come to
\* from the entry point, and answers k of them, or all, each once, nearest
\* first and with its own distance (mmap.rs, search_beam).
BeamWhole ==
    mapSearch # NoBeam /\ mapSearch.at = "done" =>
        LET s == mapSearch  a == s.answer IN
        /\ s.visited \subseteq Reach
        /\ Cardinality(s.visited) < YList => s.visited = Reach
        /\ Len(a) = Min({s.k, Cardinality(s.visited)}) /\ IsInjective(a)
        /\ \A i \in DOMAIN a : a[i][2] \in s.visited /\ a[i][1] = pq_distance(s.query, a[i][2])
        /\ \A i, j \in DOMAIN a : i < j => a[i][1] <= a[j][1]

=============================================================================
