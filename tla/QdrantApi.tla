----------------------------- MODULE QdrantApi -----------------------------
(***************************************************************************)
(* The Qdrant-compatible handlers (src/src/api/qdrant_compat.rs) with      *)
(* their validation (src/src/api/validation.rs, error.rs) over a shared    *)
(* collection manager. A handler that calls the manager once is one step;  *)
(* scrolling and the snapshot of all collections take several requests or  *)
(* awaits, and other clients write in between.                             *)
(*                                                                         *)
(* A point is its id; a search returns some of the points, as the index is *)
(* approximate. The manager is the map that Collections describes, its     *)
(* engines until their memtables are first rotated: a put of an id whose   *)
(* tombstone the memtable holds is logged and refused, and a log with such *)
(* a put is not opened again; an append or a read may fail.                *)
(***************************************************************************)
EXTENDS Integers, Sequences, FiniteSets, FiniteSetsExt, SequencesExt

CONSTANTS
    QNames,             \* collection names
    QMaxId,             \* ids are 0..QMaxId
    QWindow,            \* the 100000 of qdrant_scroll_points
    QSlack,             \* the 1000 of get_all_vectors
    QLimit,             \* the limit of scrolls
    QRequests,          \* the bodies of upserts: [points, batch]
    QFound,             \* what opening a damaged log may find: [points, tombs]
    QMaxCalls           \* bound: requests that change something

QPoints == [id : [kind : {"integer", "numeral", "text", "invalid"}, n : 0..QMaxId],
            vector : {"plain", "named", "other_name", "wrong_size"}]

\* The points a request is read as: those of its batch, ids and vectors in
\* pairs, if it has one; then its points and what exceeds a pair are ignored.
PointsOf(request) ==
    IF request.batch = {} THEN request.points
    ELSE LET b == CHOOSE b \in request.batch : TRUE
         IN  [k \in DOMAIN b.ids \cap DOMAIN b.vectors |-> [id |-> b.ids[k], vector |-> b.vectors[k]]]

ASSUME QdrantAssumption ==
    /\ IsFiniteSet(QNames) /\ QMaxId \in Nat /\ QWindow \in Nat /\ QSlack \in Nat
    /\ QLimit \in Nat \ {0} /\ QMaxCalls \in Nat
    /\ QFound \subseteq [points : SUBSET (0..QMaxId), tombs : SUBSET (0..QMaxId)]
    /\ \A r \in QRequests : r.points \in Seq(QPoints) /\ PointsOf(r) \in Seq(QPoints)

VARIABLES
    qcols,       \* the collections: whether in the map, the state of the log, the points,
                 \* the tombstones, vector_count, and the points that opening found
    qcalls,      \* requests so far
    qscroll,     \* a client that scrolls: [name, at, next, pages, seen, stable]
    qsnap,       \* a running create_full_snapshot: [todo, failed, wrote, blind, stable]
    qsnapshots   \* the snapshots it has written: [name, points]

QdrantVars == <<qcols, qcalls, qscroll, qsnap, qsnapshots>>

QIds == 0..QMaxId
\* No directory: log is "none". A log is spoilt by a put after a delete of its
\* id, and damaged by an append that failed or a removal that did.
NoCollection == [there |-> FALSE, log |-> "none", points |-> {}, tombs |-> {}, count |-> 0,
                 found |-> {}]
NoScroll == [at |-> "none"]
NoSnap == [at |-> "none"]

QdrantInit ==
    /\ qcols = [n \in QNames |-> NoCollection] /\ qcalls = 0
    /\ qscroll = NoScroll /\ qsnap = NoSnap /\ qsnapshots = {}

-----------------------------------------------------------------------------
(* Validation and conversion                                               *)

\* PointId::as_u64: strings that are not numerals have no id.
as_u64(id) == IF id.kind \in {"integer", "numeral"} THEN {id.n} ELSE {}

\* RequestValidator::is_valid_point_id
is_valid_point_id(id) == id.kind # "invalid"

\* validate_vector_value: each named vector is checked, whatever its name.
validate_vector_value(p) == p.vector # "wrong_size"

validate_point_data(p) == is_valid_point_id(p.id) /\ validate_vector_value(p)

\* Mutant: one good point is enough.
validate_upsert_request_Any(batch) == \E i \in DOMAIN batch : validate_point_data(batch[i])

\* validate_upsert_request: every point, and at least one.
validate_upsert_request(batch) ==
    batch # <<>> /\ \A i \in DOMAIN batch : validate_point_data(batch[i])

\* The vector the core gets: the named vector "default", or an empty one.
HasDimension(p) == p.vector \in {"plain", "named"}

-----------------------------------------------------------------------------
(* A collection                                                            *)

Answers == {"ok", "dimension", "refused", "append"}

\* Collection::upsert takes the vectors in order until one fails, after m: its
\* dimension is wrong, MemTable::put refuses it, or the append to the log fails.
\* The k-th is put under the id in ids[k], if any.
StopsAt(tombs, ids, fits, m, answer) ==
    /\ \A k \in 1..m : ids[k] = {} \/ (fits[k] /\ ids[k] \cap tombs = {})
    /\ \/ answer = "ok" /\ m = Len(ids)
       \/ /\ m < Len(ids) /\ ids[m + 1] # {}
          /\ \/ answer = "dimension" /\ ~fits[m + 1]
             \/ answer = "refused" /\ fits[m + 1] /\ ids[m + 1] \cap tombs # {}
             \/ answer = "append" /\ fits[m + 1]

\* vector_count counts puts. A refused put drops the tombstone, and was logged.
Upserted(c, points, ids, m, answer) ==
    [c EXCEPT !.points = points, !.count = @ + Cardinality({k \in 1..m : ids[k] # {}}),
              !.tombs = IF answer = "refused" THEN @ \ ids[m + 1] ELSE @,
              !.log = IF answer = "append" THEN "damaged"
                      ELSE IF answer = "refused" /\ @ = "sound" THEN "spoilt" ELSE @]

\* Collection::delete of the ids up to one whose append fails.
Erased(c, points, ids, answer) ==
    [c EXCEPT !.points = points, !.tombs = @ \cup ids,
              !.log = IF answer = "append" THEN "damaged" ELSE @]

\* StorageEngine::open: a spoilt log fails. What the log puts into the memtable
\* is not counted.
Opened(c, damaged) ==
    {[there |-> TRUE, log |-> IF c.log = "none" THEN "sound" ELSE c.log, points |-> d.points,
      tombs |-> d.tombs, count |-> 0, found |-> d.points] :
        d \in IF c.log = "spoilt" THEN {} ELSE IF c.log = "damaged" THEN damaged ELSE {c}}

\* create_collection: a failing one may leave a directory, which a restart opens.
Created(c, damaged) ==
    Opened(c, damaged) \cup {c, [c EXCEPT !.log = IF @ = "none" THEN "sound" ELSE @]}

\* load_collections: a directory that does not open is skipped.
Reloaded(c, damaged) ==
    {[c EXCEPT !.there = FALSE]} \cup IF c.log = "none" THEN {} ELSE Opened(c, damaged)

\* delete_collection: remove_dir_all may fail on the way.
Dropped(c, none) == {none} \cup IF c.log = "none" THEN {} ELSE {[c EXCEPT !.there = FALSE, !.log = "damaged"]}

-----------------------------------------------------------------------------
(* What the reading handlers answer                                        *)

\* The points that the map shows.
Visible(c) == IF c.there THEN c.points ELSE {}

\* unread are the ids whose read fails: an error to get_point, and to
\* retrieve_points a point that is not there.
get_point(n, id, unread) ==
    IF ~qcols[n].there \/ id \in unread THEN "error"
    ELSE IF id \in qcols[n].points THEN "found" ELSE "absent"

retrieve_points(n, ids, unread) ==
    {i \in UNION {as_u64(id) : id \in ids} : i \in Visible(qcols[n]) \ unread}

\* search_points, search_batch (one list per search, empty when the collection
\* is gone) and query_points; only search_points applies its filter.
search_points(n, limit, filter) ==
    {r \in SUBSET (Visible(qcols[n]) \cap filter) : Cardinality(r) <= limit}
query_points(n, limit) == search_points(n, limit, QIds)
search_batch(n, searches) == [s \in DOMAIN searches |-> query_points(n, searches[s])]

count_points(n) == qcols[n].count

\* list_collections, collection_exists, get_collection
list_collections == {n \in QNames : qcols[n].there}
collection_exists(n) == n \in list_collections
get_collection(n) == IF collection_exists(n) THEN {[points_count |-> qcols[n].count]} ELSE {}

\* Mutant: the next page starts one point too far.
ScrollPage_Skips(points, start) ==
    LET window == {i \in points : i >= start /\ i <= start + QWindow}
        page == {i \in window : Cardinality({k \in window : k <= i}) <= QLimit}
    IN  [points |-> page, next |-> IF Cardinality(page) = QLimit THEN {Max(page) + 2} ELSE {}]

\* scroll_points: the ids from start on are tried one by one until the limit or
\* the end of the window, points being those whose read does not fail; only a
\* full page has a next offset.
ScrollPage(points, start) ==
    LET window == {i \in points : i >= start /\ i <= start + QWindow}
        page == {i \in window : Cardinality({k \in window : k <= i}) <= QLimit}
    IN  [points |-> page, next |-> IF Cardinality(page) = QLimit THEN {Max(page) + 1} ELSE {}]

\* Collection::get_all_vectors: nothing if nothing was put since the opening.
AllVectors(c, unread) ==
    IF c.count = 0 THEN {} ELSE {i \in c.points \ unread : i < c.count * 2 + QSlack}

-----------------------------------------------------------------------------
(* The handlers that change something                                      *)

Request == qcalls < QMaxCalls /\ qcalls' = qcalls + 1

\* What the jobs that wait must find: the points and collections that stay.
Stay(cols) ==
    /\ qscroll' = IF qscroll.at = "none" THEN qscroll
                  ELSE [qscroll EXCEPT !.stable = qscroll.stable \cap Visible(cols[qscroll.name])]
    /\ qsnap' = IF qsnap.at = "none" THEN qsnap
                ELSE [qsnap EXCEPT !.stable = {s \in qsnap.stable : s.id \in Visible(cols[s.name])}]

qdrant_create_collection(n) ==
    /\ Request /\ ~qcols[n].there
    /\ \E c \in Created(qcols[n], QFound) : qcols' = [qcols EXCEPT ![n] = c]
    /\ Stay(qcols') /\ UNCHANGED <<qsnapshots>>

qdrant_delete_collection(n) ==
    /\ Request
    /\ \E c \in Dropped(qcols[n], NoCollection) : qcols' = [qcols EXCEPT ![n] = c]
    /\ Stay(qcols') /\ UNCHANGED <<qsnapshots>>

\* create_index checks its arguments and does nothing.
qdrant_create_index(n) == Request /\ qcols[n].there /\ UNCHANGED <<qcols, qscroll, qsnap, qsnapshots>>

\* delete_index: the same, for the index of a field.
qdrant_delete_index(n) == qdrant_create_index(n)

\* upsert_points: the whole request is validated, points without a numeric id
\* are dropped, and the rest is upserted until one has no vector, or fails.
qdrant_upsert_points(n, request, answer) ==
    LET batch == PointsOf(request)
        ids == [k \in DOMAIN batch |-> as_u64(batch[k].id)]
        fits == [k \in DOMAIN batch |-> HasDimension(batch[k])]
    IN  /\ Request /\ qcols[n].there /\ UNCHANGED <<qscroll, qsnap, qsnapshots>>
        /\ validate_upsert_request(batch)
        /\ \E m \in 0..Len(ids) :
             /\ StopsAt(qcols[n].tombs, ids, fits, m, answer)
             /\ qcols' = [qcols EXCEPT ![n] = Upserted(@, @.points \cup UNION {ids[k] : k \in 1..m},
                                                      ids, m, answer)]

\* delete_points; a filter alone is refused.
qdrant_delete_points(n, ids) ==
    /\ Request /\ qcols[n].there
    /\ LET numbers == UNION {as_u64(id) : id \in ids} IN
       \E gone \in SUBSET numbers, answer \in {"ok", "append"} :
         /\ answer = "ok" => gone = numbers
         /\ qcols' = [qcols EXCEPT ![n] = Erased(@, @.points \ gone, gone, answer)]
    /\ Stay(qcols') /\ UNCHANGED <<qsnapshots>>

\* delete_point: the id of the path is a number.
qdrant_delete_point(n, id) == qdrant_delete_points(n, {[kind |-> "integer", n |-> id]})

\* A client reads page after page. A read that fails is skipped.
qdrant_scroll_points(n) ==
    /\ qcols[n].there
    /\ \E unread \in SUBSET qcols[n].points :
       LET points == qcols[n].points \ unread IN
       \/ /\ Request /\ qscroll.at = "none"
          /\ LET p == ScrollPage(points, 0) IN
             qscroll' = [name |-> n, at |-> IF p.next = {} THEN "done" ELSE "more", next |-> p.next,
                         seen |-> SetToSeq(p.points), stable |-> points]
       \/ /\ qscroll.at = "more" /\ qscroll.name = n /\ UNCHANGED qcalls
          /\ LET p == ScrollPage(points, CHOOSE o \in qscroll.next : TRUE) IN
             qscroll' = [qscroll EXCEPT !.at = IF p.next = {} THEN "done" ELSE "more",
                                        !.next = p.next, !.seen = @ \o SetToSeq(p.points),
                                        !.stable = @ \ unread]
    /\ UNCHANGED <<qcols, qsnap, qsnapshots>>

BeginSnapshot(names) ==
    /\ Request /\ qsnap.at = "none"
    /\ qsnap' = [at |-> "running", todo |-> names, failed |-> {}, wrote |-> {}, blind |-> {},
                 stable |-> {s \in [name : names, id : QIds] : s.id \in Visible(qcols[s.name])}]
    /\ qsnapshots' = {}
    /\ UNCHANGED <<qcols, qscroll>>

\* create_full_snapshot: the names are listed, then each collection is read and
\* written; one that is gone or fails is skipped.
qdrant_create_full_snapshot == BeginSnapshot(list_collections)

\* create_snapshot: a single collection.
qdrant_create_snapshot(n) == qcols[n].there /\ BeginSnapshot({n})

SnapshotNext ==
    /\ qsnap.at = "running" /\ qsnap.todo # {}
    /\ \E n \in qsnap.todo :
         \/ \E unread \in SUBSET qcols[n].points :
              /\ qcols[n].there
              /\ qsnapshots' = qsnapshots \cup {[name |-> n, points |-> AllVectors(qcols[n], unread)]}
              /\ qsnap' = [qsnap EXCEPT !.todo = @ \ {n}, !.wrote = @ \cup {n},
                                        !.blind = IF qcols[n].count = 0 THEN @ \cup {n} ELSE @,
                                        !.stable = {s \in @ : s.name # n \/ s.id \notin unread}]
         \/ /\ qsnap' = [qsnap EXCEPT !.todo = @ \ {n}, !.failed = @ \cup {n}]
            /\ UNCHANGED qsnapshots
    /\ UNCHANGED <<qcols, qcalls, qscroll>>

\* The answer is an error only if no collection was written.
SnapshotAnswered(ok) ==
    /\ qsnap.at = "running" /\ qsnap.todo = {}
    /\ ok <=> qsnap.wrote # {}
    /\ qsnap' = [qsnap EXCEPT !.at = "none"]
    /\ UNCHANGED <<qcols, qcalls, qscroll, qsnapshots>>

\* The process stops and starts; the client that scrolls goes on.
qdrant_restart ==
    /\ Request
    /\ qcols' \in [QNames -> UNION {Reloaded(qcols[n], QFound) : n \in QNames}]
    /\ \A n \in QNames : qcols'[n] \in Reloaded(qcols[n], QFound)
    /\ qscroll' = IF qscroll.at = "none" THEN qscroll
                  ELSE [qscroll EXCEPT !.stable = qscroll.stable \cap Visible(qcols'[qscroll.name])]
    /\ qsnap' = NoSnap /\ qsnapshots' = {}

QdrantNext ==
    \/ \E n \in QNames :
         \/ qdrant_create_collection(n) \/ qdrant_delete_collection(n) \/ qdrant_scroll_points(n)
         \/ qdrant_create_index(n) \/ qdrant_delete_index(n) \/ qdrant_create_snapshot(n)
         \/ \E i \in QIds : qdrant_delete_point(n, i)
         \/ \E r \in QRequests :
              \/ qdrant_delete_points(n, {r.points[k].id : k \in DOMAIN r.points})
              \/ \E a \in Answers : qdrant_upsert_points(n, r, a)
    \/ qdrant_create_full_snapshot \/ SnapshotNext \/ qdrant_restart
    \/ \E ok \in BOOLEAN : SnapshotAnswered(ok)
-----------------------------------------------------------------------------
\* Every variable has its type.
QdrantTypeOK ==
    /\ qcols \in [QNames -> [there : BOOLEAN, log : {"none", "sound", "spoilt", "damaged"},
                             points : SUBSET QIds, tombs : SUBSET QIds, count : Nat,
                             found : SUBSET QIds]]
    /\ qscroll.at \in {"none", "more", "done"} /\ qsnap.at \in {"none", "running"}
    /\ qsnapshots \subseteq [name : QNames, points : SUBSET QIds]

\* Following next_page_offset returns no point twice, and every point that was
\* there from the first page to the last and whose reads succeeded, whatever is
\* written in between. A point is missed only behind a stretch of ids as long as
\* the window of scroll_points in which fewer points stayed than make a page.
ScrollComplete ==
    qscroll.at \in {"more", "done"} =>
        /\ IsInjective(qscroll.seen)
        /\ qscroll.at = "done" =>
             \A i \in qscroll.stable \ ToSet(qscroll.seen) :
                 \E s \in QIds : /\ s + QWindow < i
                                /\ Cardinality({k \in qscroll.stable : k \in s..(s + QWindow)}) < QLimit

\* The paths a point can be read on agree, also on one whose read fails:
\* get_point, retrieve_points under any spelling of the id, a page that starts at
\* the id; searches and batches of searches return nothing else. The count is
\* never below the points put since the collection was opened.
ReadPathsAgree ==
    \A n \in QNames, i \in QIds, unread \in SUBSET QIds : qcols[n].there =>
            /\ \A kind \in {"integer", "numeral"} :
                 get_point(n, i, unread) = "found"
                     <=> retrieve_points(n, {[kind |-> kind, n |-> i]}, unread) = {i}
            /\ get_point(n, i, unread) = "found" <=> i \in ScrollPage(qcols[n].points \ unread, i).points
            /\ \A r \in search_batch(n, <<QLimit>>)[1] : \A k \in r : get_point(n, k, {}) = "found"
            /\ count_points(n) >= Cardinality(qcols[n].points \ qcols[n].found)
            /\ \A c \in get_collection(n) : c.points_count = count_points(n)

\* A snapshot of all collections has, for each collection it could write, every
\* point below the slack of get_all_vectors that was there all the time and could
\* be read. A collection nothing was put into since it was opened counts no
\* vectors: its snapshot is empty.
FullSnapshotComplete ==
    qsnap.at = "running" =>
        \A s \in qsnap.stable : s.name \in qsnap.wrote \ qsnap.blind /\ s.id < QSlack =>
            \E w \in qsnapshots : w.name = s.name /\ s.id \in w.points

\* An upsert answered with success has stored every point it was read as that has
\* a numeric id. One that passed validation stops half way only where the log
\* fails, at an id whose deletion the memtable still holds, or at a vector under
\* another name than "default": never because of a dimension.
UpsertWhole ==
    [][\A n \in QNames, r \in QRequests, a \in Answers :
           qdrant_upsert_points(n, r, a) =>
               LET batch == PointsOf(r) IN
               /\ a = "ok" => \A k \in DOMAIN batch : as_u64(batch[k].id) \subseteq qcols'[n].points
               /\ a = "refused" => \E k \in DOMAIN batch : as_u64(batch[k].id) \cap qcols[n].tombs # {}
               /\ a = "dimension" => \E k \in DOMAIN batch : batch[k].vector = "other_name"]_QdrantVars
=============================================================================
