--------------------------- MODULE ClusterSearch ---------------------------
(***************************************************************************)
(* Searches across the cluster and the replication calls of one node to    *)
(* another (src/src/cluster/storage_router.rs, server.rs, client.rs).      *)
(*                                                                         *)
(* A broadcast search asks every active node in parallel and gathers what  *)
(* they answer.  A node that is asked searches a single shard: it draws a  *)
(* random id and searches where that id would live, which is itself or one *)
(* more node, which draws again.  Errors of a node that was asked become   *)
(* empty results; only what fails on the way to the first node counts as a *)
(* failure.                                                                *)
(***************************************************************************)
EXTENDS Integers, Sequences, FiniteSets

LOCAL INSTANCE SequencesExt

CONSTANTS
    UNodes,         \* nodes
    UHolds,         \* what the nodes may store: node -> [there, ids], where
                    \* there says whether the node has the collection
    UTopK,          \* results that a search asks for
    UMaxEntries,    \* bound on the entries of a replication call
    UMaxStops       \* bound on the nodes that stop

VARIABLES
    uhold,          \* what each node stores
    uowner,         \* node -> the nodes that own shards in its topology
    ulinks,         \* pairs with a connection
    ustopped,       \* nodes that do not answer
    search,         \* the broadcast search
    task,           \* the tasks of the search, by the node each one asks
    repl            \* the replication call

SearchVars == <<uhold, uowner, ulinks, ustopped, search, task, repl>>

uenv == <<uhold, uowner, ulinks>>

Score(id) == id

NoTask == [at |-> "none"]

SearchInit ==
    /\ uhold \in UHolds
    /\ uowner \in {[n \in UNodes |-> UNodes], [n \in UNodes |-> {}]}
    /\ ulinks \in {{p \in UNodes \X UNodes : p[1] # p[2]}, {}}
    /\ ustopped = {}
    /\ search = [at |-> "idle"]
    /\ task = [n \in UNodes |-> NoTask]
    /\ repl = [at |-> "idle"]

-----------------------------------------------------------------------------
(* Ranking *)

Best(ids, k) ==
    LET order == SetToSortSeq(ids, LAMBDA a, b : Score(a) > Score(b))
    IN  SubSeq(order, 1, IF Len(order) < k THEN Len(order) ELSE k)

(* Sorted by score, equal ones as they came, then cut. *)
Ranked(results) ==
    LET sorted == SortSeq(results, LAMBDA a, b : Score(a.id) > Score(b.id))
    IN  SubSeq(sorted, 1, IF Len(sorted) < UTopK THEN Len(sorted) ELSE UTopK)

(* A search of the node's own collection: an unknown collection is an error. *)
local_search(n) ==
    IF uhold[n].there THEN [ok |-> TRUE, ids |-> Best(uhold[n].ids, UTopK)]
    ELSE [ok |-> FALSE, ids |-> << >>]

-----------------------------------------------------------------------------
(* The search *)

(* scatter_search: one task for each active node, the asking one too. *)
scatter_search(n) ==
    /\ search.at = "idle" /\ repl.at = "idle" /\ n \notin ustopped
    /\ search' = [at |-> "gather", node |-> n, results |-> << >>, failed |-> 0]
    /\ task' = [m \in UNodes |-> [at |-> "sent", cur |-> m]]
    /\ UNCHANGED <<uenv, ustopped, repl>>

(* forward_batch_search: without a connection or with a stopped node the   *)
(* task fails; a node has no connection to itself.                         *)
forward_batch_search(m) ==
    /\ task[m].at = "sent"
    /\ task' = [task EXCEPT ![m] =
          IF <<search.node, m>> \in ulinks /\ m \notin ustopped
          THEN [at |-> "asked", cur |-> m] ELSE [at |-> "failed"]]
    /\ UNCHANGED <<uenv, ustopped, search, repl>>

(* What the client takes from an answer: the results, not the error. *)
AnswerOf(result) == [at |-> "answered", ids |-> result.ids]

(* The handler search of node t searches a single shard again. *)
HandledAt(t) == [at |-> "asked", cur |-> t]

forward_search(from, to) ==
    IF <<from, to>> \in ulinks /\ to \notin ustopped THEN HandledAt(to)
    ELSE AnswerOf([ids |-> << >>])

(* The node that is asked draws an id: it searches itself, also without    *)
(* nodes in its topology, or asks the owner, which then does the same.     *)
SearchHere(m) ==
    /\ task[m].at = "asked" /\ task[m].cur \notin ustopped
    /\ task[m].cur \in uowner[task[m].cur] \/ uowner[task[m].cur] = {}
    /\ task' = [task EXCEPT ![m] = AnswerOf(local_search(task[m].cur))]
    /\ UNCHANGED <<uenv, ustopped, search, repl>>

remote_search(m, t) ==
    /\ task[m].at = "asked" /\ task[m].cur \notin ustopped
    /\ t # task[m].cur /\ t \in uowner[task[m].cur]
    /\ task' = [task EXCEPT ![m] = forward_search(task[m].cur, t)]
    /\ UNCHANGED <<uenv, ustopped, search, repl>>

(* REMOTE_TIMEOUT of the asking node, or of a node on the way: the one is  *)
(* a failure, the other an empty answer.                                   *)
SearchTimeout(m) ==
    /\ task[m].at = "asked"
    /\ task' \in {[task EXCEPT ![m] = [at |-> "failed"]]}
           \cup (IF task[m].cur = m THEN {}
                 ELSE {[task EXCEPT ![m] = AnswerOf([ids |-> << >>])]})
    /\ UNCHANGED <<uenv, ustopped, search, repl>>

(* The gathering task takes the tasks in the order in which they end. *)
Gather(m) ==
    /\ search.at = "gather" /\ task[m].at \in {"answered", "failed"}
    /\ search' = IF task[m].at = "failed" THEN [search EXCEPT !.failed = @ + 1]
                 ELSE [search EXCEPT !.results = @ \o
                          [i \in DOMAIN task[m].ids |-> [id |-> task[m].ids[i], node |-> m]]]
    /\ task' = [task EXCEPT ![m] = [at |-> "gathered", was |-> task[m].at]]
    /\ UNCHANGED <<uenv, ustopped, repl>>

Outcome(results, failed) == IF results = << >> /\ failed > 0 THEN "error" ELSE "ok"

Aggregate ==
    /\ search.at = "gather" /\ \A m \in UNodes : task[m].at = "gathered"
    /\ search' = [at |-> "done", node |-> search.node, results |-> search.results,
                  outcome |-> Outcome(search.results, search.failed),
                  answer |-> Ranked(search.results)]
    /\ UNCHANGED <<uenv, ustopped, task, repl>>

UStop(n) ==
    /\ search.at = "gather" /\ Cardinality(ustopped) < UMaxStops /\ n \notin ustopped
    /\ search.node # n
    /\ ustopped' = ustopped \cup {n}
    /\ UNCHANGED <<uenv, search, task, repl>>

-----------------------------------------------------------------------------
(* Replication calls: the receiver inserts entry by entry, each may fail.  *)

(* The first sequence number is base_sequence; a single entry has 0. *)
client_batch_replicate(kind, n, base) ==
    /\ repl.at = "idle" /\ search.at = "idle"
    /\ kind = "single" => n = 1 /\ base = 0
    /\ repl' = [at |-> "entries", kind |-> kind, count |-> n, base |-> base, next |-> 1,
                stored |-> {}, applied |-> 0, failed |-> 0, highest |-> base]
    /\ UNCHANGED <<uenv, ustopped, search, task>>

MaxOf(a, b) == IF a > b THEN a ELSE b

(* One call of StorageRouter::insert by the handler. *)
Applied(r, ok) ==
    LET seq == r.base + r.next - 1
    IN  IF ok THEN [r EXCEPT !.next = @ + 1, !.stored = @ \cup {seq}, !.applied = @ + 1,
                             !.highest = MaxOf(@, seq)]
        ELSE [r EXCEPT !.next = @ + 1, !.failed = @ + 1]

ReplicateEntry(ok) ==
    /\ repl.at = "entries" /\ repl.next <= repl.count
    /\ repl' = Applied(repl, ok)
    /\ UNCHANGED <<uenv, ustopped, search, task>>

(* A stream may break: the call fails, what was stored stays stored. *)
StreamBreaks ==
    /\ repl.at = "entries" /\ repl.kind = "stream" /\ repl.next <= repl.count
    /\ repl' = [repl EXCEPT !.at = "answered", !.next = 0]
    /\ UNCHANGED <<uenv, ustopped, search, task>>

(* A batch succeeds when one entry did, the others when none failed. *)
ReplicateDone ==
    /\ repl.at = "entries" /\ repl.next > repl.count
    /\ repl' = [repl EXCEPT !.at = "answered"]
    /\ UNCHANGED <<uenv, ustopped, search, task>>

ReplicateOk(r) ==
    /\ r.next > r.count
    /\ IF r.kind = "batch" THEN r.applied > 0 ELSE r.failed = 0

-----------------------------------------------------------------------------
SearchStep ==
    \/ \E m \in UNodes :
         \/ forward_batch_search(m)
         \/ SearchHere(m)
         \/ \E t \in UNodes : remote_search(m, t)
         \/ Gather(m)
    \/ Aggregate

SearchNext ==
    \/ \E n \in UNodes : scatter_search(n) \/ UStop(n)
    \/ SearchStep
    \/ \E m \in UNodes : SearchTimeout(m)
    \/ \E kind \in {"single", "batch", "stream"}, n \in 1 .. UMaxEntries, base \in {0, 5} :
         client_batch_replicate(kind, n, base)
    \/ \E ok \in BOOLEAN : ReplicateEntry(ok)
    \/ StreamBreaks
    \/ ReplicateDone

(* A task of the search goes on, or the timer of the one that asks a node   *)
(* runs out.                                                               *)
SearchTurn(m) == IF m \in UNodes THEN SearchTimeout(m) ELSE SearchStep

-----------------------------------------------------------------------------
(* Properties *)

(* The state has its type.                                                 *)
SearchTypeOK ==
    /\ ustopped \subseteq UNodes
    /\ search.at \in {"idle", "gather", "done"}
    /\ \A m \in UNodes : task[m].at \in {"none", "sent", "asked", "answered", "failed", "gathered"}
    /\ search.at = "gather" => search.failed <= Cardinality(UNodes)
    /\ repl.at \in {"idle", "entries", "answered"}

(* Whatever the order in which nodes answer, wherever their random draws   *)
(* send the query and whichever of them fail, the answer holds the best    *)
(* scores of all that was gathered, in order, and each result is stored by *)
(* some node.                                                              *)
AnswerBest ==
    search.at = "done" =>
        /\ \A i \in 1 .. Len(search.answer) - 1 :
             Score(search.answer[i].id) >= Score(search.answer[i + 1].id)
        /\ \A r \in ToSet(search.results) \ ToSet(search.answer) :
             /\ Len(search.answer) = UTopK
             /\ \A i \in DOMAIN search.answer : Score(search.answer[i].id) >= Score(r.id)
        /\ \A r \in ToSet(search.answer) : \E n \in UNodes : r.id \in uhold[n].ids

(* A search is refused only when no result was gathered and a node could   *)
(* not be asked: the failure of some nodes alone does not hide what the    *)
(* others found.                                                           *)
PartialAnswers ==
    search.at = "done" =>
        (search.outcome = "error" <=>
            search.results = << >> /\ \E m \in UNodes : task[m].was = "failed")

(* The answer to a replication call counts what is stored: the applied     *)
(* count and the highest sequence number are those of stored entries, a    *)
(* call for one entry or a stream succeeds only when all of its entries    *)
(* are stored, and a batch only when at least one is.                      *)
ReplicationReported ==
    repl.at = "answered" =>
        /\ repl.applied = Cardinality(repl.stored)
        /\ repl.stored # {} => repl.highest \in repl.stored
        /\ ReplicateOk(repl) =>
             IF repl.kind = "batch" THEN repl.stored # {}
             ELSE repl.stored = repl.base .. repl.base + repl.count - 1

(* The search is under way: it ends, although a query may be passed from   *)
(* node to node for as long as the draws go on and nodes stop on the way.  *)
SearchWaits == search.at = "gather"

=============================================================================
