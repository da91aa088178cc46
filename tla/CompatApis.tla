----------------------------- MODULE CompatApis -----------------------------
(***************************************************************************)
(* The Weaviate, Milvus, REST and gRPC interfaces (src/src/api/            *)
(* weaviate_compat.rs, milvus_compat.rs, rest.rs, grpc.rs), which serve    *)
(* the same collections at the same time. The Weaviate interface also      *)
(* keeps a registry of classes in memory: creating and deleting a class    *)
(* are two steps each, and a batch of objects is one step per object.      *)
(*                                                                         *)
(* A point is the number of the call that wrote it; 0 is no point. A       *)
(* collection is what it is to QdrantApi, except that reads do not fail.   *)
(*                                                                         *)
(* The end of the module states what these interfaces and the Qdrant one   *)
(* (QdrantApi) keep together.                                              *)
(***************************************************************************)
EXTENDS QdrantApi

CONSTANTS
    WNames,             \* names of collections and classes
    WIds,               \* numeric ids, positive
    WHash,              \* the id that the hash of a text id gives
    WFound,             \* what opening a damaged log may find: [points, tombs]
    WTasks,             \* concurrent requests of the Weaviate interface
    WMaxCalls,          \* bound: calls that change something
    WMaxRestarts        \* bound: restarts

ASSUME CompatAssumption ==
    /\ IsFiniteSet(WNames) /\ IsFiniteSet(WIds) /\ WIds \subseteq Nat \ {0} /\ {1, 2, WHash} \subseteq WIds
    /\ WFound \subseteq [points : [WIds -> Nat], tombs : SUBSET WIds]
    /\ WMaxCalls \in Nat /\ WMaxRestarts \in Nat

VARIABLES
    wcols,       \* the collections, as in QdrantApi
    wreg,        \* schema_registry
    wjob,        \* requests between two steps
    wcalls, wrestarts,
    wacked,      \* history: per collection and id, the last call answered with success,
                 \* forgotten when a restart does not open the collection or its log is damaged
    wloose       \* history: classes that came apart from their collection (see below)

CompatVars == <<wcols, wreg, wjob, wcalls, wrestarts, wacked, wloose>>

NoPoints == [i \in WIds |-> 0]
Absent == [there |-> FALSE, log |-> "none", points |-> NoPoints, tombs |-> {}, count |-> 0,
           found |-> NoPoints]
NoRequest == [at |-> "none"]
\* An object or entity: a numeral, a text or no id, and a vector that fits or not.
Text == -1
NoId == 0
WObjects == [id : WIds \cup {Text, NoId}, fits : BOOLEAN]

CompatInit ==
    /\ wcols = [n \in WNames |-> Absent] /\ wreg = {}
    /\ wjob = [t \in WTasks |-> NoRequest] /\ wcalls = 0 /\ wrestarts = 0
    /\ wacked = [n \in WNames |-> NoPoints] /\ wloose = {}

Called == wcalls < WMaxCalls /\ wcalls' = wcalls + 1

\* The id an object is stored under: its numeral, or the hash of its text; a
\* missing id is a new UUID, hashed too.
numeric_id(id) == IF id \in WIds THEN id ELSE WHash

\* What opening a damaged log may find by now.
Survivors == {d \in WFound : \A i \in WIds : d.points[i] <= wcalls}

-----------------------------------------------------------------------------
(* Collection::upsert and Collection::delete as the interfaces use them     *)

Misfits(batch) == {k \in DOMAIN batch : ~batch[k].fits}

\* The call puts the batch under the ids, up to the first vector that fails.
PutBatch(n, batch, ids, call, answer) ==
    \E m \in 0..Len(batch) :
      /\ StopsAt(wcols[n].tombs, [k \in DOMAIN batch |-> {ids[k]}], [k \in DOMAIN batch |-> batch[k].fits],
                 m, answer)
      /\ wcols' = [wcols EXCEPT ![n] =
             Upserted(@, [i \in WIds |-> IF \E k \in 1..m : ids[k] = i THEN call ELSE wcols[n].points[i]],
                      [k \in DOMAIN batch |-> {ids[k]}], m, answer)]
      /\ wacked' = IF answer # "ok" THEN wacked
                   ELSE [wacked EXCEPT ![n] = [i \in WIds |-> IF \E k \in 1..m : ids[k] = i THEN call
                                                             ELSE wacked[n][i]]]

\* The collection without the point, or with a log whose append failed.
WithoutPoint(c, id) == Erased(c, [c.points EXCEPT ![id] = 0], {id}, "ok")
NotErased(c) == Erased(c, c.points, {}, "append")

CreateCollection(n) == \E c \in Created(wcols[n], Survivors) : wcols' = [wcols EXCEPT ![n] = c]

DropCollection(n) ==
    /\ \E c \in Dropped(wcols[n], Absent) : wcols' = [wcols EXCEPT ![n] = c]
    /\ wacked' = [wacked EXCEPT ![n] = NoPoints]

-----------------------------------------------------------------------------
(* Weaviate: classes                                                       *)

\* create_schema: the collection, which must be new, then the entry.
create_schema(t, c) ==
    /\ Called /\ wjob[t] = NoRequest /\ ~wcols[c].there
    /\ CreateCollection(c)
    /\ wjob' = IF wcols'[c].there THEN [wjob EXCEPT ![t] = [at |-> "register", class |-> c]] ELSE wjob
    /\ UNCHANGED <<wreg, wrestarts, wacked, wloose>>

RegisterClass(t) ==
    /\ wjob[t].at = "register"
    /\ wreg' = wreg \cup {wjob[t].class} /\ wjob' = [wjob EXCEPT ![t] = NoRequest]
    /\ UNCHANGED <<wcols, wcalls, wrestarts, wacked, wloose>>

\* update_class writes the entry, whether there is a collection or not.
update_class(c) ==
    /\ Called /\ wreg' = wreg \cup {c}
    /\ wloose' = IF wcols[c].there THEN wloose ELSE wloose \cup {c}
    /\ UNCHANGED <<wcols, wjob, wrestarts, wacked>>

Registering(c) == \E t \in WTasks : wjob[t].at = "register" /\ wjob[t].class = c

\* delete_class: the entry, then the collection. A class that came apart stays so
\* as long as a create_schema has yet to enter it.
delete_class(t, c) ==
    /\ Called /\ wjob[t] = NoRequest /\ c \in wreg
    /\ wreg' = wreg \ {c} /\ wloose' = IF Registering(c) THEN wloose ELSE wloose \ {c}
    /\ wjob' = [wjob EXCEPT ![t] = [at |-> "drop", class |-> c]]
    /\ UNCHANGED <<wcols, wrestarts, wacked>>

\* delete_collection, of whatever has the name by now: a class that was updated
\* or created anew in between loses its collection.
DropClass(t) ==
    /\ wjob[t].at = "drop"
    /\ wjob' = [wjob EXCEPT ![t] = NoRequest]
    /\ DropCollection(wjob[t].class)
    /\ wloose' = wloose \cup {c \in {wjob[t].class} : c \in wreg \/ Registering(c)}
    /\ UNCHANGED <<wreg, wcalls, wrestarts>>

-----------------------------------------------------------------------------
(* Weaviate: objects                                                       *)

\* create_object checks the vector before it upserts.
create_object(c, o, answer) ==
    /\ Called /\ wcols[c].there
    /\ PutBatch(c, <<o>>, <<numeric_id(o.id)>>, wcalls', answer)
    /\ UNCHANGED <<wreg, wjob, wrestarts, wloose>>

\* update_object leaves the check to upsert, and creates what is not there.
update_object(c, o, answer) == o.id # NoId /\ create_object(c, o, answer)

\* delete_object: in the first collection of the list, whichever that is, whose
\* delete succeeds; deleting an id that is not there does. A text id is not found.
delete_object(id) ==
    /\ Called /\ id \in WIds
    /\ \E n \in WNames, failed \in SUBSET {m \in WNames : wcols[m].there} :
         /\ wcols[n].there
         /\ wcols' = [m \in WNames |-> IF m \in failed THEN NotErased(wcols[m])
                                       ELSE IF m = n THEN WithoutPoint(wcols[m], id) ELSE wcols[m]]
         /\ wacked' = IF n \in failed THEN wacked ELSE [wacked EXCEPT ![n] = [@ EXCEPT ![id] = 0]]
    /\ UNCHANGED <<wreg, wjob, wrestarts, wloose>>

\* batch_create_objects: object by object, each in the collection that has the
\* name at that time; one result per object.
batch_create_objects(t, objects) ==
    /\ Called /\ wjob[t] = NoRequest
    /\ wjob' = [wjob EXCEPT ![t] = [at |-> "batch", objects |-> objects, results |-> <<>>, call |-> wcalls']]
    /\ UNCHANGED <<wcols, wreg, wrestarts, wacked, wloose>>

\* batch_update_objects differs in the wording of its errors.
batch_update_objects(t, objects) == batch_create_objects(t, objects)

\* batch_delete_objects: answers that nothing failed, and deletes nothing.
batch_delete_objects == UNCHANGED CompatVars

BatchObject(t) ==
    /\ wjob[t].at = "batch" /\ Len(wjob[t].results) < Len(wjob[t].objects)
    /\ LET o == wjob[t].objects[Len(wjob[t].results) + 1] IN
       \E answer \in Answers \cup {"no class"} :
         /\ wjob' = [wjob EXCEPT ![t].results = Append(@, answer = "ok")]
         /\ IF wcols[o.class].there
            THEN PutBatch(o.class, <<o>>, <<numeric_id(o.id)>>, wjob[t].call, answer)
            ELSE answer = "no class" /\ UNCHANGED <<wcols, wacked>>
    /\ UNCHANGED <<wreg, wcalls, wrestarts, wloose>>

BatchAnswered(t) ==
    /\ wjob[t].at = "batch" /\ Len(wjob[t].results) = Len(wjob[t].objects)
    /\ wjob' = [wjob EXCEPT ![t] = NoRequest]
    /\ UNCHANGED <<wcols, wreg, wcalls, wrestarts, wacked, wloose>>

Stored(n) == {i \in WIds : wcols[n].there /\ wcols[n].points[i] # 0}

\* The orders in which list_collections may list the names.
Orders == {place \in [WNames -> 1..Cardinality(WNames)] : IsInjective(place)}

\* get_object: the first collection of the list that has the numeric id.
get_object(place, id) ==
    {n \in WNames : id \in Stored(n) /\ \A m \in WNames : id \in Stored(m) => place[n] <= place[m]}

\* Collection::search as the interfaces see it: some of the points, up to the limit.
Hits(n, limit) == {r \in SUBSET Stored(n) : Cardinality(r) <= limit}

\* execute_get_query: a class that is registered and has a collection.
execute_get_query(c, limit) == IF c \in wreg THEN Hits(c, limit) ELSE {{}}

\* execute_aggregate_query: the count of puts since the collection was opened.
execute_aggregate_query(c) == wcols[c].count

\* execute_explore_query: every collection gets its share of the limit, rounded
\* down; with more collections than the limit that is nothing.
execute_explore_query(limit) ==
    LET there == {n \in WNames : wcols[n].there}
        share == limit \div Max({1, Cardinality(there)})
    IN  {r \in SUBSET (there \X WIds) :
            \A n \in there : {h[2] : h \in {g \in r : g[1] = n}} \in Hits(n, share)}

\* get_class and validate_object
get_class(c) == c \in wreg
validate_object(c, o) == get_class(c) /\ (wcols[c].there => o.fits)

-----------------------------------------------------------------------------
(* Milvus                                                                  *)

\* Every entity is checked before anything is written.
EntitiesValid(batch) == batch # <<>> /\ Misfits(batch) = {}

\* An entity without an id gets its place in the batch.
EntityIds(batch) == [k \in DOMAIN batch |-> IF batch[k].id \in WIds THEN batch[k].id ELSE k]

\* insert_entities_v2
insert_entities_v2(n, batch, answer) ==
    /\ Called /\ wcols[n].there /\ EntitiesValid(batch)
    /\ PutBatch(n, batch, EntityIds(batch), wcalls', answer)
    /\ UNCHANGED <<wreg, wjob, wrestarts, wloose>>

\* has_collection_v2, describe_collection_v2, get_load_state_v2: a collection is
\* loaded from its creation on; load and release change nothing.
has_collection_v2(n) == wcols[n].there
describe_collection_v2(n) == IF has_collection_v2(n) THEN "Loaded" ELSE "NotExist"
get_load_state_v2(n) == describe_collection_v2(n)

\* search_entities_v2: the limit is checked, the filter is not looked at.
search_entities_v2(n, limit) == IF limit = 0 THEN {{}} ELSE Hits(n, limit)

\* query_entities_v2 and delete_entities_v2: they answer success, with nothing
\* found and nothing deleted.
query_entities_v2(n) == UNCHANGED CompatVars
delete_entities_v2(n) == UNCHANGED CompatVars

\* create_collection of Milvus
compat_create_collection(n) ==
    /\ Called /\ ~wcols[n].there /\ CreateCollection(n)
    /\ UNCHANGED <<wreg, wjob, wrestarts, wacked, wloose>>

\* drop_collection of Milvus does not know the registry.
drop_collection(n) ==
    /\ Called /\ DropCollection(n)
    /\ wloose' = IF n \in wreg \/ Registering(n) THEN wloose \cup {n} ELSE wloose
    /\ UNCHANGED <<wreg, wjob, wrestarts>>

-----------------------------------------------------------------------------
(* REST and gRPC                                                           *)

\* Creation and deletion of collections, as in the Milvus interface.
rest_create_collection(n) == compat_create_collection(n)
rest_delete_collection(n) == drop_collection(n)
grpc_create(n) == compat_create_collection(n)
grpc_delete_collection(n) == drop_collection(n)

\* upsert_points of REST: ids are numbers, and nothing is checked before the upsert.
rest_upsert_points(n, batch, answer) ==
    /\ Called /\ wcols[n].there
    /\ PutBatch(n, batch, [k \in DOMAIN batch |-> batch[k].id], wcalls', answer)
    /\ UNCHANGED <<wreg, wjob, wrestarts, wloose>>

\* upsert of gRPC drops the result and answers "ok"; wacked goes by the result.
grpc_upsert(n, batch, answer) == rest_upsert_points(n, batch, answer)

\* delete_point of REST
compat_delete_point(n, id) ==
    /\ Called /\ wcols[n].there
    /\ \/ /\ wcols' = [wcols EXCEPT ![n] = WithoutPoint(@, id)]
          /\ wacked' = [wacked EXCEPT ![n] = [@ EXCEPT ![id] = 0]]
       \/ wcols' = [wcols EXCEPT ![n] = NotErased(@)] /\ UNCHANGED wacked
    /\ UNCHANGED <<wreg, wjob, wrestarts, wloose>>

\* delete of gRPC, here of one id; the result is dropped here too.
grpc_delete(n, id) == compat_delete_point(n, id)

\* get and search of gRPC: a collection that is not there has no points.
grpc_get(n, ids) == {i \in ids : i \in Stored(n)}
grpc_search(n, limit) == Hits(n, limit)

\* The process stops and starts: the registry is empty, and the collections that
\* open are loaded.
RestartServers ==
    /\ wrestarts < WMaxRestarts /\ wrestarts' = wrestarts + 1
    /\ wcols' \in [WNames -> UNION {Reloaded(wcols[n], Survivors) : n \in WNames}]
    /\ \A n \in WNames : wcols'[n] \in Reloaded(wcols[n], Survivors)
    /\ wacked' = [n \in WNames |-> IF wcols'[n].there /\ wcols[n].log = "sound" THEN wacked[n] ELSE NoPoints]
    /\ wreg' = {} /\ wloose' = {} /\ wjob' = [t \in WTasks |-> NoRequest]
    /\ UNCHANGED wcalls

\* Batches: of Milvus, with and without ids; of REST and gRPC; of Weaviate.
Pairs == {<<[id |-> i, fits |-> TRUE], [id |-> NoId, fits |-> f]>> : i \in WIds \cup {NoId}, f \in BOOLEAN}
NumberPairs == {<<[id |-> i, fits |-> TRUE], [id |-> WHash, fits |-> f]>> : i \in WIds, f \in BOOLEAN}
ClassPairs == {<<[class |-> c, id |-> Text, fits |-> f], [class |-> d, id |-> 1, fits |-> TRUE]>> :
                  c \in WNames, d \in WNames, f \in BOOLEAN}

CompatNext ==
    \/ \E t \in WTasks :
         \/ \E c \in WNames : create_schema(t, c) \/ delete_class(t, c)
         \/ \E b \in ClassPairs : batch_create_objects(t, b) \/ batch_update_objects(t, b)
         \/ RegisterClass(t) \/ DropClass(t) \/ BatchObject(t) \/ BatchAnswered(t)
    \/ \E n \in WNames :
         \/ update_class(n) \/ compat_create_collection(n) \/ drop_collection(n)
         \/ rest_create_collection(n) \/ rest_delete_collection(n)
         \/ grpc_create(n) \/ grpc_delete_collection(n)
         \/ query_entities_v2(n) \/ delete_entities_v2(n)
         \/ \E a \in Answers :
              \/ \E o \in WObjects : create_object(n, o, a) \/ update_object(n, o, a)
              \/ \E b \in Pairs : insert_entities_v2(n, b, a)
              \/ \E b \in NumberPairs : rest_upsert_points(n, b, a) \/ grpc_upsert(n, b, a)
         \/ \E i \in WIds : compat_delete_point(n, i) \/ grpc_delete(n, i)
    \/ \E i \in WIds : delete_object(i)
    \/ batch_delete_objects \/ RestartServers
-----------------------------------------------------------------------------
\* Every variable has its type.
CompatTypeOK ==
    /\ wcols \in [WNames -> [there : BOOLEAN, log : {"none", "sound", "spoilt", "damaged"},
                             points : [WIds -> 0..WMaxCalls], tombs : SUBSET WIds, count : Nat,
                             found : [WIds -> 0..WMaxCalls]]]
    /\ wreg \subseteq WNames /\ wacked \in [WNames -> [WIds -> 0..WMaxCalls]]

\* A class that get_class answers has its collection, while classes are created
\* and deleted concurrently: this is what the order of the two steps of
\* create_schema and delete_class is for. Excepted are classes whose collection
\* another interface dropped, that update_class made without a collection, or
\* that were written again while delete_class ran.
RegisteredExists == \A c \in wreg \ wloose : wcols[c].there

\* A write that was answered with success, by any interface, is stored until a
\* later write or a delete: also after puts that were refused or failed half way,
\* and after restarts that opened the collection, whose log no failing append
\* damaged. get_object answers it, unless a collection that is listed before
\* has the id too.
AckedKept ==
    \A n \in WNames, i \in WIds :
        wacked[n][i] # 0 =>
            /\ wcols[n].there /\ wcols[n].points[i] >= wacked[n][i]
            /\ \A place \in Orders : \/ n \in get_object(place, i)
                                     \/ \E m \in get_object(place, i) : place[m] < place[n]

\* Whatever interface a point was written through, all of them find it, and none
\* finds another: by its id (get_object, gRPC get), in a search and in the search
\* over all collections; the count is at least the points put since the
\* collection was opened. A class that validate_object accepts an object for can
\* be described by Milvus, unless it came apart from its collection.
InterfacesAgree ==
    \A n \in WNames :
        /\ \A place \in Orders, i \in WIds :
             /\ n \in get_object(place, i) => i \in grpc_get(n, WIds)
             /\ i \in grpc_get(n, WIds) => get_object(place, i) # {}
        /\ \A l \in 0..2 : /\ UNION search_entities_v2(n, l) = UNION grpc_search(n, l)
                           /\ \A h \in UNION execute_explore_query(l) : n = h[1] => h[2] \in grpc_get(n, WIds)
                           /\ get_class(n) => execute_get_query(n, l) = grpc_search(n, l)
        /\ execute_aggregate_query(n) >=
              Cardinality({i \in Stored(n) : wcols[n].points[i] # wcols[n].found[i]})
        /\ \A o \in WObjects : validate_object(n, o) /\ n \notin wloose => get_load_state_v2(n) = "Loaded"

\* A Milvus insert that is answered with success has stored every entity, and what
\* it checks beforehand is enough for no vector to stop it half way: only an id
\* whose deletion the memtable still holds, or the log, does.
InsertWhole ==
    [][\A n \in WNames, b \in Pairs, a \in Answers :
           insert_entities_v2(n, b, a) =>
               /\ a = "ok" => \A k \in DOMAIN b : wcols'[n].points[EntityIds(b)[k]] = wcalls'
               /\ a = "refused" => \E k \in DOMAIN b : EntityIds(b)[k] \in wcols[n].tombs
               /\ a # "dimension"]_CompatVars

-----------------------------------------------------------------------------
\* The Qdrant interface at work, or the others.
FacadesNext ==
    \/ QdrantNext /\ UNCHANGED CompatVars
    \/ CompatNext /\ UNCHANGED QdrantVars

FacadesSpec == QdrantInit /\ CompatInit /\ [][FacadesNext]_<<QdrantVars, CompatVars>>

\* Whatever interface wrote a point, the others read it: scrolling and full
\* snapshots miss nothing that stayed and could be read, the ways to read one
\* point agree, an acknowledged write is kept through the restarts that open its
\* collection and a class that is listed has its collection (qdrant_compat.rs,
\* weaviate_compat.rs, milvus_compat.rs, rest.rs, grpc.rs).
InterfacesSafe ==
    /\ QdrantTypeOK /\ ScrollComplete /\ ReadPathsAgree /\ FullSnapshotComplete
    /\ CompatTypeOK /\ RegisteredExists /\ AckedKept /\ InterfacesAgree

\* A batch that is answered with success is stored whole, and none that was
\* validated stops at a dimension (upsert_points and validation.rs,
\* insert_entities_v2, Collection::upsert).
BatchesWhole == UpsertWhole /\ InsertWhole

=============================================================================
