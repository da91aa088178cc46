---------------------------- MODULE Collections ----------------------------
(***************************************************************************)
(* The collection manager and its collections (src/src/collection/mod.rs)  *)
(* under concurrent calls, failing calls and restarts. A collection joins  *)
(* a storage engine, an index and an id counter, none of which is locked   *)
(* together with another: a call is a job that takes one step per lock.    *)
(*                                                                         *)
(* A vector is the number of the call that wrote it; 0 is no vector. The   *)
(* engine is an atomic map, as StorageEngine shows it to be until its       *)
(* memtable is first rotated: every write is logged, a put of an id whose  *)
(* tombstone the memtable holds is logged too but refused, and an engine    *)
(* whose log has a put after a delete of the id does not open again.        *)
(***************************************************************************)
EXTENDS Integers, Sequences, FiniteSets, FiniteSetsExt, SequencesExt

CONSTANTS
    CNames, CIds,       \* collection names, vector ids (numbers from 1)
    CTasks,             \* concurrent callers
    CBatches,           \* the sequences of ids calls are made with; one without ids does nothing
    CMaxCalls,          \* bound: calls
    CMaxRestarts        \* bound: restarts of the process

ASSUME CollectionsAssumption ==
    /\ IsFiniteSet(CNames) /\ IsFiniteSet(CIds) /\ CIds \subseteq Nat \ {0}
    /\ CBatches \subseteq Seq(CIds) \ {<<>>}
    /\ CMaxCalls \in Nat /\ CMaxRestarts \in Nat

VARIABLES
    dirs,        \* on disk: [there, config, gen, data, dead, spoilt]; gen counts the times it
                 \* was made, dead are the ids its log deletes, spoilt: it puts one after that
    cmap,        \* the map of collections: a name's object, 0 if none
    objects,     \* the Collection values made since the process started
    job,         \* what each task is doing
    calls,       \* calls so far: the vector the last call writes
    restarts,
    cacked,      \* history: names whose last finished call made them
    crossed,     \* history: names whose creations and deletions overlapped or stopped half way
    wild,        \* history: names whose log two engines wrote, or that has a torn record
    unopened     \* history: names whose directory the last restart could not open

CollectionsVars ==
    <<dirs, cmap, objects, job, calls, restarts, cacked, crossed, wild, unopened>>

Empty == [i \in CIds |-> 0]
NoDir == [there |-> FALSE, config |-> FALSE, gen |-> 0, data |-> Empty,
          dead |-> {}, spoilt |-> FALSE]
NoJob == [kind |-> "none"]

\* The ids stored in a map of vectors.
IdsOf(data) == {i \in CIds : data[i] # 0}

CollectionsInit ==
    /\ dirs = [n \in CNames |-> NoDir] /\ cmap = [n \in CNames |-> 0]
    /\ objects = <<>> /\ job = [t \in CTasks |-> NoJob]
    /\ calls = 0 /\ restarts = 0 /\ cacked = {} /\ crossed = {} /\ wild = {} /\ unopened = {}

-----------------------------------------------------------------------------
(* Collection                                                              *)

\* Collection::create: whatever storage holds, the index starts empty.
NewCollection(n, d) ==
    [name |-> n, gen |-> d.gen, stored |-> d.data, tombs |-> d.dead, index |-> Empty,
     next_id |-> 1, unbuilt |-> IdsOf(d.data),
     mixed |-> {}, overlapped |-> FALSE]

\* Mutant: the counter restarts at 1.
OpenCollection_CounterReset(n, d) == [NewCollection(n, d) EXCEPT
    !.index = d.data, !.unbuilt = {}]

\* Collection::open: the index and the counter come from a scan.
OpenCollection(n, d) == [NewCollection(n, d) EXCEPT
    !.index = d.data, !.unbuilt = {}, !.next_id = Max({0} \cup IdsOf(d.data)) + 1]

-----------------------------------------------------------------------------
(* The calls of CollectionManager                                          *)

Managing(n) == \E t \in CTasks : job[t].kind \in {"create", "drop"} /\ job[t].name = n

Start(t, j) ==
    /\ job[t] = NoJob /\ calls < CMaxCalls /\ calls' = calls + 1
    /\ job' = [job EXCEPT ![t] = j]
    /\ crossed' = IF j.kind \in {"create", "drop"} /\ Managing(j.name)
                  THEN crossed \cup {j.name} ELSE crossed
    /\ cacked' = IF j.kind = "drop" THEN cacked \ {j.name} ELSE cacked
    /\ UNCHANGED <<restarts, wild, objects, unopened>>

FinishCall(t) == job' = [job EXCEPT ![t] = NoJob]

NameFree(n) == cmap[n] = 0

\* create_collection: the name is looked up under the read lock.
create_collection(t, n) ==
    /\ NameFree(n)
    /\ Start(t, [kind |-> "create", name |-> n, at |-> "dir", object |-> 0])
    /\ UNCHANGED <<dirs, cmap>>

\* What an error before or in the write of config.json leaves of a directory.
Unmade(d) ==
    {d} \cup {[d EXCEPT !.there = TRUE, !.config = c, !.gen = IF d.there THEN @ ELSE @ + 1] :
                c \in {d.config, FALSE}}

\* Collection::create up to config.json; an error leaves the directory.
CreateDir(t) ==
    /\ job[t].kind = "create" /\ job[t].at = "dir"
    /\ LET n == job[t].name IN
       \/ /\ dirs' = [dirs EXCEPT ![n].there = TRUE, ![n].config = TRUE,
                                  ![n].gen = IF dirs[n].there THEN @ ELSE @ + 1]
          /\ job' = [job EXCEPT ![t].at = "open"]
       \/ /\ \E d \in Unmade(dirs[n]) : dirs' = [dirs EXCEPT ![n] = d]
          /\ FinishCall(t)
    /\ UNCHANGED <<cmap, objects, calls, restarts, cacked, crossed, wild, unopened>>

\* StorageEngine::open replays the log: it fails at a put after a delete.
EngineOpens(n) == ~dirs[n].spoilt \/ n \in wild

\* Collection::create from StorageEngine::open on, which makes the directory
\* again if it was removed. A second engine on the directory makes what a
\* restart will find unpredictable.
CreateOpen(t) ==
    /\ job[t].kind = "create" /\ job[t].at = "open"
    /\ LET n == job[t].name
           d == IF dirs[n].there THEN dirs[n]
                ELSE [dirs[n] EXCEPT !.there = TRUE, !.gen = @ + 1]
           shared == \E k \in DOMAIN objects : objects[k].name = n /\ objects[k].gen = d.gen
       IN  /\ EngineOpens(n)
           /\ dirs' = [dirs EXCEPT ![n] = d]
           /\ objects' = Append(objects, NewCollection(n, d))
           /\ wild' = IF shared THEN wild \cup {n} ELSE wild
    /\ job' = [job EXCEPT ![t].at = "insert", ![t].object = Len(objects')]
    /\ UNCHANGED <<cmap, calls, restarts, cacked, crossed, unopened>>

\* The engine does not open: config.json stays, so that a restart opens what
\* the caller was told was not created.
CreateFails(t) ==
    /\ job[t].kind = "create" /\ job[t].at = "open"
    /\ LET n == job[t].name IN
       /\ \/ UNCHANGED dirs
          \/ /\ ~dirs[n].there
             /\ dirs' = [dirs EXCEPT ![n].there = TRUE, ![n].gen = @ + 1]
       /\ crossed' = crossed \cup {n}
    /\ FinishCall(t)
    /\ UNCHANGED <<cmap, objects, calls, restarts, cacked, wild, unopened>>

\* create_collection: the entry is inserted under the write lock.
CreateInsert(t) ==
    /\ job[t].kind = "create" /\ job[t].at = "insert"
    /\ cmap' = [cmap EXCEPT ![job[t].name] = job[t].object]
    /\ cacked' = cacked \cup {job[t].name} /\ unopened' = unopened \ {job[t].name}
    /\ FinishCall(t)
    /\ UNCHANGED <<dirs, objects, calls, restarts, crossed, wild>>

\* delete_collection: the entry is removed, and after that the directory.
delete_collection(t, n) ==
    /\ Start(t, [kind |-> "drop", name |-> n])
    /\ cmap' = [cmap EXCEPT ![n] = 0] /\ UNCHANGED dirs

\* remove_dir_all may fail on the way, after any of the files is gone.
Removed(d) ==
    {[d EXCEPT !.there = FALSE, !.config = FALSE, !.data = Empty, !.dead = {},
               !.spoilt = FALSE]}

RemoveDir(t) ==
    /\ job[t].kind = "drop"
    /\ LET n == job[t].name IN
       \/ /\ dirs[n].there
          /\ \E d \in Removed(dirs[n]) : dirs' = [dirs EXCEPT ![n] = d]
          /\ UNCHANGED <<wild, crossed>>
       \/ ~dirs[n].there /\ UNCHANGED <<dirs, wild, crossed>>
       \/ /\ dirs[n].there /\ \E c \in BOOLEAN : dirs' = [dirs EXCEPT ![n].config = @ /\ c]
          /\ wild' = wild \cup {n} /\ crossed' = crossed \cup {n}
    /\ FinishCall(t)
    /\ UNCHANGED <<cmap, objects, calls, restarts, cacked, unopened>>

-----------------------------------------------------------------------------
(* The calls of Collection, on an object the caller holds                  *)

\* get_collection, then upsert or delete with a batch of ids.
Call(t, kind, n, ids) ==
    /\ cmap[n] # 0
    /\ Start(t, [kind |-> kind, name |-> n, object |-> cmap[n], ids |-> ids,
                 at |-> "storage", vector |-> calls + 1, seen |-> 0])
    /\ UNCHANGED <<dirs, cmap>>

upsert(t, n, ids) == Call(t, "upsert", n, ids)
delete(t, n, ids) == Call(t, "delete", n, ids)

Working(t, at) == job[t].kind \in {"upsert", "delete"} /\ job[t].ids # <<>> /\ job[t].at = at

\* The object of a job, and whether its engine still writes to the directory.
Object(t) == objects[job[t].object]
Attached(o) == dirs[o.name].there /\ o.gen = dirs[o.name].gen

\* Other jobs at work on the id on the same object.
Others(t, id) ==
    {u \in CTasks \ {t} : /\ job[u].kind \in {"upsert", "delete"}
                          /\ job[u].object = job[t].object /\ job[u].ids # <<>>
                          /\ Head(job[u].ids) = id /\ job[u].at # "storage"}

\* The vector a call writes, 0 for a deletion.
Written(j) == IF j.kind = "upsert" THEN j.vector ELSE 0

\* The directory with one more record in its log: what a replay makes of it.
Logged(d, j) ==
    LET id == Head(j.ids) IN
    [d EXCEPT !.data[id] = Written(j),
              !.dead = IF j.kind = "upsert" THEN @ ELSE @ \cup {id},
              !.spoilt = @ \/ (j.kind = "upsert" /\ id \in d.dead)]

AddRecord(t) ==
    dirs' = IF Attached(Object(t))
            THEN [dirs EXCEPT ![Object(t).name] = Logged(@, job[t])] ELSE dirs

\* MemTable::put refuses an id whose tombstone it holds, and drops that.
PutRefused(j, o) == j.kind = "upsert" /\ Head(j.ids) \in o.tombs

\* storage.put or storage.delete.
WriteStorage(t) ==
    /\ Working(t, "storage") /\ ~PutRefused(job[t], Object(t))
    /\ LET k == job[t].object
           id == Head(job[t].ids)
       IN  objects' = [objects EXCEPT
                 ![k].stored[id] = Written(job[t]),
                 ![k].tombs = IF job[t].kind = "upsert" THEN @ ELSE @ \cup {id},
                 ![k].mixed = IF Others(t, id) # {} THEN @ \cup {id} ELSE @]
    /\ AddRecord(t)
    /\ job' = [job EXCEPT ![t].at = "index"]
    /\ UNCHANGED <<cmap, calls, restarts, cacked, crossed, wild, unopened>>

\* The put is refused after it was logged: the call ends half way.
RefuseStorage(t) ==
    /\ Working(t, "storage") /\ PutRefused(job[t], Object(t))
    /\ objects' = [objects EXCEPT ![job[t].object].tombs = @ \ {Head(job[t].ids)}]
    /\ AddRecord(t) /\ FinishCall(t)
    /\ UNCHANGED <<cmap, calls, restarts, cacked, crossed, wild, unopened>>

\* A wrong dimension, or an append that fails: nothing was written, the whole
\* record, or a torn one. The call ends half way.
FailStorage(t) ==
    /\ Working(t, "storage") /\ FinishCall(t)
    /\ \/ UNCHANGED <<dirs, wild>>
       \/ AddRecord(t) /\ UNCHANGED wild
       \/ wild' = wild \cup {Object(t).name} /\ UNCHANGED dirs
    /\ UNCHANGED <<cmap, objects, calls, restarts, cacked, crossed, unopened>>

NextVector(t) ==
    LET j == job[t] IN
    job' = [job EXCEPT ![t] = IF Len(j.ids) = 1 THEN NoJob
                              ELSE [j EXCEPT !.ids = Tail(j.ids), !.at = "storage"]]

\* What index.add and index.remove make of the index.
Indexed(j, id, index) ==
    [index EXCEPT ![id] = IF j.kind = "upsert" THEN j.vector ELSE 0]

WriteIndex(t) ==
    /\ Working(t, "index")
    /\ LET id == Head(job[t].ids) IN
       objects' = [objects EXCEPT
           ![job[t].object].index = Indexed(job[t], id, @),
           ![job[t].object].unbuilt = @ \ {id}]
    /\ IF job[t].kind = "upsert" THEN job' = [job EXCEPT ![t].at = "load"] ELSE NextVector(t)
    /\ UNCHANGED <<dirs, cmap, calls, restarts, cacked, crossed, wild, unopened>>

\* next_id is loaded, and stored if the id reached it.
LoadNextId(t) ==
    /\ Working(t, "load")
    /\ job' = [job EXCEPT ![t].at = "store", ![t].seen = Object(t).next_id]
    /\ UNCHANGED <<dirs, cmap, objects, calls, restarts, cacked, crossed, wild, unopened>>

Reached(id, seen) == id >= seen

StoreNextId(t) ==
    /\ Working(t, "store")
    /\ LET id == Head(job[t].ids)
           racing == \E u \in CTasks \ {t} :
                        Working(u, "store") /\ job[u].object = job[t].object
       IN  objects' = [objects EXCEPT
               ![job[t].object].next_id = IF Reached(id, job[t].seen) THEN id + 1 ELSE @,
               ![job[t].object].overlapped = @ \/ racing]
    /\ NextVector(t)
    /\ UNCHANGED <<dirs, cmap, calls, restarts, cacked, crossed, wild, unopened>>

\* Collection::next_id: fetch_add.
next_id(n) ==
    /\ cmap[n] # 0 /\ calls < CMaxCalls /\ calls' = calls + 1
    /\ objects' = [objects EXCEPT ![cmap[n]].next_id = @ + 1]
    /\ UNCHANGED <<dirs, cmap, job, restarts, cacked, crossed, wild, unopened>>

-----------------------------------------------------------------------------
\* What a restart may find in a directory: the replay of its log.
Found(n) ==
    IF n \in wild
    THEN {[dirs[n] EXCEPT !.data = log[1], !.dead = log[2], !.spoilt = FALSE] :
            log \in [CIds -> 0..calls] \X SUBSET CIds}
    ELSE {dirs[n]}

\* Where a name is in a list, 0 if it is not.
PlaceOf(n, names) == SelectInSeq(names, LAMBDA m : m = n)

\* CollectionManager::new and load_collections: every directory with a config
\* is opened; those that do not open are skipped with a warning.
Restart ==
    /\ restarts < CMaxRestarts /\ restarts' = restarts + 1
    /\ \E opened \in SUBSET {n \in CNames : dirs[n].there /\ dirs[n].config /\ EngineOpens(n)} :
         LET names == SetToSeq(opened) IN
         /\ dirs' \in [CNames -> UNION {Found(n) : n \in CNames}]
         /\ \A n \in CNames : dirs'[n] \in IF n \in opened THEN Found(n) ELSE {dirs[n]}
         /\ objects' = [k \in DOMAIN names |-> OpenCollection(names[k], dirs'[names[k]])]
         /\ cmap' = [n \in CNames |-> PlaceOf(n, names)]
         /\ unopened' = {n \in CNames : dirs[n].there} \ opened
    /\ job' = [t \in CTasks |-> NoJob]
    /\ crossed' = crossed \cup {n \in CNames : Managing(n)}
    /\ UNCHANGED <<calls, cacked, wild>>

CollectionsNext ==
    \/ \E t \in CTasks, n \in CNames :
         \/ create_collection(t, n)
         \/ delete_collection(t, n)
         \/ \E ids \in CBatches : upsert(t, n, ids) \/ delete(t, n, ids)
    \/ \E t \in CTasks :
         \/ CreateDir(t) \/ CreateOpen(t) \/ CreateFails(t) \/ CreateInsert(t) \/ RemoveDir(t)
         \/ WriteStorage(t) \/ RefuseStorage(t) \/ FailStorage(t) \/ WriteIndex(t)
         \/ LoadNextId(t) \/ StoreNextId(t)
    \/ \E n \in CNames : next_id(n)
    \/ Restart

CollectionsSpec == CollectionsInit /\ [][CollectionsNext]_CollectionsVars

-----------------------------------------------------------------------------
\* Every variable has its type.
CollectionsTypeOK ==
    /\ dirs \in [CNames -> [there : BOOLEAN, config : BOOLEAN, gen : Nat,
                            data : [CIds -> 0..CMaxCalls], dead : SUBSET CIds,
                            spoilt : BOOLEAN]]
    /\ cmap \in [CNames -> 0..Len(objects)]
    /\ \A k \in DOMAIN objects : /\ objects[k].index \in [CIds -> 0..CMaxCalls]
                                 /\ objects[k].next_id \in Nat
    /\ cacked \cup crossed \cup wild \cup unopened \subseteq CNames

\* Storage and index are written under different locks (upsert, delete), and
\* calls stop half way. Still, an id no call is at work on has the same vector
\* in both, unless writes of that id interleaved, or the collection was made
\* over a directory that already held the vector.
IndexMirrorsStorage ==
    \A n \in CNames : cmap[n] # 0 =>
        LET o == objects[cmap[n]] IN
        \A i \in CIds \ (o.mixed \cup o.unbuilt) :
            \/ o.index[i] = o.stored[i]
            \/ \E t \in CTasks : Working(t, "index") /\ job[t].object = cmap[n]
                                  /\ Head(job[t].ids) = i

\* Automatic ids are fresh: next_id is above every stored id whose upsert is
\* past the counter, through restarts, unless two upserts were between loading
\* the counter and storing it at the same time.
NextIdFresh ==
    \A n \in CNames : cmap[n] # 0 =>
        LET o == objects[cmap[n]] IN
        \A i \in IdsOf(o.stored) \ o.unbuilt :
            \/ o.next_id > i \/ o.overlapped
            \/ \E t \in CTasks : /\ job[t].kind = "upsert" /\ job[t].object = cmap[n]
                                  /\ Head(job[t].ids) = i

\* A collection whose creation returned Ok and whose deletion was not asked for
\* has its directory, also after restarts, and is in the map with its config,
\* unless the last restart could not open its engine; one that was deleted does
\* not come back. Calls that create and delete the name at the same time, or
\* that stopped half way, are excepted: they can leave an entry without a
\* directory and a directory without an entry.
CollectionsKept ==
    \A n \in CNames \ crossed :
        /\ n \in cacked => dirs[n].there
        /\ n \in cacked \ unopened =>
              cmap[n] # 0 /\ Attached(objects[cmap[n]]) /\ dirs[n].config
        /\ n \notin cacked /\ ~Managing(n) => cmap[n] = 0 /\ ~dirs[n].config

\* Collections through concurrent calls and restarts (CollectionManager,
\* Collection): the index mirrors the storage, next_id is not in use, and a
\* collection that was created is found until it is deleted.
CollectionsSafe ==
    CollectionsTypeOK /\ IndexMirrorsStorage /\ NextIdFresh /\ CollectionsKept

=============================================================================
