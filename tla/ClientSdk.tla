----------------------------- MODULE ClientSdk -----------------------------
(***************************************************************************)
(* The client library (src/src/client/mod.rs) against the server its       *)
(* default port belongs to, the Qdrant-compatible one                      *)
(* (src/src/api/qdrant_compat.rs). A call sends a request; the client may  *)
(* give up (a timeout, a broken connection) while the request is still on  *)
(* its way, and the server then serves it later or never.                  *)
(*                                                                         *)
(* The server answers every request it routes with status 200 and an       *)
(* envelope {result, status, error}; the client looks at the status alone, *)
(* and at the top level of the body. A call's vector is its number: no two *)
(* calls write the same one. Collection creation has one name. As in       *)
(* QdrantApi, the collection's memtable is not rotated.                    *)
(***************************************************************************)
EXTENDS Integers, Sequences, FiniteSets

CONSTANTS
    ETasks,      \* tasks that share a client
    EMaxId,      \* ids 0..EMaxId are numerals; TextId is an id that is none
    EMaxCalls    \* bound: calls

ASSUME SdkAssumption == IsFiniteSet(ETasks) /\ EMaxId \in Nat /\ EMaxCalls \in Nat

VARIABLES
    sdkServer,   \* the collection: [there, points, tombs], 0 for a point that is not
                 \* there, and the number of writes it has handled: turn
    sdkCalls     \* every call so far

SdkVars == <<sdkServer, sdkCalls>>

TextId == EMaxId + 1
ENumerals == 0..EMaxId
EIds == 0..TextId

Writes == {"insert_batch", "insert_with_metadata", "insert_with_id", "delete_point"}

\* flying: requests on their way; before, there: the calls answered ok and
\* whether the collection was there at its start; turn, how: when the server
\* handled the write (0: not yet) and what came of it.
SdkCall(t, op, id, expected) ==
    [task |-> t, op |-> op, id |-> id, expected |-> expected, at |-> "waiting", leg |-> 1,
     flying |-> 1, reply |-> "none", turn |-> 0, how |-> "none",
     there |-> sdkServer.there, before |-> {k \in DOMAIN sdkCalls : sdkCalls[k].at = "ok"}]

SdkInit ==
    /\ \E there \in BOOLEAN :
         sdkServer = [there |-> there, points |-> [i \in ENumerals |-> 0], tombs |-> {}, turn |-> 0]
    /\ sdkCalls = <<>>

SdkFree(t) == \A k \in DOMAIN sdkCalls : sdkCalls[k].task = t => sdkCalls[k].at # "waiting"

Issue(t, op, id, expected) ==
    /\ Len(sdkCalls) < EMaxCalls /\ SdkFree(t)
    /\ sdkCalls' = Append(sdkCalls, SdkCall(t, op, id, expected))
    /\ UNCHANGED sdkServer

-----------------------------------------------------------------------------
(* The calls: what each sends                                              *)

create_collection_call(t) == Issue(t, "create_collection", TextId, 0)

\* A POST on /collections, which the server routes for GET only.
create_multimodal_collection(t) == Issue(t, "create_multimodal", TextId, 0)

\* The points of a batch are numbered from 0; here the batch has one point
\* for each numeral.
insert_batch(t) == Issue(t, "insert_batch", 0, 0)

\* The id is a fresh UUID, which is no numeral.
insert_with_metadata(t) == Issue(t, "insert_with_metadata", TextId, 0)

insert_with_id(t, id) == Issue(t, "insert_with_id", id, 0)

delete_point_call(t, id) == Issue(t, "delete_point", id, 0)

get_point_by_id(t, id) == Issue(t, "get", id, 0)

\* Two calls that differ in the type of their results only.
client_search(t) == Issue(t, "search", TextId, 0)
search_with_metadata(t) == Issue(t, "search", TextId, 0)

\* Its first leg is a get; expected is 0 for the empty vector, 1 for another.
compare_and_swap(t, id, expected) == Issue(t, "cas", id, expected)

-----------------------------------------------------------------------------
(* The server                                                              *)

\* The ids an upsert or a delete reaches: as_u64 drops those that are not numerals.
Touched(c) ==
    CASE c.op = "insert_batch" -> ENumerals
      [] c.op \in {"insert_with_metadata", "insert_with_id", "delete_point", "cas"} -> {c.id} \ {TextId}
      [] OTHER -> {}

IsWrite(c) == c.op \in Writes \/ (c.op = "cas" /\ c.leg = 2)

\* The points of a write are taken in order, up to the first that fails.
Carried(c, stop) == {i \in Touched(c) : i < stop}

\* upsert_points: a vector has the wrong size, the log fails, or the id has a
\* tombstone in the memtable, which refuses the put.
Upserts(c, stop, how) ==
    /\ Carried(c, stop) \cap sdkServer.tombs = {}
    /\ \/ how = "done" /\ stop = TextId
       \/ how \in {"vector", "append"} /\ stop \in Touched(c)
       \/ how = "refused" /\ stop \in Touched(c) \cap sdkServer.tombs

\* delete_points: only the log may fail.
Deletes(c, stop, how) ==
    \/ how = "done" /\ stop = TextId
    \/ how = "append" /\ stop \in Touched(c)

ServedPoints(k, stop) ==
    [i \in ENumerals |-> IF i \notin Carried(sdkCalls[k], stop) THEN sdkServer.points[i]
                         ELSE IF sdkCalls[k].op = "delete_point" THEN 0 ELSE k]

\* A put that is refused drops the tombstone.
ServedTombs(c, stop, how) ==
    IF c.op = "delete_point" THEN sdkServer.tombs \cup Carried(c, stop)
    ELSE IF how = "refused" THEN sdkServer.tombs \ {stop} ELSE sdkServer.tombs

\* The status and the shape of the body. A path that is no number, and a
\* method without a route, are refused before the handler.
StatusOf(c) ==
    CASE c.op = "create_multimodal" -> "refused"
      [] c.op \in {"get", "cas"} /\ c.leg = 1 /\ c.id = TextId -> "refused"
      [] OTHER -> "envelope"

\* Whatever comes of it, the answer is the same.
Answer(k, turn, how) ==
    sdkCalls' = [sdkCalls EXCEPT
            ![k].flying = @ - 1,
            ![k].reply = IF sdkCalls[k].at = "waiting" THEN StatusOf(sdkCalls[k]) ELSE @,
            ![k].turn = turn, ![k].how = how]

\* Without the collection nothing happens, and the envelope says so; its creation
\* may fail.
Serve(k) ==
    LET c == sdkCalls[k] IN
    /\ c.flying > 0
    /\ \/ /\ sdkServer.there /\ IsWrite(c)
          /\ \E stop \in EIds, how \in {"done", "vector", "append", "refused"} :
               /\ IF c.op = "delete_point" THEN Deletes(c, stop, how) ELSE Upserts(c, stop, how)
               /\ sdkServer' = [sdkServer EXCEPT !.points = ServedPoints(k, stop), !.turn = @ + 1,
                                                !.tombs = ServedTombs(c, stop, how)]
               /\ Answer(k, sdkServer'.turn, how)
       \/ /\ ~(sdkServer.there /\ IsWrite(c))
          /\ \E there \in {sdkServer.there, sdkServer.there \/ c.op = "create_collection"} :
               sdkServer' = [sdkServer EXCEPT !.there = there]
          /\ Answer(k, c.turn, c.how)

\* The request is lost, or its connection is.
Lose(k) ==
    /\ sdkCalls[k].flying > 0
    /\ sdkCalls' = [sdkCalls EXCEPT ![k].flying = @ - 1]
    /\ UNCHANGED sdkServer

-----------------------------------------------------------------------------
(* What the client makes of the answer                                     *)

\* compare_and_swap after its get: an envelope has no "vector" at its top
\* level, so the value is invalid; a refusal is taken for a missing point.
AfterGet(c) ==
    IF c.reply = "refused" /\ c.expected = 0
    THEN [c EXCEPT !.leg = 2, !.flying = @ + 1, !.reply = "none"]
    ELSE [c EXCEPT !.at = "err"]

\* The results of a search are parsed as a list; an envelope is none.
Answered(c) ==
    CASE c.op = "cas" /\ c.leg = 1 -> AfterGet(c)
      [] c.op = "search" -> [c EXCEPT !.at = "err"]
      [] OTHER -> [c EXCEPT !.at = IF c.reply = "envelope" THEN "ok" ELSE "err"]

\* The reply of a call that has returned is forgotten.
Closed(c) == IF c.at = "waiting" THEN c ELSE [c EXCEPT !.reply = "none", !.expected = 0]

ReceiveReply(k) ==
    /\ sdkCalls[k].at = "waiting" /\ sdkCalls[k].reply # "none"
    /\ sdkCalls' = [sdkCalls EXCEPT ![k] = Closed(Answered(sdkCalls[k]))]
    /\ UNCHANGED sdkServer

\* Mutant: the client sends its request again.
GivenUp_Retried(c) == IF c.flying < 2 THEN [c EXCEPT !.flying = @ + 1] ELSE [c EXCEPT !.at = "err"]

\* The error of send() is the call's. A get that fails this way is, to
\* compare_and_swap, a point that is not there.
GivenUp(c) ==
    IF c.op = "cas" /\ c.leg = 1 THEN AfterGet([c EXCEPT !.reply = "refused", !.flying = 0])
    ELSE [c EXCEPT !.at = "err"]

GiveUp(k) ==
    /\ sdkCalls[k].at = "waiting" /\ sdkCalls[k].reply = "none"
    /\ sdkCalls' = [sdkCalls EXCEPT ![k] = Closed(GivenUp(sdkCalls[k]))]
    /\ UNCHANGED sdkServer

SdkNext ==
    \/ \E t \in ETasks :
         \/ create_collection_call(t) \/ create_multimodal_collection(t)
         \/ insert_batch(t) \/ insert_with_metadata(t)
         \/ client_search(t) \/ search_with_metadata(t)
         \/ \E id \in EIds : \/ insert_with_id(t, id) \/ delete_point_call(t, id)
                             \/ get_point_by_id(t, id)
                             \/ \E e \in {0, 1} : compare_and_swap(t, id, e)
    \/ \E k \in DOMAIN sdkCalls : Serve(k) \/ Lose(k) \/ ReceiveReply(k) \/ GiveUp(k)

SdkSpec == SdkInit /\ [][SdkNext]_SdkVars

-----------------------------------------------------------------------------
(* Properties                                                              *)

\* Types: a point holds the number of a call that wrote it.
SdkTypeOK ==
    /\ sdkServer.there \in BOOLEAN /\ sdkServer.points \in [ENumerals -> 0..Len(sdkCalls)]
    /\ sdkServer.tombs \subseteq ENumerals /\ sdkServer.turn \in Nat
    /\ \A k \in DOMAIN sdkCalls :
         /\ sdkCalls[k].at \in {"waiting", "ok", "err"} /\ sdkCalls[k].flying \in Nat
         /\ sdkCalls[k].before \subseteq DOMAIN sdkCalls

\* A write to a collection that was there when the call began has been handled
\* when the client is told it succeeded (client/mod.rs: every call returns Ok on
\* a status of success alone, and the server sends that status with its errors
\* too). If the server carried it out, what it wrote stays until a write that is
\* handled later. It may also have come to nothing: the client is told the same of
\* a vector or a log that failed, and of a put that was refused, but the latter
\* only where a deletion of one of its ids was handled before.
AckedApplied ==
    \A k \in DOMAIN sdkCalls :
        LET c == sdkCalls[k] IN
        c.at = "ok" /\ c.op \in Writes /\ c.there =>
            /\ c.how \in {"done", "vector", "append", "refused"}
            /\ c.how = "done" => \A i \in Touched(c) :
                  \/ sdkServer.points[i] = (IF c.op = "delete_point" THEN 0 ELSE k)
                  \/ \E j \in DOMAIN sdkCalls : sdkCalls[j].turn > c.turn /\ i \in Touched(sdkCalls[j])
            /\ c.how = "refused" => \E j \in DOMAIN sdkCalls :
                  /\ sdkCalls[j].op = "delete_point" /\ sdkCalls[j].turn \in 1..(c.turn - 1)
                  /\ Touched(sdkCalls[j]) \cap Touched(c) # {}

\* A vector that was acknowledged, and then replaced or deleted by a call that
\* began later, was carried out and was acknowledged too, never comes back,
\* whatever requests are still on their way (client/mod.rs sends a request once).
NeverRevived ==
    \A j, k \in DOMAIN sdkCalls :
        /\ sdkCalls[j].at = "ok" /\ sdkCalls[j].how = "done" /\ k \in sdkCalls[j].before
        => \A i \in ENumerals \cap Touched(sdkCalls[j]) : sdkServer.points[i] # k

\* What the client reports as done was handled, and stays as far as the server
\* carried it out; a call it gave up on does not come back after a later one
\* (client/mod.rs).
SdkSafe == SdkTypeOK /\ AckedApplied /\ NeverRevived

=============================================================================
