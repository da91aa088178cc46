--------------------------- MODULE FilteredSearch ---------------------------
(* Searches with filters: of collections, and of the hybrid engine.        *)
EXTENDS Integers, Sequences, FiniteSets, FiniteSetsExt, SequencesExt

-----------------------------------------------------------------------------
(***************************************************************************)
(* Filters and the search that applies them: the evaluator                 *)
(* (src/src/filter.rs), the conversion of a request's filter               *)
(* (src/src/api/qdrant_compat.rs) and Collection::search                   *)
(* (src/src/collection/mod.rs). The search reads the index, then the       *)
(* storage once for each result it filters and once more for each payload  *)
(* it returns; upserts and deletes of other requests come in between.      *)
(*                                                                         *)
(* A JSON value is [kind, v]; v is a number, a sequence of values for an   *)
(* array, a function of keys for an object. A string is the set of words   *)
(* it contains: a keyword compares the whole, a text looks for a word.     *)
(***************************************************************************)

CONSTANTS
    FsIds,        \* vector ids, which are also their distances to the query
    FsPayloads,   \* payloads: objects
    FsFilters,    \* filters of requests, as the core has them
    FsApiFilters, \* filters of requests, as the API has them
    FsLimit,      \* the limit of a search
    FsMaxWrites   \* bound: upserts and deletes

ASSUME FilterAssumption ==
    IsFiniteSet(FsIds) /\ FsIds \subseteq Nat /\ FsLimit \in Nat \ {0} /\ FsMaxWrites \in Nat

VARIABLES
    fsStore,    \* the storage: a set of at most one payload for each id
    fsIndexed,  \* the ids in the index
    fsWriter,   \* a write between its storage step and its index step
    fsWrites,   \* writes so far
    fsHunt,     \* a running or finished Collection::search
    fsHeld      \* ghost: what each id held since the search began

FilteredVars == <<fsStore, fsIndexed, fsWriter, fsWrites, fsHunt, fsHeld>>

NoFilter == [none |-> TRUE]
NoHunt == [at |-> "none"]
NoWriter == [at |-> "none"]

-----------------------------------------------------------------------------
(* The evaluator                                                           *)

IsString(v) == v.kind = "string"
IsNumber(v) == v.kind = "number"
Elements(v) == IF v.kind = "array" THEN Range(v.v) ELSE {}

\* Value::get, {} for None.
Field(v, key) == IF v.kind = "object" /\ key \in DOMAIN v.v THEN {v.v[key]} ELSE {}

\* get_nested_value: the steps of the key, split at its dots; the first step
\* marked [] ends the walk, and what is after it is not looked at.
StepsTo(path) ==
    LET marked == {i \in DOMAIN path : path[i].each}
    IN IF marked = {} THEN path ELSE SubSeq(path, 1, Min(marked))

get_nested_value(payload, path) ==
    FoldSeq(LAMBDA step, found : UNION {Field(v, step.key) : v \in found}, {payload}, StepsTo(path))

\* evaluate_value_match: a scalar, or an array that holds it.
evaluate_value_match(m, v) ==
    \/ v.kind = m.of /\ v.v = m.v
    \/ \E e \in Elements(v) : e.kind = m.of /\ e.v = m.v

\* evaluate_range: a bound that is absent is the empty set.
evaluate_range(r, v) ==
    /\ IsNumber(v)
    /\ \A b \in r.gt : v.v > b
    /\ \A b \in r.gte : v.v >= b
    /\ \A b \in r.lt : v.v < b
    /\ \A b \in r.lte : v.v <= b

\* evaluate_match. Text is a word of a string; Integer does not look into arrays.
evaluate_match(m, v) ==
    CASE m.op = "value" -> evaluate_value_match(m, v)
      [] m.op = "integer" -> IsNumber(v) /\ v.v = m.v
      [] m.op = "text" -> IsString(v) /\ m.v \subseteq v.v
      [] m.op = "range" -> evaluate_range(m, v)

evaluate_field_condition(c, payload) ==
    \E v \in get_nested_value(payload, c.path) : evaluate_match(c.match, v)

RECURSIVE matches(_, _, _)

\* evaluate_condition
evaluate_condition(c, id, payload) ==
    CASE c.op = "field" -> evaluate_field_condition(c, payload)
      [] c.op = "filter" -> matches(c.filter, id, payload)
      [] c.op = "has_id" -> id \in c.ids

\* FilterEvaluator::matches; an absent list is the empty one.
matches(f, id, payload) ==
    /\ \A i \in DOMAIN f.must : evaluate_condition(f.must[i], id, payload)
    /\ f.should # <<>> => \E i \in DOMAIN f.should : evaluate_condition(f.should[i], id, payload)
    /\ ~\E i \in DOMAIN f.must_not : evaluate_condition(f.must_not[i], id, payload)

-----------------------------------------------------------------------------
(* The conversion of a request's filter                                    *)

\* MatchCondition::to_core_match. A value that is neither a string nor an
\* integer becomes a keyword of its JSON text, here no word at all.
to_core_match(m) ==
    CASE m.op = "value" /\ IsString(m.v) -> [op |-> "value", of |-> "string", v |-> m.v.v]
      [] m.op = "value" /\ IsNumber(m.v) -> [op |-> "value", of |-> "number", v |-> m.v.v]
      [] m.op = "value" /\ m.v.kind \notin {"string", "number"} ->
            [op |-> "value", of |-> "string", v |-> {}]
      [] m.op = "keyword" -> [op |-> "value", of |-> "string", v |-> m.v.v]
      [] m.op = "text" -> [op |-> "text", v |-> m.v.v]
      [] m.op = "integer" -> [op |-> "integer", v |-> m.v.v]

to_core_condition(c) == [op |-> "field", path |-> c.path, match |-> to_core_match(c.match)]

to_core_filter(f) ==
    LET all(cs) == [i \in DOMAIN cs |-> to_core_condition(cs[i])]
    IN [must |-> all(f.must), should |-> all(f.should), must_not |-> all(f.must_not)]

-----------------------------------------------------------------------------
(* Writes of other requests: the storage, then the index                   *)

FilteredInit ==
    /\ fsStore \in [FsIds -> {{p} : p \in FsPayloads} \cup {{}}]
    /\ fsIndexed = {i \in FsIds : fsStore[i] # {}}
    /\ fsWriter = NoWriter /\ fsWrites = 0 /\ fsHunt = NoHunt
    /\ fsHeld = [i \in FsIds |-> {}]

StoreStep(id, payload, kind) ==
    /\ fsWriter = NoWriter /\ fsWrites < FsMaxWrites
    /\ fsWriter' = [at |-> kind, id |-> id] /\ fsWrites' = fsWrites + 1
    /\ fsStore' = [fsStore EXCEPT ![id] = payload]
    /\ fsHeld' = [fsHeld EXCEPT ![id] = @ \cup payload]
    /\ UNCHANGED <<fsIndexed, fsHunt>>

IndexStep ==
    /\ fsWriter # NoWriter /\ fsWriter' = NoWriter
    /\ fsIndexed' = IF fsWriter.at = "upsert" THEN fsIndexed \cup {fsWriter.id}
                    ELSE fsIndexed \ {fsWriter.id}
    /\ UNCHANGED <<fsStore, fsWrites, fsHunt, fsHeld>>

-----------------------------------------------------------------------------
(* Collection::search                                                      *)

\* The index gives the nearest, as many as the limit, before any filter.
NearestIds == LET near == {i \in fsIndexed : Cardinality({j \in fsIndexed : j < i}) < FsLimit}
              IN SetToSortSeq(near, <)

BeginHunt(filter, with_payload) ==
    /\ fsHunt = NoHunt
    /\ fsHunt' = [at |-> IF filter = NoFilter THEN "fetching" ELSE "filtering", filter |-> filter,
                  with_payload |-> with_payload, todo |-> NearestIds, kept |-> <<>>]
    /\ fsHeld' = fsStore
    /\ UNCHANGED <<fsStore, fsIndexed, fsWriter, fsWrites>>

\* Mutant: a vector that is not in the storage passes.
Retained_Missing(h, id) == \A p \in fsStore[id] : matches(h.filter, id, p)

\* The closure of retain: the vector is read again, and must be there.
Retained(h, id) == \E p \in fsStore[id] : matches(h.filter, id, p)

FilterOne ==
    LET h == fsHunt  id == Head(h.todo) IN
    /\ h.at = "filtering" /\ h.todo # <<>>
    /\ fsHunt' = [h EXCEPT !.todo = Tail(@), !.kept = IF Retained(h, id) THEN Append(@, id) ELSE @]
    /\ UNCHANGED <<fsStore, fsIndexed, fsWriter, fsWrites, fsHeld>>

\* The limit, and the payloads that are fetched when they were asked for; a
\* vector that has gone is answered without one.
Fetch(limit) ==
    LET h == fsHunt
        found == IF h.filter = NoFilter THEN h.todo ELSE h.kept
        taken == SubSeq(found, 1, Min({limit, Len(found)})) IN
    /\ \/ h.at = "filtering" /\ h.todo = <<>>
       \/ h.at = "fetching"
    /\ fsHunt' = [at |-> "answered", filter |-> h.filter,
                  answer |-> [i \in DOMAIN taken |->
                     [id |-> taken[i], payload |-> IF h.with_payload THEN fsStore[taken[i]] ELSE {}]]]
    /\ UNCHANGED <<fsStore, fsIndexed, fsWriter, fsWrites, fsHeld>>

EndHunt == /\ fsHunt # NoHunt /\ fsHunt.at = "answered" /\ fsHunt' = NoHunt
           /\ fsHeld' = [i \in FsIds |-> {}]
           /\ UNCHANGED <<fsStore, fsIndexed, fsWriter, fsWrites>>

FilteredNext ==
    \/ \E id \in FsIds, p \in FsPayloads : StoreStep(id, {p}, "upsert")
    \/ \E id \in FsIds : StoreStep(id, {}, "delete")
    \/ IndexStep \/ FilterOne \/ Fetch(FsLimit) \/ EndHunt
    \/ \E f \in FsFilters \cup {to_core_filter(a) : a \in FsApiFilters}, b \in BOOLEAN : BeginHunt(f, b)
    \/ \E b \in BOOLEAN : BeginHunt(NoFilter, b)

-----------------------------------------------------------------------------
(* Properties                                                              *)

\* Types, and an answer never longer than its limit.
FilteredTypeOK ==
    /\ \A i \in FsIds : Cardinality(fsStore[i]) <= 1 /\ fsStore[i] \subseteq FsPayloads
    /\ fsIndexed \subseteq FsIds /\ fsWriter.at \in {"none", "upsert", "delete"}
    /\ fsHunt.at \in {"none", "filtering", "fetching", "answered"}
    /\ fsHunt.at = "answered" => Len(fsHunt.answer) <= FsLimit

\* Every vector in the answer to a filtered search satisfied the filter with a
\* payload it held during the search, however writes interleave with the reads
\* of the search (collection/mod.rs, the closure of retain).
AnswersWitnessed ==
    fsHunt.at = "answered" /\ fsHunt.filter # NoFilter =>
        \A i \in DOMAIN fsHunt.answer :
            \E p \in fsHeld[fsHunt.answer[i].id] : matches(fsHunt.filter, fsHunt.answer[i].id, p)

Only(f) == [op |-> "filter", filter |-> f]
AsMust(f) == [must |-> <<Only(f)>>, should |-> <<>>, must_not |-> <<>>]
AsNot(f) == [must |-> <<>>, should |-> <<>>, must_not |-> <<Only(f)>>]
AsEither(f, g) == [must |-> <<>>, should |-> <<Only(f), Only(g)>>, must_not |-> <<>>]

\* Filters compose as formulas do, on every payload the storage holds: nesting
\* one changes nothing, must_not is its negation, should of two is their
\* disjunction (filter.rs, matches and evaluate_condition).
FiltersCompose ==
    \A i \in FsIds : \A p \in fsStore[i] : \A f, g \in FsFilters :
        /\ matches(AsMust(f), i, p) <=> matches(f, i, p)
        /\ matches(AsNot(f), i, p) <=> ~matches(f, i, p)
        /\ matches(AsEither(f, g), i, p) <=> matches(f, i, p) \/ matches(g, i, p)

NoBounds == [op |-> "range", gt |-> {}, gte |-> {}, lt |-> {}, lte |-> {}]

\* Two ranges that meet at a bound split the numbers that are stored: each one in the range
\* between two bounds is in exactly one of its halves (filter.rs, evaluate_range).
RangesSplit ==
    \A i \in FsIds : \A p \in fsStore[i] : \A key \in DOMAIN p.v :
      \A v \in {u \in {p.v[key]} \cup Elements(p.v[key]) : IsNumber(u)} :
      \A a, b, c \in 0..3 : a <= b /\ b <= c =>
        LET low == [NoBounds EXCEPT !.gte = {a}, !.lt = {b}]
            high == [NoBounds EXCEPT !.gte = {b}, !.lt = {c}]
            both == [NoBounds EXCEPT !.gte = {a}, !.lt = {c}]
        IN /\ evaluate_range(both, v) <=> evaluate_range(low, v) \/ evaluate_range(high, v)
           /\ ~(evaluate_range(low, v) /\ evaluate_range(high, v))

\* A request that asks for the string or the integer a payload holds finds it,
\* alone or in an array (qdrant_compat.rs, to_core_match; filter.rs,
\* evaluate_value_match).
ValueFindsItself ==
    \A i \in FsIds : \A p \in fsStore[i] : \A key \in DOMAIN p.v :
        \A v \in {p.v[key]} \cup Elements(p.v[key]) :
            v.kind \in {"string", "number"} =>
                evaluate_field_condition(to_core_condition(
                    [path |-> <<[key |-> key, each |-> FALSE]>>, match |-> [op |-> "value", v |-> v]]), p)

-----------------------------------------------------------------------------
(***************************************************************************)
(* HybridSearchEngine of src/src/index/hybrid_search.rs: a vector index, an *)
(* inverted index over metadata, the metadata itself and a cache of query  *)
(* results, four structures that are each locked on their own. Inserts and *)
(* searches run concurrently and take several steps.                       *)
(*                                                                         *)
(* There is one query vector. Metadata has the fields HFields, 0 standing  *)
(* for an absent field; selectivities are in hundredths.                   *)
(***************************************************************************)

CONSTANTS
    HSTasks,            \* concurrent callers
    HSIds,              \* vectors
    HFields, HValues,   \* metadata fields, and their values (positive)
    HFilters,           \* the filters of searches
    HThreshold,         \* the 0.1 of search
    HTtl,               \* default_ttl
    HMaxClock, HMaxInserts, HMaxSearches    \* bounds

ASSUME HybridAssumption ==
    /\ HValues \subseteq Nat \ {0} /\ HThreshold \in Nat /\ HTtl \in Nat
    /\ HMaxClock \in Nat /\ HMaxInserts \in Nat /\ HMaxSearches \in Nat

VARIABLES
    hvec,        \* the ids in the vector index
    hidx,        \* indexes: field -> value -> ids
    hcount,      \* field_counts
    hstore,      \* metadata_store
    hcache,      \* per filter: [there, ids, at]
    hclock,
    hjob,        \* calls between two steps
    hdone,       \* calls so far: [inserts, searches]
    hever        \* history: per id, the metadata it was ever inserted with

HybridVars == <<hvec, hidx, hcount, hstore, hcache, hclock, hjob, hdone, hever>>

Metadata == [HFields -> HValues \cup {0}]
NoMetadata == [f \in HFields |-> 0]
HybridIdle == [at |-> "none"]
NoEntry == [there |-> FALSE, ids |-> {}, since |-> 0]

HybridInit ==
    /\ hvec = {} /\ hidx = [f \in HFields |-> [v \in HValues |-> {}]]
    /\ hcount = [f \in HFields |-> 0] /\ hstore = [i \in {} |-> NoMetadata]
    /\ hcache = [f \in HFilters |-> NoEntry] /\ hclock = 0
    /\ hjob = [t \in HSTasks |-> HybridIdle] /\ hdone = [inserts |-> 0, searches |-> 0]
    /\ hever = [i \in HSIds |-> {}]

-----------------------------------------------------------------------------
(* Filters                                                                 *)

RECURSIVE evaluate(_, _), get_matching_ids(_), estimate_selectivity(_)

\* FilterCondition::evaluate; an absent field satisfies only Ne.
evaluate(f, m) ==
    CASE f.op = "eq"  -> m[f.field] = f.value
      [] f.op = "ne"  -> m[f.field] # f.value
      [] f.op = "gt"  -> m[f.field] # 0 /\ m[f.field] > f.value
      [] f.op = "in"  -> m[f.field] \in f.values
      [] f.op = "and" -> evaluate(f.left, m) /\ evaluate(f.right, m)
      [] f.op = "or"  -> evaluate(f.left, m) \/ evaluate(f.right, m)
      [] f.op = "not" -> ~evaluate(f.left, m)

NotIndexable == [ok |-> FALSE, ids |-> {}]
Matching(ids) == [ok |-> TRUE, ids |-> ids]

\* MetadataIndex::get_matching_ids: none when a part of a conjunction has no
\* entry in the index; in a disjunction such a part counts as empty.
get_matching_ids(f) ==
    CASE f.op = "eq"  -> IF hidx[f.field][f.value] = {} THEN NotIndexable ELSE Matching(hidx[f.field][f.value])
      [] f.op = "in"  -> IF \A v \in HValues : hidx[f.field][v] = {} THEN NotIndexable
                         ELSE Matching(UNION {hidx[f.field][v] : v \in f.values})
      [] f.op = "and" -> LET l == get_matching_ids(f.left)  r == get_matching_ids(f.right)
                         IN  IF l.ok /\ r.ok THEN Matching(l.ids \cap r.ids) ELSE NotIndexable
      [] f.op = "or"  -> Matching(get_matching_ids(f.left).ids \cup get_matching_ids(f.right).ids)
      [] OTHER        -> NotIndexable

\* estimate_selectivity; a count that is not there yet is 1.
estimate_selectivity(f) ==
    CASE f.op = "eq" /\ hidx[f.field][f.value] # {} ->
           (100 * Cardinality(hidx[f.field][f.value])) \div Max({1, hcount[f.field]})
      [] f.op = "and" -> (estimate_selectivity(f.left) * estimate_selectivity(f.right)) \div 100
      [] f.op = "or"  -> LET s == estimate_selectivity(f.left)  u == estimate_selectivity(f.right)
                         IN  s + u - (s * u) \div 100
      [] OTHER        -> 100

-----------------------------------------------------------------------------
(* insert: the vector, the inverted index, the counts, the metadata        *)

hybrid_insert(t, i, m) ==
    /\ hjob[t] = HybridIdle /\ hdone.inserts < HMaxInserts /\ hdone' = [hdone EXCEPT !.inserts = @ + 1]
    /\ hvec' = hvec \cup {i} /\ hever' = [hever EXCEPT ![i] = @ \cup {m}]
    /\ hjob' = [hjob EXCEPT ![t] = [at |-> "index", id |-> i, metadata |-> m]]
    /\ UNCHANGED <<hidx, hcount, hstore, hcache, hclock>>

IndexValues(t) ==
    /\ hjob[t].at = "index" /\ hjob' = [hjob EXCEPT ![t].at = "count"]
    /\ hidx' = [f \in HFields |-> [v \in HValues |->
                   IF hjob[t].metadata[f] = v THEN hidx[f][v] \cup {hjob[t].id} ELSE hidx[f][v]]]
    /\ UNCHANGED <<hvec, hcount, hstore, hcache, hclock, hdone, hever>>

Counted(f, m) == IF m[f] = 0 THEN hcount[f] ELSE hcount[f] + 1

UpdateCounts(t) ==
    /\ hjob[t].at = "count" /\ hjob' = [hjob EXCEPT ![t].at = "store"]
    /\ hcount' = [f \in HFields |-> Counted(f, hjob[t].metadata)]
    /\ UNCHANGED <<hvec, hidx, hstore, hcache, hclock, hdone, hever>>

StoreMetadata(t) ==
    /\ hjob[t].at = "store" /\ hjob' = [hjob EXCEPT ![t] = HybridIdle]
    /\ hstore' = [i \in DOMAIN hstore \cup {hjob[t].id} |->
                     IF i = hjob[t].id THEN hjob[t].metadata ELSE hstore[i]]
    /\ UNCHANGED <<hvec, hidx, hcount, hcache, hclock, hdone, hever>>

-----------------------------------------------------------------------------
(* search                                                                  *)

\* make_key: there is one query and one k, so the filter is the key.
make_key(f) == f

\* The ids that a search may return: the vector index gives the best of its
\* vectors, and the filter keeps some of them, up to k.
SomeOf(ids) == SUBSET (hvec \cap ids)

\* post_filter_search: vectors whose metadata is stored and matches.
post_filter_search(f) == SomeOf({i \in DOMAIN hstore : evaluate(f, hstore[i])})

\* pre_filter_search: the ids the inverted index gives; ids it still has under
\* a value of an earlier insert are among them.
pre_filter_search(f) == SomeOf(get_matching_ids(f).ids)

HybridAnswer(t, f, strategy, ids, ok) ==
    hjob' = [hjob EXCEPT ![t] = [at |-> "answered", filter |-> f, strategy |-> strategy, ids |-> ids, ok |-> ok]]

StartSearch(t) ==
    /\ hjob[t] = HybridIdle /\ hdone.searches < HMaxSearches
    /\ hdone' = [hdone EXCEPT !.searches = @ + 1]

\* QueryCache::get: an entry that is not expired is the answer.
Fresh(e) == e.there /\ hclock - e.since <= HTtl

SearchCached(t, f) ==
    /\ StartSearch(t) /\ Fresh(hcache[make_key(f)])
    /\ HybridAnswer(t, f, "cache", hcache[make_key(f)].ids, TRUE)
    /\ UNCHANGED <<hvec, hidx, hcount, hstore, hcache, hclock, hever>>

\* Auto picks the strategy from the selectivity.
Chosen(f, strategy) ==
    IF strategy # "auto" THEN strategy
    ELSE IF estimate_selectivity(f) < HThreshold THEN "pre" ELSE "post"

\* A search that finds nothing in the cache, up to its result or refusal.
hybrid_search(t, f, strategy) ==
    /\ StartSearch(t) /\ ~Fresh(hcache[make_key(f)])
    /\ IF Chosen(f, strategy) = "pre" /\ ~get_matching_ids(f).ok
       THEN HybridAnswer(t, f, strategy, {}, FALSE)
       ELSE \E ids \in IF Chosen(f, strategy) = "pre" THEN pre_filter_search(f) ELSE post_filter_search(f) :
              hjob' = [hjob EXCEPT ![t] = [at |-> "put", filter |-> f, strategy |-> strategy, ids |-> ids]]
    /\ UNCHANGED <<hvec, hidx, hcount, hstore, hcache, hclock, hever>>

PutResult(t) ==
    /\ hjob[t].at = "put"
    /\ hcache' = [hcache EXCEPT ![make_key(hjob[t].filter)] =
                     [there |-> TRUE, ids |-> hjob[t].ids, since |-> hclock]]
    /\ HybridAnswer(t, hjob[t].filter, hjob[t].strategy, hjob[t].ids, TRUE)
    /\ UNCHANGED <<hvec, hidx, hcount, hstore, hclock, hdone, hever>>

Return(t) ==
    /\ hjob[t].at = "answered" /\ hjob' = [hjob EXCEPT ![t] = HybridIdle]
    /\ UNCHANGED <<hvec, hidx, hcount, hstore, hcache, hclock, hdone, hever>>

clear_cache ==
    /\ \E f \in HFilters : hcache[f].there
    /\ hcache' = [f \in HFilters |-> NoEntry]
    /\ UNCHANGED <<hvec, hidx, hcount, hstore, hclock, hjob, hdone, hever>>

TimePasses ==
    /\ hclock < HMaxClock /\ hclock' = hclock + 1
    /\ UNCHANGED <<hvec, hidx, hcount, hstore, hcache, hjob, hdone, hever>>

HybridNext ==
    \/ \E t \in HSTasks :
         \/ \E i \in HSIds, m \in Metadata : hybrid_insert(t, i, m)
         \/ IndexValues(t) \/ UpdateCounts(t) \/ StoreMetadata(t) \/ PutResult(t) \/ Return(t)
         \/ \E f \in HFilters : \/ SearchCached(t, f)
                                \/ \E s \in {"pre", "post", "auto"} : hybrid_search(t, f, s)
    \/ clear_cache \/ TimePasses
-----------------------------------------------------------------------------
\* Every variable has its type.
HybridTypeOK ==
    /\ hvec \subseteq HSIds /\ hidx \in [HFields -> [HValues -> SUBSET HSIds]]
    /\ hcount \in [HFields -> 0..HMaxInserts] /\ DOMAIN hstore \subseteq HSIds
    /\ \A f \in HFilters : hcache[f].ids \subseteq HSIds

\* What a search returns matches its filter, also when the answer comes from
\* the cache or was computed while other calls inserted: for every vector that
\* was inserted with one metadata only. A vector that is inserted again stays in
\* the inverted index under its old value, so the pre-filter may return it.
AnswersMatch ==
    \A t \in HSTasks : hjob[t].at = "answered" =>
        \A i \in hjob[t].ids : Cardinality(hever[i]) = 1 =>
            \A m \in hever[i] : evaluate(hjob[t].filter, m)

\* With Auto a search is refused as not indexable only for a conjunction (of a
\* selective part and one that has no entries in the inverted index).
AutoAnswers ==
    \A t \in HSTasks : hjob[t].at = "answered" /\ hjob[t].strategy = "auto" /\ ~hjob[t].ok =>
        hjob[t].filter.op = "and"

\* No value of a field is held by more vectors than the field has: while no
\* insert is between the two, selectivities are at most 1.
SelectivityBounded ==
    (\A t \in HSTasks : hjob[t].at # "count") =>
        \A f \in HFilters : estimate_selectivity(f) \in 0..100
=============================================================================
