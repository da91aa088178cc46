----------------------------- MODULE ApiGateway -----------------------------
(* What stands between a request and its handler.                          *)
EXTENDS Naturals, Sequences, FiniteSets

-----------------------------------------------------------------------------
(***************************************************************************)
(* What a request passes on its way to a handler (src/src/api/middleware   *)
(* .rs, enhanced_router.rs, performance.rs): the rate limiter, the size    *)
(* limit, the time limit and the monitor that records the answer.  The     *)
(* layers nest in the order create_enhanced_router adds them, the last one *)
(* outermost, so a request that is refused or that runs out of time never  *)
(* reaches the end of the monitor.  The monitor keeps each counter behind  *)
(* a lock of its own: recording a request and resetting the metrics        *)
(* interleave.                                                             *)
(***************************************************************************)

CONSTANTS
    OHeaders,       \* pairs of forwarding headers that requests carry
    ORequests,      \* identities of requests
    OMax,           \* requests that a client may make in one window
    OWindow,        \* length of a window
    OMaxClock,      \* bound on time
    OMaxResets      \* bound on resets of the metrics

\* A limit of no requests at all would let the first of every window pass.
ASSUME GatewayAssumption ==
    /\ OMax \in Nat \ {0} /\ OWindow \in Nat /\ OMaxClock \in Nat
    /\ IsFiniteSet(ORequests)

VARIABLES
    clock,
    clients,        \* client -> [count, start], as the rate limiter keeps it
    request,        \* request -> [at, client, error]
    counts,         \* the monitor's counters
    resetting,      \* the counter that a running reset clears next
    admitted,       \* history: [req, client, when] of admitted requests
    finished,       \* history: requests recorded to the end
    resets

GatewayVars == <<clock, clients, request, counts, resetting, admitted,
                 finished, resets>>

requestVars == <<request, admitted, finished, clients>>
metricVars  == <<counts, resetting, resets>>

Counters == <<"times", "requests", "errors">>

GatewayInit ==
    /\ clock = 0
    /\ clients = << >>
    /\ request = [r \in ORequests |-> [at |-> "idle"]]
    /\ counts = [c \in {"times", "requests", "errors"} |-> 0]
    /\ resetting = 0
    /\ admitted = {} /\ finished = {} /\ resets = 0

Put(f, k, v) == [x \in DOMAIN f \cup {k} |-> IF x = k THEN v ELSE f[x]]

-----------------------------------------------------------------------------
(* The rate limiter *)

Expired(c) == clock - clients[c].start >= OWindow

is_allowed(c) == c \notin DOMAIN clients \/ Expired(c) \/ clients[c].count < OMax

(* What is_allowed leaves in the map when it says yes. *)
Counted(c) ==
    IF c \in DOMAIN clients /\ ~Expired(c)
    THEN Put(clients, c, [clients[c] EXCEPT !.count = @ + 1])
    ELSE Put(clients, c, [count |-> 1, start |-> clock])

remaining_requests(c) ==
    IF c \notin DOMAIN clients \/ Expired(c) THEN OMax
    ELSE IF clients[c].count < OMax THEN OMax - clients[c].count ELSE 0

\* Mutant: every client is forgotten.
Stale_Any(c) == TRUE

Stale(c) == clock - clients[c].start >= 2 * OWindow

cleanup_expired ==
    /\ \E c \in DOMAIN clients : Stale(c)
    /\ clients' = [c \in {d \in DOMAIN clients : ~Stale(d)} |-> clients[c]]
    /\ UNCHANGED <<clock, request, admitted, finished, metricVars>>

-----------------------------------------------------------------------------
(* A request *)

(* X-Forwarded-For, else X-Real-IP, else one name that all share. *)
extract_client_ip(forwarded, real) ==
    IF forwarded # "none" THEN forwarded ELSE IF real # "none" THEN real ELSE "unknown"

OClients == {extract_client_ip(h[1], h[2]) : h \in OHeaders}

(* The limit on the length the request announces: one that announces none  *)
(* is let through.                                                         *)
SizeAllowed(length) == length \in {"unknown", "within"}

(* The rate limiter, then the size limit. *)
Enter(r, forwarded, real, length) ==
    /\ request[r].at = "idle"
    /\ LET c  == extract_client_ip(forwarded, real)
           ok == is_allowed(c)
       IN  /\ clients' = IF ok THEN Counted(c) ELSE clients
           /\ admitted' = IF ok THEN admitted \cup {[req |-> r, client |-> c, when |-> clock]}
                                ELSE admitted
           /\ request' = [request EXCEPT ![r] =
                IF ok /\ SizeAllowed(length) THEN [at |-> "running"] ELSE [at |-> "answered"]]
    /\ UNCHANGED <<clock, finished, metricVars>>

(* The handler answers; the monitor takes its three locks in turn. *)
RecordTime(r, error) ==
    /\ request[r].at = "running"
    /\ counts' = [counts EXCEPT !["times"] = @ + 1]
    /\ request' = [request EXCEPT ![r] = [at |-> "counting", error |-> error]]
    /\ UNCHANGED <<clock, clients, admitted, finished, resetting, resets>>

AfterCount(r) == IF request[r].error THEN [request[r] EXCEPT !.at = "failing"]
                 ELSE [at |-> "answered"]

RecordCount(r) ==
    /\ request[r].at = "counting"
    /\ counts' = [counts EXCEPT !["requests"] = @ + 1]
    /\ request' = [request EXCEPT ![r] = AfterCount(r)]
    /\ finished' = IF request[r].error THEN finished ELSE finished \cup {r}
    /\ UNCHANGED <<clock, clients, admitted, resetting, resets>>

RecordError(r) ==
    /\ request[r].at = "failing"
    /\ counts' = [counts EXCEPT !["errors"] = @ + 1]
    /\ request' = [request EXCEPT ![r] = [at |-> "answered"]]
    /\ finished' = finished \cup {r}
    /\ UNCHANGED <<clock, clients, admitted, resetting, resets>>

(* timeout_middleware drops the future of the inner layers where it stands. *)
timeout_middleware(r) ==
    /\ request[r].at \in {"running", "counting", "failing"}
    /\ request' = [request EXCEPT ![r] = [at |-> "answered"]]
    /\ UNCHANGED <<clock, clients, admitted, finished, metricVars>>

(* reset clears one counter after the other (the cache counters that it    *)
(* clears last are kept by callers outside the router).                    *)
reset ==
    /\ resetting = 0 /\ resets < OMaxResets
    /\ resetting' = 1
    /\ resets' = resets + 1
    /\ UNCHANGED <<clock, requestVars, counts>>

ResetCounter ==
    /\ resetting > 0
    /\ counts' = [counts EXCEPT ![Counters[resetting]] = 0]
    /\ resetting' = IF resetting = 3 THEN 0 ELSE resetting + 1
    /\ UNCHANGED <<clock, requestVars, resets>>

-----------------------------------------------------------------------------
GatewayTick ==
    /\ clock < OMaxClock
    /\ clock' = clock + 1
    /\ UNCHANGED <<requestVars, metricVars>>

GatewayNext ==
    \/ cleanup_expired
    \/ \E r \in ORequests, h \in OHeaders,
          length \in {"unknown", "within", "beyond"} : Enter(r, h[1], h[2], length)
    \/ \E r \in ORequests :
         \/ \E e \in BOOLEAN : RecordTime(r, e)
         \/ RecordCount(r)
         \/ RecordError(r)
         \/ timeout_middleware(r)
    \/ reset
    \/ ResetCounter
    \/ GatewayTick

-----------------------------------------------------------------------------
(* Properties *)

(* Every count of the rate limiter is within the limit.                    *)
GatewayTypeOK ==
    /\ clock \in 0 .. OMaxClock
    /\ \A c \in DOMAIN clients : clients[c].count \in 1 .. OMax /\ clients[c].start <= clock
    /\ \A r \in ORequests : request[r].at \in {"idle", "running", "counting", "failing", "answered"}
    /\ counts \in [{"times", "requests", "errors"} -> Nat]
    /\ resetting \in 0 .. Len(Counters)

(* However requests, cleanups and the end of windows fall, no interval as  *)
(* long as a window admits more than two windows' worth of one client: a   *)
(* fixed window may be used up at its end and the next at its beginning,   *)
(* and cleanup_expired never opens a third.                                *)
BurstBounded ==
    \A c \in OClients : \A t \in 0 .. OMaxClock :
        Cardinality({a \in admitted : a.client = c /\ a.when \in t .. t + OWindow - 1})
            <= 2 * OMax

(* The number of requests that a client is told to have left is what the   *)
(* limiter then grants: it is zero exactly when the next request of that   *)
(* moment is refused, at the end of a window and after a cleanup too.      *)
RemainingTruthful ==
    \A c \in OClients :
        (remaining_requests(c) > 0) <=> is_allowed(c)

(* Until the metrics are reset they are ordered as record_request writes   *)
(* them: no more errors than requests, no more requests than samples, and  *)
(* none of the requests that were recorded to the end is missing, whatever *)
(* the time limit cut short.                                               *)
RecordedInOrder ==
    resets = 0 =>
        /\ counts["errors"] <= counts["requests"]
        /\ counts["requests"] <= counts["times"]
        /\ counts["requests"] >= Cardinality(finished)

-----------------------------------------------------------------------------
(***************************************************************************)
(* The API keys and roles (src/src/auth/) and the cache of query results   *)
(* (src/src/api/performance.rs).  Both answer from a map whose entries     *)
(* expire; a key is also revoked by its name.  A path is public, or needs  *)
(* a key of the store unless the store is empty.                           *)
(***************************************************************************)

CONSTANTS
    AKeys,          \* values of API keys
    ANames,         \* names of API keys
    ARoles,         \* roles given to keys
    ACacheSize,     \* entries of the query cache
    ATtls,          \* lives of cache entries
    AQueries,       \* keys of the query cache
    AMaxClock,      \* bound on time
    AMaxWrites,     \* bound on writes of the cache
    AMaxKeyCalls    \* bound on changes of the key store

\* A cache of no entries would hold one.
ASSUME AccessAssumption ==
    /\ ACacheSize \in Nat \ {0} /\ ARoles \subseteq {"reader", "writer", "admin"}
    /\ ATtls \subseteq Nat /\ AMaxClock \in Nat

VARIABLES
    time,
    keys,           \* key value -> [name, role, active, expires]
    query_cache,    \* query -> [value, expires]
    revoked,        \* history: key values made inactive and not added again
    opened,         \* history: the last request that was let in
    written,        \* history: query -> [value, until] of its last write
    keycalls, writes

AccessVars == <<time, keys, query_cache, revoked, opened, written, keycalls, writes>>

keyVars   == <<keys, revoked, opened, keycalls>>
cacheVars == <<query_cache, written, writes>>

NoRequest == [key |-> "none", role |-> "none", may |-> {}, revoked |-> FALSE]

AccessInit ==
    /\ time = 0
    /\ keys = << >>
    /\ query_cache = << >>
    /\ revoked = {}
    /\ opened = NoRequest
    /\ written = << >>
    /\ keycalls = 0 /\ writes = 0

Dropped(f, k) == [x \in DOMAIN f \ {k} |-> f[x]]

-----------------------------------------------------------------------------
(* The key store and the roles *)

reader_permissions == {"ListCollections", "GetCollectionInfo", "Search", "Retrieve",
                       "ViewMetrics"}
writer_permissions == {"CreateCollection", "ListCollections", "GetCollectionInfo",
                       "InsertVectors", "DeleteVectors", "Search", "Retrieve",
                       "ViewMetrics"}
all_permissions == writer_permissions \cup
    {"DeleteCollection", "CreateIndex", "DeleteIndex", "OptimizeIndex", "ClusterAdmin",
     "ViewClusterStatus", "SystemAdmin", "ViewLogs"}

has_permission(role, p) ==
    CASE role = "admin"  -> TRUE
      [] role = "writer" -> p \in writer_permissions
      [] role = "reader" -> p \in reader_permissions

(* me_handler reports what the role may do. *)
get_permissions_for_role(role) == {p \in all_permissions : has_permission(role, p)}

(* A key of another value replaces nothing; the same value replaces it. *)
add_key(k, n, role, life) ==
    /\ keycalls < AMaxKeyCalls
    /\ keys' = Put(keys, k, [name |-> n, role |-> role, active |-> TRUE,
                              expires |-> IF life = 0 THEN AMaxClock ELSE time + life])
    /\ revoked' = revoked \ {k}
    /\ keycalls' = keycalls + 1
    /\ UNCHANGED <<time, cacheVars, opened>>

(* The first key of the name, in the order of the map. *)
revoke(n) ==
    /\ keycalls < AMaxKeyCalls
    /\ \E k \in DOMAIN keys :
         /\ keys[k].name = n
         /\ keys' = [keys EXCEPT ![k].active = FALSE]
         /\ revoked' = revoked \cup {k}
    /\ keycalls' = keycalls + 1
    /\ UNCHANGED <<time, cacheVars, opened>>

validate(k) ==
    /\ k \in DOMAIN keys
    /\ keys[k].active
    /\ ~(time > keys[k].expires)

(* The X-API-Key header wins over the Authorization header. *)
extract_api_key(header, bearer) == IF header # "none" THEN header ELSE bearer

(* auth_middleware: a public path, an empty store, or a key that validates. *)
auth_middleware(public, header, bearer) ==
    \/ public
    \/ DOMAIN keys = {}
    \/ validate(extract_api_key(header, bearer))

(* A request that is let in carries the role of its key. *)
Request(public, header, bearer) ==
    /\ auth_middleware(public, header, bearer)
    /\ LET k == extract_api_key(header, bearer)
       IN  opened' = IF public \/ DOMAIN keys = {} THEN NoRequest
                     ELSE [key |-> k, role |-> keys[k].role,
                           may |-> get_permissions_for_role(keys[k].role),
                           revoked |-> k \in revoked]
    /\ UNCHANGED <<time, keys, revoked, keycalls, cacheVars>>

-----------------------------------------------------------------------------
(* The cache of query results *)

is_expired(e) == time > e.expires

get(q) == q \in DOMAIN query_cache /\ ~is_expired(query_cache[q])

(* What a write leaves: nothing expired, and one entry fewer when full,    *)
(* even if the key that is written is among them.                          *)
Evicted(c) == IF Cardinality(DOMAIN c) >= ACacheSize /\ DOMAIN c # {}
              THEN {Dropped(c, k) : k \in DOMAIN c} ELSE {c}

Inserted(c, q, e) == Put(c, q, e)

put_with_ttl(q, ttl) ==
    /\ writes < AMaxWrites
    /\ LET kept == [k \in {x \in DOMAIN query_cache : ~is_expired(query_cache[x])} |->
                      query_cache[k]]
       IN  \E c \in Evicted(kept) :
             query_cache' = Inserted(c, q, [value |-> writes + 1, expires |-> time + ttl])
    /\ written' = Put(written, q, [value |-> writes + 1, until |-> time + ttl])
    /\ writes' = writes + 1
    /\ UNCHANGED <<time, keyVars>>

clear_cache ==
    /\ query_cache # << >>
    /\ query_cache' = << >>
    /\ UNCHANGED <<time, keyVars, written, writes>>

CacheStats ==
    LET expired == {k \in DOMAIN query_cache : is_expired(query_cache[k])}
    IN  [total_entries |-> Cardinality(DOMAIN query_cache),
         expired_entries |-> Cardinality(expired),
         active_entries |-> Cardinality(DOMAIN query_cache) - Cardinality(expired)]

-----------------------------------------------------------------------------
AccessTick ==
    /\ time < AMaxClock
    /\ time' = time + 1
    /\ UNCHANGED <<keyVars, cacheVars>>

AccessNext ==
    \/ \E k \in AKeys, n \in ANames, role \in ARoles, life \in {0, 1} : add_key(k, n, role, life)
    \/ \E n \in ANames : revoke(n)
    \/ \E public \in BOOLEAN, h \in AKeys \cup {"none"}, b \in AKeys \cup {"none"} :
         Request(public, h, b)
    \/ \E q \in AQueries, ttl \in ATtls : put_with_ttl(q, ttl)
    \/ clear_cache
    \/ AccessTick

-----------------------------------------------------------------------------
(* Properties *)

(* The state is well formed, and the cache never holds more than its size: *)
(* put_with_ttl evicts before it inserts.                                  *)
AccessTypeOK ==
    /\ time \in 0 .. AMaxClock
    /\ \A k \in DOMAIN keys : keys[k].name \in ANames /\ keys[k].role \in ARoles
    /\ revoked \subseteq DOMAIN keys
    /\ Cardinality(DOMAIN query_cache) <= ACacheSize
    /\ CacheStats.active_entries = Cardinality({q \in AQueries : get(q)})

(* A key that revoke made inactive lets no later request in until the same *)
(* value is added again, whatever other keys share its name and whichever  *)
(* header carries it; and a request of a reader may change nothing         *)
(* (Role::Reader is "read-only access").                                   *)
RevokedStaysOut ==
    /\ ~opened.revoked
    /\ opened.role = "reader" =>
         opened.may \cap {"CreateCollection", "DeleteCollection", "InsertVectors",
                           "DeleteVectors", "CreateIndex", "DeleteIndex"} = {}

(* What the cache answers for a query is what the last write of that query *)
(* stored, and not longer than that write's time to live, however writes   *)
(* of other queries evict and expire entries in between.                   *)
CacheLatest ==
    \A q \in AQueries : get(q) => /\ query_cache[q].value = written[q].value
                                  /\ time <= written[q].until

-----------------------------------------------------------------------------
\* The limiter and the monitor at work, or the keys and the cache.
FrontNext ==
    \/ GatewayNext /\ UNCHANGED AccessVars
    \/ AccessNext /\ UNCHANGED GatewayVars

FrontSpec == GatewayInit /\ AccessInit /\ [][FrontNext]_<<GatewayVars, AccessVars>>

\* No client gets more than twice its limit through in a window's length, what the
\* headers say of the rest is true, metrics count in order (api/middleware.rs,
\* performance.rs); a revoked key opens nothing (auth/), and the query cache never
\* answers with what was overwritten (performance.rs).
GatewaySafe ==
    /\ GatewayTypeOK /\ BurstBounded /\ RecordedInOrder /\ RemainingTruthful
    /\ AccessTypeOK /\ RevokedStaysOut /\ CacheLatest

=============================================================================
