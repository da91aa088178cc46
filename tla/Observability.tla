--------------------------- MODULE Observability ----------------------------
(* Health probes and telemetry.                                            *)
EXTENDS Naturals, Sequences, FiniteSets

-----------------------------------------------------------------------------
(***************************************************************************)
(* The health probes (src/src/observability/health.rs, server.rs).  The    *)
(* readiness check asks the registered checks one after the other, letting *)
(* go of the list in between, and the overall status asks liveness, then   *)
(* readiness, then startup: the answers are of different moments.  A       *)
(* monitor repeats the overall status and tells its subscribers when it    *)
(* changed.  What the storage and the cluster report is environment.       *)
(***************************************************************************)

CONSTANTS
    YChecks,        \* names of checks that may be registered
    YCritical,      \* the critical ones
    YNodes,         \* nodes of the cluster
    YGrace,         \* seconds until startup_handler reports started
    YMaxFlips,      \* bound on changes of what is checked
    YMaxTicks       \* bound on rounds of the monitor

ASSUME HealthAssumption == YGrace \in Nat \ {0} /\ YNodes \in Nat

VARIABLES
    uptime,         \* seconds since start, as far as the probes tell apart
    is_ready,       \* StartupCheck
    checks,         \* the registered checks, in order
    condition,      \* check -> what it would report now
    mon,            \* the monitor: where it is, and what it has seen
    last_status,    \* the status that the monitor sent last
    check_results,  \* probe -> status, as last stored
    sent,           \* what was broadcast, in order
    good,           \* history: the checks this round asked and saw healthy
    probed,         \* the last answers of the HTTP probes
    flips, ticks

HealthVars == <<uptime, is_ready, checks, condition, mon, last_status, check_results,
                sent, good, probed, flips, ticks>>

worldVars   == <<uptime, is_ready, checks, condition, flips>>
monitorVars == <<mon, last_status, check_results, sent, ticks, good, probed>>

Statuses == {"Healthy", "Degraded", "Unhealthy"}

is_healthy(s)   == s = "Healthy"
http_code(s)    == IF s \in {"Healthy", "Degraded"} THEN 200 ELSE 503

(* What the storage check and the cluster check make of what they see. *)
StorageHealth(ok) == IF ok THEN "Healthy" ELSE "Unhealthy"

ClusterHealth(healthy_nodes, is_quorum) ==
    IF ~is_quorum THEN "Unhealthy"
    ELSE IF healthy_nodes = YNodes THEN "Healthy" ELSE "Degraded"

Reports == {StorageHealth(b) : b \in BOOLEAN} \cup
           {ClusterHealth(n, q) : n \in 0 .. YNodes, q \in BOOLEAN}

HealthInit ==
    /\ uptime = 0
    /\ is_ready = FALSE
    /\ checks = << >>
    /\ condition = [c \in YChecks |-> "Healthy"]
    /\ mon = [at |-> "waiting"]
    /\ last_status = "Unknown"
    /\ check_results = << >>
    /\ sent = << >>
    /\ good = [asked |-> {}, seen |-> {}]
    /\ probed = [live |-> 503, ready |-> 503, started |-> 503]
    /\ flips = 0 /\ ticks = 0

Registered == {checks[i] : i \in DOMAIN checks}

-----------------------------------------------------------------------------
(* The world around the probes *)

add_readiness_check(c) ==
    /\ c \notin Registered
    /\ checks' = Append(checks, c)
    /\ UNCHANGED <<uptime, is_ready, condition, flips, monitorVars>>

mark_ready ==
    /\ ~is_ready
    /\ is_ready' = TRUE
    /\ UNCHANGED <<uptime, checks, condition, flips, monitorVars>>

Seconds ==
    /\ uptime < YGrace
    /\ uptime' = uptime + 1
    /\ UNCHANGED <<is_ready, checks, condition, flips, monitorVars>>

Change(c, s) ==
    /\ flips < YMaxFlips
    /\ s # condition[c]
    /\ condition' = [condition EXCEPT ![c] = s]
    /\ flips' = flips + 1
    /\ UNCHANGED <<uptime, is_ready, checks, monitorVars>>

-----------------------------------------------------------------------------
(* The monitor.  A round: liveness, readiness, startup, then store and     *)
(* notify.                                                                 *)

check_liveness == "Healthy"

Round ==
    /\ mon.at = "waiting"
    /\ ticks < YMaxTicks
    /\ ticks' = ticks + 1
    /\ good' = [asked |-> IF is_ready THEN Registered ELSE {}, seen |-> {}]
    /\ mon' = IF is_ready
              THEN [at |-> "asking", list |-> checks, next |-> 1]
              ELSE [at |-> "startup", readiness |-> "Unhealthy"]
    /\ UNCHANGED <<worldVars, last_status, check_results, sent, probed>>

\* Mutant: a degraded critical check does not count.
Failing_Unavailable(c) == c \in YCritical /\ condition[c] = "Unhealthy"

Failing(c) == c \in YCritical /\ ~is_healthy(condition[c])

(* One check of the list that was read at the start.  A critical check     *)
(* that is not healthy ends the readiness check with its status.           *)
AskCheck ==
    /\ mon.at = "asking" /\ mon.next <= Len(mon.list)
    /\ LET c == mon.list[mon.next]
       IN  /\ mon' = IF Failing(c) THEN [at |-> "startup", readiness |-> condition[c]]
                     ELSE [mon EXCEPT !.next = @ + 1]
           /\ good' = IF is_healthy(condition[c]) THEN [good EXCEPT !.seen = @ \cup {c}] ELSE good
    /\ UNCHANGED <<worldVars, last_status, check_results, sent, ticks, probed>>

AskedAll ==
    /\ mon.at = "asking" /\ mon.next > Len(mon.list)
    /\ mon' = [at |-> "startup", readiness |-> "Healthy"]
    /\ UNCHANGED <<worldVars, last_status, check_results, sent, ticks, good, probed>>

check_startup == IF is_ready THEN "Healthy" ELSE "Unhealthy"

(* The last branches: a readiness that is not healthy was taken before, so *)
(* Degraded is never the overall status.                                   *)
Overall(liveness, readiness, startup) ==
    IF ~is_healthy(liveness) \/ ~is_healthy(startup) \/ ~is_healthy(readiness) THEN "Unhealthy"
    ELSE IF readiness = "Degraded" THEN "Degraded" ELSE "Healthy"

overall_status ==
    /\ mon.at = "startup"
    /\ LET startup == check_startup
       IN  /\ check_results' = [liveness |-> check_liveness, readiness |-> mon.readiness,
                                startup |-> startup]
           /\ mon' = [at |-> "notify", status |-> Overall(check_liveness, mon.readiness, startup)]
    /\ UNCHANGED <<worldVars, last_status, sent, ticks, good, probed>>

Notify ==
    /\ mon.at = "notify"
    /\ sent' = IF mon.status # last_status THEN Append(sent, mon.status) ELSE sent
    /\ last_status' = mon.status
    /\ mon' = [at |-> "waiting"]
    /\ UNCHANGED <<worldVars, check_results, ticks, good, probed>>

(* The probes of the HTTP server go by the time since start, not by the    *)
(* checks; only readiness asks them (here: the round that just ended).     *)
liveness_handler == IF uptime >= 1 THEN 200 ELSE 503
startup_handler  == IF uptime >= YGrace THEN 200 ELSE 503
readiness_handler == http_code(mon.status)

Probe ==
    /\ mon.at = "notify"
    /\ probed' = [live |-> liveness_handler, ready |-> readiness_handler,
                  started |-> startup_handler]
    /\ UNCHANGED <<worldVars, mon, last_status, check_results, sent, ticks, good>>

HealthNext ==
    \/ \E c \in YChecks : add_readiness_check(c)
    \/ mark_ready
    \/ Seconds
    \/ \E c \in YChecks, s \in Reports : Change(c, s)
    \/ Round
    \/ AskCheck
    \/ AskedAll
    \/ overall_status
    \/ Notify
    \/ Probe

-----------------------------------------------------------------------------
(* Properties *)

(* The state is well formed. *)
HealthTypeOK ==
    /\ Registered \subseteq YChecks
    /\ condition \in [YChecks -> Statuses]
    /\ mon.at \in {"waiting", "asking", "startup", "notify"}
    /\ last_status \in Statuses \cup {"Unknown"}
    /\ uptime \in 0 .. YGrace

(* When the monitor concludes Healthy, startup was complete and every      *)
(* critical check of the list it read was healthy when it was asked in     *)
(* that round, however the world changes while the round runs.             *)
HealthyWitnessed ==
    mon.at = "notify" /\ mon.status = "Healthy" =>
        /\ is_ready
        /\ check_results["readiness"] = "Healthy" /\ check_results["startup"] = "Healthy"
        /\ good.asked \cap YCritical \subseteq good.seen

(* Subscribers hear of changes only: no two broadcasts in a row are the    *)
(* same, and the last one is the status the monitor found last.            *)
OnlyChangesSent ==
    /\ \A i \in 1 .. Len(sent) - 1 : sent[i] # sent[i + 1]
    /\ last_status # "Unknown" => sent # << >> /\ sent[Len(sent)] = last_status

(* The orchestrator kills a pod that passed the startup probe and fails    *)
(* the liveness probe: the startup probe never passes first, and readiness *)
(* passes only after StartupCheck was marked.                              *)
ProbesOrdered ==
    /\ probed.started = 200 => probed.live = 200
    /\ probed.ready = 200 => is_ready

-----------------------------------------------------------------------------
(***************************************************************************)
(* Metrics, spans and the request context of log lines                     *)
(* (src/src/observability/performance.rs, metrics.rs, logging.rs).         *)
(*   - a custom counter is looked up under a read lock and created under a *)
(*     write lock taken afterwards; the registry refuses a second counter  *)
(*     of a name, and record_operation ignores that error;                 *)
(*   - the cardinality limiter counts calls per metric and label;          *)
(*   - the span buffer refuses what would exceed its memory;               *)
(*   - a future that preserves its context sets the thread's request id    *)
(*     before each poll and clears it when it is ready.                    *)
(***************************************************************************)

CONSTANTS
    ITasks,         \* tasks that record operations
    INames,         \* names of operations
    IMaxOps,        \* bound on recorded operations
    ILimit,         \* max_cardinality
    ISpanSize,      \* estimated_span_size
    IMemory,        \* memory_limit
    IBatch,         \* size of an export batch
    IMaxSpans,      \* bound on spans
    IThreads,       \* threads of the runtime
    IFutures,       \* futures that preserve their context
    IMaxPolls       \* bound on polls

ASSUME TelemetryAssumption ==
    /\ ILimit \in Nat \ {0} /\ ISpanSize \in Nat /\ IMemory \in Nat /\ IBatch \in Nat

VARIABLES
    custom_counters,    \* names in the collector's map
    registry,           \* name -> value, as the registry exports it
    rec,                \* task -> [at, name]
    recorded,           \* history: name -> operations whose counter was found
    observed,           \* metric -> values let through
    buffer, current_memory, dropped_spans,
    pushed, exported,   \* history: spans offered, spans exported in order
    REQUEST_ID,         \* thread -> request id, "none"
    future,             \* future -> [at, id]
    logged,             \* history: <<future, id under which it logged>>
    ops, polls

TelemetryVars == <<custom_counters, registry, rec, recorded, observed, buffer,
                   current_memory, dropped_spans, pushed, exported, REQUEST_ID,
                   future, logged, ops, polls>>

counterVars == <<custom_counters, registry, rec, recorded, ops>>
spanVars    == <<buffer, current_memory, dropped_spans, pushed, exported, observed>>
logVars     == <<REQUEST_ID, future, logged, polls>>

TelemetryInit ==
    /\ custom_counters = {}
    /\ registry = << >>
    /\ rec = [t \in ITasks |-> [at |-> "idle"]]
    /\ recorded = [n \in INames |-> 0]
    /\ observed = << >>
    /\ buffer = << >> /\ current_memory = 0 /\ dropped_spans = 0
    /\ pushed = 0 /\ exported = << >>
    /\ REQUEST_ID = [th \in IThreads |-> "none"]
    /\ future = [f \in IFutures |-> [at |-> "unborn"]]
    /\ logged = {}
    /\ ops = 0 /\ polls = 0

Entered(f, k, v) == [x \in DOMAIN f \cup {k} |-> IF x = k THEN v ELSE f[x]]

-----------------------------------------------------------------------------
(* record_operation and counter *)

(* The look-up under the read lock. *)
record_operation(t, n) ==
    /\ rec[t].at = "idle" /\ ops < IMaxOps
    /\ ops' = ops + 1
    /\ IF n \in custom_counters
       THEN /\ registry' = [registry EXCEPT ![n] = @ + 1]
            /\ recorded' = [recorded EXCEPT ![n] = @ + 1]
            /\ UNCHANGED rec
       ELSE /\ rec' = [rec EXCEPT ![t] = [at |-> "creating", name |-> n]]
            /\ UNCHANGED <<registry, recorded>>
    /\ UNCHANGED <<custom_counters, spanVars, logVars>>

(* The creation under the write lock: a name that is registered already is *)
(* an error, and the increment is lost with it.                            *)
CanRegister(n) == n \notin DOMAIN registry

CreateCounter(t) ==
    /\ rec[t].at = "creating"
    /\ LET n == rec[t].name
       IN  IF CanRegister(n)
           THEN /\ registry' = Entered(registry, n, 1)
                /\ custom_counters' = custom_counters \cup {n}
                /\ recorded' = [recorded EXCEPT ![n] = @ + 1]
           ELSE UNCHANGED <<registry, custom_counters, recorded>>
    /\ rec' = [rec EXCEPT ![t] = [at |-> "idle"]]
    /\ UNCHANGED <<ops, spanVars, logVars>>

-----------------------------------------------------------------------------
(* The cardinality limiter and the span buffer *)

(* A value that looks like an identifier is refused unseen; otherwise the  *)
(* call is counted, whether or not the value is new.                       *)
check_cardinality(n, unbounded) ==
    ~unbounded /\ (n \notin DOMAIN observed \/ observed[n] < ILimit)

(* A span that carries the metric's label and is pushed to the buffer. *)
Fits == current_memory + ISpanSize <= IMemory

push(n, unbounded) ==
    /\ pushed < IMaxSpans
    /\ pushed' = pushed + 1
    /\ observed' = IF check_cardinality(n, unbounded)
                   THEN Entered(observed, n, IF n \in DOMAIN observed THEN observed[n] + 1 ELSE 1)
                   ELSE observed
    /\ buffer' = IF Fits THEN Append(buffer, pushed + 1) ELSE buffer
    /\ current_memory' = IF Fits THEN current_memory + ISpanSize ELSE current_memory
    /\ dropped_spans' = IF Fits THEN dropped_spans ELSE dropped_spans + 1
    /\ UNCHANGED <<exported, counterVars, logVars>>

(* The memory given back for each span that is taken, never below zero. *)
Released(k) == IF current_memory > k * ISpanSize THEN current_memory - k * ISpanSize ELSE 0

pop_batch ==
    /\ buffer # << >>
    /\ LET k == IF Len(buffer) < IBatch THEN Len(buffer) ELSE IBatch
       IN  /\ exported' = exported \o SubSeq(buffer, 1, k)
           /\ buffer' = SubSeq(buffer, k + 1, Len(buffer))
           /\ current_memory' = Released(k)
    /\ UNCHANGED <<dropped_spans, pushed, observed, counterVars, logVars>>

-----------------------------------------------------------------------------
(* The request context.  A handler sets the id of its request and creates  *)
(* a future that captures it; the runtime polls the future on any thread,  *)
(* and its log lines carry the thread's id.                                *)

set_request_id(th, f) ==
    /\ future[f].at = "unborn"
    /\ REQUEST_ID' = [REQUEST_ID EXCEPT ![th] = f]
    /\ future' = [future EXCEPT ![f] = [at |-> "pending", id |-> f]]
    /\ UNCHANGED <<logged, polls, counterVars, spanVars>>

(* What the thread's id is while the inner future runs. *)
DuringPoll(th, f) == future[f].id

poll(th, f, ready) ==
    /\ future[f].at = "pending" /\ polls < IMaxPolls
    /\ polls' = polls + 1
    /\ logged' = logged \cup {<<f, DuringPoll(th, f)>>}
    /\ REQUEST_ID' = [REQUEST_ID EXCEPT ![th] = IF ready THEN "none" ELSE DuringPoll(th, f)]
    /\ future' = IF ready THEN [future EXCEPT ![f].at = "done"] ELSE future
    /\ UNCHANGED <<counterVars, spanVars>>

-----------------------------------------------------------------------------
TelemetryNext ==
    \/ \E t \in ITasks, n \in INames : record_operation(t, n)
    \/ \E t \in ITasks : CreateCounter(t)
    \/ \E n \in INames, u \in BOOLEAN : push(n, u)
    \/ pop_batch
    \/ \E th \in IThreads, f \in IFutures : set_request_id(th, f)
    \/ \E th \in IThreads, f \in IFutures, r \in BOOLEAN : poll(th, f, r)

-----------------------------------------------------------------------------
(* Properties *)

(* The state is well formed; the limiter and the buffer keep their limits. *)
TelemetryTypeOK ==
    /\ custom_counters \subseteq INames
    /\ \A n \in DOMAIN observed : observed[n] \in 1 .. ILimit
    /\ current_memory <= IMemory
    /\ dropped_spans \in Nat

(* The exported value of a counter is the number of operations whose call  *)
(* found or made the counter: a counter is never replaced by a fresh one,  *)
(* however two tasks race to create it.                                    *)
CountersKept ==
    /\ custom_counters = DOMAIN registry
    /\ \A n \in custom_counters : registry[n] = recorded[n]

(* Every span is exported or waits, in the order it was pushed, or was     *)
(* counted as dropped, and the memory is that of the spans that wait.      *)
SpansAccounted ==
    /\ Len(exported) + Len(buffer) + dropped_spans = pushed
    /\ current_memory = ISpanSize * Len(buffer)
    /\ \A i, j \in 1 .. Len(exported \o buffer) : i < j =>
         (exported \o buffer)[i] < (exported \o buffer)[j]

(* A future that preserves its context logs under its own request's id on  *)
(* every poll, on whichever threads it runs and whatever ran there before. *)
OwnContext == \A l \in logged : l[2] = l[1]

-----------------------------------------------------------------------------
\* The probes at work, or the telemetry.
ProbesNext ==
    \/ HealthNext /\ UNCHANGED TelemetryVars
    \/ TelemetryNext /\ UNCHANGED HealthVars

ProbesSpec == HealthInit /\ TelemetryInit /\ [][ProbesNext]_<<HealthVars, TelemetryVars>>

\* A status is one the checks gave while they ran, only changes are announced and
\* the probes never contradict each other (health.rs); counters lose nothing but
\* the first of a race, spans are buffered, exported or counted as dropped, and a
\* future that is polled logs its own request (telemetry).
ProbesSafe ==
    /\ HealthTypeOK /\ HealthyWitnessed /\ OnlyChangesSent /\ ProbesOrdered
    /\ TelemetryTypeOK /\ CountersKept /\ SpansAccounted /\ OwnContext

=============================================================================
