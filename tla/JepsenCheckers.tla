--------------------------- MODULE JepsenCheckers ---------------------------
(* What the Jepsen harness records, and how it judges it.                  *)
EXTENDS Naturals, FiniteSets, Sequences, SequencesExt, Relation

-----------------------------------------------------------------------------
(***************************************************************************)
(* The consistency checks of the Jepsen harness: clients that share one    *)
(* store (DirectClientCluster) execute the operations of one workload,     *)
(* each invocation and each completion is stamped, and the recorded        *)
(* history is judged by the checkers.  A compare-and-swap, an increment,   *)
(* an append and a set_add read the store and write it in two steps,       *)
(* without a lock.                                                         *)
(*                                                                         *)
(* Source: src/jepsen/direct_client.rs, src/jepsen/checkers.rs,            *)
(* src/jepsen/history.rs, src/jepsen/workloads.rs and JepsenRunner of      *)
(* src/jepsen/mod.rs.                                                      *)
(*                                                                         *)
(* Abstractions: one key (the checkers look at each key by itself), and a  *)
(* clock that gives every invocation and completion its own instant; the   *)
(* store never fails.                                                      *)
(***************************************************************************)

CONSTANTS JClients, JValues, JMaxOps

VARIABLES jwork,     \* the workload: "register", "counter", "append" or "set"
          jstore,    \* the value of the key, Unset(jwork) when it has none
          jproc,     \* the operation each client executes, or JIdle
          jhist,     \* the completed operations, in order of completion
          jnow       \* the clock

JepsenVars == <<jwork, jstore, jproc, jhist, jnow>>

\* serde_json's Null, and no value: registers and counters hold numbers, a list
\* or a set is a sequence.
JNull == 0

Unset(w) == IF w \in {"register", "counter"} THEN JNull ELSE <<>>

JIdle == [op |-> "idle"]

\* generate_operation of the workloads; a test may add compare-and-swaps of registers.
RegisterWorkload ==
    {[op |-> "read"]}
      \cup [op : {"write"}, new : JValues]
      \cup [op : {"cas"}, old : JValues \cup {JNull}, new : JValues]

CounterWorkload == {[op |-> "read"], [op |-> "increment"]}

AppendWorkload == {[op |-> "read"]} \cup [op : {"append"}, new : JValues]

SetWorkload == [op : {"set_add"}, new : JValues]

\* create_workload
JOps(w) ==
    CASE w = "register" -> RegisterWorkload
      [] w = "counter"  -> CounterWorkload
      [] w = "append"   -> AppendWorkload
      [] w = "set"      -> SetWorkload

JepsenInit ==
    /\ jwork \in {"register", "counter", "append", "set"}
    /\ jstore = Unset(jwork)
    /\ jproc = [c \in JClients |-> JIdle]
    /\ jhist = <<>>
    /\ jnow = 0

Running == {c \in JClients : jproc[c] # JIdle}

-----------------------------------------------------------------------------
(* The clients *)

\* A task of the runner notes the time and calls execute.
execute(c, op) ==
    /\ jproc[c] = JIdle
    /\ Len(jhist) + Cardinality(Running) < JMaxOps
    /\ jproc' = [jproc EXCEPT ![c] = [op |-> op, invoke |-> jnow, at |-> "store"]]
    /\ jnow' = jnow + 1
    /\ UNCHANGED <<jwork, jstore, jhist>>

\* The call got its result: the runner completes it later.
ReturnWith(c, result) ==
    jproc' = [jproc EXCEPT ![c] = [op |-> @.op, invoke |-> @.invoke, at |-> "answer", result |-> result]]

AtStore(c, kind) ==
    /\ jproc[c] # JIdle
    /\ jproc[c].at = "store"
    /\ jproc[c].op.op = kind

execute_read(c) ==
    /\ AtStore(c, "read")
    /\ ReturnWith(c, jstore)
    /\ UNCHANGED <<jwork, jstore, jhist, jnow>>

execute_write(c) ==
    /\ AtStore(c, "write")
    /\ jstore' = jproc[c].op.new
    /\ ReturnWith(c, TRUE)
    /\ UNCHANGED <<jwork, jhist, jnow>>

\* The write, if any, is a step of its own.
WriteNext(c, value, result) ==
    jproc' = [jproc EXCEPT ![c] = [op |-> @.op, invoke |-> @.invoke, at |-> "write",
                                   value |-> value, result |-> result]]

execute_cas(c) ==
    /\ AtStore(c, "cas")
    /\ IF jstore = jproc[c].op.old THEN WriteNext(c, jproc[c].op.new, TRUE) ELSE ReturnWith(c, FALSE)
    /\ UNCHANGED <<jwork, jstore, jhist, jnow>>

execute_increment(c) ==
    /\ AtStore(c, "increment")
    /\ WriteNext(c, jstore + 1, jstore + 1)
    /\ UNCHANGED <<jwork, jstore, jhist, jnow>>

AppendedTo(list, v) == Append(list, v)

execute_append(c) ==
    /\ AtStore(c, "append")
    /\ WriteNext(c, AppendedTo(jstore, jproc[c].op.new), TRUE)
    /\ UNCHANGED <<jwork, jstore, jhist, jnow>>

execute_set_add(c) ==
    /\ AtStore(c, "set_add")
    /\ IF jproc[c].op.new \in ToSet(jstore)
         THEN ReturnWith(c, TRUE)
         ELSE WriteNext(c, AppendedTo(jstore, jproc[c].op.new), TRUE)
    /\ UNCHANGED <<jwork, jstore, jhist, jnow>>

WriteBack(c) ==
    /\ jproc[c] # JIdle
    /\ jproc[c].at = "write"
    /\ jstore' = jproc[c].value
    /\ ReturnWith(c, jproc[c].result)
    /\ UNCHANGED <<jwork, jhist, jnow>>

\* The runner notes the time and records the operation.
CompleteOp(c) ==
    /\ jproc[c] # JIdle
    /\ jproc[c].at = "answer"
    /\ jhist' = Append(jhist, [process |-> c, op |-> jproc[c].op, result |-> jproc[c].result,
                               invoke |-> jproc[c].invoke, complete |-> jnow])
    /\ jproc' = [jproc EXCEPT ![c] = JIdle]
    /\ jnow' = jnow + 1
    /\ UNCHANGED <<jwork, jstore>>

JepsenNext ==
    \E c \in JClients :
      \/ \E op \in JOps(jwork) : execute(c, op)
      \/ execute_read(c)
      \/ execute_write(c)
      \/ execute_cas(c)
      \/ execute_increment(c)
      \/ execute_append(c)
      \/ execute_set_add(c)
      \/ WriteBack(c)
      \/ CompleteOp(c)

-----------------------------------------------------------------------------
(* The checkers *)

ByInvoke(history) == SortSeq(history, LAMBDA a, b : a.invoke < b.invoke)

\* LinearizabilityChecker looks at reads, writes and compare-and-swaps only.
RegisterOps(history) == SelectSeq(history, LAMBDA o : o.op.op \in {"read", "write", "cas"})

\* One operation of the scan: <<the register>> before and after it, <<>> once a
\* violation was found.
Judge(state, o) ==
    IF state = <<>> THEN state
    ELSE CASE o.op.op = "write" -> <<o.op.new>>
           [] o.op.op = "read"  -> IF o.result = JNull \/ <<o.result>> = state \/ state = <<JNull>>
                                     THEN state ELSE <<>>
           [] o.op.op = "cas"   -> IF ~o.result THEN state
                                   ELSE IF state = <<o.op.old>> THEN <<o.op.new>> ELSE <<>>

\* One pass in order of invocation, from an unset register.
is_linearizable(ops) == FoldLeft(Judge, <<JNull>>, ops) # <<>>

check(history) == is_linearizable(ByInvoke(RegisterOps(history)))

\* find_concurrent_operations: operations in order of invocation join the group
\* that has not ended when they start, or begin the next one.
Grouped(acc, o) ==
    IF acc.group = {} \/ o.invoke <= acc.end
      THEN [acc EXCEPT !.group = @ \cup {o},
                       !.end = IF o.complete > @ THEN o.complete ELSE @]
      ELSE [groups |-> IF Cardinality(acc.group) > 1 THEN acc.groups \cup {acc.group} ELSE acc.groups,
            group |-> {o}, end |-> o.complete]

find_concurrent_operations(history) ==
    LET acc == FoldLeft(Grouped, [groups |-> {}, group |-> {}, end |-> 0], ByInvoke(history))
    IN  IF Cardinality(acc.group) > 1 THEN acc.groups \cup {acc.group} ELSE acc.groups

\* extract_process_sequences
ProcessSequence(history, c) == ByInvoke(SelectSeq(history, LAMBDA o : o.process = c))

-----------------------------------------------------------------------------
(* Properties *)

Recorded == ToSet(jhist)

Overlap(a, b) == a.invoke <= b.complete /\ b.invoke <= a.complete

\* Type invariant.
JepsenTypeOK ==
    /\ jwork \in {"register", "counter", "append", "set"}
    /\ IF jwork \in {"register", "counter"} THEN jstore \in Nat ELSE jstore \in Seq(JValues)
    /\ Len(jhist) <= JMaxOps
    /\ \A o \in Recorded : o.process \in JClients /\ o.op \in JOps(jwork) /\ o.invoke < o.complete

TookTurns == Running = {} /\ \A a, b \in Recorded : a # b => ~Overlap(a, b)

\* The linearizability checker raises no false alarm on operations that took turns:
\* reads, writes and compare-and-swaps of which no two overlap are judged valid.
\* (Of operations that overlap it also rejects orders that are linearizable.)
SequentialAccepted ==
    jwork = "register" /\ TookTurns => check(jhist)

\* Operations that took turns lose no update of each other: the counter is the
\* number of increments, the list is what was appended in that order, the set
\* holds each element that was added once.  (Updates that overlap may be lost.)
UpdatesKept ==
    TookTurns =>
      LET updates == SelectSeq(jhist, LAMBDA o : o.op.op \in {"increment", "append", "set_add"})
      IN  CASE jwork = "register" -> TRUE
            [] jwork = "counter"  -> jstore = Len(updates)
            [] jwork = "append"   -> jstore = [i \in 1..Len(updates) |-> updates[i].op.new]
            [] jwork = "set"      -> /\ ToSet(jstore) = {o.op.new : o \in ToSet(updates)}
                                     /\ IsInjective(jstore)

\* What one process recorded is a sequence: each operation completes before the
\* next is invoked, and the groups of concurrent operations are exactly the
\* operations that are linked by overlaps.
OverlapsGrouped ==
    LET linked == TransitiveClosure([p \in Recorded \X Recorded |-> Overlap(p[1], p[2])], Recorded)
        GroupOf(o) == {p \in Recorded : linked[o, p]}
    IN  /\ find_concurrent_operations(jhist) = {g \in {GroupOf(o) : o \in Recorded} : Cardinality(g) > 1}
        /\ \A c \in JClients :
             LET s == ProcessSequence(jhist, c)
             IN  \A i \in 1..(Len(s) - 1) : s[i].complete < s[i + 1].invoke

-----------------------------------------------------------------------------
(***************************************************************************)
(* Transactions of the Jepsen harness and the analysis of a history.  A    *)
(* client executes the reads and the writes of a transaction one after the *)
(* other on the shared store, without isolation.  The recorded history is  *)
(* judged by SerializabilityChecker and summarised by HistoryAnalyzer.     *)
(*                                                                         *)
(* Source: src/jepsen/direct_client.rs (execute_transaction),              *)
(* src/jepsen/workloads.rs (bank and read-write), src/jepsen/checkers.rs   *)
(* (SerializabilityChecker), src/jepsen/operations.rs (analysis) and       *)
(* src/jepsen/history.rs.                                                  *)
(*                                                                         *)
(* Abstractions: a written value is the number of the transaction, rates   *)
(* are left as their counts, and the clock gives every invocation and      *)
(* completion its own instant.  A client may fail and record an error.     *)
(***************************************************************************)

CONSTANTS TClients, TKeys, TMaxOps, TMaxTxn, TWindow

VARIABLES tstore,    \* the value of each key, 0 when it has none
          tproc,     \* the transaction each client executes, or TIdle
          thist,     \* the completed operations, in order of completion
          tnow       \* the clock

TxnVars == <<tstore, tproc, thist, tnow>>

TIdle == [at |-> "idle"]

TRead(k) == [op |-> "read", key |-> k]
TWrite(k) == [op |-> "write", key |-> k]

\* A read, or a transfer between two accounts.
BankWorkload ==
    [op : {"read"}, key : TKeys]
      \cup {[op |-> "transaction", ops |-> <<TRead(p[1]), TRead(p[2]), TWrite(p[1]), TWrite(p[2])>>] :
              p \in {q \in TKeys \X TKeys : q[1] # q[2]}}

\* Any reads and writes, up to TMaxTxn.
ReadWriteWorkload ==
    [op : {"transaction"}, ops : UNION {[1..n -> [op : {"read", "write"}, key : TKeys]] : n \in 1..TMaxTxn}]

TxnOps == BankWorkload \cup ReadWriteWorkload

\* execute of a read is like a transaction of that read.
StepsOf(op) == IF op.op = "transaction" THEN op.ops ELSE <<op>>

TxnInit ==
    /\ tstore = [k \in TKeys |-> 0]
    /\ tproc = [c \in TClients |-> TIdle]
    /\ thist = <<>>
    /\ tnow = 0

InTxn == {c \in TClients : tproc[c] # TIdle}

\* The runner notes the time and calls execute.
InvokeTxn(c, op) ==
    /\ tproc[c] = TIdle
    /\ Len(thist) + Cardinality(InTxn) < TMaxOps
    /\ tproc' = [tproc EXCEPT ![c] = [at |-> "run", op |-> op, invoke |-> tnow, results |-> <<>>]]
    /\ tnow' = tnow + 1
    /\ UNCHANGED <<tstore, thist>>

\* The next read or write of the transaction.
execute_transaction(c) ==
    LET p == tproc[c]
        done == Len(p.results)
        step == StepsOf(p.op)[done + 1]
    IN  /\ p # TIdle
        /\ done < Len(StepsOf(p.op))
        /\ tstore' = IF step.op = "write" THEN [tstore EXCEPT ![step.key] = p.invoke + 1] ELSE tstore
        /\ tproc' = [tproc EXCEPT ![c].results =
                       Append(@, IF step.op = "read" THEN tstore[step.key] ELSE p.invoke + 1)]
        /\ UNCHANGED <<thist, tnow>>

RecordTxn(c, ok) ==
    /\ thist' = Append(thist, [process |-> c, op |-> tproc[c].op, invoke |-> tproc[c].invoke, complete |-> tnow,
                               results |-> tproc[c].results, ok |-> ok])
    /\ tproc' = [tproc EXCEPT ![c] = TIdle]
    /\ tnow' = tnow + 1
    /\ UNCHANGED tstore

CompleteTxn(c) ==
    /\ tproc[c] # TIdle
    /\ Len(tproc[c].results) = Len(StepsOf(tproc[c].op))
    /\ RecordTxn(c, TRUE)

\* A read or a write fails: what was written stays, the error is recorded.
FailTxn(c) ==
    /\ tproc[c] # TIdle
    /\ Len(tproc[c].results) < Len(StepsOf(tproc[c].op))
    /\ RecordTxn(c, FALSE)

TxnNext ==
    \E c \in TClients :
      \/ \E op \in TxnOps : InvokeTxn(c, op)
      \/ execute_transaction(c)
      \/ CompleteTxn(c)
      \/ FailTxn(c)

-----------------------------------------------------------------------------
(* The checker and the analysis *)

extract_keys(op) == {s.key : s \in ToSet(StepsOf(op))}

is_write_operation(op) == \E s \in ToSet(StepsOf(op)) : s.op = "write"

operations_conflict(a, b) ==
    /\ extract_keys(a) \cap extract_keys(b) # {}
    /\ is_write_operation(a) \/ is_write_operation(b)

has_dependency(a, b) == extract_keys(a.op) \cap extract_keys(b.op) # {}

\* An edge goes from an operation to a later one of the list.
build_dependency_graph(ops) ==
    {e \in (1..Len(ops)) \X (1..Len(ops)) : e[1] < e[2] /\ has_dependency(ops[e[1]], ops[e[2]])}

\* dfs_cycle from one node of the graph: the nodes visited, the stack, and
\* whether it met a node of the stack.
RECURSIVE dfs_cycle(_, _, _)
dfs_cycle(graph, node, seen) ==
    LET visited == [seen EXCEPT !.visited = @ \cup {node}, !.stack = @ \cup {node}]
        Visit(acc, next) ==
          IF acc.cycle THEN acc
          ELSE IF next \notin acc.visited THEN dfs_cycle(graph, next, acc)
          ELSE [acc EXCEPT !.cycle = next \in acc.stack]
        after == FoldLeft(Visit, visited, SetToSeq({e[2] : e \in {f \in graph : f[1] = node}}))
    IN  IF after.cycle THEN after ELSE [after EXCEPT !.stack = @ \ {node}]

find_cycle(graph) ==
    LET Start(acc, node) == IF acc.cycle \/ node \in acc.visited THEN acc ELSE dfs_cycle(graph, node, acc)
        none == [visited |-> {}, stack |-> {}, cycle |-> FALSE]
    IN  FoldLeft(Start, none, SetToSeq({e[1] : e \in graph})).cycle

check_serializability(history) ==
    ~find_cycle(build_dependency_graph(SelectSeq(history, LAMBDA o : o.op.op = "transaction")))

by_key(history, k) == SelectSeq(history, LAMBDA o : k \in extract_keys(o.op))

by_process(history, c) == SelectSeq(history, LAMBDA o : o.process = c)

successful_only(history) == SelectSeq(history, LAMBDA o : o.ok)

failed_only(history) == SelectSeq(history, LAMBDA o : ~o.ok)

by_operation_type(history, kind) == SelectSeq(history, LAMBDA o : o.op.op = kind)

by_time_range(history, start, end) == SelectSeq(history, LAMBDA o : o.invoke >= start /\ o.invoke <= end)

analyze_error_rates(history, kind) ==
    LET ops == by_operation_type(history, kind)
    IN  [total |-> Len(ops), errors |-> Len(failed_only(ops)), successes |-> Len(successful_only(ops))]

calculate_stats(history) ==
    [total |-> Len(history), successful |-> Len(successful_only(history)), failed |-> Len(failed_only(history)),
     reads |-> Len(by_operation_type(history, "read")),
     transactions |-> Len(by_operation_type(history, "transaction"))]

\* Windows of TWindow instants from the start of the run until its end.
InWindow(o, start) == o.invoke >= start /\ o.invoke < start + TWindow

analyze_throughput(history, end) ==
    LET count == (end + TWindow - 1) \div TWindow
        Ops(i) == SelectSeq(history, LAMBDA o : InWindow(o, (i - 1) * TWindow))
    IN  IF history = <<>> THEN <<>>
        ELSE [i \in 1..count |-> [total |-> Len(Ops(i)), successful |-> Len(successful_only(Ops(i)))]]

\* The latencies in order, and the entries at the percentiles.
Percentile(latencies, p) == latencies[1 + (Len(latencies) * p) \div 100]

Latencies(history) ==
    SortSeq([i \in DOMAIN history |-> history[i].complete - history[i].invoke], LAMBDA a, b : a < b)

analyze_latencies(history) ==
    LET latencies == Latencies(history)
    IN  [min |-> latencies[1], median |-> latencies[1 + Len(latencies) \div 2], p95 |-> Percentile(latencies, 95),
         p99 |-> Percentile(latencies, 99), max |-> latencies[Len(latencies)]]

-----------------------------------------------------------------------------
(* Properties *)

\* Type invariant.
TxnTypeOK ==
    /\ tstore \in [TKeys -> Nat]
    /\ Len(thist) <= TMaxOps
    /\ \A i \in 1..Len(thist) : thist[i].op \in TxnOps /\ thist[i].invoke < thist[i].complete

TxnOverlap(a, b) == a.invoke < b.complete /\ b.invoke < a.complete

\* The checker raises no alarm on transactions that took turns.  (It raises none
\* on any history: its edges only lead forwards.)
SerialAccepted ==
    (\A i, j \in 1..Len(thist) : i # j => ~TxnOverlap(thist[i], thist[j])) => check_serializability(thist)

\* Transactions that conflict are linked in the dependency graph, whatever their
\* order in the history, and the search for a cycle agrees with the closure of the graph.
ConflictsLinked ==
    LET txns == SelectSeq(thist, LAMBDA o : o.op.op = "transaction")
        graph == build_dependency_graph(txns)
        nodes == 1..Len(txns)
        reach == TransitiveClosure([p \in nodes \X nodes |-> p \in graph], nodes)
    IN  /\ \A i, j \in nodes : i < j /\ operations_conflict(txns[i].op, txns[j].op)
             => <<i, j>> \in graph \/ <<j, i>> \in graph
        /\ find_cycle(graph) <=> \E i \in nodes : reach[i, i]

\* Every operation falls in exactly one window of the throughput analysis, in one
\* of the per-process, per-kind and per-outcome selections, and in the selection
\* of its time range.
SummariesCount ==
    LET windows == analyze_throughput(thist, tnow)
        stats == calculate_stats(thist)
        Total(counts) == FoldLeft(LAMBDA a, b : a + b, 0, counts)
        rates == [k \in {"read", "transaction"} |-> analyze_error_rates(thist, k)]
    IN  InTxn = {} =>
        /\ Total([i \in DOMAIN windows |-> windows[i].total]) = Len(thist)
        /\ Total([i \in DOMAIN windows |-> windows[i].successful]) = stats.successful
        /\ Total([i \in 1..Len(SetToSeq(TClients)) |-> Len(by_process(thist, SetToSeq(TClients)[i]))]) = stats.total
        /\ stats.reads + stats.transactions = stats.successful + stats.failed
        /\ rates["read"].errors + rates["transaction"].errors = stats.failed
        /\ Len(by_time_range(thist, 0, tnow)) = Len(thist)
        /\ \A k \in TKeys : Len(by_key(thist, k)) <= Len(thist)

\* The percentiles of a history that is not empty are latencies of it, in order.
PercentilesOrdered ==
    thist # <<>> =>
      LET a == analyze_latencies(thist)
      IN  a.min <= a.median /\ a.median <= a.p95 /\ a.p95 <= a.p99 /\ a.p99 <= a.max
=============================================================================
