---------------------------- MODULE CrossRegion ----------------------------
(***************************************************************************)
(* Replication between regions, src/src/replication/cross_region.rs: every *)
(* region stamps its operations with a vector clock, keeps a log and       *)
(* resolves the operations of other regions that are concurrent with its   *)
(* own. The clock and the log have locks of their own that are released    *)
(* between the steps, so calls of one region interleave. The network is    *)
(* external: a region's channel keeps its order. The configuration of a    *)
(* region may lack an entry for the region itself (add_region is only      *)
(* called for it if the application does).                                 *)
(***************************************************************************)
EXTENDS Integers, Sequences, FiniteSets

CONSTANTS
    XRegions,       \* regions
    XTasks,         \* concurrent callers of replicate_operation in a region
    XStamps,        \* values of the wall clock
    XKinds,         \* kinds of operations: "Update", "Insert"
    XMaxOps         \* bound: operations

ASSUME CrossRegionAssumption ==
    /\ IsFiniteSet(XRegions) /\ IsFiniteSet(XTasks)
    /\ XStamps \subseteq Nat /\ XMaxOps \in Nat

VARIABLES
    xclock,      \* vector_clock of each region
    xlog,        \* operation_log of each region
    xconf,       \* the strategy in the region's own RegionConfig, or "absent"
    xtask,       \* callers: where each is, and its operation
    xnet,        \* operations under way, by sender and receiver
    xin,         \* the operation a region is handling, after its clock update
    xresolved,   \* history: conflicts resolved and the operation applied
    xknown,      \* history: operations that entered the region's clock, by
                 \* themselves or within the clock of a later one
    xdropped     \* history: operations a region refused

RegionVars == <<xclock, xlog, xconf, xtask, xnet, xin, xresolved, xknown, xdropped>>

Nothing == [id |-> <<>>]
Strategies == {"LastWriterWins", "FirstWriterWins", "absent"}

RegionInit ==
    /\ xclock = [r \in XRegions |-> [q \in XRegions |-> 0]]
    /\ xlog = [r \in XRegions |-> {}] /\ xin = [r \in XRegions |-> Nothing]
    /\ xconf \in {[r \in XRegions |-> s] : s \in Strategies}
    /\ xtask = [r \in XRegions |-> [t \in XTasks |-> [pc |-> "idle", op |-> Nothing]]]
    /\ xnet = [p \in XRegions \X XRegions |-> <<>>]
    /\ xresolved = {}
    /\ xknown = [r \in XRegions |-> {}] /\ xdropped = {}

\* VectorClock::increment, update and compare.
increment(c, r) == [c EXCEPT ![r] = @ + 1]

\* Mutant: the values of the other clock are taken as they are.
update_Overwritten(c, d) == d

update(c, d) == [q \in XRegions |-> IF c[q] >= d[q] THEN c[q] ELSE d[q]]

compare(c, d) ==
    LET more == \E q \in XRegions : c[q] > d[q]
        less == \E q \in XRegions : c[q] < d[q]
    IN  CASE more /\ ~less -> "Greater" [] less /\ ~more -> "Less"
          [] ~more /\ ~less -> "Equal"  [] OTHER -> "Concurrent"

-----------------------------------------------------------------------------
\* The number of an operation: its Uuid.
Made(r) == {o \in xknown[r] : o[1] = r}
Started == UNION {{<<r, t>> : t \in {u \in XTasks : xtask[r][u].pc = "counted"}} : r \in XRegions}
OpsSoFar == Cardinality(UNION {Made(r) : r \in XRegions}) + Cardinality(Started)

\* replicate_operation: the clock is incremented under its lock ...
replicate_operation(r, t) ==
    /\ xtask[r][t].pc = "idle" /\ OpsSoFar < XMaxOps
    /\ xclock' = [xclock EXCEPT ![r] = increment(@, r)]
    /\ xtask' = [xtask EXCEPT ![r][t].pc = "counted"]
    /\ UNCHANGED <<xlog, xconf, xnet, xin, xresolved, xknown, xdropped>>

\* ... and read again later for the stamp.
StampOperation(r, t, kind, ts) ==
    LET op == [id |-> <<r, Cardinality(Made(r)) + 1>>, kind |-> kind, clock |-> xclock[r],
               ts |-> ts, saw |-> xknown[r]]
    IN  /\ xtask[r][t].pc = "counted"
        /\ xtask' = [xtask EXCEPT ![r][t] = [pc |-> "stamped", op |-> op]]
        /\ xknown' = [xknown EXCEPT ![r] = @ \cup {op.id}]
        /\ UNCHANGED <<xclock, xlog, xconf, xnet, xin, xresolved, xdropped>>

\* The operation enters the log and goes to the channels of the other regions.
LogAndSend(r, t) ==
    LET op == xtask[r][t].op
    IN  /\ xtask[r][t].pc = "stamped"
        /\ xlog' = [xlog EXCEPT ![r] = @ \cup {op}]
        /\ xnet' = [p \in XRegions \X XRegions |->
                        IF p[1] = r /\ p[2] # r THEN Append(xnet[p], op) ELSE xnet[p]]
        /\ xtask' = [xtask EXCEPT ![r][t] = [pc |-> "idle", op |-> Nothing]]
        /\ UNCHANGED <<xclock, xconf, xin, xresolved, xknown, xdropped>>

\* handle_replicated_operation: the clock is updated first.
handle_replicated_operation(q, r) ==
    /\ xnet[<<q, r>>] # <<>> /\ xin[r] = Nothing
    /\ LET op == Head(xnet[<<q, r>>])
       IN  /\ xclock' = [xclock EXCEPT ![r] = update(@, op.clock)]
           /\ xin' = [xin EXCEPT ![r] = op]
           /\ xknown' = [xknown EXCEPT ![r] = @ \cup {op.id} \cup op.saw]
    /\ xnet' = [xnet EXCEPT ![<<q, r>>] = Tail(@)]
    /\ UNCHANGED <<xlog, xconf, xtask, xresolved, xdropped>>

\* detect_conflicts and operations_conflict: the operations are on one
\* resource here; an insert conflicts with nothing.
Conflicts(r, op) ==
    {o \in xlog[r] : compare(op.clock, o.clock) = "Concurrent" /\ op.kind # "Insert" /\ o.kind # "Insert"}

\* resolve_last_writer_wins and resolve_first_writer_wins: the incoming
\* operation wins a tie, among the others the first of the log does.
Winners(s, op, cs) ==
    LET beats(a, b) == IF s = "LastWriterWins" THEN a.ts > b.ts ELSE a.ts < b.ts
    IN  IF \A c \in cs : ~beats(c, op) THEN {op}
        ELSE {o \in cs : \A c \in cs : ~beats(c, o)}

\* resolve_conflicts needs the configuration of the own region: without it the
\* operation is neither applied nor logged, although the clock knows it.
ResolveAndLog(r) ==
    LET op == xin[r]
        cs == Conflicts(r, op)
    IN  /\ op # Nothing
        /\ xin' = [xin EXCEPT ![r] = Nothing]
        /\ \/ /\ cs # {} /\ xconf[r] = "absent"
              /\ xdropped' = xdropped \cup {<<op.id, r>>} /\ UNCHANGED <<xlog, xresolved>>
           \/ /\ cs = {} \/ xconf[r] # "absent"
              /\ \E w \in (IF cs = {} THEN {op} ELSE Winners(xconf[r], op, cs)) :
                    xresolved' = IF cs = {} THEN xresolved
                                 ELSE xresolved \cup {[op |-> op, against |-> cs, won |-> w]}
              /\ xlog' = [xlog EXCEPT ![r] = @ \cup {op}] /\ UNCHANGED xdropped
        /\ UNCHANGED <<xclock, xconf, xtask, xnet, xknown>>

RegionNext ==
    \E r \in XRegions :
        \/ \E t \in XTasks :
            \/ replicate_operation(r, t) \/ LogAndSend(r, t)
            \/ \E kind \in XKinds, ts \in XStamps : StampOperation(r, t, kind, ts)
        \/ \E q \in XRegions : handle_replicated_operation(q, r)
        \/ ResolveAndLog(r)

RegionSpec == RegionInit /\ [][RegionNext]_RegionVars

-----------------------------------------------------------------------------
Logged == UNION {xlog[r] : r \in XRegions}
Region(o) == o.id[1]

\* Types: clocks count to the number of operations, logs hold operations.
RegionTypeOK ==
    /\ \A r, q \in XRegions : xclock[r][q] \in 0..XMaxOps
    /\ \A o \in Logged : Region(o) \in XRegions /\ o.ts \in XStamps
    /\ \A r \in XRegions : xin[r] = Nothing \/ Region(xin[r]) # r

\* A conflict is never reported between an operation and one its region's clock
\* had already merged, directly or within the clock of a third region: whatever
\* the callers' steps interleave, what happened before is never taken for
\* concurrent (cross_region.rs:66-106).
NoFalseConflict ==
    \A o, p \in Logged : p.id \in o.saw => compare(o.clock, p.clock) \in {"Greater", "Equal"}

\* Operations of two regions that did not know of each other are found
\* concurrent, unless a region had seen an operation with the same or a later
\* count of the other one: counts are shared when two callers increment the
\* clock before either reads it.
ConcurrentFound ==
    \A o, p \in Logged :
        (/\ Region(o) # Region(p)
         /\ \A a \in Logged : a.id \in o.saw /\ Region(a) = Region(p) =>
                a.clock[Region(p)] < p.clock[Region(p)]
         /\ \A a \in Logged : a.id \in p.saw /\ Region(a) = Region(o) =>
                a.clock[Region(o)] < o.clock[Region(o)])
            => compare(o.clock, p.clock) = "Concurrent"

\* When two regions each find the same two operations in conflict, with
\* different times, both apply the same one: the strategies do not depend on
\* which of the two arrived. (With equal times each side applies the other's.)
SameWinner ==
    \A a, b \in xresolved :
        (/\ a.against = {b.op} /\ b.against = {a.op} /\ a.op.ts # b.op.ts)
            => a.won = b.won

\* Concurrent operations of two regions, and only those, are found in conflict,
\* and both regions choose the same one (VectorClock, ReplicationManager).
RegionsSafe == RegionTypeOK /\ NoFalseConflict /\ ConcurrentFound /\ SameWinner
=============================================================================
