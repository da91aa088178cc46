------------------------------ MODULE Failover ------------------------------
(***************************************************************************)
(* The failover managers of the nodes of a cluster and the fencing epochs  *)
(* of their health monitors (src/src/cluster/failover.rs).  Every node has *)
(* a FailoverSystem of its own.  execute_failover runs in tasks on several *)
(* threads; every access to an atomic or to the contents of a lock is one  *)
(* step of a call.                                                         *)
(*                                                                         *)
(* Time is the one bit the cooldown depends on: whether it has passed      *)
(* since last_failover.  do_replace_node and do_rebalance do nothing, and  *)
(* auto_failover_enabled is on.                                            *)
(***************************************************************************)
EXTENDS Integers, Sequences, FiniteSets, SequencesExt

CONSTANTS
    Nodes,          \* the nodes, each with its FailoverSystem
    Callers,        \* tasks that call execute_failover, one call after the other
    NodeOf,         \* the node of each caller
    MaxConcurrent,  \* max_concurrent_failovers
    MaxLogSize,     \* max_log_size
    MaxCalls,       \* bound: calls of execute_failover
    MaxTokens,      \* bound: fencing tokens issued
    Policies        \* the policies set_policy is called with

ASSUME FailoverAssumption ==
    /\ NodeOf \in [Callers -> Nodes]
    /\ MaxConcurrent \in Nat /\ MaxLogSize \in Nat \ {0}
    /\ MaxCalls \in Nat /\ MaxTokens \in Nat
    /\ Policies \subseteq {"Automatic", "Manual", "Disabled"}
    /\ IsFiniteSet(Callers)

VARIABLES
    policy,            \* FailoverPolicy of each node
    active_failovers,  \* the counter of each node
    cooling,           \* whether last_failover is within failover_cooldown
    event_log,         \* the events of each node, oldest first: [by, action]
    current_epoch,     \* of each node's HealthMonitor
    pc,                \* where each caller is
    action,            \* the FailoverAction of each caller's call
    calls,             \* calls so far
    tokens,            \* FencingTokens issued: [epoch, node]
    stale              \* history: tokens issued before a promotion: [token, by]

failoverVars == <<policy, active_failovers, cooling, event_log, current_epoch, pc, action,
          calls, tokens, stale>>

monitor == <<current_epoch, tokens, stale>>
request == <<action, calls>>

FailoverInit ==
    /\ policy = [n \in Nodes |-> "Automatic"]
    /\ active_failovers = [n \in Nodes |-> 0]
    /\ cooling = [n \in Nodes |-> FALSE]
    /\ event_log = [n \in Nodes |-> <<>>]
    /\ current_epoch = [n \in Nodes |-> 0]
    /\ pc = [c \in Callers |-> "idle"]
    /\ action = [c \in Callers |-> "Rebalance"] /\ calls = 0
    /\ tokens = {} /\ stale = {}

Actions == {"PromoteLeader", "ReplaceNode", "Rebalance"}

Goto(c, from, to) == pc[c] = from /\ pc' = [pc EXCEPT ![c] = to]

CallFailover(c, a) ==
    /\ calls < MaxCalls /\ calls' = calls + 1
    /\ Goto(c, "idle", "policy")
    /\ action' = [action EXCEPT ![c] = a]
    /\ UNCHANGED <<policy, active_failovers, cooling, event_log, monitor>>

-----------------------------------------------------------------------------
(* can_failover: three reads, any of which refuses the call                *)

Allowed(c) == policy[NodeOf[c]] = "Automatic"

BelowLimit(c) == active_failovers[NodeOf[c]] < MaxConcurrent

CheckPolicy(c) ==
    /\ Goto(c, "policy", IF Allowed(c) THEN "active" ELSE "idle")
    /\ UNCHANGED <<policy, active_failovers, cooling, event_log, monitor, request>>

CheckActive(c) ==
    /\ Goto(c, "active", IF BelowLimit(c) THEN "cooldown" ELSE "idle")
    /\ UNCHANGED <<policy, active_failovers, cooling, event_log, monitor, request>>

\* Mutant: the cooldown is not looked at.
CheckCooldown_Ignored(c) ==
    /\ Goto(c, "cooldown", "begin")
    /\ UNCHANGED <<policy, active_failovers, cooling, event_log, monitor, request>>

CheckCooldown(c) ==
    /\ Goto(c, "cooldown", IF cooling[NodeOf[c]] THEN "idle" ELSE "begin")
    /\ UNCHANGED <<policy, active_failovers, cooling, event_log, monitor, request>>

-----------------------------------------------------------------------------
(* execute_failover                                                        *)

BeginFailover(c) ==
    /\ Goto(c, "begin", "stamp")
    /\ active_failovers' = [active_failovers EXCEPT ![NodeOf[c]] = @ + 1]
    /\ UNCHANGED <<policy, cooling, event_log, monitor, request>>

Stamp(c) ==
    /\ Goto(c, "stamp", "act")
    /\ cooling' = [cooling EXCEPT ![NodeOf[c]] = TRUE]
    /\ UNCHANGED <<policy, active_failovers, event_log, monitor, request>>

\* Mutant: a promotion leaves the epoch alone.
increment_epoch_Missing(n) == current_epoch

\* HealthMonitor::increment_epoch
increment_epoch(n) == [current_epoch EXCEPT ![n] = @ + 1]

\* do_promote_leader, do_replace_node, do_rebalance
Act(c) ==
    /\ Goto(c, "act", "end")
    /\ IF action[c] = "PromoteLeader"
       THEN /\ current_epoch' = increment_epoch(NodeOf[c])
            /\ stale' = stale \cup {[token |-> t, by |-> NodeOf[c]] : t \in tokens}
       ELSE UNCHANGED <<current_epoch, stale>>
    /\ UNCHANGED <<policy, active_failovers, cooling, event_log, tokens, request>>

\* Mutant: the counter is given back only by promotions.
End_PromotionsOnly(c) ==
    /\ Goto(c, "end", "log")
    /\ active_failovers' = IF action[c] = "PromoteLeader"
                           THEN [active_failovers EXCEPT ![NodeOf[c]] = @ - 1]
                           ELSE active_failovers
    /\ UNCHANGED <<policy, cooling, event_log, monitor, request>>

End(c) ==
    /\ Goto(c, "end", "log")
    /\ active_failovers' = [active_failovers EXCEPT ![NodeOf[c]] = @ - 1]
    /\ UNCHANGED <<policy, cooling, event_log, monitor, request>>

\* log_event
LoggedEvents(log, e) ==
    IF Len(log) < MaxLogSize THEN Append(log, e)
    ELSE SubSeq(Append(log, e), Len(log) + 2 - MaxLogSize, Len(log) + 1)

LogEvent(c) ==
    /\ Goto(c, "log", "idle")
    /\ event_log' = [event_log EXCEPT ![NodeOf[c]] = LoggedEvents(@, [by |-> c, action |-> action[c]])]
    /\ UNCHANGED <<policy, active_failovers, cooling, monitor, request>>

-----------------------------------------------------------------------------
(* Everything else                                                         *)

\* failover_cooldown passes since last_failover.
CooldownEnds(n) ==
    /\ cooling[n] /\ cooling' = [cooling EXCEPT ![n] = FALSE]
    /\ UNCHANGED <<policy, active_failovers, event_log, pc, monitor, request>>

set_policy(n, p) ==
    /\ policy[n] # p /\ policy' = [policy EXCEPT ![n] = p]
    /\ UNCHANGED <<active_failovers, cooling, event_log, pc, monitor, request>>

\* get_fencing_token, with any term
get_fencing_token(n) ==
    /\ Cardinality(tokens) < MaxTokens
    /\ tokens' = tokens \cup {[epoch |-> current_epoch[n], node |-> n]}
    /\ UNCHANGED <<policy, active_failovers, cooling, event_log, current_epoch, pc, stale,
                   request>>

\* validate_token, on node n
validate_token(n, t) == t.epoch >= current_epoch[n]

Step(c) ==
    \/ CheckPolicy(c) \/ CheckActive(c) \/ CheckCooldown(c)
    \/ BeginFailover(c) \/ Stamp(c) \/ Act(c) \/ End(c) \/ LogEvent(c)

FailoverNext ==
    \/ \E c \in Callers : Step(c) \/ \E a \in Actions : CallFailover(c, a)
    \/ \E n \in Nodes : \/ CooldownEnds(n) \/ get_fencing_token(n)
                        \/ \E p \in Policies : set_policy(n, p)

FailoverSpec == FailoverInit /\ [][FailoverNext]_failoverVars

-----------------------------------------------------------------------------
(* Properties                                                              *)

Stages == {"policy", "active", "cooldown", "begin", "stamp", "act", "end", "log",
           "idle"}

InFlight(n) == {c \in Callers : NodeOf[c] = n /\ pc[c] \in {"stamp", "act", "end"}}

\* The types of failover.rs:359-378 and 626-650; the counter is unsigned.
FailoverTypeOK ==
    /\ policy \in [Nodes -> {"Automatic", "Manual", "Disabled"}]
    /\ active_failovers \in [Nodes -> Nat]
    /\ cooling \in [Nodes -> BOOLEAN]
    /\ event_log \in [Nodes -> Seq([by : Callers, action : Actions])]
    /\ current_epoch \in [Nodes -> Nat]
    /\ pc \in [Callers -> Stages]
    /\ action \in [Callers -> Actions] /\ calls \in Nat
    /\ tokens \subseteq [epoch : Nat, node : Nodes]
    /\ stale \subseteq [token : [epoch : Nat, node : Nodes], by : Nodes]

\* The counter of active failovers is the number of calls between taking and
\* giving back their place, so a node never refuses failovers for good
\* (failover.rs:714-748).
CountsInFlight == \A n \in Nodes : active_failovers[n] = Cardinality(InFlight(n))

\* A token a node issued before it promoted a leader is rejected by that node
\* ever after (failover.rs:169-179, 520-540, 752-765).
OwnStaleTokensFenced ==
    \A s \in stale : s.token.node = s.by => ~validate_token(s.by, s.token)

\* The log holds the latest events, as many as fit (failover.rs:793-801): a
\* call that was just logged is its last event.
LatestLogged ==
    [][\A c \in Callers : pc[c] = "log" /\ pc'[c] = "idle" =>
          LET log == event_log'[NodeOf[c]]
          IN  Last(log) = [by |-> c, action |-> action[c]] /\ Len(log) <= MaxLogSize]_failoverVars

\* On a node where one task calls execute_failover, no failover starts in the
\* cooldown of the one before, whatever happens on other nodes; tasks that run
\* at once pass the check together (failover.rs:684-724).
CooldownKept ==
    \A c \in Callers :
        pc[c] = "stamp" /\ (\A d \in Callers : NodeOf[d] = NodeOf[c] => d = c) =>
            ~cooling[NodeOf[c]]

\* On a node with one caller no failover starts in the cooldown of the one before
\* (FailoverManager::execute_failover).
FailoverSafe == FailoverTypeOK /\ CooldownKept

\* The caller waits for execute_failover: every call returns in the end
\* (failover.rs:714-748).
FailoverWaits(c) == pc[c] # "idle"

=============================================================================
