---------------------------- MODULE ClusterProofs ----------------------------
(***************************************************************************)
(* What the parts that make a cluster of the nodes keep, for any number of *)
(* nodes, regions, shards, tasks and calls: the failover manager           *)
(* (Failover), the replicas of the shards and the writes to them           *)
(* (Replication), and the regions (CrossRegion).  Each part begins with    *)
(* the argument of its invariant.                                          *)
(***************************************************************************)
EXTENDS Failover, Replication, CrossRegion, FiniteSetTheorems, SequenceTheorems,
        WellFoundedInduction, TLAPS

-----------------------------------------------------------------------------
(* A promotion fences what its node issued before it, and the counter of   *)
(* active failovers never leaks, for any number of nodes, callers, calls   *)
(* and tokens.                                                             *)
(*                                                                         *)
(* No token is ahead of the epoch of its node (TokensBehind), a token is   *)
(* behind the epoch of the node it is stale for (StaleBehind), and epochs  *)
(* never fall.                                                             *)

EpochsTyped == current_epoch \in [Nodes -> Nat]

TokensBehind ==
    \A t \in tokens : t.node \in Nodes /\ t.epoch \in Nat /\ t.epoch <= current_epoch[t.node]

StaleBehind ==
    \A s \in stale :
        /\ s.by \in Nodes /\ s.token.epoch \in Nat
        /\ s.token.node = s.by => s.token.epoch < current_epoch[s.by]

FenceInv == EpochsTyped /\ TokensBehind /\ StaleBehind

LEMMA FenceInit == FailoverInit => FenceInv
BY DEF FailoverInit, FenceInv, EpochsTyped, TokensBehind, StaleBehind

\* A step that leaves epochs, tokens and stale alone keeps the invariant.
LEMMA FenceQuiet == ASSUME FenceInv, UNCHANGED monitor PROVE FenceInv'
BY DEF FenceInv, EpochsTyped, TokensBehind, StaleBehind, monitor

LEMMA FenceAct ==
    ASSUME FenceInv, NEW c \in Callers, Act(c)
    PROVE  FenceInv'
<1>1. CASE action[c] = "PromoteLeader"
  <2>. DEFINE n == NodeOf[c]
  <2>1. n \in Nodes
    BY FailoverAssumption
  <2>2. /\ current_epoch' = [current_epoch EXCEPT ![n] = @ + 1]
        /\ stale' = stale \cup {[token |-> t, by |-> n] : t \in tokens}
        /\ tokens' = tokens
    BY <1>1 DEF Act, increment_epoch
  <2>. HIDE DEF n
  <2>3. /\ EpochsTyped' /\ current_epoch'[n] = current_epoch[n] + 1
        /\ \A p \in Nodes : current_epoch'[p] >= current_epoch[p]
    BY <2>1, <2>2 DEF FenceInv, EpochsTyped
  <2>4. \A p \in Nodes : current_epoch[p] \in Nat /\ current_epoch'[p] \in Nat
    BY <2>3 DEF FenceInv, EpochsTyped
  <2>5. TokensBehind'
    BY <2>2, <2>3, <2>4 DEF FenceInv, TokensBehind
  <2>6. ASSUME NEW s \in stale'
        PROVE  /\ s.by \in Nodes /\ s.token.epoch \in Nat
               /\ s.token.node = s.by => s.token.epoch < current_epoch'[s.by]
    <3>1. CASE s \in stale
      BY <2>3, <2>4, <3>1 DEF FenceInv, StaleBehind
    <3>2. CASE s \in {[token |-> t, by |-> n] : t \in tokens}
      <4>1. PICK t \in tokens : s.token = t /\ s.by = n
        BY <3>2
      <4>. QED  BY <2>1, <2>3, <2>4, <4>1 DEF FenceInv, TokensBehind
    <3>. QED  BY <2>2, <3>1, <3>2
  <2>7. StaleBehind'
    BY <2>6 DEF StaleBehind
  <2>. QED  BY <2>3, <2>5, <2>7 DEF FenceInv
<1>2. CASE action[c] # "PromoteLeader"
  BY <1>2, FenceQuiet DEF Act, monitor
<1>. QED  BY <1>1, <1>2

LEMMA FenceToken ==
    ASSUME FenceInv, NEW n \in Nodes, get_fencing_token(n)
    PROVE  FenceInv'
<1>. DEFINE t == [epoch |-> current_epoch[n], node |-> n]
<1>1. tokens' = tokens \cup {t} /\ UNCHANGED <<current_epoch, stale>>
  BY DEF get_fencing_token
<1>2. t.node = n /\ t.epoch = current_epoch[n] /\ current_epoch[n] \in Nat
  BY DEF FenceInv, EpochsTyped
<1>. HIDE DEF t
<1>3. TokensBehind'
  BY <1>1, <1>2 DEF FenceInv, TokensBehind
<1>. QED  BY <1>1, <1>3 DEF FenceInv, EpochsTyped, StaleBehind

LEMMA FenceNext == FenceInv /\ [FailoverNext]_failoverVars => FenceInv'
<1>. SUFFICES ASSUME FenceInv, [FailoverNext]_failoverVars PROVE FenceInv'
  OBVIOUS
<1>1. ASSUME NEW c \in Callers, Step(c) PROVE FenceInv'
  <2>1. CASE Act(c)
    BY <2>1, FenceAct
  <2>2. CASE CheckPolicy(c) \/ CheckActive(c) \/ CheckCooldown(c)
    BY <2>2, FenceQuiet DEF CheckPolicy, CheckActive, CheckCooldown
  <2>3. CASE BeginFailover(c) \/ Stamp(c) \/ End(c) \/ LogEvent(c)
    BY <2>3, FenceQuiet DEF BeginFailover, Stamp, End, LogEvent
  <2>. QED  BY <1>1, <2>1, <2>2, <2>3 DEF Step
<1>2. ASSUME NEW c \in Callers, NEW a \in Actions, CallFailover(c, a) PROVE FenceInv'
  BY <1>2, FenceQuiet DEF CallFailover
<1>3. ASSUME NEW n \in Nodes, CooldownEnds(n) \/ \E p \in Policies : set_policy(n, p)
      PROVE  FenceInv'
  BY <1>3, FenceQuiet DEF CooldownEnds, set_policy
<1>4. ASSUME NEW n \in Nodes, get_fencing_token(n) PROVE FenceInv'
  BY <1>4, FenceToken
<1>5. CASE UNCHANGED failoverVars
  BY <1>5, FenceQuiet DEF failoverVars, monitor
<1>. QED  BY <1>1, <1>2, <1>3, <1>4, <1>5 DEF FailoverNext

\* A token a node issued before it promoted a leader is rejected by that node
\* ever after, however calls and token requests interleave
\* (failover.rs:520-540, 752-765).
THEOREM OwnStaleTokensRejected == FailoverSpec => []OwnStaleTokensFenced
<1>1. FenceInv => OwnStaleTokensFenced
  <2>. SUFFICES ASSUME FenceInv, NEW s \in stale, s.token.node = s.by
                PROVE  ~validate_token(s.by, s.token)
    BY DEF OwnStaleTokensFenced
  <2>1. s.by \in Nodes /\ s.token.epoch \in Nat /\ s.token.epoch < current_epoch[s.by]
    BY DEF FenceInv, StaleBehind
  <2>2. current_epoch[s.by] \in Nat
    BY <2>1 DEF FenceInv, EpochsTyped
  <2>. QED  BY <2>1, <2>2 DEF validate_token
<1>. QED  BY <1>1, FenceInit, FenceNext, PTL DEF FailoverSpec

-----------------------------------------------------------------------------
(* The counter                                                             *)

CountInv ==
    /\ pc \in [Callers -> Stages] /\ active_failovers \in [Nodes -> Nat]
    /\ CountsInFlight

LEMMA InFlightFinite == \A n : IsFiniteSet(InFlight(n)) /\ Cardinality(InFlight(n)) \in Nat
<1>1. \A n : InFlight(n) \subseteq Callers
  BY DEF InFlight
<1>. QED  BY <1>1, FailoverAssumption, FS_Subset, FS_CardinalityType

LEMMA CountInit == FailoverInit => CountInv
<1>. SUFFICES ASSUME FailoverInit PROVE CountInv
  OBVIOUS
<1>1. \A n : InFlight(n) = {}
  BY DEF FailoverInit, InFlight
<1>2. CountsInFlight
  BY <1>1, FS_EmptySet DEF FailoverInit, CountsInFlight
<1>. QED  BY <1>2 DEF FailoverInit, CountInv, Stages

\* A caller moves without taking or giving back a place.
LEMMA CountMove ==
    ASSUME CountInv, NEW c \in Callers, NEW stage \in Stages,
           pc' = [pc EXCEPT ![c] = stage], active_failovers' = active_failovers,
           pc[c] \in {"stamp", "act", "end"} <=> stage \in {"stamp", "act", "end"}
    PROVE  CountInv'
<1>1. \A n : InFlight(n)' = InFlight(n)
  BY DEF InFlight, CountInv
<1>2. CountsInFlight'
  BY <1>1 DEF CountsInFlight, CountInv
<1>. QED  BY <1>2 DEF CountInv

LEMMA CountBegin ==
    ASSUME CountInv, NEW c \in Callers, BeginFailover(c)
    PROVE  CountInv'
<1>. DEFINE m == NodeOf[c]
<1>1. m \in Nodes
  BY FailoverAssumption
<1>2. /\ pc[c] = "begin" /\ pc' = [pc EXCEPT ![c] = "stamp"]
      /\ active_failovers' = [active_failovers EXCEPT ![m] = @ + 1]
  BY DEF BeginFailover, Goto
<1>3. pc' \in [Callers -> Stages] /\ active_failovers' \in [Nodes -> Nat]
  BY <1>1, <1>2 DEF CountInv, Stages
<1>4. /\ InFlight(m)' = InFlight(m) \cup {c} /\ c \notin InFlight(m)
      /\ \A n \in Nodes : n # m => InFlight(n)' = InFlight(n)
  BY <1>2 DEF CountInv, InFlight
<1>5. Cardinality(InFlight(m)') = Cardinality(InFlight(m)) + 1
  BY <1>4, InFlightFinite, FS_AddElement
<1>. HIDE DEF m
<1>6. \A n \in Nodes : active_failovers'[n] =
         IF n = m THEN active_failovers[m] + 1 ELSE active_failovers[n]
  BY <1>1, <1>2 DEF CountInv
<1>7. CountsInFlight'
  BY <1>1, <1>4, <1>5, <1>6 DEF CountsInFlight, CountInv
<1>. QED  BY <1>3, <1>7 DEF CountInv

LEMMA CountEnd ==
    ASSUME CountInv, NEW c \in Callers, End(c)
    PROVE  CountInv'
<1>. DEFINE m == NodeOf[c]
<1>1. m \in Nodes
  BY FailoverAssumption
<1>2. /\ pc[c] = "end" /\ pc' = [pc EXCEPT ![c] = "log"]
      /\ active_failovers' = [active_failovers EXCEPT ![m] = @ - 1]
  BY DEF End, Goto
<1>3. /\ InFlight(m)' = InFlight(m) \ {c} /\ c \in InFlight(m)
      /\ \A n \in Nodes : n # m => InFlight(n)' = InFlight(n)
  BY <1>2 DEF CountInv, InFlight
<1>4. Cardinality(InFlight(m)') = Cardinality(InFlight(m)) - 1
  BY <1>3, InFlightFinite, FS_RemoveElement
<1>5. IsFiniteSet(InFlight(m) \ {c}) /\ Cardinality(InFlight(m) \ {c}) \in Nat
  BY InFlightFinite, FS_RemoveElement, FS_CardinalityType
<1>. HIDE DEF m
<1>6. \A n \in Nodes : active_failovers'[n] =
         IF n = m THEN active_failovers[m] - 1 ELSE active_failovers[n]
  BY <1>1, <1>2 DEF CountInv
<1>7. CountsInFlight'
  BY <1>1, <1>3, <1>4, <1>6 DEF CountsInFlight, CountInv
<1>8. active_failovers'[m] \in Nat
  BY <1>1, <1>3, <1>5, <1>7 DEF CountsInFlight
<1>9. pc' \in [Callers -> Stages] /\ active_failovers' \in [Nodes -> Nat]
  BY <1>1, <1>2, <1>6, <1>8 DEF CountInv, Stages
<1>. QED  BY <1>7, <1>9 DEF CountInv

LEMMA CountNext == CountInv /\ [FailoverNext]_failoverVars => CountInv'
<1>. SUFFICES ASSUME CountInv, [FailoverNext]_failoverVars PROVE CountInv'
  OBVIOUS
<1>1. ASSUME NEW c \in Callers, CheckPolicy(c) \/ CheckActive(c) \/ CheckCooldown(c)
      PROVE  CountInv'
  <2>1. PICK stage \in {"active", "cooldown", "begin", "idle"} :
          /\ pc[c] \in {"policy", "active", "cooldown"}
          /\ pc' = [pc EXCEPT ![c] = stage] /\ active_failovers' = active_failovers
    BY <1>1 DEF CheckPolicy, CheckActive, CheckCooldown, Goto
  <2>. QED  BY <2>1, CountMove DEF Stages
<1>2. ASSUME NEW c \in Callers, Stamp(c) \/ Act(c)
      PROVE  CountInv'
  <2>1. PICK stage \in {"act", "end"} :
          /\ pc[c] \in {"stamp", "act"}
          /\ pc' = [pc EXCEPT ![c] = stage] /\ active_failovers' = active_failovers
    BY <1>2 DEF Stamp, Act, Goto
  <2>. QED  BY <2>1, CountMove DEF Stages
<1>3. ASSUME NEW c \in Callers, LogEvent(c)
      PROVE  CountInv'
  <2>1. /\ pc[c] = "log" /\ pc' = [pc EXCEPT ![c] = "idle"]
        /\ active_failovers' = active_failovers
    BY <1>3 DEF LogEvent, Goto
  <2>. QED  BY <2>1, CountMove DEF Stages
<1>4. ASSUME NEW c \in Callers, NEW a \in Actions, CallFailover(c, a)
      PROVE  CountInv'
  <2>1. /\ pc[c] = "idle" /\ pc' = [pc EXCEPT ![c] = "policy"]
        /\ active_failovers' = active_failovers
    BY <1>4 DEF CallFailover, Goto
  <2>. QED  BY <2>1, CountMove DEF Stages
<1>5. ASSUME UNCHANGED <<pc, active_failovers>> PROVE CountInv'
  BY <1>5 DEF CountInv, CountsInFlight, InFlight
<1>6. ASSUME NEW n \in Nodes,
             CooldownEnds(n) \/ get_fencing_token(n) \/ \E p \in Policies : set_policy(n, p)
      PROVE  CountInv'
  BY <1>5, <1>6 DEF CooldownEnds, get_fencing_token, set_policy
<1>7. CASE UNCHANGED failoverVars
  BY <1>5, <1>7 DEF failoverVars
<1>. QED  BY <1>1, <1>2, <1>3, <1>4, <1>6, <1>7, CountBegin, CountEnd DEF FailoverNext, Step

\* The counter of active failovers is at all times the number of calls that
\* hold a place, so it returns to zero and never wraps (failover.rs:714-748).
THEOREM CounterNeverLeaks == FailoverSpec => []CountsInFlight
<1>1. CountInv => CountsInFlight
  BY DEF CountInv
<1>. QED  BY <1>1, CountInit, CountNext, PTL DEF FailoverSpec
-----------------------------------------------------------------------------
(* The types, the log and the cooldown                                     *)

Event == [by : Callers, action : Actions]

\* What keeps the cooldown: a lone caller that passed the check finds it over
\* until it stamps the start itself.
LoneCaller(c) == \A d \in Callers : NodeOf[d] = NodeOf[c] => d = c

CooldownInv ==
    /\ FailoverTypeOK
    /\ \A c \in Callers : pc[c] \in {"begin", "stamp"} /\ LoneCaller(c) => ~cooling[NodeOf[c]]

\* log_event keeps the latest events, as many as fit.
LEMMA LogKeepsLatest ==
    ASSUME NEW S, NEW log \in Seq(S), NEW e \in S
    PROVE  /\ LoggedEvents(log, e) \in Seq(S)
           /\ Last(LoggedEvents(log, e)) = e
           /\ Len(LoggedEvents(log, e)) <= MaxLogSize
<1>. DEFINE a == Append(log, e)
            n == Len(log)
<1>1. n \in Nat /\ MaxLogSize \in Nat /\ MaxLogSize > 0
  BY FailoverAssumption
<1>2. a \in Seq(S) /\ Len(a) = n + 1 /\ a[n + 1] = e
  BY <1>1
<1>3. CASE n < MaxLogSize
  <2>1. LoggedEvents(log, e) = a
    BY <1>3 DEF LoggedEvents
  <2>. HIDE DEF a, n
  <2>. QED  BY <1>1, <1>2, <1>3, <2>1 DEF Last
<1>4. CASE ~(n < MaxLogSize)
  <2>. DEFINE m == n + 2 - MaxLogSize
              w == n + 1
              b == SubSeq(a, m, w)
  <2>1. LoggedEvents(log, e) = b
    BY <1>4 DEF LoggedEvents
  <2>. HIDE DEF a, n
  <2>2. /\ m \in 1..w /\ w - m + 1 = MaxLogSize /\ m + MaxLogSize - 1 = w
        /\ m \in Int /\ w \in Int
    BY <1>1, <1>4
  <2>3. Len(a) = w /\ a[w] = e
    BY <1>2
  <2>. HIDE DEF m, w
  <2>4. \A i \in m..w : a[i] \in S
    BY <1>2, <2>2, <2>3
  <2>5. b \in Seq(S)
    BY <2>2, <2>4, SubSeqProperties
  <2>6. Len(b) = IF m <= w THEN w - m + 1 ELSE 0
    BY <2>2, <2>4, SubSeqProperties
  <2>7. \A i \in 1..(w - m + 1) : b[i] = a[m + i - 1]
    BY <2>2, <2>4, SubSeqProperties
  <2>. HIDE DEF b
  <2>8. Len(b) = MaxLogSize
    BY <2>2, <2>6
  <2>9. b[MaxLogSize] = a[w]
    <3>1. MaxLogSize \in 1..(w - m + 1)
      BY <1>1, <2>2
    <3>. QED  BY <2>2, <2>7, <3>1
  <2>. QED  BY <1>1, <2>1, <2>3, <2>5, <2>8, <2>9 DEF Last
<1>. QED  BY <1>3, <1>4

LEMMA CooldownInit == FailoverInit => CooldownInv
<1>. SUFFICES ASSUME FailoverInit PROVE CooldownInv
  OBVIOUS
<1>1. event_log \in [Nodes -> Seq(Event)]
  BY DEF FailoverInit
<1>. QED  BY <1>1 DEF FailoverInit, CooldownInv, FailoverTypeOK, Stages, Actions, Event

\* A caller moves on and nothing else the invariant speaks of changes.
LEMMA CooldownMove ==
    ASSUME CooldownInv, active_failovers' \in [Nodes -> Nat],
           NEW c \in Callers, NEW stage \in Stages, pc' = [pc EXCEPT ![c] = stage],
           policy' = policy, cooling' = cooling, event_log' = event_log,
           current_epoch' \in [Nodes -> Nat], tokens' = tokens,
           action' \in [Callers -> Actions], calls' \in Nat,
           stale' \subseteq [token : [epoch : Nat, node : Nodes], by : Nodes],
           stage \in {"begin", "stamp"} => pc[c] = "begin" \/ ~cooling[NodeOf[c]]
    PROVE  CooldownInv'
<1>1. FailoverTypeOK'
  BY DEF CooldownInv, FailoverTypeOK
<1>2. ASSUME NEW d \in Callers, pc'[d] \in {"begin", "stamp"}, LoneCaller(d)
      PROVE  ~cooling'[NodeOf[d]]
  <2>1. CASE d = c
    BY <1>2, <2>1 DEF CooldownInv, FailoverTypeOK
  <2>2. CASE d # c
    BY <1>2, <2>2 DEF CooldownInv, FailoverTypeOK
  <2>. QED  BY <2>1, <2>2
<1>3. \A d \in Callers : pc'[d] \in {"begin", "stamp"} /\ LoneCaller(d) => ~cooling'[NodeOf[d]]
  BY <1>2
<1>. QED  BY <1>1, <1>3 DEF CooldownInv, LoneCaller

LEMMA CooldownNext ==
    CooldownInv /\ CountInv' /\ FenceInv /\ [FailoverNext]_failoverVars => CooldownInv'
<1>. SUFFICES ASSUME CooldownInv, CountInv', FenceInv, [FailoverNext]_failoverVars
              PROVE  CooldownInv'
  OBVIOUS
<1>0. /\ active_failovers' \in [Nodes -> Nat]
      /\ policy \in [Nodes -> {"Automatic", "Manual", "Disabled"}]
      /\ cooling \in [Nodes -> BOOLEAN] /\ event_log \in [Nodes -> Seq(Event)]
      /\ current_epoch \in [Nodes -> Nat] /\ pc \in [Callers -> Stages]
      /\ action \in [Callers -> Actions] /\ calls \in Nat
      /\ tokens \subseteq [epoch : Nat, node : Nodes]
      /\ stale \subseteq [token : [epoch : Nat, node : Nodes], by : Nodes]
  BY DEF CooldownInv, FailoverTypeOK, CountInv, Event
<1>00. \A c \in Callers : NodeOf[c] \in Nodes
  BY FailoverAssumption
<1>1. ASSUME NEW c \in Callers, CheckPolicy(c) \/ CheckActive(c) PROVE CooldownInv'
  <2>1. PICK stage \in {"active", "cooldown", "idle"} : pc' = [pc EXCEPT ![c] = stage]
    BY <1>1 DEF CheckPolicy, CheckActive, Goto
  <2>2. UNCHANGED <<policy, cooling, event_log, current_epoch, tokens, stale, action, calls>>
    BY <1>1 DEF CheckPolicy, CheckActive, monitor, request
  <2>3. stage \in Stages /\ stage \notin {"begin", "stamp"}
    BY DEF Stages
  <2>. QED  BY <1>0, <2>1, <2>2, <2>3, CooldownMove
<1>2. ASSUME NEW c \in Callers, CheckCooldown(c) PROVE CooldownInv'
  <2>1. PICK stage \in {"idle", "begin"} :
          pc' = [pc EXCEPT ![c] = stage] /\ (stage = "begin" => ~cooling[NodeOf[c]])
    BY <1>2 DEF CheckCooldown, Goto
  <2>2. UNCHANGED <<policy, cooling, event_log, current_epoch, tokens, stale, action, calls>>
    BY <1>2 DEF CheckCooldown, monitor, request
  <2>3. stage \in Stages
    BY DEF Stages
  <2>. QED  BY <1>0, <2>1, <2>2, <2>3, CooldownMove
<1>3. ASSUME NEW c \in Callers, BeginFailover(c) \/ End(c) PROVE CooldownInv'
  <2>1. PICK stage \in {"stamp", "log"} :
          pc' = [pc EXCEPT ![c] = stage] /\ (stage = "stamp" => pc[c] = "begin")
    BY <1>3 DEF BeginFailover, End, Goto
  <2>2. UNCHANGED <<policy, cooling, event_log, current_epoch, tokens, stale, action, calls>>
    BY <1>3 DEF BeginFailover, End, monitor, request
  <2>3. stage \in Stages /\ stage # "begin"
    BY DEF Stages
  <2>. QED  BY <1>0, <2>1, <2>2, <2>3, CooldownMove
<1>4. ASSUME NEW c \in Callers, Stamp(c) PROVE CooldownInv'
  <2>1. /\ pc' = [pc EXCEPT ![c] = "act"] /\ cooling' = [cooling EXCEPT ![NodeOf[c]] = TRUE]
        /\ UNCHANGED <<policy, event_log, current_epoch, tokens, stale, action, calls>>
    BY <1>4 DEF Stamp, Goto, monitor, request
  <2>2. FailoverTypeOK'
    BY <1>0, <2>1 DEF FailoverTypeOK, Stages, Event
  <2>3. ASSUME NEW d \in Callers, pc'[d] \in {"begin", "stamp"}, LoneCaller(d)
        PROVE  ~cooling'[NodeOf[d]]
    <3>1. d # c /\ pc'[d] = pc[d]
      BY <1>0, <2>1, <2>3
    <3>2. NodeOf[c] # NodeOf[d]
      BY <2>3, <3>1 DEF LoneCaller
    <3>3. ~cooling[NodeOf[d]]
      BY <2>3, <3>1 DEF CooldownInv
    <3>4. cooling'[NodeOf[d]] = cooling[NodeOf[d]]
      BY <1>0, <1>00, <2>1, <3>2
    <3>. QED  BY <3>3, <3>4
  <2>4. \A d \in Callers : pc'[d] \in {"begin", "stamp"} /\ LoneCaller(d) => ~cooling'[NodeOf[d]]
    BY <2>3
  <2>. QED  BY <2>2, <2>4 DEF CooldownInv, LoneCaller
<1>5. ASSUME NEW c \in Callers, Act(c) PROVE CooldownInv'
  <2>1. /\ pc' = [pc EXCEPT ![c] = "end"]
        /\ UNCHANGED <<policy, cooling, event_log, tokens, action, calls>>
    BY <1>5 DEF Act, Goto, request
  <2>2. current_epoch' \in [Nodes -> Nat]
    <3>1. EpochsTyped'
      BY <1>5, FenceAct DEF FenceInv
    <3>. QED  BY <3>1 DEF EpochsTyped
  <2>3. stale' \subseteq [token : [epoch : Nat, node : Nodes], by : Nodes]
    <3>1. \/ stale' = stale
          \/ stale' = stale \cup {[token |-> t, by |-> NodeOf[c]] : t \in tokens}
      BY <1>5 DEF Act
    <3>2. {[token |-> t, by |-> NodeOf[c]] : t \in tokens}
            \subseteq [token : [epoch : Nat, node : Nodes], by : Nodes]
      BY <1>0, <1>00
    <3>. QED  BY <1>0, <3>1, <3>2
  <2>4. "end" \in Stages
    BY DEF Stages
  <2>. QED  BY <1>0, <2>1, <2>2, <2>3, <2>4, CooldownMove
<1>6. ASSUME NEW c \in Callers, LogEvent(c) PROVE CooldownInv'
  <2>. DEFINE n == NodeOf[c]
              e == [by |-> c, action |-> action[c]]
              g == LoggedEvents(event_log[n], e)
  <2>1. /\ pc' = [pc EXCEPT ![c] = "idle"] /\ event_log' = [event_log EXCEPT ![n] = g]
        /\ UNCHANGED <<policy, cooling, current_epoch, tokens, stale, action, calls>>
    BY <1>6 DEF LogEvent, Goto, monitor, request
  <2>2. e \in Event /\ n \in Nodes
    BY <1>0, <1>00 DEF Event
  <2>3. g \in Seq(Event)
    <3>1. event_log[n] \in Seq(Event)
      BY <1>0, <2>2
    <3>. HIDE DEF e, n
    <3>. QED  BY <2>2, <3>1, LogKeepsLatest
  <2>. HIDE DEF g, e
  <2>4. event_log' \in [Nodes -> Seq(Event)]
    BY <1>0, <2>1, <2>2, <2>3
  <2>5. FailoverTypeOK'
    BY <1>0, <2>1, <2>4 DEF FailoverTypeOK, Stages, Event
  <2>6. \A d \in Callers : pc'[d] \in {"begin", "stamp"} => pc[d] = pc'[d]
    BY <1>0, <2>1
  <2>. QED  BY <2>1, <2>5, <2>6 DEF CooldownInv, LoneCaller
<1>7. ASSUME NEW c \in Callers, NEW a \in Actions, CallFailover(c, a) PROVE CooldownInv'
  <2>1. /\ pc' = [pc EXCEPT ![c] = "policy"] /\ action' = [action EXCEPT ![c] = a]
        /\ calls' = calls + 1
        /\ UNCHANGED <<policy, cooling, event_log, current_epoch, tokens, stale>>
    BY <1>7 DEF CallFailover, Goto, monitor
  <2>2. action' \in [Callers -> Actions] /\ calls' \in Nat /\ "policy" \in Stages
    BY <1>0, <2>1 DEF Stages
  <2>. QED  BY <1>0, <2>1, <2>2, CooldownMove
<1>8. ASSUME NEW n \in Nodes,
             CooldownEnds(n) \/ get_fencing_token(n) \/ \E p \in Policies : set_policy(n, p)
      PROVE  CooldownInv'
  <2>1. UNCHANGED <<pc, event_log, current_epoch, stale, action, calls>>
    BY <1>8 DEF CooldownEnds, get_fencing_token, set_policy, monitor, request
  <2>2. cooling' = cooling \/ cooling' = [cooling EXCEPT ![n] = FALSE]
    BY <1>8 DEF CooldownEnds, get_fencing_token, set_policy
  <2>3. policy' \in [Nodes -> {"Automatic", "Manual", "Disabled"}]
    <3>1. policy' = policy \/ \E p \in Policies : policy' = [policy EXCEPT ![n] = p]
      BY <1>8 DEF CooldownEnds, get_fencing_token, set_policy
    <3>2. Policies \subseteq {"Automatic", "Manual", "Disabled"}
      BY FailoverAssumption
    <3>. QED  BY <1>0, <3>1, <3>2
  <2>4. tokens' \subseteq [epoch : Nat, node : Nodes]
    <3>1. tokens' = tokens \/ tokens' = tokens \cup {[epoch |-> current_epoch[n], node |-> n]}
      BY <1>8 DEF CooldownEnds, get_fencing_token, set_policy, monitor
    <3>. QED  BY <1>0, <3>1
  <2>5. FailoverTypeOK'
    BY <1>0, <2>1, <2>2, <2>3, <2>4 DEF FailoverTypeOK, Event
  <2>6. \A m \in Nodes : cooling'[m] => cooling[m]
    BY <1>0, <2>2
  <2>. QED  BY <1>00, <2>1, <2>5, <2>6 DEF CooldownInv, LoneCaller
<1>9. CASE UNCHANGED failoverVars
  BY <1>9 DEF failoverVars, CooldownInv, FailoverTypeOK, LoneCaller
<1>. QED  BY <1>1, <1>2, <1>3, <1>4, <1>5, <1>6, <1>7, <1>8, <1>9 DEF FailoverNext, Step

\* Every variable keeps its type, and on a node where one task calls
\* execute_failover no failover starts in the cooldown of the one before,
\* whatever other nodes do (failover.rs:684-724).
THEOREM CooldownHolds == FailoverSpec => []FailoverSafe
<1>1. CooldownInv => FailoverSafe
  BY DEF CooldownInv, FailoverSafe, CooldownKept, LoneCaller
<1>2. CooldownInv /\ CountInv /\ FenceInv /\ [FailoverNext]_failoverVars
        => (CooldownInv /\ CountInv /\ FenceInv)'
  BY CooldownNext, CountNext, FenceNext
<1>. QED  BY <1>1, <1>2, CooldownInit, CountInit, FenceInit, PTL DEF FailoverSpec

\* A failover that was just logged is the latest event of its node's log, and
\* the log holds no more than max_log_size events (failover.rs:793-801).
THEOREM FailoversLogged == FailoverSpec => LatestLogged
<1>. DEFINE A == \A c \in Callers : pc[c] = "log" /\ pc'[c] = "idle" =>
                   LET log == event_log'[NodeOf[c]]
                   IN  Last(log) = [by |-> c, action |-> action[c]] /\ Len(log) <= MaxLogSize
<1>1. CooldownInv /\ [FailoverNext]_failoverVars => [A]_failoverVars
  <2>. SUFFICES ASSUME CooldownInv, FailoverNext, NEW c \in Callers,
                       pc[c] = "log", pc'[c] = "idle"
                PROVE  /\ Last(event_log'[NodeOf[c]]) = [by |-> c, action |-> action[c]]
                       /\ Len(event_log'[NodeOf[c]]) <= MaxLogSize
    OBVIOUS
  <2>. DEFINE n == NodeOf[c]
              e == [by |-> c, action |-> action[c]]
              g == LoggedEvents(event_log[n], e)
  <2>1. pc \in [Callers -> Stages] /\ event_log \in [Nodes -> Seq(Event)]
        /\ action \in [Callers -> Actions] /\ n \in Nodes
    BY FailoverAssumption DEF CooldownInv, FailoverTypeOK, Event
  <2>2. LogEvent(c)
    <3>1. ASSUME NEW d \in Callers, NEW from, NEW to, Goto(d, from, to), from # "log"
          PROVE  FALSE
      <4>1. d # c
        BY <2>1, <3>1 DEF Goto
      <4>2. pc'[c] = pc[c]
        BY <2>1, <3>1, <4>1 DEF Goto
      <4>. QED  BY <4>2
    <3>2. pc' # pc
      OBVIOUS
    <3>3. PICK d \in Callers : Step(d) \/ \E a \in Actions : CallFailover(d, a)
      BY <3>2 DEF FailoverNext, CooldownEnds, get_fencing_token, set_policy
    <3>4. LogEvent(d)
      BY <3>1, <3>3 DEF Step, CallFailover, CheckPolicy, CheckActive, CheckCooldown,
                        BeginFailover, Stamp, Act, End
    <3>5. d = c
      BY <2>1, <3>4 DEF LogEvent, Goto
    <3>. QED  BY <3>4, <3>5
  <2>3. event_log' = [event_log EXCEPT ![n] = g]
    BY <2>2 DEF LogEvent
  <2>4. event_log'[n] = g
    BY <2>1, <2>3
  <2>5. event_log[n] \in Seq(Event) /\ e \in Event
    BY <2>1 DEF Event
  <2>6. Last(g) = e /\ Len(g) <= MaxLogSize
    <3>. HIDE DEF e, n
    <3>. QED  BY <2>5, LogKeepsLatest
  <2>. QED  BY <2>4, <2>6
<1>2. CooldownInv /\ CountInv /\ FenceInv /\ [FailoverNext]_failoverVars
        => (CooldownInv /\ CountInv /\ FenceInv)'
  BY CooldownNext, CountNext, FenceNext
<1>. QED  BY <1>1, <1>2, CooldownInit, CountInit, FenceInit, PTL DEF FailoverSpec, LatestLogged

-----------------------------------------------------------------------------
(* A write that returned Ok is on as many nodes as its level asks for, no  *)
(* follower has what its leader lacks, and the maps of the tracker agree   *)
(* between operations, for any number of nodes, shards, tasks and writers. *)
(*                                                                         *)
(* A write works on its copy of the replicas. Of that copy the invariant   *)
(* says which nodes are still to be asked (Queued), that the leader has    *)
(* the write before a follower does (LeaderHolds), and that the            *)
(* acknowledgements were counted from different nodes that have the write, *)
(* none of which is asked again, if no node is in the copy twice           *)
(* (Counted). The number of a write is its own (Numbered).                 *)

Operation == [kind : {"register", "remove"}, shard : Shards, replica : Replica]

Record == [at : {"leader", "followers"}, shard : Shards, level : Levels,
           replicas : Seq(Replica), data : 1..MaxWrites, required : Nat, acks : Nat,
           queue : Seq(Replica)]

Active == {write[w] : w \in {v \in Writers : write[v] # Idle}}

ReplicationTyped ==
    /\ shard_replicas \in [Shards -> Seq(Replica)]
    /\ node_shards \in [ReplicaNodes -> SUBSET Shards]
    /\ todo \in [Tasks -> Seq(Operation)] /\ half \in [Tasks -> BOOLEAN]
    /\ \A t \in Tasks : half[t] => todo[t] # <<>>
    /\ write \in [Writers -> Record \cup {Idle}]
    /\ stored \in [ReplicaNodes -> SUBSET [shard : Shards, data : 1..MaxWrites]]
    /\ results \subseteq Record
    /\ writes \in 0..MaxWrites

\* The nodes still to be asked are online followers of the copy, each once if
\* its node is in the copy once; there are fewer than replicas left to answer.
Queued(r) ==
    /\ HasLeader(r.replicas)
    /\ r.acks + Len(r.queue) + (IF r.at = "leader" THEN 1 ELSE 0) <= Len(r.replicas)
    /\ \A k \in DOMAIN r.queue : r.queue[k].node \in NodesOf(r.replicas)
    /\ DistinctNodes(r) =>
          /\ \A j, k \in DOMAIN r.queue : r.queue[j].node = r.queue[k].node => j = k
          /\ Leader(r.replicas).node \notin NodesOf(r.queue)

LeaderHolds(r) ==
    /\ r.at = "leader" => r.acks = 0
    /\ r.at = "followers" => r.acks >= 1 /\ Leader(r.replicas).node \in Holders(r)

Counted(r) ==
    DistinctNodes(r) =>
        \E A \in SUBSET Holders(r) : Cardinality(A) = r.acks /\ A \cap NodesOf(r.queue) = {}

WriteInv(r) ==
    /\ r.required = min_acks(r.level, Len(r.replicas))
    /\ Queued(r) /\ LeaderHolds(r) /\ Counted(r)

Numbered ==
    /\ \A n \in ReplicaNodes : \A x \in stored[n] : x.data <= writes
    /\ \A w \in Writers : write[w] # Idle => write[w].data <= writes
    /\ \A v, w \in Writers : write[v] # Idle /\ write[w] # Idle /\ write[v].data = write[w].data
            => v = w
    /\ \A w \in Writers : write[w] # Idle /\ write[w].at = "leader" =>
            \A n \in ReplicaNodes : Item(write[w]) \notin stored[n]

WritesInv ==
    /\ \A r \in Active \cup results : WriteInv(r)
    /\ \A r \in results : r.at = "followers" /\ r.acks >= r.required
    /\ Numbered

\* Between the two maps only the pair the operation is about may differ.
Agreed(n, s) == s \in node_shards[n] <=> n \in NodesOf(shard_replicas[s])

About(t, n, s) ==
    half[t] /\ Head(todo[t]).shard = s /\ Head(todo[t]).replica.node = n

MapsInv ==
    \A t \in Tasks : Tasks = {t} =>
        \A n \in ReplicaNodes, s \in Shards :
            IF About(t, n, s)
            THEN Head(todo[t]).kind = "register" <=> n \in NodesOf(shard_replicas[s])
            ELSE Agreed(n, s)

ReplicationInv == ReplicationTyped /\ WritesInv /\ MapsInv

-----------------------------------------------------------------------------
(* The operators on sequences of replicas                                  *)

\* Every set of numbers has a least one: Min finds it, and what fails for some
\* number fails for a least one.
LEMMA LeastNumber ==
    ASSUME NEW S \in SUBSET Nat, S # {}
    PROVE  /\ \E x \in S : \A y \in S : x <= y
           /\ Min(S) \in S
           /\ \A y \in S : Min(S) <= y
<1>1. PICK x \in S : \A y \in S : <<y, x>> \notin OpToRel(<, Nat)
  BY NatLessThanWellFounded, WFMin, Zenon
<1>2. ASSUME NEW y \in S PROVE x <= y
  <2>1. <<y, x>> \notin {p \in Nat \X Nat : p[1] < p[2]}
    BY <1>1, Zenon DEF OpToRel
  <2>. QED  BY <2>1
<1>. QED  BY <1>2 DEF Min

\* The first leader is a leader of the sequence.
LEMMA LeaderIsOne ==
    ASSUME NEW rs \in Seq(Replica), HasLeader(rs)
    PROVE  \E i \in DOMAIN rs : Leader(rs) = rs[i] /\ IsLeader(rs[i])
<1>. DEFINE S == {i \in DOMAIN rs : IsLeader(rs[i])}
<1>1. S \in SUBSET Nat /\ S # {}
  BY DEF HasLeader
<1>2. Min(S) \in S
  BY <1>1, LeastNumber
<1>. QED  BY <1>2 DEF Leader

\* The recursion of Selected has a solution, and Selected is its last value.
LEMMA SelectedSteps ==
    ASSUME NEW S, NEW rs \in Seq(S), NEW T
    PROVE  \E f : /\ f = [i \in 0..Len(rs) |->
                             IF i = 0 THEN <<>>
                             ELSE IF rs[i] \in T THEN Append(f[i - 1], rs[i]) ELSE f[i - 1]]
                  /\ Selected(rs, T) = f[Len(rs)]
<1>. DEFINE Solves(f, n) == f = [i \in 0..n |->
                             IF i = 0 THEN <<>>
                             ELSE IF rs[i] \in T THEN Append(f[i - 1], rs[i]) ELSE f[i - 1]]
            Bad == {n \in Nat : ~ \E f : Solves(f, n)}
<1>1. Bad = {}
  <2>. SUFFICES ASSUME Bad # {} PROVE FALSE
    OBVIOUS
  <2>1. PICK n \in Bad : \A m \in Bad : n <= m
    BY LeastNumber
  <2>2. n # 0
    <3>1. Solves([i \in 0..0 |-> <<>>], 0)
      OBVIOUS
    <3>. QED  BY <3>1
  <2>3. PICK f : Solves(f, n - 1)
    <3>1. n - 1 \in Nat /\ ~(n <= n - 1)
      BY <2>2
    <3>. QED  BY <2>1, <3>1
  <2>. DEFINE g == [i \in 0..n |-> IF i < n THEN f[i]
                                   ELSE IF rs[n] \in T THEN Append(f[n - 1], rs[n]) ELSE f[n - 1]]
  <2>4. Solves(g, n)
    <3>1. ASSUME NEW i \in 0..n, i < n
          PROVE  g[i] = IF i = 0 THEN <<>>
                        ELSE IF rs[i] \in T THEN Append(g[i - 1], rs[i]) ELSE g[i - 1]
      <4>1. i \in 0..(n - 1) /\ (i # 0 => i - 1 \in 0..n /\ i - 1 < n)
        BY <3>1
      <4>. QED  BY <2>3, <3>1, <4>1
    <3>2. g[n] = IF n = 0 THEN <<>>
                 ELSE IF rs[n] \in T THEN Append(g[n - 1], rs[n]) ELSE g[n - 1]
      <4>1. n \in 0..n /\ n - 1 \in 0..n /\ n - 1 < n /\ ~(n < n)
        BY <2>1, <2>2
      <4>. QED  BY <2>2, <4>1
    <3>3. \A i \in 0..n : i < n \/ i = n
      BY <2>1
    <3>. HIDE DEF g
    <3>4. \A i \in 0..n : g[i] = IF i = 0 THEN <<>>
                        ELSE IF rs[i] \in T THEN Append(g[i - 1], rs[i]) ELSE g[i - 1]
      BY <3>1, <3>2, <3>3
    <3>. QED  BY <3>4 DEF g
  <2>. QED  BY <2>1, <2>4
<1>. DEFINE upTo[i \in 0..Len(rs)] == IF i = 0 THEN <<>>
                                      ELSE IF rs[i] \in T THEN Append(upTo[i - 1], rs[i])
                                      ELSE upTo[i - 1]
<1>2. \E f : Solves(f, Len(rs))
  BY <1>1, SMTT(40)
<1>3. Solves(upTo, Len(rs))
  BY <1>2
<1>4. Selected(rs, T) = upTo[Len(rs)]
  BY DEF Selected
<1>. QED  BY <1>3, <1>4

\* h gives the place in rs of each element of q, in order, and q has all those
\* elements of the first n of rs that are in T.
Places(h, q, rs, n, T) ==
    /\ h \in [1..Len(q) -> 1..n]
    /\ \A k \in 1..Len(q) : q[k] = rs[h[k]] /\ q[k] \in T
    /\ \A j, k \in 1..Len(q) : j < k => h[j] < h[k]
    /\ \A i \in 1..n : rs[i] \in T => \E k \in 1..Len(q) : h[k] = i

\* A selection is no longer than the sequence, and shorter if the sequence has
\* an element that is not selected.
LEMMA SelectedPlaces ==
    ASSUME NEW S, NEW rs \in Seq(S), NEW T
    PROVE  /\ Selected(rs, T) \in Seq(S)
           /\ Len(Selected(rs, T)) <= Len(rs)
           /\ (\E i \in DOMAIN rs : rs[i] \notin T) => Len(Selected(rs, T)) < Len(rs)
           /\ \E h : Places(h, Selected(rs, T), rs, Len(rs), T)
<1>1. PICK f : /\ f = [i \in 0..Len(rs) |->
                             IF i = 0 THEN <<>>
                             ELSE IF rs[i] \in T THEN Append(f[i - 1], rs[i]) ELSE f[i - 1]]
               /\ Selected(rs, T) = f[Len(rs)]
  BY SelectedSteps
<1>2. f[0] = <<>>
  BY <1>1
<1>3. \A i \in 1..Len(rs) : f[i] = IF rs[i] \in T THEN Append(f[i - 1], rs[i]) ELSE f[i - 1]
  <2>. SUFFICES ASSUME NEW i \in 1..Len(rs)
                PROVE  f[i] = IF rs[i] \in T THEN Append(f[i - 1], rs[i]) ELSE f[i - 1]
    OBVIOUS
  <2>1. i \in 0..Len(rs) /\ i # 0
    OBVIOUS
  <2>. QED  BY <1>1, <2>1
<1>. DEFINE Holds(n) == /\ f[n] \in Seq(S) /\ Len(f[n]) <= n
                        /\ (\E i \in 1..n : rs[i] \notin T) => Len(f[n]) < n
                        /\ \E h : Places(h, f[n], rs, n, T)
            Bad == {n \in 0..Len(rs) : ~Holds(n)}
<1>4. Holds(0)
  <2>1. Places([k \in 1..0 |-> 0], f[0], rs, 0, T)
    BY <1>2 DEF Places
  <2>. QED  BY <1>2, <2>1
<1>5. ASSUME NEW n \in 1..Len(rs), Holds(n - 1)
      PROVE  Holds(n)
  <2>. DEFINE p == f[n - 1]
              m == n - 1
  <2>. PICK h : Places(h, p, rs, m, T)
    BY <1>5
  <2>1. /\ p \in Seq(S) /\ Len(p) \in Nat /\ Len(p) <= m /\ rs[n] \in S
        /\ (\E i \in 1..m : rs[i] \notin T) => Len(p) < m
    BY <1>5
  <2>2. f[n] = IF rs[n] \in T THEN Append(p, rs[n]) ELSE p
    BY <1>3
  <2>3. m \in Nat /\ n = m + 1
    OBVIOUS
  <2>. HIDE DEF p, m
  <2>4. CASE rs[n] \in T
    <3>. DEFINE q == Append(p, rs[n])
                g == [k \in 1..Len(q) |-> IF k = Len(q) THEN n ELSE h[k]]
    <3>1. /\ q \in Seq(S) /\ Len(q) = Len(p) + 1 /\ q[Len(q)] = rs[n]
          /\ \A k \in 1..Len(p) : q[k] = p[k]
      BY <2>1
    <3>2. \A k \in 1..Len(q) : k = Len(q) \/ k \in 1..Len(p)
      BY <2>1, <3>1
    <3>3. (\E i \in 1..n : rs[i] \notin T) => Len(q) < n
      BY <2>1, <2>3, <2>4, <3>1
    <3>4. Len(q) <= n
      BY <2>1, <2>3, <3>1
    <3>. HIDE DEF q
    <3>5. g[Len(q)] = n /\ \A k \in 1..Len(p) : k # Len(q) /\ g[k] = h[k] /\ h[k] \in 1..m
      BY <2>1, <3>1 DEF Places
    <3>6. g \in [1..Len(q) -> 1..n]
      <4>1. n \in 1..n /\ \A x \in 1..m : x \in 1..n
        BY <2>3
      <4>2. \A k \in 1..Len(q) : g[k] \in 1..n
        <5>. HIDE DEF g
        <5>. QED  BY <3>2, <3>5, <4>1
      <4>. QED  BY <4>2
    <3>. HIDE DEF g
    <3>7. \A k \in 1..Len(q) : q[k] = rs[g[k]] /\ q[k] \in T
      BY <2>4, <3>1, <3>2, <3>5 DEF Places
    <3>8. \A j, k \in 1..Len(q) : j < k => g[j] < g[k]
      <4>. SUFFICES ASSUME NEW j \in 1..Len(q), NEW k \in 1..Len(q), j < k
                    PROVE  g[j] < g[k]
        OBVIOUS
      <4>1. j \in 1..Len(p)
        BY <2>1, <3>1
      <4>2. CASE k = Len(q)
        BY <2>3, <3>5, <4>1, <4>2
      <4>3. CASE k \in 1..Len(p)
        BY <3>5, <4>1, <4>3 DEF Places
      <4>. QED  BY <3>2, <4>2, <4>3
    <3>9. \A i \in 1..n : rs[i] \in T => \E k \in 1..Len(q) : g[k] = i
      <4>. SUFFICES ASSUME NEW i \in 1..n, rs[i] \in T
                    PROVE  \E k \in 1..Len(q) : g[k] = i
        OBVIOUS
      <4>1. CASE i = n
        <5>1. Len(q) \in 1..Len(q)
          BY <2>1, <3>1
        <5>. QED  BY <3>5, <4>1, <5>1
      <4>2. CASE i \in 1..m
        <5>1. PICK k \in 1..Len(p) : h[k] = i
          BY <4>2 DEF Places
        <5>2. k \in 1..Len(q)
          BY <2>1, <3>1
        <5>. QED  BY <3>5, <5>1, <5>2
      <4>. QED  BY <2>3, <4>1, <4>2
    <3>10. Places(g, q, rs, n, T)
      BY <3>6, <3>7, <3>8, <3>9 DEF Places
    <3>11. f[n] = q
      BY <2>2, <2>4 DEF q
    <3>. QED  BY <3>1, <3>3, <3>4, <3>10, <3>11
  <2>5. CASE rs[n] \notin T
    <3>1. Places(h, p, rs, n, T)
      <4>1. \A i \in 1..m : i \in 1..n
        BY <2>3
      <4>2. \A i \in 1..n : rs[i] \in T => i \in 1..m
        BY <2>3, <2>5
      <4>. QED  BY <4>1, <4>2 DEF Places
    <3>2. Len(p) < n
      BY <2>1, <2>3
    <3>. QED  BY <2>1, <2>2, <2>5, <3>1, <3>2
  <2>. QED  BY <2>4, <2>5
<1>6. Bad = {}
  <2>. HIDE DEF Holds
  <2>. SUFFICES ASSUME Bad # {} PROVE FALSE
    OBVIOUS
  <2>0. Bad \in SUBSET Nat
    OBVIOUS
  <2>1. PICK n \in Bad : \A m \in Bad : n <= m
    BY <2>0, LeastNumber
  <2>2. n \in 1..Len(rs)
    BY <1>4, <2>1
  <2>3. n - 1 \in 0..Len(rs) /\ ~(n <= n - 1)
    BY <2>2
  <2>4. Holds(n - 1)
    BY <2>1, <2>3
  <2>. QED  BY <1>5, <2>1, <2>2, <2>4
<1>7. Holds(Len(rs))
  <2>. HIDE DEF Holds
  <2>1. Len(rs) \in 0..Len(rs)
    OBVIOUS
  <2>. QED  BY <1>6, <2>1
<1>. HIDE DEF Bad
<1>8. Selected(rs, T) = f[Len(rs)] /\ DOMAIN rs = 1..Len(rs)
  BY <1>1
<1>. QED  BY <1>7, <1>8

\* Removing the replicas of a node leaves those of the other nodes.
LEMMA RemovedNode ==
    ASSUME NEW rs \in Seq(Replica), NEW n
    PROVE  NodesOf(Selected(rs, {r \in ToSet(rs) : r.node # n})) = NodesOf(rs) \ {n}
<1>. DEFINE T == {r \in ToSet(rs) : r.node # n}
            q == Selected(rs, T)
<1>1. PICK h : Places(h, q, rs, Len(rs), T) /\ q \in Seq(Replica)
  BY SelectedPlaces
<1>2. \A i \in 1..Len(rs) : rs[i] \in T <=> rs[i].node # n
  BY DEF ToSet
<1>. HIDE DEF T, q
<1>3. NodesOf(q) \subseteq NodesOf(rs) \ {n}
  BY <1>1, <1>2, SMTT(40) DEF NodesOf, Places
<1>4. NodesOf(rs) \ {n} \subseteq NodesOf(q)
  <2>. SUFFICES ASSUME NEW i \in 1..Len(rs), rs[i].node # n
                PROVE  \E k \in 1..Len(q) : q[k].node = rs[i].node
    BY <1>1 DEF NodesOf
  <2>1. PICK k \in 1..Len(q) : h[k] = i
    BY <1>1, <1>2 DEF Places
  <2>. QED  BY <1>1, <2>1 DEF Places
<1>. QED  BY <1>3, <1>4 DEF q, T

\* If no node has two replicas, a node tells its place.
LEMMA NodeTellsPlace ==
    ASSUME NEW rs \in Seq(Replica), Cardinality(NodesOf(rs)) = Len(rs),
           NEW i \in DOMAIN rs, NEW j \in DOMAIN rs, rs[i].node = rs[j].node
    PROVE  i = j
<1>. DEFINE f == [k \in 1..Len(rs) |-> rs[k].node]
<1>1. f \in Surjection(1..Len(rs), NodesOf(rs))
  BY DEF Surjection, NodesOf
<1>2. IsFiniteSet(1..Len(rs)) /\ Cardinality(1..Len(rs)) = Len(rs)
  <2>. DEFINE n == Len(rs)
  <2>1. n \in Nat /\ 1 \in Int /\ n \in Int
    OBVIOUS
  <2>. HIDE DEF n
  <2>2. IsFiniteSet(1..n) /\ Cardinality(1..n) = IF 1 > n THEN 0 ELSE n - 1 + 1
    BY <2>1, FS_Interval
  <2>3. Cardinality(1..n) = n
    BY <2>1, <2>2
  <2>. QED  BY <2>2, <2>3 DEF n
<1>3. f \in Injection(1..Len(rs), NodesOf(rs))
  BY <1>1, <1>2, FS_SurjSameCardinalityImpliesInj
<1>4. \A a, b \in 1..Len(rs) : f[a] = f[b] => a = b
  <2>. HIDE DEF f
  <2>. QED  BY <1>3 DEF Injection, IsInjective
<1>. QED  BY <1>4

-----------------------------------------------------------------------------
(* The tracker                                                             *)

\* A report changes a replica of the shard and not its node.
LEMMA ReportedReplica ==
    ASSUME ReplicationTyped, NEW s \in Shards, NEW n \in ReplicaNodes,
           \/ \E on \in BOOLEAN : update_replica_status(s, n, on)
           \/ \E i \in 0..MaxApplied : update_replication_lag(s, n, i)
    PROVE  /\ \E i \in DOMAIN shard_replicas[s], r \in Replica :
                  /\ r.node = shard_replicas[s][i].node
                  /\ shard_replicas' = [shard_replicas EXCEPT ![s] = [@ EXCEPT ![i] = r]]
           /\ UNCHANGED <<node_shards, todo, half, coordinator>>
<1>. DEFINE rs == shard_replicas[s]
            m == Min(OnNode(s, n))
<1>1. rs \in Seq(Replica)
  BY DEF ReplicationTyped
<1>2. OnNode(s, n) # {}
  BY DEF update_replica_status, update_replication_lag
<1>3. m \in DOMAIN rs /\ rs[m] \in Replica
  <2>1. OnNode(s, n) \in SUBSET Nat
    BY <1>1 DEF OnNode
  <2>2. m \in OnNode(s, n)
    BY <1>2, <2>1, LeastNumber
  <2>3. \A i \in OnNode(s, n) : i \in DOMAIN rs
    BY DEF OnNode
  <2>4. \A i \in DOMAIN rs : rs[i] \in Replica
    BY <1>1
  <2>. HIDE DEF rs, m
  <2>. QED  BY <2>2, <2>3, <2>4
<1>4. ASSUME NEW on \in BOOLEAN, update_replica_status(s, n, on)
      PROVE  \E i \in DOMAIN rs, r \in Replica :
                  /\ r.node = rs[i].node
                  /\ shard_replicas' = [shard_replicas EXCEPT ![s] = [@ EXCEPT ![i] = r]]
  <2>. DEFINE r == [rs[m] EXCEPT !.online = on]
  <2>1. shard_replicas' = [shard_replicas EXCEPT ![s] = [@ EXCEPT ![m] = r]]
    BY <1>4 DEF update_replica_status
  <2>2. r \in Replica /\ r.node = rs[m].node
    BY <1>3 DEF Replica
  <2>. HIDE DEF r, m, rs
  <2>. QED  BY <1>3, <2>1, <2>2
<1>5. ASSUME NEW applied \in 0..MaxApplied, update_replication_lag(s, n, applied)
      PROVE  \E i \in DOMAIN rs, r \in Replica :
                  /\ r.node = rs[i].node
                  /\ shard_replicas' = [shard_replicas EXCEPT ![s] = [@ EXCEPT ![i] = r]]
  <2>. DEFINE la == IF HasLeader(rs) THEN Leader(rs).last_applied ELSE 0
              a == [rs[m] EXCEPT !.last_applied = applied]
              r == [a EXCEPT !.lag = Lag(a, la)]
  <2>1. shard_replicas' = [shard_replicas EXCEPT ![s] = [@ EXCEPT ![m] = r]]
    BY <1>5 DEF update_replication_lag
  <2>2. la \in Nat
    <3>1. HasLeader(rs) => \E i \in DOMAIN rs : Leader(rs) = rs[i]
      BY <1>1, LeaderIsOne
    <3>2. \A i \in DOMAIN rs : rs[i].last_applied \in Nat
      <4>1. \A i \in DOMAIN rs : rs[i] \in Replica
        BY <1>1
      <4>. HIDE DEF rs
      <4>. QED  BY <4>1 DEF Replica
    <3>. HIDE DEF rs
    <3>3. CASE HasLeader(rs)
      BY <3>1, <3>2, <3>3
    <3>4. CASE ~HasLeader(rs)
      BY <3>4
    <3>. QED  BY <3>3, <3>4
  <2>3. a \in Replica /\ a.node = rs[m].node /\ a.last_applied = applied
    BY <1>3 DEF Replica
  <2>. HIDE DEF a, la, m, rs
  <2>4. Lag(a, la) \in Nat
    BY <2>2, <2>3 DEF Lag
  <2>5. r \in Replica /\ r.node = rs[m].node
    BY <2>3, <2>4 DEF Replica
  <2>. HIDE DEF r
  <2>. QED  BY <1>3, <2>1, <2>5
<1>6. UNCHANGED <<node_shards, todo, half, coordinator>>
  BY DEF update_replica_status, update_replication_lag
<1>. QED  BY <1>4, <1>5, <1>6

\* What a task has to do is a sequence of operations that is not empty.
LEMMA OperationsBegun ==
    ASSUME ReplicationTyped, NEW t \in Tasks, NEW s \in Shards,
           \/ \E ns \in Candidates : assign_replicas(t, s, ns)
           \/ \E n \in ReplicaNodes : remove_replica(t, s, n)
           \/ \E n \in ReplicaNodes, role \in {"Leader", "Follower"} : register_replica(t, s, n, role)
    PROVE  \E operations \in Seq(Operation) :
               operations # <<>> /\ BeginOperations(t, operations)
<1>1. \A n \in ReplicaNodes, role \in {"Leader", "Follower"} : NewReplica(n, role) \in Replica
  BY DEF NewReplica, Replica
<1>2. ASSUME NEW ns \in Candidates, assign_replicas(t, s, ns)
      PROVE  \E operations \in Seq(Operation) :
                 operations # <<>> /\ BeginOperations(t, operations)
  <2>. DEFINE m == Min({ReplicationFactor, Len(ns)})
              operations == [i \in 1..m |->
                 [kind |-> "register", shard |-> s,
                  replica |-> NewReplica(ns[i], IF i = 1 THEN "Leader" ELSE "Follower")]]
  <2>1. ns \in Seq(ReplicaNodes) /\ Len(ns) \in Nat \ {0} /\ ReplicationFactor \in Nat \ {0}
    BY ReplicationAssumption
  <2>2. m \in Nat /\ m >= 1 /\ m <= Len(ns)
    <3>. DEFINE S == {ReplicationFactor, Len(ns)}
    <3>1. S \in SUBSET Nat /\ S # {}
      BY <2>1
    <3>2. m \in S /\ \A y \in S : m <= y
      <4>. HIDE DEF S
      <4>1. Min(S) \in S /\ \A y \in S : Min(S) <= y
        BY <3>1, LeastNumber
      <4>. QED  BY <4>1 DEF S
    <3>. QED  BY <2>1, <3>2
  <2>. HIDE DEF m
  <2>3. \A i \in 1..m : ns[i] \in ReplicaNodes
    BY <2>1, <2>2
  <2>4. \A i \in 1..m : operations[i] \in Operation
    BY <1>1, <2>3 DEF Operation
  <2>5. operations \in Seq(Operation) /\ Len(operations) = m
    BY <2>2, <2>4
  <2>6. BeginOperations(t, operations)
    BY <1>2 DEF assign_replicas, m
  <2>. HIDE DEF operations
  <2>. QED  BY <2>2, <2>5, <2>6
<1>3. ASSUME NEW n \in ReplicaNodes, NEW role \in {"Leader", "Follower"}, NEW kind \in {"register", "remove"},
             BeginOperations(t, <<[kind |-> kind, shard |-> s, replica |-> NewReplica(n, role)]>>)
      PROVE  \E operations \in Seq(Operation) :
                 operations # <<>> /\ BeginOperations(t, operations)
  <2>1. <<[kind |-> kind, shard |-> s, replica |-> NewReplica(n, role)]>> \in Seq(Operation)
    BY <1>1 DEF Operation
  <2>. QED  BY <1>3, <2>1
<1>4. ASSUME NEW n \in ReplicaNodes, remove_replica(t, s, n)
      PROVE  \E operations \in Seq(Operation) :
                 operations # <<>> /\ BeginOperations(t, operations)
  BY <1>3, <1>4 DEF remove_replica
<1>5. ASSUME NEW n \in ReplicaNodes, NEW role \in {"Leader", "Follower"}, register_replica(t, s, n, role)
      PROVE  \E operations \in Seq(Operation) :
                 operations # <<>> /\ BeginOperations(t, operations)
  BY <1>3, <1>5 DEF register_replica
<1>. QED  BY <1>2, <1>4, <1>5

\* The tracker keeps its types, and changes nothing of the writes.
LEMMA TrackerTyped ==
    ASSUME ReplicationTyped,
           \/ \E t \in Tasks :
                  \/ UpdateReplicas(t) \/ UpdateShards(t)
                  \/ \E operations \in Seq(Operation) :
                         operations # <<>> /\ BeginOperations(t, operations)
           \/ \E s \in Shards : \E i \in DOMAIN shard_replicas[s], r \in Replica :
                  /\ shard_replicas' = [shard_replicas EXCEPT ![s] = [@ EXCEPT ![i] = r]]
                  /\ UNCHANGED <<node_shards, todo, half, coordinator>>
    PROVE  /\ shard_replicas' \in [Shards -> Seq(Replica)]
           /\ node_shards' \in [ReplicaNodes -> SUBSET Shards]
           /\ todo' \in [Tasks -> Seq(Operation)] /\ half' \in [Tasks -> BOOLEAN]
           /\ \A t \in Tasks : half'[t] => todo'[t] # <<>>
<1>1. ASSUME NEW t \in Tasks, UpdateReplicas(t)
      PROVE  /\ shard_replicas' \in [Shards -> Seq(Replica)]
             /\ half' \in [Tasks -> BOOLEAN] /\ todo[t] # <<>>
             /\ half' = [half EXCEPT ![t] = TRUE]
             /\ UNCHANGED <<node_shards, todo>>
  <2>. DEFINE o == Head(todo[t])
  <2>1. todo[t] # <<>> /\ todo[t] \in Seq(Operation)
    BY <1>1 DEF ReplicationTyped, UpdateReplicas
  <2>2. o \in Operation
    BY <2>1
  <2>3. shard_replicas' = [shard_replicas EXCEPT ![o.shard] = Replicas(o)]
    BY <1>1 DEF UpdateReplicas
  <2>. HIDE DEF o
  <2>4. o.shard \in Shards /\ o.replica \in Replica /\ shard_replicas[o.shard] \in Seq(Replica)
    BY <2>2 DEF Operation, ReplicationTyped
  <2>5. Replicas(o) \in Seq(Replica)
    <3>. DEFINE rs == shard_replicas[o.shard]
    <3>1. Selected(rs, {r \in ToSet(rs) : r.node # o.replica.node}) \in Seq(Replica)
      BY <2>4, SelectedPlaces
    <3>2. Append(rs, o.replica) \in Seq(Replica)
      BY <2>4
    <3>. QED  BY <3>1, <3>2 DEF Replicas
  <2>6. shard_replicas' \in [Shards -> Seq(Replica)]
    BY <2>3, <2>5 DEF ReplicationTyped
  <2>. QED  BY <1>1, <2>1, <2>6 DEF UpdateReplicas, ReplicationTyped
<1>2. ASSUME NEW t \in Tasks, UpdateShards(t)
      PROVE  /\ shard_replicas' = shard_replicas
             /\ node_shards' \in [ReplicaNodes -> SUBSET Shards]
             /\ todo' \in [Tasks -> Seq(Operation)]
             /\ \A u \in Tasks \ {t} : todo'[u] = todo[u]
             /\ half' = [half EXCEPT ![t] = FALSE]
  <2>. DEFINE o == Head(todo[t])
  <2>1. todo[t] # <<>> /\ todo[t] \in Seq(Operation)
    BY <1>2 DEF ReplicationTyped, UpdateShards
  <2>2. o \in Operation /\ Tail(todo[t]) \in Seq(Operation)
    BY <2>1
  <2>3. node_shards' = [node_shards EXCEPT ![o.replica.node] = ShardsOfNode(o)]
    BY <1>2 DEF UpdateShards
  <2>. HIDE DEF o
  <2>4. o.shard \in Shards /\ o.replica.node \in ReplicaNodes
    BY <2>2 DEF Operation, Replica
  <2>5. ShardsOfNode(o) \in SUBSET Shards
    BY <2>4 DEF ShardsOfNode, ReplicationTyped
  <2>6. node_shards' \in [ReplicaNodes -> SUBSET Shards]
    BY <2>3, <2>5 DEF ReplicationTyped
  <2>. QED  BY <1>2, <2>2, <2>6 DEF UpdateShards, ReplicationTyped
<1>3. ASSUME NEW t \in Tasks, NEW operations \in Seq(Operation), operations # <<>>,
             BeginOperations(t, operations)
      PROVE  /\ todo' \in [Tasks -> Seq(Operation)] /\ todo'[t] # <<>>
             /\ \A u \in Tasks \ {t} : todo'[u] = todo[u]
             /\ UNCHANGED <<shard_replicas, node_shards, half>>
  BY <1>3 DEF BeginOperations, ReplicationTyped
<1>4. ASSUME NEW s \in Shards, NEW i \in DOMAIN shard_replicas[s], NEW r \in Replica,
             shard_replicas' = [shard_replicas EXCEPT ![s] = [@ EXCEPT ![i] = r]]
      PROVE  shard_replicas' \in [Shards -> Seq(Replica)]
  <2>. DEFINE rs == shard_replicas[s]
  <2>1. rs \in Seq(Replica) /\ i \in DOMAIN rs
    BY DEF ReplicationTyped
  <2>. HIDE DEF rs
  <2>2. [rs EXCEPT ![i] = r] \in Seq(Replica)
    BY <2>1
  <2>. QED  BY <1>4, <2>2 DEF rs, ReplicationTyped
<1>. QED  BY <1>1, <1>2, <1>3, <1>4 DEF ReplicationTyped

\* With one task the two maps differ at most in what its operation is about.
LEMMA MapsKept ==
    ASSUME ReplicationTyped, MapsInv,
           \/ \E t \in Tasks :
                  \/ UpdateReplicas(t) \/ UpdateShards(t)
                  \/ \E operations \in Seq(Operation) :
                         operations # <<>> /\ BeginOperations(t, operations)
           \/ \E s \in Shards : \E i \in DOMAIN shard_replicas[s], r \in Replica :
                  /\ r.node = shard_replicas[s][i].node
                  /\ shard_replicas' = [shard_replicas EXCEPT ![s] = [@ EXCEPT ![i] = r]]
                  /\ UNCHANGED <<node_shards, todo, half, coordinator>>
    PROVE  MapsInv'
<1>. SUFFICES ASSUME NEW t \in Tasks, Tasks = {t}, NEW n \in ReplicaNodes, NEW s \in Shards
              PROVE  IF About(t, n, s)'
                     THEN Head(todo'[t]).kind = "register" <=> n \in NodesOf(shard_replicas'[s])
                     ELSE Agreed(n, s)'
  BY DEF MapsInv
<1>. DEFINE o == Head(todo[t])
<1>0. IF About(t, n, s)
      THEN o.kind = "register" <=> n \in NodesOf(shard_replicas[s])
      ELSE Agreed(n, s)
  BY DEF MapsInv
<1>1. CASE UpdateReplicas(t)
  <2>1. todo[t] # <<>> /\ todo[t] \in Seq(Operation) /\ ~half[t]
    BY <1>1 DEF ReplicationTyped, UpdateReplicas
  <2>2. o \in Operation
    BY <2>1
  <2>3. /\ shard_replicas' = [shard_replicas EXCEPT ![o.shard] = Replicas(o)]
        /\ half' = [half EXCEPT ![t] = TRUE] /\ todo' = todo /\ node_shards' = node_shards
    BY <1>1 DEF UpdateReplicas
  <2>4. Agreed(n, s)
    BY <1>0, <2>1 DEF About
  <2>5. About(t, n, s)' <=> o.shard = s /\ o.replica.node = n
    BY <2>3 DEF About, ReplicationTyped
  <2>. HIDE DEF o
  <2>6. o.shard \in Shards /\ o.replica \in Replica /\ shard_replicas[o.shard] \in Seq(Replica)
        /\ o.kind \in {"register", "remove"}
    BY <2>2 DEF Operation, ReplicationTyped
  <2>7. o.kind = "register" =>
            NodesOf(Replicas(o)) = NodesOf(shard_replicas[o.shard]) \cup {o.replica.node}
    <3>. DEFINE rs == shard_replicas[o.shard]
                q == Append(rs, o.replica)
    <3>1. /\ \A i \in 1..Len(rs) : q[i] = rs[i] /\ i \in 1..Len(q)
          /\ \A i \in 1..Len(q) : i \in 1..Len(rs) \/ i = Len(q)
          /\ q[Len(q)] = o.replica /\ Len(q) \in 1..Len(q)
          /\ DOMAIN q = 1..Len(q) /\ DOMAIN rs = 1..Len(rs)
      BY <2>6
    <3>. HIDE DEF q, rs
    <3>2. NodesOf(q) = NodesOf(rs) \cup {o.replica.node}
      BY <3>1 DEF NodesOf
    <3>. QED  BY <3>2 DEF q, rs, Replicas
  <2>8. o.kind # "register" =>
            NodesOf(Replicas(o)) = NodesOf(shard_replicas[o.shard]) \ {o.replica.node}
    BY <2>6, RemovedNode DEF Replicas
  <2>9. shard_replicas'[s] = IF s = o.shard THEN Replicas(o) ELSE shard_replicas[s]
    BY <2>3, <2>6 DEF ReplicationTyped
  <2>10. CASE About(t, n, s)'
    <3>1. o.kind = "register" <=> n \in NodesOf(shard_replicas'[s])
      BY <2>5, <2>7, <2>8, <2>9, <2>10
    <3>. QED  BY <2>3, <2>10, <3>1 DEF o
  <2>11. CASE ~About(t, n, s)'
    <3>1. n \in NodesOf(shard_replicas'[s]) <=> n \in NodesOf(shard_replicas[s])
      BY <2>5, <2>7, <2>8, <2>9, <2>11
    <3>. QED  BY <2>3, <2>4, <2>11, <3>1 DEF Agreed
  <2>. QED  BY <2>10, <2>11
<1>2. CASE UpdateShards(t)
  <2>1. todo[t] # <<>> /\ todo[t] \in Seq(Operation) /\ half[t]
    BY <1>2 DEF ReplicationTyped, UpdateShards
  <2>2. o \in Operation
    BY <2>1
  <2>3. /\ node_shards' = [node_shards EXCEPT ![o.replica.node] = ShardsOfNode(o)]
        /\ half' = [half EXCEPT ![t] = FALSE] /\ shard_replicas' = shard_replicas
    BY <1>2 DEF UpdateShards
  <2>4. ~About(t, n, s)'
    BY <2>3 DEF About, ReplicationTyped
  <2>5. About(t, n, s) <=> o.shard = s /\ o.replica.node = n
    BY <2>1 DEF About
  <2>6. node_shards'[n] = IF n = o.replica.node THEN ShardsOfNode(o) ELSE node_shards[n]
    BY <2>3 DEF ReplicationTyped
  <2>. HIDE DEF o
  <2>7. Agreed(n, s)'
    BY <1>0, <2>3, <2>5, <2>6 DEF Agreed, ShardsOfNode
  <2>. QED  BY <2>4, <2>7
<1>3. CASE \E operations \in Seq(Operation) : operations # <<>> /\ BeginOperations(t, operations)
  <2>1. todo[t] = <<>> /\ UNCHANGED <<shard_replicas, node_shards, half>>
    BY <1>3 DEF BeginOperations
  <2>2. ~half[t]
    BY <2>1 DEF ReplicationTyped
  <2>. QED  BY <1>0, <2>1, <2>2 DEF About, Agreed
<1>4. ASSUME NEW u \in Shards, NEW i \in DOMAIN shard_replicas[u], NEW r \in Replica,
             r.node = shard_replicas[u][i].node,
             shard_replicas' = [shard_replicas EXCEPT ![u] = [@ EXCEPT ![i] = r]],
             UNCHANGED <<node_shards, todo, half, coordinator>>
      PROVE  IF About(t, n, s)'
             THEN Head(todo'[t]).kind = "register" <=> n \in NodesOf(shard_replicas'[s])
             ELSE Agreed(n, s)'
  <2>1. NodesOf(shard_replicas'[s]) = NodesOf(shard_replicas[s])
    <3>. DEFINE rs == shard_replicas[u]
                q == [rs EXCEPT ![i] = r]
    <3>1. DOMAIN q = DOMAIN rs /\ \A k \in DOMAIN rs : q[k].node = rs[k].node
      BY <1>4
    <3>2. shard_replicas'[s] = IF s = u THEN q ELSE shard_replicas[s]
      BY <1>4 DEF ReplicationTyped
    <3>. HIDE DEF q
    <3>3. NodesOf(q) = NodesOf(rs)
      BY <3>1 DEF NodesOf
    <3>. QED  BY <3>2, <3>3
  <2>. QED  BY <1>0, <1>4, <2>1 DEF About, Agreed
<1>. QED  BY <1>1, <1>2, <1>3, <1>4

-----------------------------------------------------------------------------
(* The writes                                                              *)

\* A nonempty set of replicas asks for a number of acknowledgements.
LEMMA RequiredNumber ==
    ASSUME NEW c \in Levels, NEW rf \in Nat
    PROVE  min_acks(c, rf) \in Nat
<1>1. c.kind \in {"All", "Quorum", "One", "N"} /\ c.n \in Nat
  BY ReplicationAssumption
<1>2. Min({c.n, rf}) \in Nat
  <2>. DEFINE S == {c.n, rf}
  <2>1. S \in SUBSET Nat /\ S # {}
    BY <1>1
  <2>. HIDE DEF S
  <2>2. Min(S) \in S
    BY <2>1, LeastNumber
  <2>. QED  BY <2>1, <2>2 DEF S
<1>3. (rf \div 2) + 1 \in Nat
  OBVIOUS
<1>. QED  BY <1>1, <1>2, <1>3 DEF min_acks

\* The nodes of a sequence of replicas are finitely many.
LEMMA FewNodes ==
    ASSUME NEW rs \in Seq(Replica)
    PROVE  IsFiniteSet(NodesOf(rs)) /\ NodesOf(rs) \subseteq ReplicaNodes
<1>1. NodesOf(rs) \subseteq ReplicaNodes
  <2>1. \A i \in DOMAIN rs : rs[i] \in Replica
    OBVIOUS
  <2>. QED  BY <2>1 DEF NodesOf, Replica
<1>. QED  BY <1>1, FS_Subset, ReplicationAssumption

\* The writes the nodes have stored are never taken back.
StoredGrows == \A n \in ReplicaNodes : stored[n] \subseteq stored'[n]

LEMMA HoldersKept ==
    ASSUME NEW r \in Record, StoredGrows
    PROVE  Holders(r) \subseteq Holders(r)'
<1>1. NodesOf(r.replicas) \subseteq ReplicaNodes
  BY FewNodes DEF Record
<1>. QED  BY <1>1 DEF Holders, StoredGrows

LEMMA WriteInvKept ==
    ASSUME NEW r \in Record, WriteInv(r), StoredGrows
    PROVE  WriteInv(r)'
<1>1. Holders(r) \subseteq Holders(r)'
  BY HoldersKept
<1>2. LeaderHolds(r)'
  BY <1>1 DEF WriteInv, LeaderHolds
<1>3. Counted(r)'
  <2>. SUFFICES ASSUME DistinctNodes(r)
                PROVE  \E A \in SUBSET Holders(r)' : Cardinality(A) = r.acks /\ A \cap NodesOf(r.queue) = {}
    BY DEF Counted, DistinctNodes, NodesOf
  <2>. QED  BY <1>1 DEF WriteInv, Counted
<1>. QED  BY <1>2, <1>3 DEF WriteInv, Queued, DistinctNodes, HasLeader, IsLeader, Leader, NodesOf,
                            min_acks

\* A new write asks the online followers of its copy of the replicas.
LEMMA NewWrite ==
    ASSUME NEW r \in Record, HasLeader(r.replicas), r.at = "leader", r.acks = 0,
           r.required = min_acks(r.level, Len(r.replicas)), r.queue = Followers(r.replicas)
    PROVE  WriteInv(r)
<1>. DEFINE rs == r.replicas
            T == {x \in ToSet(rs) : x.role = "Follower" /\ x.online}
            q == Selected(rs, T)
<1>1. rs \in Seq(Replica) /\ r.queue = q
  BY DEF Record, Followers
<1>2. PICK l \in DOMAIN rs : Leader(rs) = rs[l] /\ IsLeader(rs[l])
  BY <1>1, LeaderIsOne
<1>3. rs[l] \notin T
  BY <1>2 DEF IsLeader
<1>4. q \in Seq(Replica) /\ Len(q) < Len(rs)
  <2>. HIDE DEF T, rs
  <2>. QED  BY <1>1, <1>3, SelectedPlaces
<1>5. PICK h : Places(h, q, rs, Len(rs), T)
  <2>. HIDE DEF T, rs
  <2>. QED  BY <1>1, SelectedPlaces
<1>6. \A k \in 1..Len(q) : q[k].role = "Follower"
  BY <1>5 DEF Places
<1>. HIDE DEF q, T, rs
<1>7. \A k \in 1..Len(q) : h[k] \in DOMAIN rs /\ q[k] = rs[h[k]]
  BY <1>1, <1>5 DEF Places
<1>8. \A k \in DOMAIN q : q[k].node \in NodesOf(rs)
  BY <1>4, <1>7 DEF NodesOf
<1>9. ASSUME Cardinality(NodesOf(rs)) = Len(rs)
      PROVE  /\ \A j, k \in DOMAIN q : q[j].node = q[k].node => j = k
             /\ Leader(rs).node \notin NodesOf(q)
  <2>1. \A i, j \in DOMAIN rs : rs[i].node = rs[j].node => i = j
    BY <1>1, <1>9, NodeTellsPlace
  <2>2. ASSUME NEW j \in 1..Len(q), NEW k \in 1..Len(q), q[j].node = q[k].node
        PROVE  j = k
    <3>1. h[j] = h[k]
      BY <1>7, <2>1, <2>2
    <3>2. ~(j < k) /\ ~(k < j)
      <4>1. h[j] \in Nat /\ h[k] \in Nat
        BY <1>1, <1>7
      <4>2. (j < k => h[j] < h[k]) /\ (k < j => h[k] < h[j])
        BY <1>5 DEF Places
      <4>. QED  BY <3>1, <4>1, <4>2
    <3>. QED  BY <1>4, <3>2
  <2>3. ASSUME NEW k \in 1..Len(q), q[k].node = Leader(rs).node
        PROVE  FALSE
    <3>1. h[k] = l
      BY <1>2, <1>7, <2>1, <2>3
    <3>. QED  BY <1>2, <1>6, <1>7, <3>1 DEF IsLeader
  <2>. QED  BY <1>4, <2>2, <2>3 DEF NodesOf
<1>10. Queued(r)
  <2>1. r.acks + Len(r.queue) + (IF r.at = "leader" THEN 1 ELSE 0) <= Len(rs)
    BY <1>1, <1>4
  <2>. QED  BY <1>1, <1>8, <1>9, <2>1 DEF Queued, DistinctNodes, rs
<1>11. LeaderHolds(r)
  BY DEF LeaderHolds
<1>12. Counted(r)
  BY FS_EmptySet DEF Counted
<1>. QED  BY <1>10, <1>11, <1>12 DEF WriteInv

\* What the queue of a write loses when its first node is asked.
LEMMA QueueShorter ==
    ASSUME NEW q \in Seq(Replica), q # <<>>
    PROVE  /\ Tail(q) \in Seq(Replica) /\ Len(Tail(q)) = Len(q) - 1
           /\ Head(q) = q[1] /\ 1 \in DOMAIN q
           /\ \A k \in DOMAIN Tail(q) : k + 1 \in DOMAIN q /\ k + 1 # 1 /\ Tail(q)[k] = q[k + 1]
           /\ NodesOf(Tail(q)) \subseteq NodesOf(q)
<1>1. /\ Tail(q) \in Seq(Replica) /\ Len(Tail(q)) = Len(q) - 1
      /\ Head(q) = q[1] /\ 1 \in DOMAIN q
      /\ \A k \in DOMAIN Tail(q) : k + 1 \in DOMAIN q /\ k + 1 # 1 /\ Tail(q)[k] = q[k + 1]
  OBVIOUS
<1>2. NodesOf(Tail(q)) \subseteq NodesOf(q)
  BY <1>1 DEF NodesOf
<1>. QED  BY <1>1, <1>2

\* A node that was asked has the write, or has not acknowledged it.
LEMMA AskedFollower ==
    ASSUME NEW r \in Record, WriteInv(r), r.at = "followers", r.queue # <<>>, StoredGrows,
           NEW ok \in BOOLEAN, ok => Item(r) \in stored'[Head(r.queue).node],
           NEW x \in Record, x = [r EXCEPT !.acks = IF ok THEN @ + 1 ELSE @, !.queue = Tail(@)]
    PROVE  WriteInv(x)'
<1>. DEFINE q == r.queue
            n == Head(q).node
<1>1. /\ x.replicas = r.replicas /\ x.at = "followers" /\ x.queue = Tail(q) /\ x.level = r.level
      /\ x.acks = (IF ok THEN r.acks + 1 ELSE r.acks) /\ Item(x) = Item(r)
      /\ x.required = r.required
  BY DEF Record, Item
<1>2. q \in Seq(Replica) /\ q # <<>> /\ r.acks \in Nat /\ r.replicas \in Seq(Replica)
  BY DEF Record
<1>3. /\ Tail(q) \in Seq(Replica) /\ Len(Tail(q)) = Len(q) - 1
      /\ n = q[1].node /\ 1 \in DOMAIN q
      /\ \A k \in DOMAIN Tail(q) : k + 1 \in DOMAIN q /\ k + 1 # 1 /\ Tail(q)[k] = q[k + 1]
      /\ NodesOf(Tail(q)) \subseteq NodesOf(q)
  BY <1>2, QueueShorter
<1>4. Holders(r) \subseteq Holders(r)' /\ Holders(x)' = Holders(r)'
  BY <1>1, HoldersKept DEF Holders, NodesOf
<1>5. n \in NodesOf(q) /\ n \in NodesOf(r.replicas)
  BY <1>3 DEF WriteInv, Queued, NodesOf
<1>. HIDE DEF n, q
<1>6. ok => n \in Holders(r)'
  BY <1>5 DEF Holders, n, q, NodesOf, Item
<1>7. DistinctNodes(r) => n \notin NodesOf(Tail(q))
  <2>. SUFFICES ASSUME DistinctNodes(r), NEW k \in DOMAIN Tail(q), Tail(q)[k].node = n
                PROVE  FALSE
    BY DEF NodesOf
  <2>1. q[k + 1].node = q[1].node => k + 1 = 1
    BY <1>3 DEF WriteInv, Queued, q
  <2>. QED  BY <1>3, <2>1
<1>8. Queued(x)
  <2>1. x.acks + Len(x.queue) + (IF x.at = "leader" THEN 1 ELSE 0) <= Len(x.replicas)
    <3>1. r.acks + Len(q) + 0 <= Len(r.replicas)
      BY DEF WriteInv, Queued, q
    <3>. DEFINE a == x.acks
                m == Len(Tail(q))
    <3>2. a \in Nat /\ a <= r.acks + 1
      BY <1>1, <1>2
    <3>3. Len(q) \in Nat /\ Len(r.replicas) \in Nat /\ m \in Nat
      BY <1>2, <1>3
    <3>. HIDE DEF a, m
    <3>4. a + m + 0 <= Len(r.replicas)
      BY <1>2, <1>3, <3>1, <3>2, <3>3 DEF m
    <3>. QED  BY <1>1, <3>4 DEF a, m
  <2>2. DistinctNodes(x) => DistinctNodes(r)
    BY <1>1 DEF DistinctNodes
  <2>3. DistinctNodes(r) =>
          \A j, k \in DOMAIN Tail(q) : Tail(q)[j].node = Tail(q)[k].node => j = k
    <3>. SUFFICES ASSUME DistinctNodes(r), NEW j \in DOMAIN Tail(q), NEW k \in DOMAIN Tail(q),
                         Tail(q)[j].node = Tail(q)[k].node
                  PROVE  j = k
      OBVIOUS
    <3>1. j + 1 = k + 1
      BY <1>3 DEF WriteInv, Queued, q
    <3>. QED  BY <1>3, <3>1
  <2>4. DistinctNodes(r) => Leader(x.replicas).node \notin NodesOf(x.queue)
    BY <1>1, <1>3 DEF WriteInv, Queued, q
  <2>5. \A k \in DOMAIN x.queue : x.queue[k].node \in NodesOf(x.replicas)
    BY <1>1, <1>3 DEF WriteInv, Queued, q
  <2>6. HasLeader(x.replicas)
    BY <1>1 DEF WriteInv, Queued
  <2>7. DistinctNodes(x) =>
          /\ \A j, k \in DOMAIN x.queue : x.queue[j].node = x.queue[k].node => j = k
          /\ Leader(x.replicas).node \notin NodesOf(x.queue)
    <3>1. x.queue = Tail(q)
      BY <1>1 DEF q
    <3>. QED  BY <2>2, <2>3, <2>4, <3>1
  <2>. QED  BY <2>1, <2>5, <2>6, <2>7 DEF Queued
<1>9. LeaderHolds(x)'
  <2>1. Leader(x.replicas).node \in Holders(x)'
    BY <1>1, <1>4 DEF WriteInv, LeaderHolds
  <2>2. x.acks >= 1
    BY <1>1, <1>2 DEF WriteInv, LeaderHolds
  <2>. QED  BY <1>1, <2>1, <2>2 DEF LeaderHolds, Leader, IsLeader
<1>10. Counted(x)'
  <2>. SUFFICES ASSUME DistinctNodes(r)
                PROVE  \E A \in SUBSET Holders(x)' :
                           Cardinality(A) = x.acks /\ A \cap NodesOf(x.queue) = {}
    BY <1>1 DEF Counted, DistinctNodes, NodesOf
  <2>1. PICK A \in SUBSET Holders(r) : Cardinality(A) = r.acks /\ A \cap NodesOf(q) = {}
    BY DEF WriteInv, Counted, q
  <2>2. A \cap NodesOf(Tail(q)) = {} /\ A \in SUBSET Holders(x)'
    BY <1>3, <1>4, <2>1
  <2>3. CASE ~ok
    BY <1>1, <2>1, <2>2, <2>3
  <2>4. CASE ok
    <3>1. IsFiniteSet(A)
      <4>1. Holders(r) \subseteq NodesOf(r.replicas) /\ IsFiniteSet(NodesOf(r.replicas))
        BY <1>2, FewNodes DEF Holders
      <4>. QED  BY <2>1, <4>1, FS_Subset
    <3>2. Cardinality(A \cup {n}) = r.acks + 1
      <4>1. n \notin A
        BY <1>5, <2>1
      <4>. QED  BY <2>1, <3>1, <4>1, FS_AddElement
    <3>3. (A \cup {n}) \cap NodesOf(Tail(q)) = {} /\ A \cup {n} \in SUBSET Holders(x)'
      BY <1>4, <1>6, <1>7, <2>2, <2>4
    <3>. QED  BY <1>1, <2>4, <3>2, <3>3
  <2>. QED  BY <2>3, <2>4
<1>. QED  BY <1>1, <1>8, <1>9, <1>10 DEF WriteInv, Queued, DistinctNodes, HasLeader, IsLeader, Leader,
                                         NodesOf, min_acks

\* A record is not an idle writer.
LEMMA RecordNotIdle ==
    ASSUME NEW r \in Record
    PROVE  r # Idle /\ r.at \in {"leader", "followers"}
<1>1. r.at \in {"leader", "followers"}
  BY DEF Record
<1>2. Idle.at = "idle"
  BY DEF Idle
<1>. QED  BY <1>1, <1>2

\* A writer that goes on, or is done, keeps the invariant, if what the nodes
\* store anew is its write, and what is returned was acknowledged often enough.
LEMMA WriterGoesOn ==
    ASSUME ReplicationTyped, WritesInv, NEW w \in Writers, write[w] # Idle,
           NEW x \in Record \cup {Idle}, write' = [write EXCEPT ![w] = x],
           x # Idle => /\ WriteInv(x)' /\ x.at = "followers"
                       /\ Item(x) = Item(write[w]),
           \A n \in ReplicaNodes :
               /\ stored[n] \subseteq stored'[n]
               /\ stored'[n] \subseteq stored[n] \cup {Item(write[w])},
           results' \subseteq results \cup {write[w]},
           write[w] \in results' => \/ write[w] \in results
                                    \/ write[w].at = "followers" /\ write[w].acks >= write[w].required,
           writes' = writes
    PROVE  /\ write' \in [Writers -> Record \cup {Idle}] /\ results' \subseteq Record
           /\ WritesInv'
<1>1. write' \in [Writers -> Record \cup {Idle}] /\ results' \subseteq Record
      /\ write[w] \in Record
  BY DEF ReplicationTyped
<1>2. \A v \in Writers : write'[v] = IF v = w THEN x ELSE write[v]
  BY DEF ReplicationTyped
<1>3. StoredGrows
  BY DEF StoredGrows
<1>4. \A r \in Active \cup results : r \in Record /\ WriteInv(r)
  BY DEF ReplicationTyped, WritesInv, Active
<1>5. \A r \in Active \cup results : WriteInv(r)'
  BY <1>3, <1>4, WriteInvKept
<1>6. Active' \cup results' \subseteq (Active \cup results) \cup ({x} \ {Idle})
  BY <1>2 DEF Active
<1>7. \A r \in Active' \cup results' : WriteInv(r)'
  BY <1>5, <1>6
<1>8. \A r \in results' : r.at = "followers" /\ r.acks >= r.required
  BY DEF WritesInv
<1>. DEFINE item == Item(write[w])
<1>9. item.data = write[w].data /\ (x # Idle => x.data = write[w].data)
  BY DEF Item
<1>10. write[w].data <= writes
  BY DEF WritesInv, Numbered
<1>11. \A n \in ReplicaNodes : \A y \in stored'[n] : y.data <= writes'
  <2>1. \A n \in ReplicaNodes : \A y \in stored'[n] : y \in stored[n] \/ y = item
    OBVIOUS
  <2>. HIDE DEF item
  <2>. QED  BY <1>9, <1>10, <2>1 DEF WritesInv, Numbered
<1>12. \A v \in Writers : write'[v] # Idle => write[v] # Idle /\ write'[v].data = write[v].data
  BY <1>2, <1>9
<1>13. \A v \in Writers : write'[v] # Idle => write'[v].data <= writes'
  BY <1>12 DEF WritesInv, Numbered
<1>14. \A u, v \in Writers : write'[u] # Idle /\ write'[v] # Idle /\ write'[u].data = write'[v].data
            => u = v
  BY <1>12 DEF WritesInv, Numbered
<1>15. ASSUME NEW v \in Writers, write'[v] # Idle, write'[v].at = "leader", NEW n \in ReplicaNodes
       PROVE  Item(write'[v]) \notin stored'[n]
  <2>1. v # w
    BY <1>2, <1>15
  <2>2. write'[v] = write[v] /\ write[v] # Idle
    BY <1>2, <1>15, <2>1
  <2>3. Item(write[v]) \notin stored[n]
    BY <1>15, <2>2 DEF WritesInv, Numbered
  <2>4. write[v].data # write[w].data
    BY <2>1, <2>2 DEF WritesInv, Numbered
  <2>5. Item(write[v]) # item
    BY <1>9, <2>4 DEF Item
  <2>. QED  BY <2>2, <2>3, <2>5
<1>16. Numbered'
  BY <1>11, <1>13, <1>14, <1>15 DEF Numbered, Item
<1>17. WritesInv'
  BY <1>7, <1>8, <1>16 DEF WritesInv
<1>. QED  BY <1>1, <1>17

\* A new write has a number no other write has.
LEMMA WriterStarts ==
    ASSUME ReplicationTyped, WritesInv, NEW w \in Writers, NEW s \in Shards, NEW c \in Levels,
           StartWrite(w, s, c)
    PROVE  /\ write' \in [Writers -> Record \cup {Idle}] /\ writes' \in 0..MaxWrites
           /\ WritesInv'
<1>. DEFINE rs == shard_replicas[s]
            x == [at |-> "leader", shard |-> s, level |-> c, replicas |-> rs, data |-> writes',
                  required |-> min_acks(c, Len(rs)), acks |-> 0, queue |-> Followers(rs)]
            y == IF HasLeader(rs) THEN x ELSE Idle
<1>1. /\ writes' = writes + 1 /\ writes < MaxWrites /\ write[w] = Idle
      /\ write' = [write EXCEPT ![w] = y] /\ stored' = stored /\ results' = results
  BY DEF StartWrite
<1>2. rs \in Seq(Replica) /\ writes \in Nat /\ MaxWrites \in Nat
  BY ReplicationAssumption DEF ReplicationTyped
<1>3. writes' \in 1..MaxWrites /\ writes' \in 0..MaxWrites /\ writes' > writes
  BY <1>1, <1>2
<1>4. Followers(rs) \in Seq(Replica) /\ min_acks(c, Len(rs)) \in Nat
  <2>1. Len(rs) \in Nat
    BY <1>2
  <2>. HIDE DEF rs
  <2>. QED  BY <1>2, <2>1, SelectedPlaces, RequiredNumber DEF Followers
<1>5. x \in Record
  BY <1>2, <1>3, <1>4 DEF Record
<1>6. /\ x.data = writes' /\ x.replicas = rs /\ x.at = "leader" /\ x.acks = 0 /\ x.level = c
      /\ x.required = min_acks(c, Len(rs)) /\ x.queue = Followers(rs)
      /\ Item(x).data = writes'
  BY DEF Item
<1>. HIDE DEF x
<1>7. y \in Record \cup {Idle} /\ (y # Idle => y = x)
  BY <1>5
<1>8. HasLeader(rs) => WriteInv(x)
  <2>. HIDE DEF rs
  <2>. QED  BY <1>5, <1>6, NewWrite
<1>9. StoredGrows
  BY <1>1 DEF StoredGrows
<1>10. \A r \in Active \cup results : r \in Record /\ WriteInv(r)
  BY DEF ReplicationTyped, WritesInv, Active
<1>11. \A r \in Active \cup results : WriteInv(r)'
  BY <1>9, <1>10, WriteInvKept
<1>. PICK z \in Record \cup {Idle} : z = y
  BY <1>7
<1>12. z # Idle => WriteInv(z)'
  <2>1. z # Idle => HasLeader(rs) /\ z = x /\ z \in Record
    BY <1>7
  <2>2. z # Idle => z \in Record /\ WriteInv(z)
    BY <1>8, <2>1
  <2>. QED  BY <1>9, <2>2, WriteInvKept
<1>13. z # Idle => z = x
  BY <1>7
<1>. HIDE DEF y, rs
<1>14. write' \in [Writers -> Record \cup {Idle}]
       /\ \A v \in Writers : write'[v] = IF v = w THEN z ELSE write[v]
  BY <1>1 DEF ReplicationTyped
<1>15. Active' \cup results' \subseteq (Active \cup results) \cup ({z} \ {Idle})
  BY <1>1, <1>14 DEF Active
<1>16. \A r \in Active' \cup results' : WriteInv(r)'
  BY <1>11, <1>12, <1>15
<1>17. \A r \in results' : r.at = "followers" /\ r.acks >= r.required
  BY <1>1 DEF WritesInv
<1>18. \A n \in ReplicaNodes : \A i \in stored[n] : i.data \in Nat /\ i.data <= writes
  BY DEF ReplicationTyped, WritesInv, Numbered
<1>19. \A v \in Writers : write[v] # Idle => write[v].data \in Nat /\ write[v].data <= writes
  BY DEF ReplicationTyped, Record, WritesInv, Numbered
<1>20. Numbered'
  <2>1. \A n \in ReplicaNodes : \A i \in stored'[n] : i.data <= writes'
    BY <1>1, <1>2, <1>18
  <2>2. \A v \in Writers : write'[v] # Idle => write'[v].data <= writes'
    BY <1>1, <1>2, <1>3, <1>6, <1>13, <1>14, <1>19
  <2>3. \A v \in Writers \ {w} : write'[v] # Idle => write'[v].data # writes'
    BY <1>1, <1>2, <1>14, <1>19
  <2>4. write'[w] # Idle => write'[w].data = writes'
    BY <1>6, <1>13, <1>14
  <2>5. ASSUME NEW u \in Writers, NEW v \in Writers, write'[u] # Idle, write'[v] # Idle,
               write'[u].data = write'[v].data
        PROVE  u = v
    <3>1. CASE u = w \/ v = w
      BY <2>3, <2>4, <2>5, <3>1
    <3>2. CASE u # w /\ v # w
      BY <1>14, <2>5, <3>2 DEF WritesInv, Numbered
    <3>. QED  BY <3>1, <3>2
  <2>6. ASSUME NEW v \in Writers, write'[v] # Idle, write'[v].at = "leader", NEW n \in ReplicaNodes
        PROVE  Item(write'[v]) \notin stored'[n]
    <3>1. CASE v = w
      <4>1. Item(write'[w]).data = writes'
        BY <1>6, <1>13, <1>14, <2>6, <3>1
      <4>2. \A i \in stored[n] : i.data # writes'
        BY <1>1, <1>2, <1>18
      <4>. QED  BY <1>1, <3>1, <4>1, <4>2
    <3>2. CASE v # w
      BY <1>1, <1>14, <2>6, <3>2 DEF WritesInv, Numbered
    <3>. QED  BY <3>1, <3>2
  <2>. QED  BY <2>1, <2>2, <2>5, <2>6 DEF Numbered, Item
<1>21. WritesInv'
  BY <1>16, <1>17, <1>20 DEF WritesInv
<1>. QED  BY <1>3, <1>14, <1>21

\* The leader's is the first acknowledgement.
LEMMA AskedLeader ==
    ASSUME NEW r \in Record, WriteInv(r), r.at = "leader", StoredGrows,
           Item(r) \in stored'[Leader(r.replicas).node],
           NEW x \in Record, x = [r EXCEPT !.at = "followers", !.acks = 1]
    PROVE  WriteInv(x)'
<1>. DEFINE n == Leader(r.replicas).node
<1>1. /\ x.replicas = r.replicas /\ x.at = "followers" /\ x.queue = r.queue /\ x.level = r.level
      /\ x.acks = 1 /\ Item(x) = Item(r) /\ x.required = r.required
  BY DEF Record, Item
<1>2. r.replicas \in Seq(Replica) /\ r.acks = 0 /\ HasLeader(r.replicas) /\ r.queue \in Seq(Replica)
  BY DEF Record, WriteInv, LeaderHolds, Queued
<1>3. n \in NodesOf(r.replicas)
  BY <1>2, LeaderIsOne DEF NodesOf
<1>4. n \in Holders(x)'
  BY <1>1, <1>3 DEF Holders, NodesOf, Item
<1>5. Queued(x)
  <2>1. 0 + Len(r.queue) + 1 <= Len(r.replicas)
    BY <1>2 DEF WriteInv, Queued
  <2>2. x.acks + Len(x.queue) + (IF x.at = "leader" THEN 1 ELSE 0) <= Len(x.replicas)
    BY <1>1, <1>2, <2>1
  <2>3. /\ HasLeader(x.replicas)
        /\ \A k \in DOMAIN x.queue : x.queue[k].node \in NodesOf(x.replicas)
        /\ DistinctNodes(x) =>
              /\ \A j, k \in DOMAIN x.queue : x.queue[j].node = x.queue[k].node => j = k
              /\ Leader(x.replicas).node \notin NodesOf(x.queue)
    BY <1>1 DEF WriteInv, Queued, DistinctNodes
  <2>. QED  BY <2>2, <2>3 DEF Queued
<1>6. LeaderHolds(x)'
  BY <1>1, <1>4 DEF LeaderHolds, Leader, IsLeader
<1>7. Counted(x)'
  <2>. SUFFICES ASSUME DistinctNodes(r)
                PROVE  \E A \in SUBSET Holders(x)' : Cardinality(A) = 1 /\ A \cap NodesOf(x.queue) = {}
    BY <1>1 DEF Counted, DistinctNodes, NodesOf
  <2>1. n \notin NodesOf(x.queue)
    BY <1>1 DEF WriteInv, Queued
  <2>. HIDE DEF n
  <2>2. Cardinality({n}) = 1
    BY FS_Singleton
  <2>. QED  BY <1>4, <2>1, <2>2
<1>. QED  BY <1>1, <1>5, <1>6, <1>7 DEF WriteInv, Queued, DistinctNodes, HasLeader, IsLeader, Leader,
                                        NodesOf, min_acks

\* What an answer may change of what the nodes have stored.
LEMMA AnswerStores ==
    ASSUME ReplicationTyped, NEW w \in Writers, write[w] # Idle, NEW n \in ReplicaNodes, NEW ok \in BOOLEAN,
           Answer(n, w, ok)
    PROVE  /\ stored' \in [ReplicaNodes -> SUBSET [shard : Shards, data : 1..MaxWrites]]
           /\ \A m \in ReplicaNodes : /\ stored[m] \subseteq stored'[m]
                                      /\ stored'[m] \subseteq stored[m] \cup {Item(write[w])}
           /\ ok => Item(write[w]) \in stored'[n]
<1>1. Item(write[w]) \in [shard : Shards, data : 1..MaxWrites]
  BY DEF ReplicationTyped, Record, Item
<1>2. stored' = [stored EXCEPT ![n] = @ \cup {Item(write[w])}] \/ (~ok /\ stored' = stored)
  BY DEF Answer, Item
<1>. DEFINE item == Item(write[w])
            more == stored[n] \cup {item}
<1>. HIDE DEF item
<1>3. stored \in [ReplicaNodes -> SUBSET [shard : Shards, data : 1..MaxWrites]]
  BY DEF ReplicationTyped
<1>4. more \in SUBSET [shard : Shards, data : 1..MaxWrites] /\ item \in more
      /\ stored[n] \subseteq more /\ more \subseteq stored[n] \cup {item}
  BY <1>1, <1>3 DEF item
<1>5. stored' = [stored EXCEPT ![n] = more] \/ (~ok /\ stored' = stored)
  BY <1>2 DEF item
<1>. HIDE DEF more
<1>. QED  BY <1>3, <1>4, <1>5 DEF item

\* Every step of a writer keeps the types and the invariant of the writes.
LEMMA WriterCoordinates ==
    ASSUME ReplicationTyped, WritesInv, NEW w \in Writers, Coordinate(w)
    PROVE  /\ write' \in [Writers -> Record \cup {Idle}] /\ results' \subseteq Record
           /\ stored' \in [ReplicaNodes -> SUBSET [shard : Shards, data : 1..MaxWrites]]
           /\ WritesInv'
<1>. DEFINE r0 == write[w]
<1>1. r0 # Idle /\ r0 \in Record
  BY DEF Coordinate, WriteToLeader, ReplicateToFollower, Return, ReplicationTyped, Idle
<1>. PICK r \in Record : r = write[w]
  BY <1>1
<1>2. WriteInv(r)
  BY <1>1 DEF WritesInv, Active
<1>. HIDE DEF r0
<1>7. write[w] # Idle
  BY <1>1 DEF r0
<1>3. r.replicas \in Seq(Replica) /\ r.queue \in Seq(Replica) /\ r.acks \in Nat
      /\ HasLeader(r.replicas)
  BY <1>2 DEF Record, WriteInv, Queued
<1>4. CASE WriteToLeader(w)
  <2>1. PICK ok \in BOOLEAN :
          /\ Answer(Leader(write[w].replicas).node, w, ok)
          /\ write' = IF ok THEN [write EXCEPT ![w].at = "followers", ![w].acks = 1]
                      ELSE [write EXCEPT ![w] = Idle]
    BY <1>4 DEF WriteToLeader
  <2>2. Leader(r.replicas).node \in ReplicaNodes
    <3>1. \A i \in DOMAIN r.replicas : r.replicas[i].node \in ReplicaNodes
      <4>1. \A i \in DOMAIN r.replicas : r.replicas[i] \in Replica
        BY <1>3
      <4>. QED  BY <4>1 DEF Replica
    <3>. QED  BY <1>3, <3>1, LeaderIsOne
  <2>3. /\ stored' \in [ReplicaNodes -> SUBSET [shard : Shards, data : 1..MaxWrites]]
        /\ \A m \in ReplicaNodes : /\ stored[m] \subseteq stored'[m]
                                   /\ stored'[m] \subseteq stored[m] \cup {Item(write[w])}
        /\ ok => Item(r) \in stored'[Leader(r.replicas).node]
    <3>. PICK n \in ReplicaNodes : n = Leader(r.replicas).node
      BY <2>2
    <3>1. Answer(n, w, ok)
      BY <2>1
    <3>. QED  BY <1>7, <3>1, AnswerStores
  <2>4. writes' = writes
    BY <1>4 DEF WriteToLeader
  <2>7. /\ results' \subseteq results \cup {write[w]}
        /\ write[w] \in results' => \/ write[w] \in results
                                    \/ write[w].at = "followers" /\ write[w].acks >= write[w].required
    BY <1>4 DEF WriteToLeader
  <2>5. CASE ok
    <3>. DEFINE y == [r EXCEPT !.at = "followers", !.acks = 1]
    <3>1. y \in Record /\ Item(y) = Item(r) /\ y.at = "followers"
      BY DEF Record, Item
    <3>2. write' = [write EXCEPT ![w] = y]
      BY <1>1, <2>1, <2>5 DEF ReplicationTyped, Record
    <3>. PICK x \in Record : x = y
      BY <3>1
    <3>3. StoredGrows
      BY <2>3 DEF StoredGrows
    <3>4. WriteInv(x)'
      <4>1. r.at = "leader"
        BY <1>4 DEF WriteToLeader
      <4>. QED  BY <1>2, <2>3, <2>5, <3>3, <4>1, AskedLeader
    <3>5. x \in Record \cup {Idle} /\ write' = [write EXCEPT ![w] = x]
          /\ WriteInv(x)' /\ x.at = "followers" /\ Item(x) = Item(write[w])
      BY <3>1, <3>2, <3>4
    <3>. HIDE DEF y
    <3>. QED  BY <1>7, <2>3, <2>4, <2>7, <3>5, WriterGoesOn
  <2>6. CASE ~ok
    <3>1. write' = [write EXCEPT ![w] = Idle]
      BY <2>1, <2>6
    <3>2. Idle \in Record \cup {Idle}
      OBVIOUS
    <3>. QED  BY <1>7, <2>3, <2>4, <2>7, <3>1, <3>2, WriterGoesOn
  <2>. QED  BY <2>5, <2>6
<1>5. CASE ReplicateToFollower(w)
  <2>1. PICK ok \in BOOLEAN :
          /\ Answer(Head(write[w].queue).node, w, ok)
          /\ write' = [write EXCEPT ![w].acks = IF ok THEN @ + 1 ELSE @, ![w].queue = Tail(@)]
    BY <1>5 DEF ReplicateToFollower
  <2>2. r.at = "followers" /\ r.queue # <<>> /\ results' = results /\ writes' = writes
    BY <1>5 DEF ReplicateToFollower
  <2>10. /\ results' \subseteq results \cup {write[w]}
         /\ write[w] \in results' => \/ write[w] \in results
                                     \/ write[w].at = "followers" /\ write[w].acks >= write[w].required
    BY <1>5 DEF ReplicateToFollower
  <2>3. Head(r.queue).node \in ReplicaNodes
    <3>1. Head(r.queue) \in Replica
      BY <1>3, <2>2
    <3>. QED  BY <3>1 DEF Replica
  <2>4. /\ stored' \in [ReplicaNodes -> SUBSET [shard : Shards, data : 1..MaxWrites]]
        /\ \A m \in ReplicaNodes : /\ stored[m] \subseteq stored'[m]
                                   /\ stored'[m] \subseteq stored[m] \cup {Item(write[w])}
        /\ ok => Item(r) \in stored'[Head(r.queue).node]
    <3>. PICK n \in ReplicaNodes : n = Head(r.queue).node
      BY <2>3
    <3>1. Answer(n, w, ok)
      BY <2>1
    <3>. QED  BY <1>7, <3>1, AnswerStores
  <2>. DEFINE y == [r EXCEPT !.acks = IF ok THEN @ + 1 ELSE @, !.queue = Tail(@)]
  <2>5. y \in Record /\ Item(y) = Item(r) /\ y.at = "followers"
    <3>1. Tail(r.queue) \in Seq(Replica) /\ (IF ok THEN r.acks + 1 ELSE r.acks) \in Nat
      BY <1>3, <2>2
    <3>. QED  BY <2>2, <3>1 DEF Record, Item
  <2>6. write' = [write EXCEPT ![w] = y]
    BY <1>1, <2>1 DEF ReplicationTyped, Record
  <2>. PICK x \in Record : x = y
    BY <2>5
  <2>7. StoredGrows
    BY <2>4 DEF StoredGrows
  <2>8. WriteInv(x)'
    BY <1>2, <2>2, <2>4, <2>7, AskedFollower
  <2>9. x \in Record \cup {Idle} /\ write' = [write EXCEPT ![w] = x]
        /\ WriteInv(x)' /\ x.at = "followers" /\ Item(x) = Item(write[w])
    BY <2>5, <2>6, <2>8
  <2>. HIDE DEF y
  <2>. QED  BY <1>7, <2>2, <2>4, <2>9, <2>10, WriterGoesOn
<1>6. CASE Return(w)
  <2>1. /\ r.at = "followers" /\ write' = [write EXCEPT ![w] = Idle]
        /\ results' = (IF r.acks >= r.required THEN results \cup {r} ELSE results)
        /\ stored' = stored /\ writes' = writes
    BY <1>6 DEF Return
  <2>2. Idle \in Record \cup {Idle}
    OBVIOUS
  <2>3. stored \in [ReplicaNodes -> SUBSET [shard : Shards, data : 1..MaxWrites]]
    BY DEF ReplicationTyped
  <2>4. /\ results' \subseteq results \cup {write[w]}
        /\ write[w] \in results' => \/ write[w] \in results
                                    \/ write[w].at = "followers" /\ write[w].acks >= write[w].required
    <3>1. CASE r.acks >= r.required
      BY <2>1, <3>1
    <3>2. CASE ~(r.acks >= r.required)
      BY <2>1, <3>2
    <3>. QED  BY <3>1, <3>2
  <2>. QED  BY <1>7, <2>1, <2>2, <2>3, <2>4, WriterGoesOn
<1>. QED  BY <1>4, <1>5, <1>6 DEF Coordinate

-----------------------------------------------------------------------------
(* The invariant, and what it says of the writes that returned             *)

LEMMA ReplicationInitial ==
    ASSUME ReplicationInit
    PROVE  ReplicationInv
<1>1. ReplicationTyped
  <2>1. 0 \in 0..MaxWrites
    BY ReplicationAssumption
  <2>2. write \in [Writers -> Record \cup {Idle}]
    BY DEF ReplicationInit
  <2>. QED  BY <2>1, <2>2 DEF ReplicationInit, ReplicationTyped
<1>2. WritesInv
  <2>1. \A w \in Writers : write[w] = Idle
    BY DEF ReplicationInit
  <2>2. Active = {} /\ results = {} /\ \A n \in ReplicaNodes : stored[n] = {}
    BY <2>1 DEF Active, ReplicationInit
  <2>. QED  BY <2>1, <2>2 DEF WritesInv, Numbered
<1>3. MapsInv
  <2>1. \A t \in Tasks : ~half[t]
    BY DEF ReplicationInit
  <2>2. \A n \in ReplicaNodes, s \in Shards : Agreed(n, s)
    BY DEF ReplicationInit, Agreed, NodesOf
  <2>. QED  BY <2>1, <2>2 DEF MapsInv, About
<1>. QED  BY <1>1, <1>2, <1>3 DEF ReplicationInv

\* The writes do not see what the tracker does.
LEMMA WritesUnchanged ==
    ASSUME ReplicationTyped, WritesInv, UNCHANGED <<write, stored, results, writes>>
    PROVE  WritesInv'
<1>1. \A r \in Active \cup results : r \in Record /\ WriteInv(r)
  BY DEF ReplicationTyped, WritesInv, Active
<1>2. StoredGrows
  BY DEF StoredGrows
<1>3. \A r \in Active \cup results : WriteInv(r)'
  BY <1>1, <1>2, WriteInvKept
<1>4. Active' = Active
  BY DEF Active
<1>5. \A r \in Active' \cup results' : WriteInv(r)'
  BY <1>3, <1>4
<1>. QED  BY <1>5 DEF WritesInv, Numbered, Item

LEMMA ReplicationKept ==
    ASSUME ReplicationInv, [ReplicationNext]_replicationVars
    PROVE  ReplicationInv'
<1>0. ReplicationTyped /\ WritesInv /\ MapsInv
  BY DEF ReplicationInv
<1>. DEFINE Tracks ==
              \/ \E t \in Tasks :
                     \/ UpdateReplicas(t) \/ UpdateShards(t)
                     \/ \E operations \in Seq(Operation) :
                            operations # <<>> /\ BeginOperations(t, operations)
              \/ \E s \in Shards : \E i \in DOMAIN shard_replicas[s], r \in Replica :
                     /\ r.node = shard_replicas[s][i].node
                     /\ shard_replicas' = [shard_replicas EXCEPT ![s] = [@ EXCEPT ![i] = r]]
                     /\ UNCHANGED <<node_shards, todo, half, coordinator>>
<1>1. CASE Tracks
  <2>1. UNCHANGED coordinator
    BY <1>1 DEF UpdateReplicas, UpdateShards, BeginOperations
  <2>2. UNCHANGED <<write, stored, results, writes>>
    BY <2>1 DEF coordinator
  <2>3. MapsInv'
    BY <1>0, <1>1, MapsKept
  <2>4. /\ shard_replicas' \in [Shards -> Seq(Replica)]
        /\ node_shards' \in [ReplicaNodes -> SUBSET Shards]
        /\ todo' \in [Tasks -> Seq(Operation)] /\ half' \in [Tasks -> BOOLEAN]
        /\ \A t \in Tasks : half'[t] => todo'[t] # <<>>
    BY <1>0, <1>1, TrackerTyped
  <2>5. ReplicationTyped'
    BY <1>0, <2>2, <2>4 DEF ReplicationTyped
  <2>. QED  BY <1>0, <2>2, <2>3, <2>5, WritesUnchanged DEF ReplicationInv
<1>2. ASSUME NEW t \in Tasks, NEW s \in Shards,
             \/ \E ns \in Candidates : assign_replicas(t, s, ns)
             \/ \E n \in ReplicaNodes : remove_replica(t, s, n)
             \/ \E n \in ReplicaNodes, role \in {"Leader", "Follower"} : register_replica(t, s, n, role)
      PROVE  Tracks
  BY <1>0, <1>2, OperationsBegun
<1>3. ASSUME NEW s \in Shards, NEW n \in ReplicaNodes,
             \/ \E on \in BOOLEAN : update_replica_status(s, n, on)
             \/ \E i \in 0..MaxApplied : update_replication_lag(s, n, i)
      PROVE  Tracks
  BY <1>0, <1>3, ReportedReplica
<1>4. ASSUME UNCHANGED <<shard_replicas, node_shards, todo, half>>
      PROVE  MapsInv'
  BY <1>0, <1>4 DEF MapsInv, About, Agreed
<1>5. ASSUME NEW w \in Writers, Coordinate(w)
      PROVE  ReplicationInv'
  <2>1. UNCHANGED tracker /\ writes' = writes
    BY <1>5 DEF Coordinate, WriteToLeader, ReplicateToFollower, Return
  <2>2. UNCHANGED <<shard_replicas, node_shards, todo, half>>
    BY <2>1 DEF tracker
  <2>3. /\ write' \in [Writers -> Record \cup {Idle}] /\ results' \subseteq Record
        /\ stored' \in [ReplicaNodes -> SUBSET [shard : Shards, data : 1..MaxWrites]]
        /\ WritesInv'
    BY <1>0, <1>5, WriterCoordinates
  <2>4. ReplicationTyped'
    BY <1>0, <2>1, <2>2, <2>3 DEF ReplicationTyped
  <2>. QED  BY <1>4, <2>2, <2>3, <2>4 DEF ReplicationInv
<1>6. ASSUME NEW w \in Writers, NEW s \in Shards, NEW c \in Levels, StartWrite(w, s, c)
      PROVE  ReplicationInv'
  <2>1. UNCHANGED tracker /\ stored' = stored /\ results' = results
    BY <1>6 DEF StartWrite
  <2>2. UNCHANGED <<shard_replicas, node_shards, todo, half>>
    BY <2>1 DEF tracker
  <2>3. /\ write' \in [Writers -> Record \cup {Idle}] /\ writes' \in 0..MaxWrites
        /\ WritesInv'
    BY <1>0, <1>6, WriterStarts
  <2>4. ReplicationTyped'
    BY <1>0, <2>1, <2>2, <2>3 DEF ReplicationTyped
  <2>. QED  BY <1>4, <2>2, <2>3, <2>4 DEF ReplicationInv
<1>7. ASSUME UNCHANGED <<shard_replicas, node_shards, todo, half, write, stored, results, writes>>
      PROVE  ReplicationInv'
  <2>1. ReplicationTyped'
    BY <1>0, <1>7 DEF ReplicationTyped
  <2>. QED  BY <1>0, <1>4, <1>7, <2>1, WritesUnchanged DEF ReplicationInv
<1>8. ASSUME NEW n \in ReplicaNodes, FallSilent(n)
      PROVE  ReplicationInv'
  BY <1>7, <1>8 DEF FallSilent, tracker
<1>9. CASE UNCHANGED replicationVars
  BY <1>7, <1>9 DEF replicationVars
<1>10. CASE \E t \in Tasks : UpdateReplicas(t) \/ UpdateShards(t)
  BY <1>1, <1>10
<1>. HIDE DEF Tracks
<1>. QED  BY <1>1, <1>2, <1>3, <1>5, <1>6, <1>8, <1>9, <1>10 DEF ReplicationNext

\* Of different nodes that have a write there are as many as it counted.
LEMMA EnoughHolders ==
    ASSUME NEW r \in Record, WriteInv(r), r.at = "followers", r.acks >= r.required,
           DistinctNodes(r)
    PROVE  LET rf == Len(r.replicas)
               copies == Cardinality(Holders(r))
           IN  CASE r.level.kind = "All" -> copies = rf
                 [] r.level.kind = "Quorum" -> 2 * copies > rf
                 [] r.level.kind = "One" -> Leader(r.replicas).node \in Holders(r)
                 [] r.level.kind = "N" -> copies >= Min({r.level.n, rf})
<1>. DEFINE rf == Len(r.replicas)
            copies == Cardinality(Holders(r))
            least == Min({r.level.n, rf})
<1>1. r.replicas \in Seq(Replica) /\ r.level \in Levels /\ rf \in Nat /\ r.acks \in Nat
  BY DEF Record
<1>2. r.level.kind \in {"All", "Quorum", "One", "N"} /\ r.level.n \in Nat
  BY <1>1, ReplicationAssumption
<1>3. IsFiniteSet(NodesOf(r.replicas)) /\ Cardinality(NodesOf(r.replicas)) = rf
  BY <1>1, FewNodes DEF DistinctNodes
<1>4. Holders(r) \in SUBSET NodesOf(r.replicas)
  BY DEF Holders
<1>5. IsFiniteSet(Holders(r)) /\ copies <= rf /\ copies \in Nat
  BY <1>3, <1>4, FS_Subset, FS_CardinalityType
<1>6. r.acks <= copies
  <2>1. PICK A \in SUBSET Holders(r) : Cardinality(A) = r.acks
    BY DEF WriteInv, Counted
  <2>. QED  BY <1>5, <2>1, FS_Subset
<1>7. r.acks >= min_acks(r.level, rf)
  BY DEF WriteInv
<1>8. Leader(r.replicas).node \in Holders(r)
  BY DEF WriteInv, LeaderHolds
<1>9. least \in Nat
  <2>. DEFINE S == {r.level.n, rf}
  <2>1. S \in SUBSET Nat /\ S # {}
    BY <1>1, <1>2
  <2>. HIDE DEF S
  <2>2. Min(S) \in S
    BY <2>1, LeastNumber
  <2>. QED  BY <2>1, <2>2 DEF S
<1>. HIDE DEF rf, copies
<1>10. CASE r.level.kind = "All"
  <2>1. copies = rf
    BY <1>1, <1>5, <1>6, <1>7, <1>10 DEF min_acks
  <2>. QED  BY <1>10, <2>1 DEF rf, copies
<1>11. CASE r.level.kind = "Quorum"
  <2>1. r.acks >= (rf \div 2) + 1
    BY <1>7, <1>11 DEF min_acks
  <2>2. 2 * copies > rf
    BY <1>1, <1>5, <1>6, <2>1
  <2>. QED  BY <1>11, <2>2 DEF rf, copies
<1>12. CASE r.level.kind = "One"
  BY <1>8, <1>12
<1>13. CASE r.level.kind = "N"
  <2>1. r.acks >= least
    BY <1>7, <1>13 DEF min_acks
  <2>. HIDE DEF least
  <2>2. copies >= least
    BY <1>1, <1>5, <1>6, <1>9, <2>1
  <2>. QED  BY <1>13, <2>2 DEF rf, copies, least
<1>. QED  BY <1>2, <1>10, <1>11, <1>12, <1>13

LEMMA ReplicationHolds ==
    ASSUME ReplicationInv
    PROVE  ReplicasSafe
<1>0. ReplicationTyped /\ WritesInv /\ MapsInv
  BY DEF ReplicationInv
<1>1. \A w \in Writers : write[w] # Idle => write[w] \in Record /\ WriteInv(write[w])
  BY <1>0 DEF ReplicationTyped, WritesInv, Active
<1>2. ReplicationTypeOK
  <2>. SUFFICES ASSUME NEW w \in Writers, write[w] # Idle
                PROVE  write[w].acks \in 0..Len(write[w].replicas)
    BY <1>0 DEF ReplicationTyped, ReplicationTypeOK
  <2>. PICK r \in Record : r = write[w]
    BY <1>1
  <2>1. r.acks + Len(r.queue) + (IF r.at = "leader" THEN 1 ELSE 0) <= Len(r.replicas)
    BY <1>1 DEF WriteInv, Queued
  <2>2. r.acks \in Nat /\ Len(r.queue) \in Nat /\ Len(r.replicas) \in Nat
    BY DEF Record
  <2>3. r.acks <= Len(r.replicas)
    BY <2>1, <2>2, SMTT(40)
  <2>. QED  BY <2>2, <2>3
<1>3. AckedStored
  <2>1. \A r \in results : r \in Record /\ WriteInv(r) /\ r.at = "followers" /\ r.acks >= r.required
    BY <1>0 DEF ReplicationTyped, WritesInv
  <2>. QED  BY <2>1, EnoughHolders DEF AckedStored
<1>4. LeaderFirst
  <2>. SUFFICES ASSUME NEW w \in Writers, write[w] # Idle,
                       NEW n \in ReplicaNodes, Item(write[w]) \in stored[n]
                PROVE  Item(write[w]) \in stored[Leader(write[w].replicas).node]
    BY DEF LeaderFirst
  <2>1. write[w].at # "leader"
    BY <1>0 DEF WritesInv, Numbered
  <2>2. write[w].at = "followers"
    BY <1>1, <2>1, RecordNotIdle
  <2>. QED  BY <1>1, <2>2 DEF WriteInv, LeaderHolds, Holders
<1>5. MapsAgree
  <2>. SUFFICES ASSUME NEW t \in Tasks, Tasks = {t}, todo[t] = <<>>,
                       NEW n \in ReplicaNodes, NEW s \in Shards
                PROVE  Agreed(n, s)
    BY DEF MapsAgree, Agreed
  <2>1. ~half[t]
    BY <1>0 DEF ReplicationTyped
  <2>. QED  BY <1>0, <2>1 DEF MapsInv, About
<1>. QED  BY <1>2, <1>3, <1>4, <1>5 DEF ReplicasSafe

\* A write that returned Ok is stored by as many nodes of its shard as its level
\* asks for, no follower has a write that its leader lacks, and the two maps of
\* the tracker agree whenever a task that alone changes it has finished
\* (WriteCoordinator::coordinate_write and ReplicaTracker, replication.rs:193-561).
THEOREM AcknowledgedStored == ReplicationSpec => []ReplicasSafe
<1>1. ReplicationInit => ReplicationInv
  BY ReplicationInitial
<1>2. ReplicationInv /\ [ReplicationNext]_replicationVars => ReplicationInv'
  BY ReplicationKept
<1>3. ReplicationInv => ReplicasSafe
  BY ReplicationHolds
<1>. QED  BY <1>1, <1>2, <1>3, PTL DEF ReplicationSpec

-----------------------------------------------------------------------------
(* The vector clocks of the regions are right about what happened before   *)
(* what, and the conflicts found with them are resolved alike, for any     *)
(* number of regions and of callers in each.                               *)
(*                                                                         *)
(* The number of an operation names it (RegionNumbered); a clock is not    *)
(* behind the operations it merged (Merged), and what it says of another   *)
(* region comes from an operation of that region (Sourced). A region's     *)
(* count of itself is the number of its operations (RegionCounted), which  *)
(* bounds every clock.                                                     *)

Ids == XRegions \X Nat

Op == [id : Ids, kind : XKinds, clock : [XRegions -> Nat], ts : XStamps, saw : SUBSET Ids]

Caller == [pc : {"idle", "counted", "stamped"}, op : Op \cup {Nothing}]

RegionTyped ==
    /\ xclock \in [XRegions -> [XRegions -> Nat]]
    /\ xlog \in [XRegions -> SUBSET Op]
    /\ xtask \in [XRegions -> [XTasks -> Caller]]
    /\ \A r \in XRegions, t \in XTasks : xtask[r][t].pc = "stamped" => xtask[r][t].op \in Op
    /\ xnet \in [XRegions \X XRegions -> Seq(Op)]
    /\ xin \in [XRegions -> Op \cup {Nothing}]
    /\ xknown \in [XRegions -> SUBSET Ids]

\* The operations that are in a log, or that their callers have stamped.
AllOps == {o \in Op : \/ \E r \in XRegions : o \in xlog[r]
                      \/ \E r \in XRegions, t \in XTasks : /\ xtask[r][t].pc = "stamped"
                                                           /\ xtask[r][t].op = o}

\* Operations come from the log of their region.
Placed ==
    /\ \A r \in XRegions, t \in XTasks : xtask[r][t].pc = "stamped" => Region(xtask[r][t].op) = r
    /\ \A r \in XRegions : \A o \in xlog[r] : o \in xlog[Region(o)]
    /\ \A q, r \in XRegions : \A i \in 1..Len(xnet[<<q, r>>]) :
           q # r /\ Region(xnet[<<q, r>>][i]) = q /\ xnet[<<q, r>>][i] \in xlog[q]
    /\ \A r \in XRegions : xin[r] # Nothing =>
           Region(xin[r]) # r /\ xin[r] \in xlog[Region(xin[r])]

RegionNumbered ==
    /\ \A r \in XRegions : \E k \in Nat : Made(r) = {r} \X (1..k)
    /\ \A r \in XRegions : \A x \in xknown[r] : x \in xknown[x[1]]
    /\ \A o \in AllOps : o.id \in xknown[Region(o)] /\ \A x \in o.saw : x \in xknown[x[1]]
    /\ \A o, p \in AllOps : o.id = p.id => o = p

Below(c, d) == \A q \in XRegions : c[q] <= d[q]

Merged ==
    /\ \A r \in XRegions : \A p \in AllOps : p.id \in xknown[r] => Below(p.clock, xclock[r])
    /\ \A o, p \in AllOps : p.id \in o.saw => Below(p.clock, o.clock)

\* One of the operations numbered in known is of region s and has its count n.
Source(n, s, known) == \E a \in xlog[s] : Region(a) = s /\ a.id \in known /\ a.clock[s] = n

Sourced ==
    /\ \A r, s \in XRegions : r # s => xclock[r][s] = 0 \/ Source(xclock[r][s], s, xknown[r])
    /\ \A o \in AllOps, s \in XRegions :
           Region(o) # s => o.clock[s] = 0 \/ Source(o.clock[s], s, o.saw)
    /\ \A o \in AllOps : o.clock[Region(o)] >= 1

CountedBy(r) == {t \in XTasks : xtask[r][t].pc = "counted"}

RegionCounted ==
    /\ \A r \in XRegions : xclock[r][r] = Cardinality(Made(r)) + Cardinality(CountedBy(r))
    /\ OpsSoFar <= XMaxOps

Resolved ==
    \E s \in Strategies :
        /\ xconf = [r \in XRegions |-> s]
        /\ \A e \in xresolved :
              e.op \in Op /\ e.against \subseteq Op /\ e.won \in Winners(s, e.op, e.against)

RegionInv == RegionTyped /\ Placed /\ RegionNumbered /\ Merged /\ Sourced /\ RegionCounted /\ Resolved

-----------------------------------------------------------------------------
(* Operations and clocks                                                   *)

LEMMA OpFields ==
    ASSUME NEW o \in Op
    PROVE  /\ o # Nothing /\ Region(o) \in XRegions /\ Region(o) = o.id[1] /\ o.id \in Ids
           /\ o.clock \in [XRegions -> Nat] /\ o.ts \in XStamps /\ o.ts \in Nat /\ o.saw \subseteq Ids
<1>1. o.id \in Ids /\ o.id # <<>>
  <2>1. o.id \in XRegions \X Nat
    BY DEF Op, Ids
  <2>2. \A a \in XRegions, b \in Nat : <<a, b>> # <<>>
    OBVIOUS
  <2>3. PICK a \in XRegions, b \in Nat : o.id = <<a, b>>
    BY <2>1
  <2>. QED  BY <2>1, <2>2, <2>3 DEF Ids
<1>2. o # Nothing
  <2>1. Nothing.id = <<>>
    BY DEF Nothing
  <2>. QED  BY <1>1, <2>1
<1>. QED  BY <1>1, <1>2, CrossRegionAssumption DEF Op, Ids, Region

\* A log that has grown has the sources it had.
LogGrows == \A s \in XRegions : xlog[s] \subseteq xlog'[s]

LEMMA SourceKept ==
    ASSUME NEW s \in XRegions, NEW n \in Nat, NEW known, NEW more, known \subseteq more,
           Source(n, s, known), LogGrows
    PROVE  Source(n, s, more)'
BY DEF Source, LogGrows, Region

\* Clocks that are merged keep to the larger count.
LEMMA UpdateFacts ==
    ASSUME NEW c \in [XRegions -> Nat], NEW d \in [XRegions -> Nat]
    PROVE  /\ update(c, d) \in [XRegions -> Nat]
           /\ Below(c, update(c, d)) /\ Below(d, update(c, d))
           /\ \A q \in XRegions : update(c, d)[q] = c[q] \/ update(c, d)[q] = d[q]
<1>1. \A q \in XRegions : c[q] \in Nat /\ d[q] \in Nat
  OBVIOUS
<1>. QED  BY <1>1 DEF update, Below

LEMMA BelowTransitive ==
    ASSUME NEW b \in [XRegions -> Nat], NEW c \in [XRegions -> Nat], NEW d \in [XRegions -> Nat],
           Below(b, c), Below(c, d)
    PROVE  Below(b, d)
<1>1. \A q \in XRegions : b[q] \in Nat /\ c[q] \in Nat /\ d[q] \in Nat
  OBVIOUS
<1>. QED  BY <1>1 DEF Below

\* A region's count of itself is the largest anybody has of it.
LEMMA OwnCountLargest ==
    ASSUME RegionTyped, RegionNumbered, Merged, Sourced, NEW s \in XRegions
    PROVE  /\ \A r \in XRegions : xclock[r][s] <= xclock[s][s]
           /\ \A o \in AllOps : o.clock[s] <= xclock[s][s]
<1>1. xclock[s][s] \in Nat
  BY DEF RegionTyped
<1>2. \A o \in AllOps : Region(o) = s => o.clock[s] <= xclock[s][s]
  BY DEF RegionNumbered, Merged, Below
<1>3. \A n, known : Source(n, s, known) => n <= xclock[s][s]
  <2>. SUFFICES ASSUME NEW a \in xlog[s], Region(a) = s
                PROVE  a.clock[s] <= xclock[s][s]
    BY DEF Source
  <2>1. a \in AllOps
    BY DEF AllOps, RegionTyped
  <2>. QED  BY <1>2, <2>1
<1>4. \A r \in XRegions : xclock[r][s] <= xclock[s][s]
  <2>1. ASSUME NEW r \in XRegions, r # s PROVE xclock[r][s] <= xclock[s][s]
    BY <1>1, <1>3, <2>1 DEF Sourced
  <2>. QED  BY <1>1, <2>1
<1>5. ASSUME NEW o \in AllOps PROVE o.clock[s] <= xclock[s][s]
  <2>1. CASE Region(o) = s
    BY <1>2, <2>1
  <2>2. CASE Region(o) # s
    BY <1>1, <1>3, <2>2 DEF Sourced
  <2>. QED  BY <2>1, <2>2
<1>. QED  BY <1>4, <1>5

-----------------------------------------------------------------------------
(* The number of operations                                                *)

AllMade == UNION {Made(r) : r \in XRegions}

\* The operations are finitely many, and OpsSoFar counts them.
LEMMA FiniteOps ==
    ASSUME RegionNumbered
    PROVE  /\ \A r \in XRegions : IsFiniteSet(Made(r)) /\ Made(r) \subseteq AllMade
           /\ IsFiniteSet(AllMade) /\ IsFiniteSet(Started)
           /\ \A r \in XRegions : IsFiniteSet(CountedBy(r))
           /\ \A r \in XRegions, k \in Nat : Made(r) = {r} \X (1..k) => Cardinality(Made(r)) = k
           /\ OpsSoFar = Cardinality(AllMade) + Cardinality(Started)
           /\ Cardinality(AllMade) \in Nat /\ Cardinality(Started) \in Nat
<1>1. \A r \in XRegions, k \in Nat :
          IsFiniteSet({r} \X (1..k)) /\ Cardinality({r} \X (1..k)) = k
  <2>. SUFFICES ASSUME NEW r \in XRegions, NEW k \in Nat
                PROVE  IsFiniteSet({r} \X (1..k)) /\ Cardinality({r} \X (1..k)) = k
    OBVIOUS
  <2>1. IsFiniteSet(1..k) /\ Cardinality(1..k) = k
    BY FS_Interval
  <2>2. IsFiniteSet({r}) /\ Cardinality({r}) = 1
    BY FS_Singleton
  <2>3. IsFiniteSet({r} \X (1..k)) /\ Cardinality({r} \X (1..k)) = Cardinality({r}) * Cardinality(1..k)
    BY <2>1, <2>2, FS_Product
  <2>. QED  BY <2>1, <2>2, <2>3
<1>2. \A r \in XRegions : IsFiniteSet(Made(r)) /\ Made(r) \subseteq AllMade
  BY <1>1 DEF RegionNumbered, AllMade
<1>3. IsFiniteSet(AllMade)
  <2>. DEFINE f == [r \in XRegions |-> Made(r)]
              M == {Made(r) : r \in XRegions}
  <2>1. f \in Surjection(XRegions, M)
    BY DEF Surjection
  <2>2. IsFiniteSet(M)
    <3>. HIDE DEF f, M
    <3>. QED  BY <2>1, FS_Surjection, CrossRegionAssumption
  <2>3. IsFiniteSet(UNION M)
    <3>1. \A T \in M : IsFiniteSet(T)
      BY <1>2
    <3>. HIDE DEF M
    <3>. QED  BY <2>2, <3>1, FS_UNION
  <2>. QED  BY <2>3 DEF AllMade
<1>4. IsFiniteSet(Started)
  <2>1. IsFiniteSet(XRegions \X XTasks)
    BY FS_Product, CrossRegionAssumption
  <2>2. Started \in SUBSET (XRegions \X XTasks)
    BY DEF Started
  <2>. QED  BY <2>1, <2>2, FS_Subset
<1>5. \A r \in XRegions : IsFiniteSet(CountedBy(r))
  <2>1. \A r \in XRegions : CountedBy(r) \in SUBSET XTasks
    BY DEF CountedBy
  <2>. QED  BY <2>1, FS_Subset, CrossRegionAssumption
<1>6. OpsSoFar = Cardinality(AllMade) + Cardinality(Started)
  BY DEF OpsSoFar, AllMade
<1>. QED  BY <1>1, <1>2, <1>3, <1>4, <1>5, <1>6, FS_CardinalityType

\* No clock counts more than the operations there are.
LEMMA ClocksBounded ==
    ASSUME RegionTyped, RegionNumbered, Merged, Sourced, RegionCounted, NEW r \in XRegions, NEW s \in XRegions
    PROVE  xclock[r][s] \in 0..XMaxOps
<1>1. /\ IsFiniteSet(AllMade) /\ IsFiniteSet(Started) /\ Made(s) \in SUBSET AllMade
      /\ OpsSoFar = Cardinality(AllMade) + Cardinality(Started)
      /\ Cardinality(AllMade) \in Nat /\ Cardinality(Started) \in Nat
  BY FiniteOps
<1>2. Cardinality(Made(s)) <= Cardinality(AllMade)
  BY <1>1, FS_Subset
<1>3. Cardinality(CountedBy(s)) <= Cardinality(Started)
  <2>. DEFINE f == [t \in CountedBy(s) |-> <<s, t>>]
  <2>1. \A t \in CountedBy(s) : <<s, t>> \in Started
    BY DEF CountedBy, Started
  <2>2. f \in Injection(CountedBy(s), Started)
    BY <2>1 DEF Injection, IsInjective
  <2>. HIDE DEF f
  <2>. QED  BY <1>1, <2>2, FS_Injection
<1>4. Cardinality(Made(s)) \in Nat /\ Cardinality(CountedBy(s)) \in Nat
  BY FiniteOps, FS_CardinalityType
<1>5. xclock[s][s] <= XMaxOps
  BY <1>1, <1>2, <1>3, <1>4, CrossRegionAssumption DEF RegionCounted
<1>6. xclock[r][s] <= xclock[s][s]
  BY OwnCountLargest
<1>7. xclock[r][s] \in Nat /\ xclock[s][s] \in Nat
  BY DEF RegionTyped
<1>. QED  BY <1>5, <1>6, <1>7, CrossRegionAssumption

-----------------------------------------------------------------------------
(* Every step keeps the types, and what it leaves alone                    *)

\* The operation a caller has stamped, or a region handles, is an operation.
LEMMA TaskOperation ==
    ASSUME RegionTyped, NEW r \in XRegions, NEW t \in XTasks, xtask[r][t].pc = "stamped"
    PROVE  xtask[r][t].op \in AllOps
BY DEF RegionTyped, AllOps

LEMMA LoggedOperation ==
    ASSUME RegionTyped, NEW r \in XRegions, NEW o \in xlog[r]
    PROVE  o \in AllOps
BY DEF RegionTyped, AllOps

LEMMA TaskChanged ==
    ASSUME xtask \in [XRegions -> [XTasks -> Caller]], NEW r \in XRegions, NEW t \in XTasks,
           NEW x \in Caller, xtask' = [xtask EXCEPT ![r][t] = x]
    PROVE  /\ xtask' \in [XRegions -> [XTasks -> Caller]]
           /\ \A q \in XRegions, u \in XTasks :
                  xtask'[q][u] = IF q = r /\ u = t THEN x ELSE xtask[q][u]
<1>. DEFINE f == [xtask[r] EXCEPT ![t] = x]
<1>1. f \in [XTasks -> Caller] /\ \A u \in XTasks : f[u] = IF u = t THEN x ELSE xtask[r][u]
  OBVIOUS
<1>2. xtask' = [xtask EXCEPT ![r] = f]
  OBVIOUS
<1>. HIDE DEF f
<1>. QED  BY <1>1, <1>2

\* What the history, the clock and the callers' places have in common keeps the
\* invariants when logs grow with operations that exist.
LEMMA KnowledgeKept ==
    ASSUME RegionTyped, RegionNumbered, Merged, Sourced, RegionCounted,
           UNCHANGED <<xclock, xknown>>, AllOps' \subseteq AllOps, LogGrows,
           \A r \in XRegions : CountedBy(r)' = CountedBy(r), Started' = Started
    PROVE  RegionNumbered' /\ Merged' /\ Sourced' /\ RegionCounted'
<1>1. \A r \in XRegions : Made(r)' = Made(r)
  BY DEF Made
<1>2. RegionNumbered'
  BY <1>1 DEF RegionNumbered, Region
<1>3. Merged'
  BY DEF Merged, Below
<1>4. Sourced'
  <2>1. ASSUME NEW r \in XRegions, NEW s \in XRegions, r # s
        PROVE  xclock'[r][s] = 0 \/ Source(xclock[r][s], s, xknown[r])'
    <3>1. xclock[r][s] \in Nat
      BY DEF RegionTyped
    <3>2. Source(xclock[r][s], s, xknown[r]) => Source(xclock[r][s], s, xknown[r])'
      BY DEF Source, LogGrows, Region
    <3>. QED  BY <2>1, <3>2 DEF Sourced
  <2>2. ASSUME NEW o \in AllOps', NEW s \in XRegions, Region(o) # s
        PROVE  o.clock[s] = 0 \/ Source(o.clock[s], s, o.saw)'
    <3>1. Source(o.clock[s], s, o.saw) => Source(o.clock[s], s, o.saw)'
      BY DEF Source, LogGrows, Region
    <3>. QED  BY <2>2, <3>1 DEF Sourced
  <2>3. \A o \in AllOps' : o.clock[Region(o)] >= 1
    BY DEF Sourced
  <2>. QED  BY <2>1, <2>2, <2>3 DEF Sourced, Region
<1>5. RegionCounted'
  <2>1. OpsSoFar' = OpsSoFar
    BY <1>1 DEF OpsSoFar
  <2>. QED  BY <1>1, <2>1 DEF RegionCounted
<1>. QED  BY <1>2, <1>3, <1>4, <1>5

-----------------------------------------------------------------------------
(* replicate_operation                                                     *)

LEMMA ReplicateKeeps ==
    ASSUME RegionInv, NEW r \in XRegions, NEW t \in XTasks, replicate_operation(r, t)
    PROVE  RegionInv'
<1>0. RegionTyped /\ Placed /\ RegionNumbered /\ Merged /\ Sourced /\ RegionCounted /\ Resolved
  BY DEF RegionInv
<1>1. /\ xtask[r][t].pc = "idle" /\ OpsSoFar < XMaxOps
      /\ xclock' = [xclock EXCEPT ![r] = increment(@, r)]
      /\ xtask' = [xtask EXCEPT ![r][t].pc = "counted"]
      /\ UNCHANGED <<xlog, xconf, xnet, xin, xresolved, xknown, xdropped>>
  BY DEF replicate_operation
<1>2. xclock' \in [XRegions -> [XRegions -> Nat]]
      /\ \A q, s \in XRegions : /\ xclock'[q][s] = IF q = r /\ s = r THEN xclock[r][r] + 1 ELSE xclock[q][s]
                                /\ xclock[q][s] \in Nat
  BY <1>0, <1>1 DEF RegionTyped, increment
<1>3. /\ xtask' \in [XRegions -> [XTasks -> Caller]]
      /\ \A q \in XRegions, u \in XTasks :
             /\ xtask'[q][u].op = xtask[q][u].op
             /\ xtask'[q][u].pc = IF q = r /\ u = t THEN "counted" ELSE xtask[q][u].pc
  <2>. DEFINE x == [xtask[r][t] EXCEPT !.pc = "counted"]
  <2>1. x \in Caller /\ x.pc = "counted" /\ x.op = xtask[r][t].op
    <3>1. xtask[r][t] \in Caller
      BY <1>0 DEF RegionTyped
    <3>. QED  BY <3>1 DEF Caller
  <2>2. xtask' = [xtask EXCEPT ![r][t] = x]
    BY <1>1
  <2>. HIDE DEF x
  <2>3. xtask' \in [XRegions -> [XTasks -> Caller]]
        /\ \A q \in XRegions, u \in XTasks : xtask'[q][u] = IF q = r /\ u = t THEN x ELSE xtask[q][u]
    BY <1>0, <2>1, <2>2, TaskChanged DEF RegionTyped
  <2>. QED  BY <2>1, <2>3 DEF Caller
<1>4. RegionTyped'
  <2>1. \A q \in XRegions, u \in XTasks : xtask'[q][u].pc = "stamped" => xtask'[q][u].op \in Op
    BY <1>0, <1>3 DEF RegionTyped
  <2>2. xlog' = xlog /\ xnet' = xnet /\ xin' = xin /\ xknown' = xknown
    BY <1>1
  <2>3. xclock' \in [XRegions -> [XRegions -> Nat]]
    BY <1>2
  <2>4. xtask' \in [XRegions -> [XTasks -> Caller]]
    BY <1>3
  <2>. QED  BY <1>0, <2>1, <2>2, <2>3, <2>4 DEF RegionTyped
<1>5. AllOps' \subseteq AllOps
  BY <1>1, <1>3 DEF AllOps
<1>6. Placed'
  BY <1>0, <1>1, <1>3 DEF Placed, Region
<1>7. RegionNumbered'
  BY <1>0, <1>1, <1>5 DEF RegionNumbered, Made, Region
<1>8. Merged'
  <2>1. \A q \in XRegions : Below(xclock[q], xclock'[q])
    BY <1>2 DEF Below
  <2>2. ASSUME NEW q \in XRegions, NEW p \in AllOps', p.id \in xknown'[q]
        PROVE  Below(p.clock, xclock'[q])
    <3>1. Below(p.clock, xclock[q]) /\ p.clock \in [XRegions -> Nat]
      BY <1>0, <1>1, <1>5, <2>2, OpFields DEF Merged, AllOps
    <3>2. xclock[q] \in [XRegions -> Nat] /\ xclock'[q] \in [XRegions -> Nat]
      BY <1>0, <1>2 DEF RegionTyped
    <3>. QED  BY <2>1, <3>1, <3>2, BelowTransitive
  <2>. QED  BY <1>0, <1>5, <2>2 DEF Merged, Below
<1>9. Sourced'
  <2>1. ASSUME NEW q \in XRegions, NEW s \in XRegions, q # s
        PROVE  xclock'[q][s] = 0 \/ Source(xclock'[q][s], s, xknown[q])
    BY <1>0, <1>2, <2>1 DEF Sourced
  <2>. QED  BY <1>0, <1>1, <1>5, <2>1 DEF Sourced, Source, Region
<1>10. RegionCounted'
  <2>1. t \notin CountedBy(r) /\ CountedBy(r)' = CountedBy(r) \cup {t}
        /\ \A q \in XRegions \ {r} : CountedBy(q)' = CountedBy(q)
    BY <1>1, <1>3 DEF CountedBy
  <2>2. <<r, t>> \notin Started /\ Started' = Started \cup {<<r, t>>}
    BY <1>1, <1>3 DEF Started
  <2>3. \A q \in XRegions : Made(q)' = Made(q)
    BY <1>1 DEF Made
  <2>4. /\ \A q \in XRegions : IsFiniteSet(CountedBy(q)) /\ IsFiniteSet(Made(q))
        /\ IsFiniteSet(Started) /\ Cardinality(AllMade) \in Nat /\ Cardinality(Started) \in Nat
        /\ OpsSoFar = Cardinality(AllMade) + Cardinality(Started)
    BY <1>0, FiniteOps
  <2>5. Cardinality(CountedBy(r)') = Cardinality(CountedBy(r)) + 1
        /\ Cardinality(Started') = Cardinality(Started) + 1
    BY <2>1, <2>2, <2>4, FS_AddElement
  <2>6. Cardinality(Made(r)) \in Nat /\ Cardinality(CountedBy(r)) \in Nat
    BY <2>4, FS_CardinalityType
  <2>7. OpsSoFar' = Cardinality(AllMade) + Cardinality(Started')
    BY <2>3 DEF OpsSoFar, AllMade
  <2>8. OpsSoFar' <= XMaxOps
    BY <1>1, <2>4, <2>5, <2>7, CrossRegionAssumption
  <2>9. xclock'[r][r] = Cardinality(Made(r)') + Cardinality(CountedBy(r)')
    <3>1. xclock[r][r] = Cardinality(Made(r)) + Cardinality(CountedBy(r))
      BY <1>0 DEF RegionCounted
    <3>. QED  BY <1>2, <2>3, <2>5, <2>6, <3>1
  <2>10. \A q \in XRegions \ {r} : xclock'[q][q] = Cardinality(Made(q)') + Cardinality(CountedBy(q)')
    BY <1>0, <1>2, <2>1, <2>3 DEF RegionCounted
  <2>. QED  BY <2>8, <2>9, <2>10 DEF RegionCounted
<1>11. Resolved'
  BY <1>0, <1>1 DEF Resolved
<1>. QED  BY <1>4, <1>6, <1>7, <1>8, <1>9, <1>10, <1>11 DEF RegionInv

-----------------------------------------------------------------------------
(* StampOperation                                                          *)

LEMMA StampKeeps ==
    ASSUME RegionInv, NEW r \in XRegions, NEW t \in XTasks, NEW kind \in XKinds, NEW ts \in XStamps,
           StampOperation(r, t, kind, ts)
    PROVE  RegionInv'
<1>0. RegionTyped /\ Placed /\ RegionNumbered /\ Merged /\ Sourced /\ RegionCounted /\ Resolved
  BY DEF RegionInv
<1>. PICK k \in Nat : Made(r) = {r} \X (1..k)
  BY <1>0 DEF RegionNumbered
<1>. DEFINE op0 == [id |-> <<r, k + 1>>, kind |-> kind, clock |-> xclock[r], ts |-> ts, saw |-> xknown[r]]
<1>1. op0 \in Op
  <2>1. xclock[r] \in [XRegions -> Nat] /\ xknown[r] \in SUBSET Ids /\ <<r, k + 1>> \in Ids
    BY <1>0 DEF RegionTyped, Ids
  <2>. QED  BY <2>1 DEF Op
<1>. PICK op \in Op : op = op0
  BY <1>1
<1>2. /\ op.id = <<r, k + 1>> /\ Region(op) = r /\ op.clock = xclock[r] /\ op.saw = xknown[r]
  BY DEF Region
<1>3. /\ xtask[r][t].pc = "counted"
      /\ xtask' = [xtask EXCEPT ![r][t] = [pc |-> "stamped", op |-> op]]
      /\ xknown' = [xknown EXCEPT ![r] = @ \cup {op.id}]
      /\ UNCHANGED <<xclock, xlog, xconf, xnet, xin, xresolved, xdropped>>
  <2>1. Cardinality(Made(r)) = k
    BY <1>0, FiniteOps
  <2>. QED  BY <2>1 DEF StampOperation
<1>. HIDE DEF op0
<1>4. op.id \notin xknown[r] /\ op.id \in Ids
  <2>1. op.id \notin Made(r)
    BY <1>2
  <2>. QED  BY <1>2, <2>1, OpFields DEF Made
<1>5. /\ xknown' \in [XRegions -> SUBSET Ids]
      /\ \A q \in XRegions : xknown'[q] = IF q = r THEN xknown[r] \cup {op.id} ELSE xknown[q]
  BY <1>0, <1>3, <1>4 DEF RegionTyped
<1>6. \A q \in XRegions : op.id \notin xknown[q]
  <2>1. \A q \in XRegions : op.id \in xknown[q] => op.id \in xknown[op.id[1]]
    BY <1>0 DEF RegionNumbered
  <2>2. op.id[1] = r
    BY <1>2
  <2>. QED  BY <1>4, <2>1, <2>2
<1>7. /\ xtask' \in [XRegions -> [XTasks -> Caller]]
      /\ \A q \in XRegions, u \in XTasks :
             xtask'[q][u] = IF q = r /\ u = t THEN [pc |-> "stamped", op |-> op] ELSE xtask[q][u]
  <2>1. [pc |-> "stamped", op |-> op] \in Caller
    BY DEF Caller
  <2>. QED  BY <1>0, <1>3, <2>1, TaskChanged DEF RegionTyped
<1>8. RegionTyped'
  <2>1. \A q \in XRegions, u \in XTasks : xtask'[q][u].pc = "stamped" => xtask'[q][u].op \in Op
    <3>. SUFFICES ASSUME NEW q \in XRegions, NEW u \in XTasks, xtask'[q][u].pc = "stamped"
                  PROVE  xtask'[q][u].op \in Op
      OBVIOUS
    <3>1. CASE q = r /\ u = t
      BY <1>7, <3>1
    <3>2. CASE ~(q = r /\ u = t)
      BY <1>0, <1>7, <3>2 DEF RegionTyped
    <3>. QED  BY <3>1, <3>2
  <2>2. xclock' = xclock /\ xlog' = xlog /\ xnet' = xnet /\ xin' = xin
    BY <1>3
  <2>3. xknown' \in [XRegions -> SUBSET Ids] /\ xtask' \in [XRegions -> [XTasks -> Caller]]
    BY <1>5, <1>7
  <2>. QED  BY <1>0, <2>1, <2>2, <2>3 DEF RegionTyped
<1>9. AllOps' \subseteq AllOps \cup {op}
  BY <1>3, <1>7 DEF AllOps
<1>10. op \notin AllOps /\ \A o \in AllOps : o.id # op.id /\ op.id \notin o.saw
  BY <1>0, <1>2, <1>6, OpFields DEF RegionNumbered, AllOps
<1>11. Placed'
  <2>1. \A q \in XRegions, u \in XTasks : xtask'[q][u].pc = "stamped" => Region(xtask'[q][u].op) = q
    BY <1>0, <1>2, <1>7 DEF Placed
  <2>2. xlog' = xlog /\ xnet' = xnet /\ xin' = xin
    BY <1>3
  <2>. QED  BY <1>0, <2>1, <2>2 DEF Placed, Region
<1>12. Made(r)' = Made(r) \cup {op.id} /\ \A q \in XRegions \ {r} : Made(q)' = Made(q)
  BY <1>2, <1>5 DEF Made
<1>13. RegionNumbered'
  <2>1. ASSUME NEW q \in XRegions PROVE \E m \in Nat : Made(q)' = {q} \X (1..m)
    <3>1. CASE q = r
      <4>1. 1..(k + 1) = (1..k) \cup {k + 1} /\ k + 1 \in Nat
        OBVIOUS
      <4>2. {r} \X (1..(k + 1)) = ({r} \X (1..k)) \cup {<<r, k + 1>>}
        BY <4>1
      <4>. QED  BY <1>2, <1>12, <3>1, <4>1, <4>2
    <3>2. CASE q # r
      BY <1>0, <1>12, <3>2 DEF RegionNumbered
    <3>. QED  BY <3>1, <3>2
  <2>2. ASSUME NEW q \in XRegions, NEW x \in xknown'[q]
        PROVE  x \in xknown'[x[1]]
    <3>1. CASE x \in xknown[q]
      <4>1. x \in xknown[x[1]] /\ x[1] \in XRegions
        BY <1>0, <3>1 DEF RegionNumbered, RegionTyped, Ids
      <4>. QED  BY <1>5, <4>1
    <3>2. CASE x = op.id
      <4>1. x[1] = r
        BY <1>2, <3>2
      <4>. QED  BY <1>5, <3>2, <4>1
    <3>. QED  BY <1>5, <3>1, <3>2
  <2>3. ASSUME NEW o \in AllOps'
        PROVE  o.id \in xknown'[Region(o)] /\ \A x \in o.saw : x \in xknown'[x[1]]
    <3>1. CASE o \in AllOps
      <4>1. o.id \in xknown[Region(o)] /\ Region(o) \in XRegions
        BY <1>0, <3>1, OpFields DEF RegionNumbered, AllOps
      <4>2. \A x \in o.saw : x \in xknown[x[1]] /\ x[1] \in XRegions
        BY <1>0, <3>1, OpFields DEF RegionNumbered, AllOps, Ids
      <4>. QED  BY <1>5, <4>1, <4>2
    <3>2. CASE o = op
      <4>1. \A x \in xknown[r] : x \in xknown'[r]
        BY <1>5
      <4>. QED  BY <1>2, <1>5, <2>2, <3>2, <4>1
    <3>. QED  BY <1>9, <3>1, <3>2
  <2>4. \A o, p \in AllOps' : o.id = p.id => o = p
    BY <1>0, <1>9, <1>10 DEF RegionNumbered
  <2>. QED  BY <2>1, <2>2, <2>3, <2>4 DEF RegionNumbered, Region
<1>14. Merged'
  <2>1. ASSUME NEW q \in XRegions, NEW p \in AllOps', p.id \in xknown'[q]
        PROVE  Below(p.clock, xclock[q])
    <3>1. CASE p \in AllOps
      <4>1. p.id \in xknown[q]
        BY <1>5, <1>10, <2>1, <3>1
      <4>. QED  BY <1>0, <3>1, <4>1 DEF Merged
    <3>2. CASE p = op
      <4>1. q = r
        BY <1>5, <1>6, <2>1, <3>2
      <4>2. \A s \in XRegions : xclock[r][s] \in Nat
        BY <1>0 DEF RegionTyped
      <4>. QED  BY <1>2, <3>2, <4>1, <4>2 DEF Below
    <3>. QED  BY <1>9, <3>1, <3>2
  <2>2. ASSUME NEW o \in AllOps', NEW p \in AllOps', p.id \in o.saw
        PROVE  Below(p.clock, o.clock)
    <3>1. p \in AllOps
      <4>1. op.id \notin op.saw
        BY <1>2, <1>4
      <4>. QED  BY <1>9, <1>10, <2>2, <4>1
    <3>2. CASE o \in AllOps
      BY <1>0, <2>2, <3>1, <3>2 DEF Merged
    <3>3. CASE o = op
      BY <1>0, <1>2, <2>2, <3>1, <3>3 DEF Merged
    <3>. QED  BY <1>9, <3>2, <3>3
  <2>3. xclock' = xclock
    BY <1>3
  <2>. QED  BY <2>1, <2>2, <2>3 DEF Merged, Below
<1>15. Sourced'
  <2>1. xclock' = xclock /\ xlog' = xlog
    BY <1>3
  <2>2. ASSUME NEW q \in XRegions, NEW s \in XRegions, q # s
        PROVE  xclock[q][s] = 0 \/ Source(xclock[q][s], s, xknown'[q])
    BY <1>0, <1>5, <2>2 DEF Sourced, Source
  <2>3. ASSUME NEW o \in AllOps', NEW s \in XRegions, Region(o) # s
        PROVE  o.clock[s] = 0 \/ Source(o.clock[s], s, o.saw)
    <3>1. CASE o \in AllOps
      BY <1>0, <2>3, <3>1 DEF Sourced
    <3>2. CASE o = op
      BY <1>0, <1>2, <2>3, <3>2 DEF Sourced
    <3>. QED  BY <1>9, <3>1, <3>2
  <2>4. ASSUME NEW o \in AllOps' PROVE o.clock[Region(o)] >= 1
    <3>1. CASE o \in AllOps
      BY <1>0, <3>1 DEF Sourced
    <3>2. CASE o = op
      <4>1. t \in CountedBy(r) /\ IsFiniteSet(CountedBy(r)) /\ IsFiniteSet(Made(r))
        BY <1>0, <1>3, FiniteOps DEF CountedBy
      <4>2. Cardinality(CountedBy(r)) \in Nat /\ Cardinality(CountedBy(r)) # 0
            /\ Cardinality(Made(r)) \in Nat
        BY <4>1, FS_EmptySet, FS_CardinalityType
      <4>3. xclock[r][r] = Cardinality(Made(r)) + Cardinality(CountedBy(r))
        BY <1>0 DEF RegionCounted
      <4>4. xclock[r][r] >= 1
        BY <4>2, <4>3
      <4>. QED  BY <1>2, <3>2, <4>4
    <3>. QED  BY <1>9, <3>1, <3>2
  <2>5. \A q, s \in XRegions : q # s => xclock'[q][s] = 0 \/ Source(xclock[q][s], s, xknown[q])'
    BY <2>1, <2>2 DEF Source, Region
  <2>6. \A o \in AllOps', s \in XRegions :
            Region(o) # s => o.clock[s] = 0 \/ Source(o.clock[s], s, o.saw)'
    BY <2>1, <2>3 DEF Source, Region
  <2>. QED  BY <2>4, <2>5, <2>6 DEF Sourced, Region
<1>16. RegionCounted'
  <2>1. t \in CountedBy(r) /\ CountedBy(r)' = CountedBy(r) \ {t}
        /\ \A q \in XRegions \ {r} : CountedBy(q)' = CountedBy(q)
    BY <1>3, <1>7 DEF CountedBy
  <2>2. <<r, t>> \in Started /\ Started' = Started \ {<<r, t>>}
    BY <1>3, <1>7 DEF Started
  <2>3. op.id \notin AllMade /\ AllMade' = AllMade \cup {op.id} /\ op.id \notin Made(r)
    BY <1>6, <1>12 DEF AllMade, Made
  <2>4. /\ \A q \in XRegions : IsFiniteSet(CountedBy(q)) /\ IsFiniteSet(Made(q))
        /\ IsFiniteSet(Started) /\ IsFiniteSet(AllMade)
        /\ Cardinality(AllMade) \in Nat /\ Cardinality(Started) \in Nat
        /\ OpsSoFar = Cardinality(AllMade) + Cardinality(Started)
    BY <1>0, FiniteOps
  <2>5. Cardinality(CountedBy(r)') = Cardinality(CountedBy(r)) - 1
        /\ Cardinality(Started') = Cardinality(Started) - 1
    BY <2>1, <2>2, <2>4, FS_RemoveElement
  <2>6. Cardinality(AllMade') = Cardinality(AllMade) + 1
        /\ Cardinality(Made(r)') = Cardinality(Made(r)) + 1
    BY <1>12, <2>3, <2>4, FS_AddElement, ZenonT(60)
  <2>7. OpsSoFar' = Cardinality(AllMade') + Cardinality(Started')
    BY DEF OpsSoFar, AllMade
  <2>8. OpsSoFar' <= XMaxOps
    BY <1>0, <2>4, <2>5, <2>6, <2>7, CrossRegionAssumption DEF RegionCounted
  <2>9. xclock'[r][r] = Cardinality(Made(r)') + Cardinality(CountedBy(r)')
    <3>1. xclock'[r][r] = Cardinality(Made(r)) + Cardinality(CountedBy(r))
      BY <1>0, <1>3 DEF RegionCounted
    <3>2. Cardinality(Made(r)) \in Nat /\ Cardinality(CountedBy(r)) \in Nat
      BY <2>4, FS_CardinalityType
    <3>. QED  BY <2>5, <2>6, <3>1, <3>2
  <2>10. \A q \in XRegions \ {r} : xclock'[q][q] = Cardinality(Made(q)') + Cardinality(CountedBy(q)')
    BY <1>0, <1>3, <1>12, <2>1 DEF RegionCounted
  <2>. QED  BY <2>8, <2>9, <2>10 DEF RegionCounted
<1>17. Resolved'
  BY <1>0, <1>3 DEF Resolved
<1>. QED  BY <1>8, <1>11, <1>13, <1>14, <1>15, <1>16, <1>17 DEF RegionInv

-----------------------------------------------------------------------------
(* LogAndSend and ResolveAndLog                                            *)

\* The steps that only log keep where callers are in their count.
LEMMA LogAndSendKeeps ==
    ASSUME RegionInv, NEW r \in XRegions, NEW t \in XTasks, LogAndSend(r, t)
    PROVE  RegionInv'
<1>0. RegionTyped /\ Placed /\ RegionNumbered /\ Merged /\ Sourced /\ RegionCounted /\ Resolved
  BY DEF RegionInv
<1>1. xtask[r][t].pc = "stamped" /\ xtask[r][t].op \in Op
  BY <1>0 DEF LogAndSend, RegionTyped
<1>. PICK op \in Op : op = xtask[r][t].op
  BY <1>1
<1>2. /\ xlog' = [xlog EXCEPT ![r] = @ \cup {op}]
      /\ xnet' = [p \in XRegions \X XRegions |->
                        IF p[1] = r /\ p[2] # r THEN Append(xnet[p], op) ELSE xnet[p]]
      /\ xtask' = [xtask EXCEPT ![r][t] = [pc |-> "idle", op |-> Nothing]]
      /\ UNCHANGED <<xclock, xconf, xin, xresolved, xknown, xdropped>>
  BY DEF LogAndSend
<1>3. Region(op) = r /\ op \in AllOps
  BY <1>0, <1>1, TaskOperation DEF Placed
<1>4. /\ xtask' \in [XRegions -> [XTasks -> Caller]]
      /\ \A q \in XRegions, u \in XTasks :
             xtask'[q][u] = IF q = r /\ u = t THEN [pc |-> "idle", op |-> Nothing] ELSE xtask[q][u]
  <2>1. [pc |-> "idle", op |-> Nothing] \in Caller
    BY DEF Caller
  <2>. QED  BY <1>0, <1>2, <2>1, TaskChanged DEF RegionTyped
<1>5. xlog' \in [XRegions -> SUBSET Op]
      /\ \A q \in XRegions : xlog'[q] = IF q = r THEN xlog[r] \cup {op} ELSE xlog[q]
  BY <1>0, <1>2 DEF RegionTyped
<1>6. \A q, s \in XRegions :
          /\ xnet[<<q, s>>] \in Seq(Op)
          /\ xnet'[<<q, s>>] = IF q = r /\ s # r THEN Append(xnet[<<q, s>>], op) ELSE xnet[<<q, s>>]
  BY <1>0, <1>2 DEF RegionTyped
<1>7. xnet' \in [XRegions \X XRegions -> Seq(Op)]
  <2>1. \A p \in XRegions \X XRegions : xnet[p] \in Seq(Op) /\ Append(xnet[p], op) \in Seq(Op)
    BY <1>0 DEF RegionTyped
  <2>. QED  BY <1>2, <2>1
<1>8. RegionTyped'
  <2>1. \A q \in XRegions, u \in XTasks : xtask'[q][u].pc = "stamped" => xtask'[q][u].op \in Op
    <3>. SUFFICES ASSUME NEW q \in XRegions, NEW u \in XTasks, xtask'[q][u].pc = "stamped"
                  PROVE  xtask'[q][u].op \in Op
      OBVIOUS
    <3>1. CASE q = r /\ u = t
      BY <1>4, <3>1
    <3>2. CASE ~(q = r /\ u = t)
      BY <1>0, <1>4, <3>2 DEF RegionTyped
    <3>. QED  BY <3>1, <3>2
  <2>2. xclock' = xclock /\ xin' = xin /\ xknown' = xknown
    BY <1>2
  <2>3. /\ xtask' \in [XRegions -> [XTasks -> Caller]] /\ xlog' \in [XRegions -> SUBSET Op]
        /\ xnet' \in [XRegions \X XRegions -> Seq(Op)]
    BY <1>4, <1>5, <1>7
  <2>. QED  BY <1>0, <2>1, <2>2, <2>3 DEF RegionTyped
<1>9. LogGrows
  BY <1>5 DEF LogGrows
<1>10. AllOps' \subseteq AllOps
  <2>1. ASSUME NEW o \in Op, NEW q \in XRegions, o \in xlog'[q] PROVE o \in AllOps
    BY <1>3, <1>5, <2>1 DEF AllOps
  <2>2. ASSUME NEW q \in XRegions, NEW u \in XTasks, xtask'[q][u].pc = "stamped"
        PROVE  xtask'[q][u].op \in AllOps
    <3>1. xtask'[q][u] = xtask[q][u]
      BY <1>4, <2>2
    <3>. QED  BY <1>0, <2>2, <3>1, TaskOperation
  <2>. QED  BY <2>1, <2>2 DEF AllOps
<1>11. Placed'
  <2>1. \A q \in XRegions, u \in XTasks : xtask'[q][u].pc = "stamped" => Region(xtask'[q][u].op) = q
    BY <1>0, <1>4 DEF Placed
  <2>2. ASSUME NEW q \in XRegions, NEW o \in xlog'[q] PROVE o \in xlog'[Region(o)]
    <3>1. CASE o \in xlog[q]
      <4>1. o \in xlog[Region(o)] /\ Region(o) \in XRegions
        BY <1>0, <3>1, LoggedOperation, OpFields DEF Placed, AllOps
      <4>. QED  BY <1>5, <4>1
    <3>2. CASE o = op
      BY <1>3, <1>5, <3>2
    <3>. QED  BY <1>5, <2>2, <3>1, <3>2
  <2>3. ASSUME NEW q \in XRegions, NEW s \in XRegions, NEW i \in 1..Len(xnet'[<<q, s>>])
        PROVE  q # s /\ Region(xnet'[<<q, s>>][i]) = q /\ xnet'[<<q, s>>][i] \in xlog'[q]
    <3>. DEFINE c == xnet[<<q, s>>]
    <3>1. CASE q = r /\ s # r
      <4>1. c \in Seq(Op) /\ xnet'[<<q, s>>] = Append(c, op)
        BY <1>6, <3>1
      <4>2. (i \in 1..Len(c) /\ xnet'[<<q, s>>][i] = c[i]) \/ xnet'[<<q, s>>][i] = op
        <5>. HIDE DEF c
        <5>. QED  BY <2>3, <4>1
      <4>3. i \in 1..Len(c) => q # s /\ Region(c[i]) = q /\ c[i] \in xlog[q]
        BY <1>0 DEF Placed
      <4>. HIDE DEF c
      <4>. QED  BY <1>3, <1>5, <3>1, <4>2, <4>3
    <3>2. CASE ~(q = r /\ s # r)
      <4>1. xnet'[<<q, s>>] = c
        BY <1>6, <3>2
      <4>2. q # s /\ Region(c[i]) = q /\ c[i] \in xlog[q]
        BY <1>0, <2>3, <4>1 DEF Placed
      <4>. QED  BY <1>5, <4>1, <4>2
    <3>. QED  BY <3>1, <3>2
  <2>4. ASSUME NEW q \in XRegions, xin'[q] # Nothing
        PROVE  Region(xin'[q]) # q /\ xin'[q] \in xlog'[Region(xin'[q])]
    <3>1. xin'[q] = xin[q] /\ xin[q] \in Op
      BY <1>0, <1>2, <2>4 DEF RegionTyped
    <3>2. Region(xin[q]) # q /\ xin[q] \in xlog[Region(xin[q])] /\ Region(xin[q]) \in XRegions
      BY <1>0, <2>4, <3>1, OpFields DEF Placed
    <3>. QED  BY <1>5, <3>1, <3>2
  <2>. QED  BY <2>1, <2>2, <2>3, <2>4 DEF Placed, Region
<1>12. (\A q \in XRegions : CountedBy(q)' = CountedBy(q)) /\ Started' = Started
  BY <1>1, <1>4 DEF CountedBy, Started
<1>13. RegionNumbered' /\ Merged' /\ Sourced' /\ RegionCounted'
  <2>1. UNCHANGED <<xclock, xknown>>
    BY <1>2
  <2>. QED  BY <1>0, <1>9, <1>10, <1>12, <2>1, KnowledgeKept
<1>14. Resolved'
  BY <1>0, <1>2 DEF Resolved
<1>. QED  BY <1>8, <1>11, <1>13, <1>14 DEF RegionInv

LEMMA ResolveKeeps ==
    ASSUME RegionInv, NEW r \in XRegions, ResolveAndLog(r)
    PROVE  RegionInv'
<1>0. RegionTyped /\ Placed /\ RegionNumbered /\ Merged /\ Sourced /\ RegionCounted /\ Resolved
  BY DEF RegionInv
<1>1. xin[r] \in Op /\ xin[r] # Nothing
  BY <1>0 DEF ResolveAndLog, RegionTyped
<1>. PICK op \in Op : op = xin[r]
  BY <1>1
<1>. PICK cs \in SUBSET Op : cs = Conflicts(r, op)
  BY <1>0 DEF Conflicts, RegionTyped
<1>2. /\ xin' = [xin EXCEPT ![r] = Nothing]
      /\ UNCHANGED <<xclock, xconf, xtask, xnet, xknown>>
      /\ \/ xlog' = xlog /\ xresolved' = xresolved
         \/ /\ cs = {} \/ xconf[r] # "absent"
            /\ \E w \in (IF cs = {} THEN {op} ELSE Winners(xconf[r], op, cs)) :
                  xresolved' = IF cs = {} THEN xresolved
                               ELSE xresolved \cup {[op |-> op, against |-> cs, won |-> w]}
            /\ xlog' = [xlog EXCEPT ![r] = @ \cup {op}]
  BY DEF ResolveAndLog
<1>3. op \in xlog[Region(op)] /\ Region(op) \in XRegions /\ op \in AllOps
  BY <1>0, <1>1, OpFields, LoggedOperation DEF Placed
<1>4. xlog' \in [XRegions -> SUBSET Op]
      /\ \A q \in XRegions : xlog[q] \subseteq xlog'[q] /\ xlog'[q] \subseteq xlog[q] \cup {op}
  <2>1. xlog \in [XRegions -> SUBSET Op]
    BY <1>0 DEF RegionTyped
  <2>2. xlog' = xlog \/ xlog' = [xlog EXCEPT ![r] = @ \cup {op}]
    BY <1>2
  <2>. QED  BY <2>1, <2>2
<1>5. xin' \in [XRegions -> Op \cup {Nothing}]
      /\ \A q \in XRegions : xin'[q] # Nothing => xin'[q] = xin[q]
  BY <1>0, <1>2 DEF RegionTyped
<1>6. RegionTyped'
  <2>1. xclock' = xclock /\ xtask' = xtask /\ xnet' = xnet /\ xknown' = xknown
    BY <1>2
  <2>. QED  BY <1>0, <1>4, <1>5, <2>1 DEF RegionTyped
<1>7. LogGrows
  BY <1>4 DEF LogGrows
<1>8. AllOps' \subseteq AllOps
  BY <1>2, <1>3, <1>4 DEF AllOps
<1>9. Placed'
  <2>1. xtask' = xtask /\ xnet' = xnet
    BY <1>2
  <2>2. ASSUME NEW q \in XRegions, NEW o \in xlog'[q] PROVE o \in xlog'[Region(o)]
    <3>1. CASE o \in xlog[q]
      <4>1. o \in xlog[Region(o)] /\ Region(o) \in XRegions
        BY <1>0, <3>1, LoggedOperation, OpFields DEF Placed, AllOps
      <4>. QED  BY <1>4, <4>1
    <3>2. CASE o = op
      BY <1>3, <1>4, <3>2
    <3>. QED  BY <1>4, <2>2, <3>1, <3>2
  <2>3. ASSUME NEW q \in XRegions, xin'[q] # Nothing
        PROVE  Region(xin'[q]) # q /\ xin'[q] \in xlog'[Region(xin'[q])]
    <3>1. xin'[q] = xin[q] /\ xin[q] \in Op
      BY <1>0, <1>5, <2>3 DEF RegionTyped
    <3>2. Region(xin[q]) # q /\ xin[q] \in xlog[Region(xin[q])] /\ Region(xin[q]) \in XRegions
      BY <1>0, <2>3, <3>1, OpFields DEF Placed
    <3>. QED  BY <1>4, <3>1, <3>2
  <2>4. \A q, s \in XRegions : \A i \in 1..Len(xnet[<<q, s>>]) :
           q # s /\ Region(xnet[<<q, s>>][i]) = q /\ xnet[<<q, s>>][i] \in xlog'[q]
    BY <1>0, <1>4 DEF Placed
  <2>5. \A q \in XRegions, u \in XTasks : xtask[q][u].pc = "stamped" => Region(xtask[q][u].op) = q
    BY <1>0 DEF Placed
  <2>. QED  BY <2>1, <2>2, <2>3, <2>4, <2>5 DEF Placed, Region
<1>10. RegionNumbered' /\ Merged' /\ Sourced' /\ RegionCounted'
  <2>1. UNCHANGED <<xclock, xknown>>
    BY <1>2
  <2>2. (\A q \in XRegions : CountedBy(q)' = CountedBy(q)) /\ Started' = Started
    BY <1>2 DEF CountedBy, Started
  <2>. QED  BY <1>0, <1>7, <1>8, <2>1, <2>2, KnowledgeKept
<1>11. Resolved'
  <2>. PICK s \in Strategies :
        /\ xconf = [q \in XRegions |-> s]
        /\ \A e \in xresolved :
              e.op \in Op /\ e.against \subseteq Op /\ e.won \in Winners(s, e.op, e.against)
    BY <1>0 DEF Resolved
  <2>1. xconf' = xconf /\ xconf[r] = s
    BY <1>2
  <2>2. xresolved' = xresolved \/ \E w \in Winners(s, op, cs) :
            xresolved' = xresolved \cup {[op |-> op, against |-> cs, won |-> w]}
    BY <1>2, <2>1
  <2>3. \A e \in xresolved' :
              e.op \in Op /\ e.against \subseteq Op /\ e.won \in Winners(s, e.op, e.against)
    BY <2>2
  <2>. QED  BY <2>1, <2>3 DEF Resolved, Winners
<1>. QED  BY <1>6, <1>9, <1>10, <1>11 DEF RegionInv

-----------------------------------------------------------------------------
(* handle_replicated_operation                                             *)

LEMMA HandleKeeps ==
    ASSUME RegionInv, NEW q \in XRegions, NEW r \in XRegions, handle_replicated_operation(q, r)
    PROVE  RegionInv'
<1>0. RegionTyped /\ Placed /\ RegionNumbered /\ Merged /\ Sourced /\ RegionCounted /\ Resolved
  BY DEF RegionInv
<1>. DEFINE c == xnet[<<q, r>>]
<1>1. /\ c # <<>> /\ xin[r] = Nothing /\ c \in Seq(Op)
      /\ xclock' = [xclock EXCEPT ![r] = update(@, Head(c).clock)]
      /\ xin' = [xin EXCEPT ![r] = Head(c)]
      /\ xknown' = [xknown EXCEPT ![r] = @ \cup {Head(c).id} \cup Head(c).saw]
      /\ xnet' = [xnet EXCEPT ![<<q, r>>] = Tail(c)]
      /\ UNCHANGED <<xlog, xconf, xtask, xresolved, xdropped>>
  BY <1>0 DEF handle_replicated_operation, RegionTyped
<1>2. /\ Head(c) \in Op /\ Head(c) = c[1] /\ 1 \in 1..Len(c) /\ Tail(c) \in Seq(Op)
      /\ \A i \in 1..Len(Tail(c)) : i + 1 \in 1..Len(c) /\ Tail(c)[i] = c[i + 1]
  <2>. HIDE DEF c
  <2>. QED  BY <1>1
<1>3. q # r /\ Region(Head(c)) = q /\ Head(c) \in xlog[q]
  BY <1>0, <1>2 DEF Placed
<1>. PICK op \in Op : op = Head(c)
  BY <1>2
<1>. HIDE DEF c
<1>4. /\ op \in AllOps /\ op.clock \in [XRegions -> Nat] /\ op.id \in Ids /\ op.saw \subseteq Ids
      /\ xclock[r] \in [XRegions -> Nat] /\ Region(op) = op.id[1]
  BY <1>0, <1>3, LoggedOperation, OpFields DEF RegionTyped
<1>. DEFINE u == update(xclock[r], op.clock)
<1>5. /\ u \in [XRegions -> Nat] /\ Below(xclock[r], u) /\ Below(op.clock, u)
      /\ \A s \in XRegions : u[s] = xclock[r][s] \/ u[s] = op.clock[s]
  BY <1>4, UpdateFacts
<1>6. /\ xclock' \in [XRegions -> [XRegions -> Nat]]
      /\ \A p \in XRegions : xclock'[p] = IF p = r THEN u ELSE xclock[p]
  <2>1. xclock' = [xclock EXCEPT ![r] = u]
    BY <1>1
  <2>. HIDE DEF u
  <2>. QED  BY <1>0, <1>5, <2>1 DEF RegionTyped
<1>. HIDE DEF u
<1>7. /\ xknown' \in [XRegions -> SUBSET Ids]
      /\ \A p \in XRegions : xknown'[p] = IF p = r THEN xknown[r] \cup {op.id} \cup op.saw ELSE xknown[p]
  BY <1>0, <1>1, <1>4 DEF RegionTyped
<1>8. /\ xin' \in [XRegions -> Op \cup {Nothing}]
      /\ \A p \in XRegions : xin'[p] = IF p = r THEN op ELSE xin[p]
  BY <1>0, <1>1 DEF RegionTyped
<1>9. /\ xnet' \in [XRegions \X XRegions -> Seq(Op)]
      /\ \A p, s \in XRegions :
            xnet'[<<p, s>>] = IF p = q /\ s = r THEN Tail(c) ELSE xnet[<<p, s>>]
  BY <1>0, <1>1, <1>2 DEF RegionTyped
<1>10. xlog' = xlog /\ xtask' = xtask
  BY <1>1
<1>11. RegionTyped'
  BY <1>0, <1>6, <1>7, <1>8, <1>9, <1>10 DEF RegionTyped
<1>12. AllOps' = AllOps
  BY <1>10 DEF AllOps
<1>13. Placed'
  <2>1. ASSUME NEW p \in XRegions, NEW s \in XRegions, NEW i \in 1..Len(xnet'[<<p, s>>])
        PROVE  p # s /\ Region(xnet'[<<p, s>>][i]) = p /\ xnet'[<<p, s>>][i] \in xlog[p]
    <3>1. CASE p = q /\ s = r
      <4>1. i + 1 \in 1..Len(c) /\ xnet'[<<p, s>>][i] = c[i + 1]
        BY <1>2, <1>9, <2>1, <3>1
      <4>2. Region(c[i + 1]) = q /\ c[i + 1] \in xlog[q]
        BY <1>0, <4>1 DEF Placed, c
      <4>. QED  BY <1>3, <3>1, <4>1, <4>2
    <3>2. CASE ~(p = q /\ s = r)
      <4>1. xnet'[<<p, s>>] = xnet[<<p, s>>]
        BY <1>9, <3>2
      <4>. QED  BY <1>0, <2>1, <4>1 DEF Placed
    <3>. QED  BY <3>1, <3>2
  <2>2. ASSUME NEW p \in XRegions, xin'[p] # Nothing
        PROVE  Region(xin'[p]) # p /\ xin'[p] \in xlog[Region(xin'[p])]
    <3>1. CASE p = r
      BY <1>3, <1>8, <3>1
    <3>2. CASE p # r
      BY <1>0, <1>8, <2>2, <3>2 DEF Placed
    <3>. QED  BY <3>1, <3>2
  <2>3. /\ \A p \in XRegions, t \in XTasks : xtask[p][t].pc = "stamped" => Region(xtask[p][t].op) = p
        /\ \A p \in XRegions : \A o \in xlog[p] : o \in xlog[Region(o)]
    BY <1>0 DEF Placed
  <2>. QED  BY <1>10, <2>1, <2>2, <2>3 DEF Placed, Region
<1>14. \A x \in xknown'[r] : x \in xknown[x[1]] /\ x[1] \in XRegions
  <2>1. op.id \in xknown[op.id[1]] /\ \A x \in op.saw : x \in xknown[x[1]]
    BY <1>0, <1>4 DEF RegionNumbered
  <2>2. \A x \in xknown[r] : x \in xknown[x[1]]
    BY <1>0 DEF RegionNumbered
  <2>3. \A x \in xknown'[r] : x[1] \in XRegions
    BY <1>7 DEF Ids
  <2>. QED  BY <1>7, <2>1, <2>2, <2>3
<1>15. \A p \in XRegions : Made(p)' = Made(p)
  <2>1. xknown[r] \subseteq xknown'[r]
    BY <1>7
  <2>2. \A x \in xknown'[r] : x[1] = r => x \in xknown[r]
    BY <1>14
  <2>. QED  BY <1>7, <2>1, <2>2 DEF Made
<1>16. \A p \in XRegions : xknown[p] \subseteq xknown'[p]
  BY <1>7
<1>17. RegionNumbered'
  <2>1. \A p \in XRegions : \E k \in Nat : Made(p)' = {p} \X (1..k)
    BY <1>0, <1>15 DEF RegionNumbered
  <2>2. ASSUME NEW p \in XRegions, NEW x \in xknown'[p] PROVE x \in xknown'[x[1]]
    <3>1. x \in xknown[x[1]] /\ x[1] \in XRegions
      <4>1. CASE p = r
        BY <1>14, <2>2, <4>1
      <4>2. CASE p # r
        <5>1. x \in xknown[p]
          BY <1>7, <2>2, <4>2
        <5>2. x \in Ids
          BY <1>0, <5>1 DEF RegionTyped
        <5>3. x[1] \in XRegions
          BY <5>2 DEF Ids
        <5>. QED  BY <1>0, <5>1, <5>3 DEF RegionNumbered
      <4>. QED  BY <4>1, <4>2
    <3>. QED  BY <1>16, <3>1
  <2>3. ASSUME NEW o \in AllOps
        PROVE  o.id \in xknown'[Region(o)] /\ \A x \in o.saw : x \in xknown'[x[1]]
    <3>1. o \in Op /\ Region(o) \in XRegions /\ \A x \in o.saw : x[1] \in XRegions
      BY OpFields DEF AllOps, Ids
    <3>2. o.id \in xknown[Region(o)] /\ \A x \in o.saw : x \in xknown[x[1]]
      BY <1>0 DEF RegionNumbered
    <3>. QED  BY <1>16, <3>1, <3>2
  <2>4. \A o, p \in AllOps : o.id = p.id => o = p
    BY <1>0 DEF RegionNumbered
  <2>. QED  BY <1>12, <2>1, <2>2, <2>3, <2>4 DEF RegionNumbered, Region
<1>18. Merged'
  <2>1. ASSUME NEW s \in XRegions, NEW p \in AllOps, p.id \in xknown'[s]
        PROVE  Below(p.clock, xclock'[s])
    <3>1. p.clock \in [XRegions -> Nat]
      BY OpFields DEF AllOps
    <3>2. CASE p.id \in xknown[s]
      <4>1. Below(p.clock, xclock[s]) /\ xclock[s] \in [XRegions -> Nat]
        BY <1>0, <3>2 DEF Merged, RegionTyped
      <4>2. CASE s = r
        BY <1>5, <1>6, <3>1, <4>1, <4>2, BelowTransitive
      <4>3. CASE s # r
        BY <1>6, <4>1, <4>3
      <4>. QED  BY <4>2, <4>3
    <3>3. CASE s = r /\ p.id = op.id
      <4>1. p = op
        BY <1>0, <1>4, <3>3 DEF RegionNumbered
      <4>. QED  BY <1>5, <1>6, <3>3, <4>1
    <3>4. CASE s = r /\ p.id \in op.saw
      <4>1. Below(p.clock, op.clock)
        BY <1>0, <1>4, <3>4 DEF Merged
      <4>. QED  BY <1>4, <1>5, <1>6, <3>1, <3>4, <4>1, BelowTransitive, SMTT(40)
    <3>. QED  BY <1>7, <2>1, <3>2, <3>3, <3>4
  <2>2. \A o, p \in AllOps : p.id \in o.saw => Below(p.clock, o.clock)
    BY <1>0 DEF Merged
  <2>. QED  BY <1>12, <2>1, <2>2 DEF Merged, Below
<1>19. Sourced'
  <2>1. ASSUME NEW p \in XRegions, NEW s \in XRegions, p # s
        PROVE  xclock'[p][s] = 0 \/ Source(xclock'[p][s], s, xknown'[p])
    <3>1. CASE xclock'[p][s] = xclock[p][s]
      BY <1>0, <1>16, <2>1, <3>1 DEF Sourced, Source
    <3>2. CASE p = r /\ xclock'[p][s] = op.clock[s]
      <4>1. CASE s = q
        <5>1. op.id \in xknown'[r]
          BY <1>7
        <5>. QED  BY <1>3, <3>2, <4>1, <5>1 DEF Source
      <4>2. CASE s # q
        <5>1. op.clock[s] = 0 \/ Source(op.clock[s], s, op.saw)
          BY <1>0, <1>3, <1>4, <4>2 DEF Sourced
        <5>2. op.saw \subseteq xknown'[r]
          BY <1>7
        <5>. QED  BY <3>2, <5>1, <5>2 DEF Source
      <4>. QED  BY <4>1, <4>2
    <3>. QED  BY <1>5, <1>6, <3>1, <3>2
  <2>2. \A p, s \in XRegions : p # s => xclock'[p][s] = 0 \/ Source(xclock[p][s], s, xknown[p])'
    BY <1>10, <2>1 DEF Source, Region
  <2>3. \A o \in AllOps, s \in XRegions :
            Region(o) # s => o.clock[s] = 0 \/ Source(o.clock[s], s, o.saw)'
    BY <1>0, <1>10 DEF Sourced, Source, Region
  <2>4. \A o \in AllOps : o.clock[Region(o)] >= 1
    BY <1>0 DEF Sourced
  <2>. QED  BY <1>12, <2>2, <2>3, <2>4 DEF Sourced, Region
<1>20. RegionCounted'
  <2>1. xclock'[r][r] = xclock[r][r]
    <3>1. op.clock[r] <= xclock[r][r]
      BY <1>0, <1>4, OwnCountLargest
    <3>2. /\ xclock[r][r] \in Nat /\ op.clock[r] \in Nat /\ u[r] \in Nat
          /\ xclock[r][r] <= u[r] /\ (u[r] = xclock[r][r] \/ u[r] = op.clock[r])
      BY <1>4, <1>5 DEF Below
    <3>3. u[r] = xclock[r][r]
      BY <3>1, <3>2
    <3>. QED  BY <1>6, <3>3
  <2>2. \A p \in XRegions : xclock'[p][p] = xclock[p][p]
    BY <1>6, <2>1
  <2>3. (\A p \in XRegions : CountedBy(p)' = CountedBy(p)) /\ Started' = Started
    BY <1>10 DEF CountedBy, Started
  <2>4. OpsSoFar' = OpsSoFar
    BY <1>15, <2>3 DEF OpsSoFar
  <2>. QED  BY <1>0, <1>15, <2>2, <2>3, <2>4 DEF RegionCounted
<1>21. Resolved'
  BY <1>0, <1>1 DEF Resolved
<1>. QED  BY <1>11, <1>13, <1>17, <1>18, <1>19, <1>20, <1>21 DEF RegionInv

-----------------------------------------------------------------------------
(* What the invariant says of the conflicts                                *)

LEMMA RegionInitial ==
    ASSUME RegionInit
    PROVE  RegionInv
<1>1. RegionTyped
  <2>1. /\ [r \in XRegions |-> [s \in XRegions |-> 0]] \in [XRegions -> [XRegions -> Nat]]
        /\ [pc |-> "idle", op |-> Nothing] \in Caller
        /\ <<>> \in Seq(Op)
    BY DEF Caller
  <2>. DEFINE idle == [pc |-> "idle", op |-> Nothing]
  <2>2. xtask = [r \in XRegions |-> [t \in XTasks |-> idle]] /\ idle.pc = "idle"
    BY DEF RegionInit
  <2>3. idle \in Caller
    BY <2>1
  <2>. HIDE DEF idle
  <2>4. xtask \in [XRegions -> [XTasks -> Caller]]
        /\ \A r \in XRegions, t \in XTasks : xtask[r][t].pc = "idle"
    BY <2>2, <2>3
  <2>. QED  BY <2>1, <2>4 DEF RegionInit, RegionTyped
<1>2. /\ \A r \in XRegions, t \in XTasks : xtask[r][t].pc = "idle"
      /\ \A r \in XRegions : xlog[r] = {} /\ xknown[r] = {} /\ xin[r] = Nothing
      /\ \A r, s \in XRegions : xclock[r][s] = 0 /\ xnet[<<r, s>>] = <<>>
  BY DEF RegionInit
<1>3. AllOps = {}
  BY <1>2 DEF AllOps
<1>4. Placed
  BY <1>2 DEF Placed
<1>5. \A r \in XRegions : Made(r) = {}
  BY <1>2 DEF Made
<1>6. RegionNumbered
  <2>1. \A r \in XRegions : Made(r) = {r} \X (1..0)
    BY <1>5
  <2>2. 0 \in Nat
    OBVIOUS
  <2>3. \A r \in XRegions : \E k \in Nat : Made(r) = {r} \X (1..k)
    BY <2>1, <2>2
  <2>. QED  BY <1>2, <1>3, <2>3 DEF RegionNumbered
<1>7. Merged /\ Sourced
  BY <1>2, <1>3 DEF Merged, Sourced
<1>8. RegionCounted
  <2>1. (\A r \in XRegions : CountedBy(r) = {}) /\ Started = {}
    BY <1>2 DEF CountedBy, Started
  <2>2. Cardinality({}) = 0
    BY FS_EmptySet
  <2>3. UNION {Made(r) : r \in XRegions} = {}
    BY <1>5
  <2>4. OpsSoFar = 0 + 0
    BY <2>1, <2>2, <2>3 DEF OpsSoFar
  <2>5. ASSUME NEW r \in XRegions
        PROVE  xclock[r][r] = Cardinality(Made(r)) + Cardinality(CountedBy(r))
    <3>1. Made(r) = {} /\ CountedBy(r) = {} /\ xclock[r][r] = 0
      BY <1>2, <1>5, <2>1
    <3>. QED  BY <2>2, <3>1
  <2>. QED  BY <2>4, <2>5, CrossRegionAssumption DEF RegionCounted
<1>9. Resolved
  BY DEF RegionInit, Resolved
<1>. QED  BY <1>1, <1>4, <1>6, <1>7, <1>8, <1>9 DEF RegionInv

LEMMA RegionKept ==
    ASSUME RegionInv, [RegionNext]_RegionVars
    PROVE  RegionInv'
<1>1. CASE UNCHANGED RegionVars
  <2>1. AllOps' = AllOps /\ LogGrows
    BY <1>1 DEF RegionVars, AllOps, LogGrows
  <2>2. (\A r \in XRegions : CountedBy(r)' = CountedBy(r)) /\ Started' = Started
    BY <1>1 DEF RegionVars, CountedBy, Started
  <2>3. RegionNumbered' /\ Merged' /\ Sourced' /\ RegionCounted'
    BY <1>1, <2>1, <2>2, KnowledgeKept DEF RegionInv, RegionVars
  <2>4. RegionTyped'
    BY <1>1 DEF RegionInv, RegionVars, RegionTyped
  <2>5. Placed'
    BY <1>1 DEF RegionInv, RegionVars, Placed, Region
  <2>6. Resolved'
    BY <1>1 DEF RegionInv, RegionVars, Resolved, Winners
  <2>. QED  BY <2>3, <2>4, <2>5, <2>6 DEF RegionInv
<1>2. CASE RegionNext
  BY <1>2, ReplicateKeeps, StampKeeps, LogAndSendKeeps, HandleKeeps, ResolveKeeps DEF RegionNext
<1>. QED  BY <1>1, <1>2

\* Two operations that do not know of each other are ordered neither way.
LEMMA Unordered ==
    ASSUME NEW c \in [XRegions -> Nat], NEW d \in [XRegions -> Nat],
           \E s \in XRegions : c[s] > d[s], \E s \in XRegions : c[s] < d[s]
    PROVE  compare(c, d) = "Concurrent"
BY DEF compare

LEMMA RegionsHold ==
    ASSUME RegionInv
    PROVE  RegionsSafe
<1>0. RegionTyped /\ Placed /\ RegionNumbered /\ Merged /\ Sourced /\ RegionCounted /\ Resolved
  BY DEF RegionInv
<1>1. \A o \in Logged : o \in AllOps /\ o \in Op
  BY <1>0 DEF Logged, RegionTyped, AllOps
<1>2. RegionTypeOK
  <2>1. \A r, q \in XRegions : xclock[r][q] \in 0..XMaxOps
    BY <1>0, ClocksBounded
  <2>2. \A o \in Logged : Region(o) \in XRegions /\ o.ts \in XStamps
    BY <1>1, OpFields
  <2>3. \A r \in XRegions : xin[r] = Nothing \/ Region(xin[r]) # r
    BY <1>0 DEF Placed
  <2>. QED  BY <2>1, <2>2, <2>3 DEF RegionTypeOK
<1>3. NoFalseConflict
  <2>. SUFFICES ASSUME NEW o \in Logged, NEW p \in Logged, p.id \in o.saw
                PROVE  compare(o.clock, p.clock) \in {"Greater", "Equal"}
    BY DEF NoFalseConflict
  <2>1. Below(p.clock, o.clock)
    BY <1>0, <1>1 DEF Merged
  <2>2. \A q \in XRegions : p.clock[q] \in Nat /\ o.clock[q] \in Nat
    BY <1>1, OpFields
  <2>3. ~ \E q \in XRegions : o.clock[q] < p.clock[q]
    BY <2>1, <2>2 DEF Below
  <2>. QED  BY <2>3 DEF compare
<1>4. ASSUME NEW o \in Logged, NEW p \in Logged, Region(o) # Region(p),
             \A a \in Logged : a.id \in o.saw /\ Region(a) = Region(p) =>
                 a.clock[Region(p)] < p.clock[Region(p)]
      PROVE  o.clock[Region(p)] < p.clock[Region(p)]
  <2>. DEFINE s == Region(p)
  <2>1. s \in XRegions /\ p.clock[s] >= 1 /\ p.clock[s] \in Nat
    BY <1>0, <1>1, OpFields DEF Sourced
  <2>2. o.clock[s] = 0 \/ Source(o.clock[s], s, o.saw)
    BY <1>0, <1>1, <1>4, <2>1 DEF Sourced
  <2>3. Source(o.clock[s], s, o.saw) => o.clock[s] < p.clock[s]
    <3>. SUFFICES ASSUME NEW a \in xlog[s], Region(a) = s, a.id \in o.saw, a.clock[s] = o.clock[s]
                  PROVE  o.clock[s] < p.clock[s]
      BY DEF Source
    <3>1. a \in Logged
      BY <2>1 DEF Logged
    <3>. QED  BY <1>4, <3>1
  <2>. QED  BY <2>1, <2>2, <2>3
<1>5. ConcurrentFound
  <2>. SUFFICES ASSUME NEW o \in Logged, NEW p \in Logged, Region(o) # Region(p),
                       \A a \in Logged : a.id \in o.saw /\ Region(a) = Region(p) =>
                           a.clock[Region(p)] < p.clock[Region(p)],
                       \A a \in Logged : a.id \in p.saw /\ Region(a) = Region(o) =>
                           a.clock[Region(o)] < o.clock[Region(o)]
                PROVE  compare(o.clock, p.clock) = "Concurrent"
    BY DEF ConcurrentFound
  <2>1. o.clock[Region(p)] < p.clock[Region(p)] /\ p.clock[Region(o)] < o.clock[Region(o)]
    BY <1>4
  <2>2. /\ Region(o) \in XRegions /\ Region(p) \in XRegions
        /\ o.clock \in [XRegions -> Nat] /\ p.clock \in [XRegions -> Nat]
    BY <1>1, OpFields
  <2>3. p.clock[Region(o)] \in Nat /\ o.clock[Region(o)] \in Nat
    BY <2>2
  <2>4. o.clock[Region(o)] > p.clock[Region(o)]
    BY <2>1, <2>3
  <2>. QED  BY <2>1, <2>2, <2>4, Unordered
<1>6. SameWinner
  <2>. SUFFICES ASSUME NEW a \in xresolved, NEW b \in xresolved,
                       a.against = {b.op}, b.against = {a.op}, a.op.ts # b.op.ts
                PROVE  a.won = b.won
    BY DEF SameWinner
  <2>. PICK s \in Strategies :
        \A e \in xresolved : e.op \in Op /\ e.won \in Winners(s, e.op, e.against)
    BY <1>0 DEF Resolved
  <2>1. a.op.ts \in Nat /\ b.op.ts \in Nat
    BY OpFields
  <2>2. a.won \in Winners(s, a.op, {b.op}) /\ b.won \in Winners(s, b.op, {a.op})
    OBVIOUS
  <2>3. CASE s = "LastWriterWins"
    BY <2>1, <2>2, <2>3 DEF Winners
  <2>4. CASE s # "LastWriterWins"
    BY <2>1, <2>2, <2>4 DEF Winners
  <2>. QED  BY <2>3, <2>4
<1>. QED  BY <1>2, <1>3, <1>5, <1>6 DEF RegionsSafe

\* Whatever callers and regions interleave, an operation that a clock had merged
\* is never taken for concurrent, operations that do not know of each other are
\* found concurrent, and two regions that resolve the same conflict apply the
\* same operation (cross_region.rs:66-106, 236-429).
THEOREM ConflictsFound == RegionSpec => []RegionsSafe
<1>1. RegionInit => RegionInv
  BY RegionInitial
<1>2. RegionInv /\ [RegionNext]_RegionVars => RegionInv'
  BY RegionKept
<1>3. RegionInv => RegionsSafe
  BY RegionsHold
<1>. QED  BY <1>1, <1>2, <1>3, PTL DEF RegionSpec

=============================================================================
