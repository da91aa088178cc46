------------------------- MODULE StorageEngineProofs -------------------------
(***************************************************************************)
(* The storage engine, for any number of threads, ids, records, flushes,   *)
(* compactions and crashes.                                                *)
(*                                                                         *)
(* A memtable that was rotated out is never written again.  The memtables  *)
(* of a process are numbered in the order they become active, so the       *)
(* active one has the highest number (Numbered).  What is queued, in the   *)
(* flush task or held by a thread on its way to the queue was active       *)
(* before the latest swap and has a lower number (Behind); for a thread    *)
(* about to swap the memtable it found full may still be active, but not   *)
(* be numbered higher (Checked).                                           *)
(*                                                                         *)
(* Whoever writes, memtables and tables hold only vectors that were        *)
(* logged, and recovery gives every id its last record or stops at a put   *)
(* after a delete (EngineInv, Replays).  If every id has one writer, the   *)
(* first memtable has what was applied so far (Current), and reads answer  *)
(* what the log says.  If one thread writes, a process rotates once and    *)
(* loses no memtable (RotatesOnce), the tables of level 0 are in the order *)
(* of their vectors, and a merged table lies behind the tables it was made *)
(* from (InOrder): what is read first was written last.                    *)
(***************************************************************************)
EXTENDS StorageEngine, SequenceTheorems, FiniteSetTheorems, WellFoundedInduction, TLAPS

Typed ==
    /\ \E S : heap \in Seq(S)
    /\ immutable \in Seq(Nat) /\ task \in Seq(Nat)
    /\ pc \in [Threads -> Steps] /\ local \in [Threads -> Nat]

Numbered == memtable = Len(heap) /\ memtable \in Nat \ {0}

Behind == \A m \in Retired : m \in Nat /\ 0 < m /\ m < memtable

Checked == \A t \in Threads : pc[t] = "swap" => 0 < local[t] /\ local[t] <= memtable

\* Nothing is rotated while no process has the engine open.
Asleep ==
    up # "open" => /\ memtable = 1 /\ immutable = <<>> /\ task = <<>>
                   /\ \A t \in Threads : pc[t] = "idle"

RotationInv == Typed /\ Numbered /\ Behind /\ Checked /\ Asleep

-----------------------------------------------------------------------------

LEMMA RotationInit == Init => RotationInv
<1>. SUFFICES ASSUME Init PROVE RotationInv
  OBVIOUS
<1>1. heap \in Seq({EmptyMem}) /\ Len(heap) = 1
  BY DEF Init
<1>2. immutable \in Seq(Nat) /\ task \in Seq(Nat)
  BY DEF Init
<1>3. pc \in [Threads -> Steps] /\ local \in [Threads -> Nat]
  BY DEF Init, Steps
<1>4. Typed
  BY <1>1, <1>2, <1>3 DEF Typed
<1>5. ToSet(immutable) = {} /\ ToSet(task) = {}
  BY DEF Init, ToSet
<1>6. Retired = {}
  BY <1>5 DEF Init, Retired
<1>. QED  BY <1>1, <1>4, <1>6 DEF Init, RotationInv, Numbered, Behind, Checked, Asleep

\* The elements of a longer or a shorter queue.
LEMMA QueueElements ==
    ASSUME NEW s \in Seq(Nat), NEW x \in Nat
    PROVE  /\ Append(s, x) \in Seq(Nat) /\ ToSet(Append(s, x)) \subseteq ToSet(s) \cup {x}
           /\ s # <<>> => Tail(s) \in Seq(Nat) /\ ToSet(Tail(s)) \subseteq ToSet(s)
           /\ ToSet(<<>>) = {}
<1>1. Append(s, x) \in Seq(Nat) /\ ToSet(Append(s, x)) \subseteq ToSet(s) \cup {x}
  BY AppendProperties, LenProperties DEF ToSet
<1>2. ASSUME s # <<>> PROVE Tail(s) \in Seq(Nat) /\ ToSet(Tail(s)) \subseteq ToSet(s)
  <2>1. /\ Tail(s) \in Seq(Nat) /\ Len(Tail(s)) = Len(s) - 1
        /\ \A i \in 1..Len(Tail(s)) : Tail(s)[i] = s[i + 1]
    BY <1>2, HeadTailProperties
  <2>2. /\ Len(s) \in Nat /\ Len(Tail(s)) \in Nat
        /\ DOMAIN s = 1..Len(s) /\ DOMAIN Tail(s) = 1..Len(Tail(s))
    BY <2>1, LenProperties
  <2>3. \A i \in 1..Len(Tail(s)) : i + 1 \in 1..Len(s)
    BY <2>1, <2>2
  <2>. QED  BY <2>1, <2>2, <2>3 DEF ToSet
<1>3. ToSet(<<>>) = {}
  BY DEF ToSet
<1>. QED  BY <1>1, <1>2, <1>3

\* A new memtable is added at the end, and the ones before it stay.
LEMMA HeapAppend ==
    ASSUME NEW S, NEW h \in Seq(S), NEW e
    PROVE  /\ \E T : Append(h, e) \in Seq(T)
           /\ Len(Append(h, e)) = Len(h) + 1 /\ Len(h) \in Nat
           /\ \A m \in 1..Len(h) : Append(h, e)[m] = h[m]
<1>1. h \in Seq(S \cup {e}) /\ e \in S \cup {e}
  OBVIOUS
<1>. QED  BY <1>1, AppendProperties, LenProperties

\* What a step leaves alone cannot disturb the numbering.
LEMMA RotationUnchanged ==
    ASSUME RotationInv,
           UNCHANGED <<up, heap, memtable, immutable, task, local>>,
           pc' \in [Threads -> Steps], up = "open",
           \A t \in Threads : pc'[t] \in {"swap", "push"} => pc'[t] = pc[t]
    PROVE  RotationInv'
<1>1. Retired' \subseteq Retired
  BY DEF Retired
<1>2. Typed'
  BY DEF RotationInv, Typed
<1>3. Behind'
  BY <1>1 DEF RotationInv, Behind
<1>4. Checked'
  BY DEF RotationInv, Checked
<1>. QED  BY <1>2, <1>3, <1>4 DEF RotationInv, Numbered, Asleep

\* Moving one thread to a step.
LEMMA GotoStep ==
    ASSUME NEW t \in Threads, NEW l \in Steps, pc \in [Threads -> Steps], Goto(t, l)
    PROVE  /\ pc' \in [Threads -> Steps] /\ pc'[t] = l
           /\ \A u \in Threads : u # t => pc'[u] = pc[u]
BY DEF Goto

\* Every step keeps the numbering, and leaves the retired memtables alone.
LEMMA RotationNext ==
    ASSUME RotationInv, [Next]_vars
    PROVE  /\ RotationInv'
           /\ up = "open" /\ up' = "open" => \A m \in Retired : heap'[m] = heap[m]
<1>. DEFINE Goal == /\ RotationInv'
                    /\ up = "open" /\ up' = "open" => \A m \in Retired : heap'[m] = heap[m]
<1>. SUFFICES Goal
  OBVIOUS
<1>0. pc \in [Threads -> Steps] /\ local \in [Threads -> Nat]
      /\ immutable \in Seq(Nat) /\ task \in Seq(Nat)
  BY DEF RotationInv, Typed
<1>00. \A l \in {"idle", "apply", "check", "swap", "push", "trigger", "flush_trigger", "reload", "install"} :
          l \in Steps
  BY DEF Steps
<1>1. CASE Open
  <2>0. PICK lost \in Losses :
          IF Recovered(lost).ok
          THEN up' = "open" /\ heap' = <<Recovered(lost).mem>>
          ELSE up' = "failed" /\ UNCHANGED heap
    <3>1. \E lost \in Losses :
            IF Recovered(lost).ok
            THEN up' = "open" /\ heap' = <<Recovered(lost).mem>>
            ELSE up' = "failed" /\ UNCHANGED heap
      BY <1>1 DEF Open
    <3>. QED  BY <3>1
  <2>. HIDE DEF Goal
  <2>00. UNCHANGED <<memtable, immutable, task, pc, local>> /\ up # "open"
    BY <1>1 DEF Open
  <2>1. CASE Recovered(lost).ok
    <3>1. PICK m : m = Recovered(lost).mem
      OBVIOUS
    <3>22. up' = "open" /\ heap' = <<m>>
      BY <2>0, <2>1, <3>1
    <3>2. up' = "open" /\ heap' = <<m>> /\ heap' \in Seq({m}) /\ Len(heap') = 1
      BY <3>22
    <3>4. memtable = 1 /\ immutable = <<>> /\ task = <<>>
          /\ \A t \in Threads : pc[t] = "idle"
      BY <2>00 DEF RotationInv, Asleep
    <3>5. Retired' = Retired
      BY <2>00 DEF Retired
    <3>6. Typed'
      BY <1>0, <3>2, <2>00 DEF Typed
    <3>7. Numbered'
      BY <3>2, <2>00, <3>4 DEF Numbered
    <3>8. Behind' /\ Checked' /\ Asleep'
      BY <2>00, <3>2, <3>5 DEF RotationInv, Behind, Checked, Asleep
    <3>. QED  BY <2>00, <3>6, <3>7, <3>8 DEF RotationInv, Goal
  <2>2. CASE ~Recovered(lost).ok
    <3>1. UNCHANGED heap /\ up' # "open"
      BY <2>0, <2>2
    <3>2. Retired' = Retired
      BY <2>00 DEF Retired
    <3>. QED  BY <2>00, <3>1, <3>2 DEF RotationInv, Typed, Numbered, Behind, Checked, Asleep, Goal
  <2>. QED  BY <2>1, <2>2
<1>2. CASE Crash
  <2>1. /\ heap' = <<EmptyMem>> /\ memtable' = 1 /\ immutable' = <<>> /\ task' = <<>>
        /\ pc' = [t \in Threads |-> "idle"] /\ local' = [t \in Threads |-> 0]
        /\ up' # "open"
    BY <1>2 DEF Crash
  <2>2. heap' \in Seq({EmptyMem}) /\ Len(heap') = 1
    BY <2>1
  <2>3. ToSet(immutable') = {} /\ ToSet(task') = {}
    BY <2>1 DEF ToSet
  <2>4. Retired' = {}
    BY <2>1, <2>3 DEF Retired
  <2>5. Typed'
    <3>1. immutable' \in Seq(Nat) /\ task' \in Seq(Nat)
      BY <2>1
    <3>2. pc' \in [Threads -> Steps] /\ local' \in [Threads -> Nat]
      BY <2>1, <1>00
    <3>. QED  BY <2>2, <3>1, <3>2 DEF Typed
  <2>. QED  BY <2>1, <2>2, <2>4, <2>5 DEF RotationInv, Numbered, Behind, Checked, Asleep
<1>3. CASE FlushMemtable
  <2>1. /\ task # <<>> /\ task' = Tail(task) /\ up = "open"
        /\ UNCHANGED <<up, heap, memtable, immutable, pc, local>>
    BY <1>3 DEF FlushMemtable
  <2>2. task' \in Seq(Nat) /\ ToSet(task') \subseteq ToSet(task)
    <3>1. 0 \in Nat
      OBVIOUS
    <3>. QED  BY <1>0, <2>1, <3>1, QueueElements
  <2>3. Retired' \subseteq Retired
    BY <2>1, <2>2 DEF Retired
  <2>. QED  BY <2>1, <2>2, <2>3 DEF RotationInv, Typed, Numbered, Behind, Checked, Asleep
<1>4. ASSUME NEW t \in Threads, NEW op, NEW id, Log(t, op, id) PROVE Goal
  <2>1. UNCHANGED <<up, heap, memtable, immutable, task, local>> /\ up = "open"
        /\ Goto(t, "apply")
    BY <1>4 DEF Log, shared, At
  <2>2. /\ pc' \in [Threads -> Steps] /\ pc'[t] = "apply"
        /\ \A u \in Threads : u # t => pc'[u] = pc[u]
    BY <1>0, <1>00, <2>1, GotoStep
  <2>3. \A u \in Threads : pc'[u] \in {"swap", "push"} => pc'[u] = pc[u]
    BY <2>2
  <2>. QED  BY <2>1, <2>2, <2>3, RotationUnchanged
<1>5. ASSUME NEW t \in Threads, Apply(t) PROVE Goal
  <2>1. /\ UNCHANGED <<up, memtable, immutable, task, local>> /\ up = "open"
        /\ \E l \in {"idle", "check"} : Goto(t, l)
        /\ \E e : heap' = [heap EXCEPT ![memtable] = e]
    <3>. DEFINE r == wal[call[t]]
                Some == /\ \E l \in {"idle", "check"} : Goto(t, l)
                        /\ \E e : heap' = [heap EXCEPT ![memtable] = e]
    <3>1. UNCHANGED <<up, memtable, immutable, task, local>> /\ up = "open"
      BY <1>5 DEF Apply, At
    <3>2. ASSUME r.op = "put" PROVE Some
      <4>1. heap' = [heap EXCEPT ![memtable] = MemPut(heap[memtable], r.id, call[t])]
        BY <1>5, <3>2 DEF Apply
      <4>2. Goto(t, "idle") \/ Goto(t, "check")
        BY <1>5, <3>2 DEF Apply
      <4>. HIDE DEF r
      <4>. QED  BY <4>1, <4>2
    <3>3. ASSUME r.op # "put" PROVE Some
      <4>1. heap' = [heap EXCEPT ![memtable] = MemDelete(heap[memtable], r.id)]
        BY <1>5, <3>3 DEF Apply
      <4>2. Goto(t, "check")
        BY <1>5, <3>3 DEF Apply
      <4>. HIDE DEF r
      <4>. QED  BY <4>1, <4>2
    <3>4. Some
      <4>. HIDE DEF r, Some
      <4>. QED  BY <3>2, <3>3
    <3>. QED  BY <3>1, <3>4
  <2>2. PICK l \in {"idle", "check"} : Goto(t, l)
    BY <2>1
  <2>3. /\ pc' \in [Threads -> Steps] /\ pc'[t] = l
        /\ \A u \in Threads : u # t => pc'[u] = pc[u]
    BY <1>0, <1>00, <2>2, GotoStep
  <2>4. PICK e : heap' = [heap EXCEPT ![memtable] = e]
    BY <2>1
  <2>5. PICK S : heap \in Seq(S)
    BY DEF RotationInv, Typed
  <2>6. memtable = Len(heap) /\ memtable \in 1..Len(heap)
    BY DEF RotationInv, Numbered
  <2>7. /\ \E T : heap' \in Seq(T)
        /\ Len(heap') = Len(heap)
        /\ \A m \in 1..Len(heap) : m # memtable => heap'[m] = heap[m]
    <3>. HIDE DEF Goal
    <3>1. memtable \in 1..Len(heap)
      BY <2>6
    <3>2. heap \in Seq(S \cup {e}) /\ e \in S \cup {e}
      BY <2>5
    <3>. QED  BY <2>4, <3>1, <3>2, ExceptSeq
  <2>8. Retired' \subseteq Retired
    BY <2>1, <2>3 DEF Retired
  <2>9. \A m \in Retired : m \in 1..Len(heap) /\ m # memtable
    BY <2>6 DEF RotationInv, Behind
  <2>10. Typed'
    BY <1>0, <2>1, <2>3, <2>7 DEF Typed
  <2>11. Numbered' /\ Behind'
    BY <2>1, <2>7, <2>8 DEF RotationInv, Numbered, Behind
  <2>12. Checked' /\ Asleep'
    BY <2>1, <2>3 DEF RotationInv, Checked, Asleep
  <2>. QED  BY <2>7, <2>9, <2>10, <2>11, <2>12 DEF RotationInv
<1>6. ASSUME NEW t \in Threads, Check(t) PROVE Goal
  <2>1. /\ UNCHANGED <<up, heap, memtable, immutable, task>> /\ up = "open"
        /\ local' = [local EXCEPT ![t] = memtable]
        /\ \E l \in {"idle", "swap"} : Goto(t, l)
    BY <1>6 DEF Check, shared, At, Return
  <2>2. PICK l \in {"idle", "swap"} : Goto(t, l)
    BY <2>1
  <2>3. /\ pc' \in [Threads -> Steps] /\ pc'[t] = l
        /\ \A u \in Threads : u # t => pc'[u] = pc[u]
    BY <1>0, <1>00, <2>2, GotoStep
  <2>4. memtable \in Nat \ {0}
    BY DEF RotationInv, Numbered
  <2>5. /\ local' \in [Threads -> Nat] /\ local'[t] = memtable
        /\ \A u \in Threads : u # t => local'[u] = local[u]
    BY <1>0, <2>1, <2>4
  <2>6. Retired' \subseteq Retired
    BY <2>1, <2>3, <2>5 DEF Retired
  <2>7. Typed'
    BY <2>1, <2>3, <2>5 DEF RotationInv, Typed
  <2>8. Checked'
    BY <2>1, <2>3, <2>4, <2>5 DEF RotationInv, Checked
  <2>. QED  BY <2>1, <2>6, <2>7, <2>8 DEF RotationInv, Numbered, Behind, Asleep
<1>7. ASSUME NEW t \in Threads, Swap(t) PROVE Goal
  <2>1. /\ UNCHANGED <<up, immutable, task, local>> /\ up = "open" /\ pc[t] = "swap"
        /\ heap' = Append(heap, EmptyMem) /\ memtable' = Len(heap) + 1
        /\ Goto(t, "push")
    BY <1>7 DEF Swap, At
  <2>2. /\ pc' \in [Threads -> Steps] /\ pc'[t] = "push"
        /\ \A u \in Threads : u # t => pc'[u] = pc[u]
    BY <1>0, <1>00, <2>1, GotoStep
  <2>3. PICK S : heap \in Seq(S)
    BY DEF RotationInv, Typed
  <2>4. /\ \E T : heap' \in Seq(T)
        /\ Len(heap') = Len(heap) + 1 /\ Len(heap) \in Nat
        /\ \A m \in 1..Len(heap) : heap'[m] = heap[m]
    BY <2>1, <2>3, HeapAppend
  <2>5. memtable = Len(heap) /\ memtable \in Nat /\ memtable' = memtable + 1
    BY <2>1 DEF RotationInv, Numbered
  <2>6. Retired' \subseteq Retired \cup {local[t]}
    BY <2>1, <2>2 DEF Retired
  <2>7. local[t] \in Nat /\ 0 < local[t] /\ local[t] <= memtable
    BY <1>0, <2>1 DEF RotationInv, Checked
  <2>8. Behind'
    BY <2>5, <2>6, <2>7 DEF RotationInv, Behind
  <2>9. Checked'
    BY <1>0, <2>1, <2>2, <2>5 DEF RotationInv, Checked
  <2>10. Typed' /\ Numbered' /\ Asleep'
    BY <1>0, <2>1, <2>2, <2>4, <2>5 DEF Typed, Numbered, Asleep
  <2>11. \A m \in Retired : m \in 1..Len(heap)
    BY <2>5 DEF RotationInv, Behind
  <2>. QED  BY <2>4, <2>8, <2>9, <2>10, <2>11 DEF RotationInv
<1>8. ASSUME NEW t \in Threads, Push(t) PROVE Goal
  <2>1. /\ UNCHANGED <<up, heap, memtable, task, local>> /\ up = "open" /\ pc[t] = "push"
        /\ immutable' = Append(immutable, local[t])
        /\ Goto(t, "trigger")
    BY <1>8 DEF Push, At
  <2>2. /\ pc' \in [Threads -> Steps] /\ pc'[t] = "trigger"
        /\ \A u \in Threads : u # t => pc'[u] = pc[u]
    BY <1>0, <1>00, <2>1, GotoStep
  <2>3. immutable' \in Seq(Nat) /\ ToSet(immutable') \subseteq ToSet(immutable) \cup {local[t]}
    BY <1>0, <2>1, QueueElements
  <2>4. Retired' \subseteq Retired
    BY <2>1, <2>2, <2>3 DEF Retired
  <2>5. Typed'
    BY <2>1, <2>2, <2>3 DEF RotationInv, Typed
  <2>6. Checked' /\ Behind'
    BY <2>1, <2>2, <2>4 DEF RotationInv, Checked, Behind
  <2>. QED  BY <2>1, <2>5, <2>6 DEF RotationInv, Numbered, Asleep
<1>9. ASSUME NEW t \in Threads, Trigger(t) PROVE Goal
  <2>1. /\ UNCHANGED <<up, heap, memtable, local>> /\ up = "open" /\ StartTask
        /\ Goto(t, "idle")
    BY <1>9 DEF Trigger, At, Return
  <2>2. /\ pc' \in [Threads -> Steps] /\ pc'[t] = "idle"
        /\ \A u \in Threads : u # t => pc'[u] = pc[u]
    BY <1>0, <1>00, <2>1, GotoStep
  <2>3. \/ immutable' = immutable /\ task' = task
        \/ immutable' = <<>> /\ task' = immutable
    BY <2>1 DEF StartTask
  <2>4. /\ immutable' \in Seq(Nat) /\ task' \in Seq(Nat)
        /\ ToSet(immutable') \cup ToSet(task') \subseteq ToSet(immutable) \cup ToSet(task)
    <3>1. <<>> \in Seq(Nat) /\ ToSet(<<>>) = {}
      BY DEF ToSet
    <3>. QED  BY <1>0, <2>3, <3>1
  <2>5. Retired' \subseteq Retired
    BY <2>1, <2>2, <2>4 DEF Retired
  <2>6. Typed'
    BY <2>1, <2>2, <2>4 DEF RotationInv, Typed
  <2>7. Checked' /\ Behind'
    BY <2>1, <2>2, <2>5 DEF RotationInv, Checked, Behind
  <2>. QED  BY <2>1, <2>6, <2>7 DEF RotationInv, Numbered, Asleep
<1>10. ASSUME NEW t \in Threads, FlushCall(t) PROVE Goal
  <2>1. UNCHANGED <<up, heap, memtable, immutable, task, local>> /\ up = "open"
        /\ Goto(t, "flush_trigger")
    BY <1>10 DEF FlushCall, At
  <2>2. /\ pc' \in [Threads -> Steps] /\ pc'[t] = "flush_trigger"
        /\ \A u \in Threads : u # t => pc'[u] = pc[u]
    BY <1>0, <1>00, <2>1, GotoStep
  <2>3. \A u \in Threads : pc'[u] \in {"swap", "push"} => pc'[u] = pc[u]
    BY <2>2
  <2>. QED  BY <2>1, <2>2, <2>3, RotationUnchanged
<1>11. ASSUME NEW t \in Threads, NEW l \in Levels, Compact(t, l) PROVE Goal
  <2>1. UNCHANGED <<up, heap, memtable, immutable, task, local>> /\ up = "open"
        /\ Goto(t, "reload")
    BY <1>11 DEF Compact, At
  <2>2. /\ pc' \in [Threads -> Steps] /\ pc'[t] = "reload"
        /\ \A u \in Threads : u # t => pc'[u] = pc[u]
    BY <1>0, <1>00, <2>1, GotoStep
  <2>3. \A u \in Threads : pc'[u] \in {"swap", "push"} => pc'[u] = pc[u]
    BY <2>2
  <2>. QED  BY <2>1, <2>2, <2>3, RotationUnchanged
<1>12. ASSUME NEW t \in Threads, NEW l \in Levels, CompactFails(t, l) PROVE Goal
  <2>1. UNCHANGED <<up, heap, memtable, immutable, task, local, pc>> /\ up = "open"
    BY <1>12 DEF CompactFails, At
  <2>. QED  BY <1>0, <2>1, RotationUnchanged
<1>13. ASSUME NEW t \in Threads, LoadTables(t) \/ Install(t) PROVE Goal
  <2>1. UNCHANGED <<up, heap, memtable, immutable, task, local>> /\ up = "open"
        /\ \E l \in {"idle", "install"} : Goto(t, l)
    BY <1>13 DEF LoadTables, Install, At, shared
  <2>2. PICK l \in {"idle", "install"} : Goto(t, l)
    BY <2>1
  <2>22. /\ pc' \in [Threads -> Steps] /\ pc'[t] = l
        /\ \A u \in Threads : u # t => pc'[u] = pc[u]
    BY <1>0, <1>00, <2>2, GotoStep
  <2>3. \A u \in Threads : pc'[u] \in {"swap", "push"} => pc'[u] = pc[u]
    BY <2>22
  <2>. QED  BY <2>1, <2>22, <2>3, RotationUnchanged
<1>14. CASE UNCHANGED vars \/ \E t \in Threads, op \in {"put", "delete"}, id \in Ids : LogFails(t, op, id)
  <2>1. UNCHANGED <<up, heap, memtable, immutable, task, local, pc>>
    BY <1>14 DEF vars, LogFails, shared
  <2>2. Retired' = Retired
    BY <2>1 DEF Retired
  <2>. QED  BY <2>1, <2>2 DEF RotationInv, Typed, Numbered, Behind, Checked, Asleep
<1>15. CASE OpenFails
  <2>1. UNCHANGED <<heap, memtable, immutable, task, local, pc>> /\ up # "open" /\ up' # "open"
    BY <1>15 DEF OpenFails
  <2>2. Retired' = Retired
    BY <2>1 DEF Retired
  <2>. QED  BY <2>1, <2>2 DEF RotationInv, Typed, Numbered, Behind, Checked, Asleep
<1>16. CASE FlushFails
  <2>1. /\ task # <<>> /\ task' = Tail(task) /\ up = "open"
        /\ UNCHANGED <<up, heap, memtable, immutable, pc, local>>
    BY <1>16 DEF FlushFails
  <2>2. task' \in Seq(Nat) /\ ToSet(task') \subseteq ToSet(task)
    <3>1. 0 \in Nat
      OBVIOUS
    <3>. QED  BY <1>0, <2>1, <3>1, QueueElements
  <2>3. Retired' \subseteq Retired
    BY <2>1, <2>2 DEF Retired
  <2>. QED  BY <2>1, <2>2, <2>3 DEF RotationInv, Typed, Numbered, Behind, Checked, Asleep
<1>. QED  BY <1>1, <1>2, <1>3, <1>4, <1>5, <1>6, <1>7, <1>8, <1>9, <1>10, <1>11, <1>12,
              <1>13, <1>14, <1>15, <1>16 DEF Next

\* A memtable that left the active place is never written again, whatever
\* the number of threads and however they interleave (engine.rs:135-178, 377).
THEOREM RetiredMemtablesFrozen == Spec => RetiredFrozen
<1>1. RotationInv /\ [Next]_vars => RotationInv'
  BY RotationNext
<1>2. RotationInv /\ [Next]_vars
        => [up = "open" /\ up' = "open" => \A m \in Retired : heap'[m] = heap[m]]_vars
  BY RotationNext
<1>. QED  BY <1>1, <1>2, RotationInit, PTL DEF Spec, RetiredFrozen

-----------------------------------------------------------------------------
(* What the variables hold                                                   *)

Records == [op : {"put", "delete", "torn"}, id : Ids]
MemEntries == {Absent, Tombstone} \cup {PutEntry(v) : v \in 1..MaxRecords}
Memtables == [entries : [Ids -> MemEntries], size : Nat]
Tables == [Ids -> 0..MaxRecords]

\* The size of a memtable covers its vectors.
Puts(m) == {id \in Ids : m.entries[id].kind = "put"}
Accounted(m) == EntrySize * Cardinality(Puts(m)) <= m.size

Writing == {"apply", "check", "swap", "push", "trigger"}

WalTyped == wal \in Seq(Records) /\ Len(wal) <= MaxRecords

\* Some record before i is torn.
BehindTorn(i) == \E j \in Torn : j < i

\* Vectors in memory and in tables were logged, and are out of sight only
\* behind a torn record.
IsPut(v, id) ==
    /\ v \in 1..Len(wal) /\ wal[v].op = "put" /\ wal[v].id = id
    /\ v \in unseen => BehindTorn(v)

MemLogged(m) == \A id \in Ids : m.entries[id].v # Nil => IsPut(m.entries[id].v, id)

TableLogged(s) == \A id \in Ids : s[id] # Nil => IsPut(s[id], id)

MemInv ==
    /\ heap \in Seq(Memtables)
    /\ \A k \in 1..Len(heap) : Accounted(heap[k]) /\ MemLogged(heap[k])

TabInv(tables) ==
    /\ tables \in [Levels -> Seq(Tables)]
    /\ \A l \in Levels : \A k \in 1..Len(tables[l]) : TableLogged(tables[l][k])

LoadInv ==
    /\ loaded \in [Threads -> [Levels -> Seq(Tables)]]
    /\ \A t \in Threads : TabInv(loaded[t])

\* A record that is whole and was not passed over.
InSight(i) == i \in 1..Len(wal) /\ wal[i].op # "torn" /\ i \notin unseen

\* Who is writing has a record in the log.
CallInv ==
    /\ call \in [Threads -> 0..MaxRecords]
    /\ \A t \in Threads : pc[t] \in Writing => InSight(call[t])

FlagInv ==
    /\ up \in {"closed", "open", "failed"}
    /\ flush_handle \in BOOLEAN /\ flush_lock \in Threads \cup {NoThread}
    /\ acked \subseteq 1..Len(wal) /\ vector_count \in Nat
    /\ flushed \subseteq 1..Len(heap) /\ dropped \subseteq 1..Len(heap) /\ skipped \in BOOLEAN
    /\ unseen \subseteq 1..Len(wal)

\* While no process has the engine open nothing of one is left.
Fresh ==
    up # "open" => /\ heap = <<EmptyMem>> /\ flushed = {} /\ dropped = {}
                   /\ flush_handle = FALSE /\ flush_lock = NoThread

EngineInv ==
    /\ RotationInv /\ WalTyped /\ MemInv /\ TabInv(disk) /\ TabInv(levels) /\ LoadInv
    /\ CallInv /\ FlagInv /\ Fresh /\ RecoverySucceeds

-----------------------------------------------------------------------------
(* One writer for each id                                                    *)

OneWriter == \A a, b \in Workload : a[2] = b[2] => a[1] = b[1]

\* What a record leaves in the memtable, and the entry after the records at S.
EntryOf(i) == IF wal[i].op = "put" THEN PutEntry(i) ELSE Tombstone

Newest(e, S) ==
    \/ S = {} /\ e = Absent
    \/ \E i \in S : (\A j \in S : j <= i) /\ e = EntryOf(i)

\* The records of an id that were logged and are not yet in the memtable.
UnderWay(id) == {call[t] : t \in {u \in Threads : pc[u] = "apply" /\ wal[call[u]].id = id}}
Applied(id) == PositionsOf(id) \ UnderWay(id)

\* Who has yet to apply a record is the writer of the id, and the record is its last.
LastOfWriter(t) ==
    pc[t] = "apply" => /\ <<t, wal[call[t]].id>> \in Workload
                       /\ \A i \in PositionsOf(wal[call[t]].id) : i <= call[t]

Current ==
    /\ \A t \in Threads : LastOfWriter(t)
    /\ up = "open" /\ Len(heap) = 1 =>
         \A id \in Ids : ~PutAfterDelete(id) => Newest(heap[1].entries[id], Applied(id))

-----------------------------------------------------------------------------
(* Numbers and sequences                                                     *)

LEMMA SmallestOf ==
    ASSUME NEW S \in SUBSET Nat, S # {}
    PROVE  \E x \in S : \A y \in S : x <= y
<1>1. PICK x \in S : \A y \in S : <<y, x>> \notin OpToRel(<, Nat)
  BY NatLessThanWellFounded, WFMin, Zenon
<1>2. ASSUME NEW y \in S PROVE x <= y
  <2>1. <<y, x>> \notin {q \in Nat \X Nat : q[1] < q[2]}
    BY <1>1, Zenon DEF OpToRel
  <2>. QED  BY <2>1
<1>. QED  BY <1>2

\* A set of numbers with a bound has a largest one.
LEMMA LargestOf ==
    ASSUME NEW S \in SUBSET Nat, S # {}, NEW b \in Nat, \A x \in S : x <= b
    PROVE  /\ \E x \in S : \A y \in S : y <= x
           /\ Max(S) \in S /\ \A y \in S : y <= Max(S)
<1>. DEFINE R == {b - x : x \in S}
<1>1. R \in SUBSET Nat /\ R # {}
  <2>1. \A x \in S : x \in Nat /\ b - x \in Nat
    OBVIOUS
  <2>2. \A r \in R : r \in Nat
    BY <2>1
  <2>3. PICK x : x \in S
    OBVIOUS
  <2>4. b - x \in R
    BY <2>3
  <2>. QED  BY <2>2, <2>4
<1>2. PICK r \in R : \A y \in R : r <= y
  BY <1>1, SmallestOf
<1>3. PICK x \in S : r = b - x
  OBVIOUS
<1>4. \A y \in S : x >= y
  <2>1. ASSUME NEW y \in S PROVE x >= y
    <3>1. b - y \in R
      OBVIOUS
    <3>2. b - x <= b - y
      BY <1>2, <1>3, <3>1
    <3>. QED  BY <3>2
  <2>. QED  BY <2>1
<1>5. Max(S) \in S /\ \A y \in S : Max(S) >= y
  BY <1>4 DEF Max
<1>. QED  BY <1>4, <1>5

\* The largest number of a finite set.
LEMMA FiniteHasMax ==
    ASSUME NEW S \in SUBSET Nat, IsFiniteSet(S), S # {}
    PROVE  Max(S) \in S /\ \A y \in S : y <= Max(S)
<1>1. PICK n \in Nat : ExistsBijection(1..n, S)
  BY FS_NatBijection
<1>2. PICK f \in [1..n -> S] : \A x \in S : \E i \in 1..n : f[i] = x
  BY <1>1 DEF ExistsBijection, Bijection, Surjection
<1>. DEFINE Bound(k, b) == b \in Nat /\ \A i \in 1..k : f[i] <= b
            Bad == {k \in 0..n : ~ \E b : Bound(k, b)}
<1>3. Bad = {}
  <2>. SUFFICES ASSUME Bad # {} PROVE FALSE
    OBVIOUS
  <2>1. Bad \in SUBSET Nat
    OBVIOUS
  <2>2. PICK k \in Bad : \A j \in Bad : k <= j
    BY <2>1, SmallestOf
  <2>3. k # 0
    <3>1. Bound(0, 0)
      OBVIOUS
    <3>. QED  BY <3>1
  <2>4. k - 1 \in 0..n /\ ~(k <= k - 1) /\ k \in 1..n
    BY <2>3
  <2>5. PICK b : Bound(k - 1, b)
    BY <2>2, <2>4
  <2>6. f[k] \in Nat
    BY <2>4
  <2>. DEFINE c == IF f[k] > b THEN f[k] ELSE b
  <2>7. Bound(k, c)
    <3>1. c \in Nat /\ c >= b /\ c >= f[k]
      BY <2>5, <2>6
    <3>2. \A i \in 1..k : i = k \/ i \in 1..(k - 1)
      BY <2>4
    <3>3. \A i \in 1..k : f[i] \in Nat
      <4>1. \A i \in 1..k : i \in 1..n
        BY <2>4
      <4>2. \A i \in 1..n : f[i] \in S
        OBVIOUS
      <4>. QED  BY <4>1, <4>2
    <3>. HIDE DEF c
    <3>4. ASSUME NEW i \in 1..k PROVE f[i] <= c
      <4>1. CASE i = k
        BY <3>1, <4>1
      <4>2. CASE i \in 1..(k - 1)
        <5>1. f[i] <= b /\ b \in Nat /\ f[i] \in Nat
          BY <2>5, <3>3, <4>2
        <5>. QED  BY <3>1, <5>1
      <4>. QED  BY <3>2, <4>1, <4>2
    <3>. QED  BY <3>1, <3>4
  <2>8. \E d : Bound(k, d)
    BY <2>7
  <2>. HIDE DEF Bound
  <2>. QED  BY <2>2, <2>8
<1>4. \E b : Bound(n, b)
  <2>1. n \in 0..n
    OBVIOUS
  <2>. HIDE DEF Bound
  <2>. QED  BY <1>3, <2>1
<1>5. PICK b \in Nat : \A x \in S : x <= b
  BY <1>2, <1>4
<1>. QED  BY <1>5, LargestOf

LEMMA FiniteHasMin ==
    ASSUME NEW S \in SUBSET Nat, S # {}
    PROVE  Min(S) \in S /\ \A y \in S : Min(S) <= y
<1>1. \E x \in S : \A y \in S : x <= y
  BY SmallestOf
<1>. QED  BY <1>1 DEF Min

LEMMA Times ==
    ASSUME NEW a \in Nat, NEW c \in Nat
    PROVE  a * c \in Nat /\ a * (c + 1) = a * c + a
OBVIOUS

\* A sequence with one more element.
LEMMA Longer ==
    ASSUME NEW S, NEW s \in Seq(S), NEW x \in S
    PROVE  /\ Append(s, x) \in Seq(S) /\ Len(Append(s, x)) = Len(s) + 1
           /\ Len(s) \in Nat /\ DOMAIN s = 1..Len(s)
           /\ DOMAIN Append(s, x) = 1..(Len(s) + 1)
           /\ Append(s, x)[Len(s) + 1] = x
           /\ \A k \in 1..Len(s) : Append(s, x)[k] = s[k]
BY AppendProperties, LenProperties

\* The first n elements.
LEMMA FirstN ==
    ASSUME NEW S, NEW s \in Seq(S), NEW n \in Nat, n <= Len(s)
    PROVE  /\ SubSeq(s, 1, n) \in Seq(S) /\ Len(SubSeq(s, 1, n)) = n
           /\ DOMAIN SubSeq(s, 1, n) = 1..n
           /\ \A k \in 1..n : SubSeq(s, 1, n)[k] = s[k]
<1>1. Len(s) \in Nat
  BY LenProperties
<1>2. CASE n = 0
  BY <1>1, <1>2
<1>3. CASE n # 0
  <2>1. 1 \in 1..(Len(s) + 1) /\ n \in 0..Len(s) /\ \A k \in 1..n : k \in 1..Len(s)
    BY <1>1
  <2>. QED  BY <1>1, <2>1, SubSeqProperties
<1>. QED  BY <1>2, <1>3

\* All elements but the first n.
LEMMA WithoutN ==
    ASSUME NEW S, NEW s \in Seq(S), NEW n \in Nat, n <= Len(s)
    PROVE  /\ SubSeq(s, n + 1, Len(s)) \in Seq(S)
           /\ Len(SubSeq(s, n + 1, Len(s))) = Len(s) - n
           /\ \A k \in 1..(Len(s) - n) : SubSeq(s, n + 1, Len(s))[k] = s[k + n]
<1>1. Len(s) \in Nat
  BY LenProperties
<1>. QED  BY <1>1, SubSeqProperties

\* A sequence that differs in one place.
LEMMA Replaced ==
    ASSUME NEW S, NEW s \in Seq(S), NEW k \in 1..Len(s), NEW x \in S
    PROVE  /\ [s EXCEPT ![k] = x] \in Seq(S) /\ Len([s EXCEPT ![k] = x]) = Len(s)
           /\ [s EXCEPT ![k] = x][k] = x
           /\ \A j \in 1..Len(s) : j # k => [s EXCEPT ![k] = x][j] = s[j]
OBVIOUS
-----------------------------------------------------------------------------
(* Memtables                                                                 *)

\* The entries, one by one.
LEMMA EntryFacts ==
    /\ Absent \in MemEntries /\ Absent.kind = "absent" /\ Absent.v = Nil
    /\ Tombstone \in MemEntries /\ Tombstone.kind = "delete" /\ Tombstone.v = Nil
    /\ \A v \in 1..MaxRecords : /\ PutEntry(v) \in MemEntries
                                /\ PutEntry(v).kind = "put" /\ PutEntry(v).v = v
    /\ \A e \in MemEntries : /\ e \in Entry
                             /\ e.kind = "put" <=> e.v # Nil
                             /\ e.kind = "absent" <=> e = Absent
                             /\ e.kind = "delete" <=> e = Tombstone
                             /\ e.v \in 0..MaxRecords
<1>. USE EngineAssumption
<1>1. \A v \in 1..MaxRecords : /\ PutEntry(v) \in MemEntries
                               /\ PutEntry(v).kind = "put" /\ PutEntry(v).v = v
  BY DEF MemEntries, PutEntry
<1>2. ASSUME NEW e \in MemEntries
      PROVE  /\ e \in Entry
             /\ e.kind = "put" <=> e.v # Nil
             /\ e.kind = "absent" <=> e = Absent
             /\ e.kind = "delete" <=> e = Tombstone
             /\ e.v \in 0..MaxRecords
  <2>1. CASE e = Absent
    BY <2>1 DEF Absent, Tombstone, Entry, Nil
  <2>2. CASE e = Tombstone
    BY <2>2 DEF Absent, Tombstone, Entry, Nil
  <2>3. CASE \E v \in 1..MaxRecords : e = PutEntry(v)
    BY <2>3 DEF Absent, Tombstone, PutEntry, Entry, Nil
  <2>. QED  BY <2>1, <2>2, <2>3 DEF MemEntries
<1>. QED  BY <1>1, <1>2 DEF MemEntries, Absent, Tombstone, Nil

LEMMA MemFacts ==
    ASSUME NEW m \in Memtables
    PROVE  /\ m.entries \in [Ids -> MemEntries] /\ m.size \in Nat
           /\ Puts(m) \in SUBSET Ids /\ IsFiniteSet(Puts(m)) /\ Cardinality(Puts(m)) \in Nat
<1>1. Puts(m) \in SUBSET Ids
  BY DEF Puts
<1>2. IsFiniteSet(Puts(m)) /\ Cardinality(Puts(m)) \in Nat
  BY <1>1, EngineAssumption, FS_Subset, FS_CardinalityType
<1>. QED  BY <1>1, <1>2 DEF Memtables

\* The vectors of a memtable when one entry changes.
LEMMA PutsChange ==
    ASSUME NEW m \in Memtables, NEW id \in Ids, NEW e \in MemEntries, NEW n \in Nat,
           NEW w, w = [entries |-> [m.entries EXCEPT ![id] = e], size |-> n]
    PROVE  /\ w \in Memtables
           /\ e.kind = "put" => Puts(w) = Puts(m) \cup {id}
           /\ e.kind # "put" => Puts(w) = Puts(m) \ {id}
<1>1. m.entries \in [Ids -> MemEntries]
  BY MemFacts
<1>2. /\ w.entries \in [Ids -> MemEntries] /\ w.entries[id] = e
      /\ \A i \in Ids : i # id => w.entries[i] = m.entries[i]
  BY <1>1
<1>3. w \in Memtables
  BY <1>1 DEF Memtables
<1>. QED  BY <1>2, <1>3 DEF Puts

LEMMA EmptyFacts ==
    /\ EmptyMem \in Memtables /\ Accounted(EmptyMem)
    /\ \A id \in Ids : EmptyMem.entries[id] = Absent
<1>1. EmptyMem \in Memtables /\ EmptyMem.size = 0 /\ \A id \in Ids : EmptyMem.entries[id] = Absent
  BY EntryFacts DEF EmptyMem, Memtables
<1>2. Puts(EmptyMem) = {}
  BY <1>1, EntryFacts DEF Puts
<1>3. Cardinality(Puts(EmptyMem)) = 0
  BY <1>2, FS_EmptySet
<1>4. EntrySize * 0 = 0
  BY EngineAssumption
<1>. QED  BY <1>1, <1>3, <1>4 DEF Accounted

\* MemTable::put, and MemTable::put over a tombstone.
LEMMA MemPutFacts ==
    ASSUME NEW m \in Memtables, Accounted(m), NEW id \in Ids, NEW v \in 1..MaxRecords
    PROVE  /\ MemPut(m, id, v) \in Memtables /\ Accounted(MemPut(m, id, v))
           /\ \A i \in Ids : i # id => MemPut(m, id, v).entries[i] = m.entries[i]
           /\ MemPutFails(m, id) => MemPut(m, id, v).entries[id] = Absent
           /\ ~MemPutFails(m, id) => MemPut(m, id, v).entries[id] = PutEntry(v)
<1>0. EntrySize \in Nat
  BY EngineAssumption
<1>1. PICK c \in Nat : c = Cardinality(Puts(m))
  BY MemFacts
<1>2. m.entries \in [Ids -> MemEntries] /\ m.size \in Nat /\ m.entries[id] \in MemEntries
      /\ IsFiniteSet(Puts(m))
  BY MemFacts
<1>3. /\ EntrySize * c \in Nat /\ EntrySize * (c + 1) = EntrySize * c + EntrySize
      /\ EntrySize * c <= m.size
  BY <1>0, <1>1, Times DEF Accounted
<1>4. CASE MemPutFails(m, id)
  <2>1. m.entries[id].kind = "delete"
    BY <1>4 DEF MemPutFails
  <2>2. MemPut(m, id, v) = [entries |-> [m.entries EXCEPT ![id] = Absent], size |-> m.size]
    BY <1>4 DEF MemPut
  <2>3. PICK w : w = MemPut(m, id, v)
    OBVIOUS
  <2>4. w \in Memtables /\ Puts(w) = Puts(m) \ {id}
    BY <1>2, <2>2, <2>3, PutsChange, EntryFacts
  <2>5. id \notin Puts(m)
    BY <2>1 DEF Puts
  <2>6. Puts(w) = Puts(m)
    BY <2>4, <2>5
  <2>7. w.size = m.size /\ w.entries = [m.entries EXCEPT ![id] = Absent]
    BY <2>2, <2>3
  <2>8. Accounted(w)
    BY <1>1, <1>3, <2>6, <2>7 DEF Accounted
  <2>. QED  BY <1>2, <1>4, <2>3, <2>4, <2>7, <2>8
<1>5. CASE ~MemPutFails(m, id)
  <2>1. m.entries[id].kind # "delete"
    BY <1>5 DEF MemPutFails
  <2>2. PICK n : n = m.size - SizeOf(m.entries[id]) + EntrySize
    OBVIOUS
  <2>3. MemPut(m, id, v) = [entries |-> [m.entries EXCEPT ![id] = PutEntry(v)], size |-> n]
    BY <1>5, <2>2 DEF MemPut
  <2>4. PICK d \in Nat : d = Cardinality(Puts(m) \cup {id})
    <3>1. IsFiniteSet(Puts(m) \cup {id})
      BY <1>2, FS_AddElement
    <3>2. Cardinality(Puts(m) \cup {id}) \in Nat
      BY <3>1, FS_CardinalityType
    <3>. QED  BY <3>2
  <2>5. n \in Nat /\ EntrySize * d <= n
    <3>1. CASE m.entries[id].kind = "put"
      <4>1. SizeOf(m.entries[id]) = EntrySize
        BY <3>1 DEF SizeOf
      <4>2. n = m.size
        BY <1>0, <1>2, <2>2, <4>1
      <4>3. id \in Puts(m)
        BY <3>1 DEF Puts
      <4>4. d = c
        BY <1>1, <1>2, <2>4, <4>3, FS_AddElement
      <4>. QED  BY <1>2, <1>3, <4>2, <4>4
    <3>2. CASE m.entries[id].kind # "put"
      <4>1. SizeOf(m.entries[id]) = 0
        BY <3>2 DEF SizeOf
      <4>2. n = m.size + EntrySize
        BY <1>0, <1>2, <2>2, <4>1
      <4>3. id \notin Puts(m)
        BY <3>2 DEF Puts
      <4>4. d = c + 1
        BY <1>1, <1>2, <2>4, <4>3, FS_AddElement
      <4>. QED  BY <1>0, <1>2, <1>3, <4>2, <4>4
    <3>. QED  BY <3>1, <3>2
  <2>6. PICK w : w = MemPut(m, id, v)
    OBVIOUS
  <2>7. w \in Memtables /\ Puts(w) = Puts(m) \cup {id}
    BY <2>3, <2>5, <2>6, PutsChange, EntryFacts
  <2>8. w.size = n /\ w.entries = [m.entries EXCEPT ![id] = PutEntry(v)]
    BY <2>3, <2>6
  <2>9. Accounted(w)
    BY <2>4, <2>5, <2>7, <2>8 DEF Accounted
  <2>. QED  BY <1>2, <1>5, <2>6, <2>7, <2>8, <2>9
<1>. QED  BY <1>4, <1>5

\* MemTable::delete.
LEMMA MemDeleteFacts ==
    ASSUME NEW m \in Memtables, Accounted(m), NEW id \in Ids
    PROVE  /\ MemDelete(m, id) \in Memtables /\ Accounted(MemDelete(m, id))
           /\ \A i \in Ids : i # id => MemDelete(m, id).entries[i] = m.entries[i]
           /\ MemDelete(m, id).entries[id] = Tombstone
<1>0. EntrySize \in Nat /\ TombstoneSize \in Nat
  BY EngineAssumption
<1>1. PICK c \in Nat : c = Cardinality(Puts(m))
  BY MemFacts
<1>2. m.entries \in [Ids -> MemEntries] /\ m.size \in Nat /\ m.entries[id] \in MemEntries
      /\ IsFiniteSet(Puts(m))
  BY MemFacts
<1>3. EntrySize * c \in Nat /\ EntrySize * c <= m.size
  BY <1>0, <1>1, Times DEF Accounted
<1>4. PICK n : n = m.size - SizeOf(m.entries[id]) + TombstoneSize
  OBVIOUS
<1>5. MemDelete(m, id) = [entries |-> [m.entries EXCEPT ![id] = Tombstone], size |-> n]
  BY <1>4 DEF MemDelete
<1>6. PICK d \in Nat : d = Cardinality(Puts(m) \ {id})
  BY <1>2, FS_RemoveElement, FS_CardinalityType
<1>7. n \in Nat /\ EntrySize * d <= n
  <2>1. CASE m.entries[id].kind = "put"
    <3>1. SizeOf(m.entries[id]) = EntrySize
      BY <2>1 DEF SizeOf
    <3>2. id \in Puts(m)
      BY <2>1 DEF Puts
    <3>3. c = d + 1
      <4>1. Cardinality(Puts(m) \ {id}) = Cardinality(Puts(m)) - 1
        BY <1>2, <3>2, FS_RemoveElement
      <4>. QED  BY <1>1, <1>6, <4>1
    <3>4. EntrySize * d \in Nat /\ EntrySize * c = EntrySize * d + EntrySize
      BY <1>0, <3>3, Times
    <3>5. n = (m.size - EntrySize) + TombstoneSize
      BY <1>4, <3>1
    <3>. QED  BY <1>0, <1>2, <1>3, <3>4, <3>5
  <2>2. CASE m.entries[id].kind # "put"
    <3>1. SizeOf(m.entries[id]) = 0
      BY <2>2 DEF SizeOf
    <3>2. n = m.size + TombstoneSize
      BY <1>0, <1>2, <1>4, <3>1
    <3>3. id \notin Puts(m)
      BY <2>2 DEF Puts
    <3>4. d = c
      BY <1>1, <1>2, <1>6, <3>3, FS_RemoveElement
    <3>. QED  BY <1>0, <1>2, <1>3, <3>2, <3>4
  <2>. QED  BY <2>1, <2>2
<1>8. PICK w : w = MemDelete(m, id)
  OBVIOUS
<1>9. w \in Memtables /\ Puts(w) = Puts(m) \ {id}
  BY <1>5, <1>7, <1>8, PutsChange, EntryFacts
<1>10. w.size = n /\ w.entries = [m.entries EXCEPT ![id] = Tombstone]
  BY <1>5, <1>8
<1>11. Accounted(w)
  BY <1>6, <1>7, <1>9, <1>10 DEF Accounted
<1>. QED  BY <1>2, <1>8, <1>9, <1>10, <1>11
-----------------------------------------------------------------------------
(* Recovery                                                                  *)

LEMMA WalFacts ==
    ASSUME WalTyped
    PROVE  /\ Len(wal) \in Nat /\ DOMAIN wal = 1..Len(wal)
           /\ \A i \in 1..Len(wal) : /\ wal[i] \in Records /\ wal[i].id \in Ids
                                     /\ wal[i].op \in {"put", "delete", "torn"} /\ i \in 1..MaxRecords
           /\ \A id : PositionsOf(id) = {i \in 1..Len(wal) : wal[i].id = id /\ InSight(i)}
<1>1. /\ Len(wal) \in Nat /\ DOMAIN wal = 1..Len(wal) /\ MaxRecords \in Nat
  BY LenProperties, EngineAssumption DEF WalTyped
<1>2. ASSUME NEW i \in 1..Len(wal)
      PROVE  /\ wal[i] \in Records /\ wal[i].id \in Ids
             /\ wal[i].op \in {"put", "delete", "torn"} /\ i \in 1..MaxRecords
  <2>1. wal[i] \in Records
    BY <1>2, ElementOfSeq DEF WalTyped
  <2>. QED  BY <1>1, <2>1 DEF Records, WalTyped
<1>3. \A id : PositionsOf(id) = {i \in 1..Len(wal) : wal[i].id = id /\ InSight(i)}
  BY <1>1 DEF PositionsOf, InSight
<1>. QED  BY <1>1, <1>2, <1>3

LEMMA EntryOfFacts ==
    ASSUME WalTyped, NEW i \in 1..Len(wal), wal[i].op # "torn"
    PROVE  /\ EntryOf(i) \in MemEntries /\ EntryOf(i) # Absent
           /\ wal[i].op = "put" => EntryOf(i).kind = "put" /\ EntryOf(i).v = i
           /\ wal[i].op = "delete" => EntryOf(i).kind = "delete" /\ EntryOf(i).v = Nil
<1>1. i \in 1..MaxRecords /\ wal[i].op \in {"put", "delete"}
  BY WalFacts
<1>. QED  BY <1>1, EntryFacts DEF EntryOf

\* The records of id that an opening which passes over lost applies.
Live(id, lost) == {i \in 1..Len(wal) : wal[i].id = id /\ wal[i].op # "torn" /\ i \notin lost}

\* An entry that is the latest of a set of records was logged.
LEMMA NewestLogged ==
    ASSUME WalTyped, NEW id \in Ids, NEW e, NEW lost, NEW S \in SUBSET Live(id, lost), Newest(e, S)
    PROVE  /\ e \in MemEntries
           /\ e.v # Nil => e.v \in Live(id, lost) /\ wal[e.v].op = "put" /\ \A j \in S : j <= e.v
           /\ e = Absent <=> S = {}
<1>1. CASE S = {} /\ e = Absent
  BY <1>1, EntryFacts
<1>2. CASE \E i \in S : (\A j \in S : j <= i) /\ e = EntryOf(i)
  <2>1. PICK i \in S : (\A j \in S : j <= i) /\ e = EntryOf(i)
    BY <1>2
  <2>2. i \in 1..Len(wal) /\ wal[i].id = id /\ wal[i].op # "torn" /\ i \in Live(id, lost)
    BY <2>1 DEF Live
  <2>3. wal[i].op \in {"put", "delete"}
    BY <2>2, WalFacts
  <2>4. /\ e \in MemEntries /\ e # Absent
        /\ wal[i].op = "put" => e.kind = "put" /\ e.v = i
        /\ wal[i].op = "delete" => e.kind = "delete" /\ e.v = Nil
    BY <2>1, <2>2, EntryOfFacts
  <2>. QED  BY <2>1, <2>2, <2>3, <2>4
<1>. QED  BY <1>1, <1>2 DEF Newest

\* The positions of an id are the records that are live at the last opening or since.
LEMMA LivePositions ==
    ASSUME WalTyped
    PROVE  \A id : PositionsOf(id) = Live(id, unseen)
BY WalFacts DEF Live, InSight

Accs == [ok : BOOLEAN, mem : Memtables]

UpTo(id, n, lost) == {i \in Live(id, lost) : i <= n}

\* An id is put after it was deleted.
PutsLater(lost) ==
    \E id \in Ids : \E i, j \in Live(id, lost) : i < j /\ wal[i].op = "delete" /\ wal[j].op = "put"

\* What is left of the log after n records.
Replays(acc, n, lost) ==
    /\ acc \in Accs /\ Accounted(acc.mem)
    /\ acc.ok => \A id \in Ids : Newest(acc.mem.entries[id], UpTo(id, n, lost))
    /\ ~acc.ok => PutsLater(lost)

Start == [ok |-> TRUE, mem |-> EmptyMem]

LEMMA ReplayStart == ASSUME WalTyped, NEW lost PROVE Replays(Start, 0, lost)
<1>1. Start \in Accs /\ Start.ok /\ Start.mem = EmptyMem
  BY EmptyFacts DEF Start, Accs
<1>2. ASSUME NEW id \in Ids PROVE UpTo(id, 0, lost) = {}
  BY WalFacts DEF UpTo, Live
<1>3. \A id \in Ids : Newest(EmptyMem.entries[id], UpTo(id, 0, lost))
  BY <1>2, EmptyFacts DEF Newest
<1>. QED  BY <1>1, <1>3, EmptyFacts DEF Replays

\* One more record of an id, and of the others.
LEMMA UpToStep ==
    ASSUME WalTyped, NEW n \in 1..Len(wal), NEW id \in Ids, NEW lost
    PROVE  /\ n \in Live(id, lost) => UpTo(id, n, lost) = UpTo(id, n - 1, lost) \cup {n}
           /\ n \notin Live(id, lost) => UpTo(id, n, lost) = UpTo(id, n - 1, lost)
           /\ \A i \in UpTo(id, n - 1, lost) : i < n
<1>1. Live(id, lost) \subseteq 1..Len(wal) /\ Len(wal) \in Nat
  BY WalFacts DEF Live
<1>2. \A i \in 1..Len(wal) : (i <= n <=> (i <= n - 1 \/ i = n)) /\ (i <= n - 1 => i < n)
  BY <1>1
<1>. QED  BY <1>1, <1>2 DEF UpTo

\* The record n is the latest of those before it and itself.
LEMMA NewestNow ==
    ASSUME WalTyped, NEW S, NEW n \in Int, \A i \in S : i \in Int /\ i < n
    PROVE  Newest(EntryOf(n), S \cup {n})
<1>1. \A j \in S \cup {n} : j <= n
  OBVIOUS
<1>. QED  BY <1>1 DEF Newest

\* A record applied to a memtable in which every id is up to date.
LEMMA ReplayStep ==
    ASSUME WalTyped, NEW n \in 1..Len(wal), NEW lost, n \notin lost \cup Torn,
           NEW acc, Replays(acc, n - 1, lost)
    PROVE  Replays(Replay(acc, n), n, lost)
<1>1. acc \in Accs /\ acc.mem \in Memtables /\ Accounted(acc.mem) /\ acc.ok \in BOOLEAN
  BY DEF Replays, Accs
<1>2. /\ wal[n].id \in Ids /\ n \in 1..MaxRecords /\ wal[n].op \in {"put", "delete"} /\ n \in Int
      /\ Len(wal) \in Nat /\ n \notin lost
  BY WalFacts DEF Torn
<1>3. PICK x \in Ids : x = wal[n].id
  BY <1>2
<1>33. n \in Live(x, lost) /\ \A id \in Ids : id # x => n \notin Live(id, lost)
  BY <1>2, <1>3 DEF Live
<1>4. CASE ~acc.ok
  <2>1. Replay(acc, n) = acc
    BY <1>4 DEF Replay
  <2>. QED  BY <1>4, <2>1 DEF Replays
<1>5. CASE acc.ok
  <2>1. \A id \in Ids : Newest(acc.mem.entries[id], UpTo(id, n - 1, lost))
    BY <1>5 DEF Replays
  <2>2. \A i \in UpTo(x, n - 1, lost) : i \in Int /\ i < n
    <3>1. \A i \in UpTo(x, n - 1, lost) : i \in 1..Len(wal)
      BY WalFacts DEF UpTo, Live
    <3>. QED  BY <1>2, <3>1, UpToStep
  <2>3. Newest(EntryOf(n), UpTo(x, n, lost))
    <3>1. UpTo(x, n, lost) = UpTo(x, n - 1, lost) \cup {n}
      BY <1>33, UpToStep
    <3>2. Newest(EntryOf(n), UpTo(x, n - 1, lost) \cup {n})
      BY <1>2, <2>2, NewestNow
    <3>. QED  BY <3>1, <3>2
  <2>4. \A id \in Ids : id # x => UpTo(id, n, lost) = UpTo(id, n - 1, lost)
    BY <1>33, UpToStep
  <2>5. CASE wal[n].op = "put" /\ MemPutFails(acc.mem, x)
    <3>1. PICK r : r = Replay(acc, n)
      OBVIOUS
    <3>2. r = [ok |-> FALSE, mem |-> MemPut(acc.mem, x, n)]
      BY <1>3, <1>5, <2>5, <3>1 DEF Replay
    <3>3. MemPut(acc.mem, x, n) \in Memtables /\ Accounted(MemPut(acc.mem, x, n))
      BY <1>1, <1>2, MemPutFacts
    <3>4. acc.mem.entries[x].kind = "delete"
      BY <2>5 DEF MemPutFails
    <3>5. PICK i \in UpTo(x, n - 1, lost) : acc.mem.entries[x] = EntryOf(i)
      <4>1. acc.mem.entries[x] # Absent
        BY <3>4, EntryFacts
      <4>. QED  BY <2>1, <4>1 DEF Newest
    <3>6. i \in 1..Len(wal) /\ i \in Live(x, lost) /\ wal[i].op # "torn"
      BY <3>5, WalFacts DEF UpTo, Live
    <3>7. wal[i].op = "delete"
      <4>1. wal[i].op \in {"put", "delete"}
        BY <3>6, WalFacts
      <4>. QED  BY <3>4, <3>5, <3>6, <4>1, EntryOfFacts
    <3>8. i < n /\ n \in Live(x, lost)
      BY <1>33, <2>2, <3>5
    <3>9. PutsLater(lost)
      BY <2>5, <3>6, <3>7, <3>8 DEF PutsLater
    <3>. QED  BY <3>1, <3>2, <3>3, <3>9 DEF Replays, Accs
  <2>6. CASE wal[n].op = "put" /\ ~MemPutFails(acc.mem, x)
    <3>1. PICK r : r = Replay(acc, n)
      OBVIOUS
    <3>2. r = [ok |-> TRUE, mem |-> MemPut(acc.mem, x, n)]
      BY <1>3, <1>5, <2>6, <3>1 DEF Replay
    <3>3. PICK w : w = MemPut(acc.mem, x, n)
      OBVIOUS
    <3>4. /\ w \in Memtables /\ Accounted(w) /\ w.entries[x] = EntryOf(n)
          /\ \A id \in Ids : id # x => w.entries[id] = acc.mem.entries[id]
      BY <1>1, <1>2, <2>6, <3>3, MemPutFacts DEF EntryOf
    <3>5. \A id \in Ids : Newest(w.entries[id], UpTo(id, n, lost))
      <4>1. ASSUME NEW id \in Ids PROVE Newest(w.entries[id], UpTo(id, n, lost))
        <5>1. CASE id = x
          BY <2>3, <3>4, <5>1
        <5>2. CASE id # x
          BY <2>1, <2>4, <3>4, <5>2
        <5>. QED  BY <5>1, <5>2
      <4>. QED  BY <4>1
    <3>. QED  BY <3>1, <3>2, <3>3, <3>4, <3>5 DEF Replays, Accs
  <2>7. CASE wal[n].op = "delete"
    <3>1. PICK r : r = Replay(acc, n)
      OBVIOUS
    <3>2. r = [ok |-> TRUE, mem |-> MemDelete(acc.mem, x)]
      BY <1>3, <1>5, <2>7, <3>1 DEF Replay
    <3>3. PICK w : w = MemDelete(acc.mem, x)
      OBVIOUS
    <3>4. /\ w \in Memtables /\ Accounted(w) /\ w.entries[x] = EntryOf(n)
          /\ \A id \in Ids : id # x => w.entries[id] = acc.mem.entries[id]
      BY <1>1, <2>7, <3>3, MemDeleteFacts DEF EntryOf
    <3>5. \A id \in Ids : Newest(w.entries[id], UpTo(id, n, lost))
      <4>1. ASSUME NEW id \in Ids PROVE Newest(w.entries[id], UpTo(id, n, lost))
        <5>1. CASE id = x
          BY <2>3, <3>4, <5>1
        <5>2. CASE id # x
          BY <2>1, <2>4, <3>4, <5>2
        <5>. QED  BY <5>1, <5>2
      <4>. QED  BY <4>1
    <3>. QED  BY <3>1, <3>2, <3>3, <3>4, <3>5 DEF Replays, Accs
  <2>. QED  BY <1>2, <2>5, <2>6, <2>7
<1>. QED  BY <1>1, <1>4, <1>5

\* A record that is passed over changes nothing.
RecoverOne(acc, n, lost) == IF n \in lost \cup Torn THEN acc ELSE Replay(acc, n)

LEMMA RecoverStep ==
    ASSUME WalTyped, NEW n \in 1..Len(wal), NEW lost, NEW acc, Replays(acc, n - 1, lost)
    PROVE  Replays(RecoverOne(acc, n, lost), n, lost)
<1>1. CASE n \notin lost \cup Torn
  BY <1>1, ReplayStep DEF RecoverOne
<1>2. CASE n \in lost \cup Torn
  <2>1. ASSUME NEW id \in Ids PROVE UpTo(id, n, lost) = UpTo(id, n - 1, lost)
    <3>1. n \notin Live(id, lost)
      BY <1>2 DEF Live, Torn
    <3>. QED  BY <3>1, UpToStep
  <2>2. RecoverOne(acc, n, lost) = acc
    BY <1>2 DEF RecoverOne
  <2>. QED  BY <2>1, <2>2 DEF Replays
<1>. QED  BY <1>1, <1>2

\* The function recovery computes exists: the shortest log it would not exist
\* for is longer by one record than one it exists for.
LEMMA SomeReplay ==
    ASSUME WalTyped, NEW lost
    PROVE  \E f : f = [n \in 0..Len(wal) |-> IF n = 0 THEN Start ELSE RecoverOne(f[n - 1], n, lost)]
<1>0. Len(wal) \in Nat
  BY WalFacts
<1>. DEFINE Solves(f, m) ==
                f = [n \in 0..m |-> IF n = 0 THEN Start ELSE RecoverOne(f[n - 1], n, lost)]
            Bad == {m \in 0..Len(wal) : ~ \E f : Solves(f, m)}
<1>1. Bad = {}
  <2>. SUFFICES ASSUME Bad # {} PROVE FALSE
    OBVIOUS
  <2>1. Bad \in SUBSET Nat
    BY <1>0
  <2>2. PICK m \in Bad : \A k \in Bad : m <= k
    BY <2>1, SmallestOf
  <2>3. m # 0
    <3>. DEFINE h == [n \in 0..0 |-> Start]
    <3>1. \A n \in 0..0 : n = 0 /\ h[n] = Start
      OBVIOUS
    <3>2. h = [n \in 0..0 |-> IF n = 0 THEN Start ELSE RecoverOne(h[n - 1], n, lost)]
      BY <3>1
    <3>3. Solves(h, 0)
      BY <3>2
    <3>. QED  BY <3>3
  <2>4. m \in Nat /\ m \in 1..Len(wal) /\ m - 1 \in 0..Len(wal) /\ ~(m <= m - 1)
    BY <1>0, <2>3
  <2>5. PICK f : Solves(f, m - 1)
    BY <2>2, <2>4
  <2>6. \A n \in 0..(m - 1) : f[n] = IF n = 0 THEN Start ELSE RecoverOne(f[n - 1], n, lost)
    BY <2>5
  <2>. DEFINE h == [n \in 0..m |-> IF n = m THEN RecoverOne(f[m - 1], m, lost) ELSE f[n]]
  <2>7. ASSUME NEW n \in 0..m
        PROVE  h[n] = IF n = 0 THEN Start ELSE RecoverOne(h[n - 1], n, lost)
    <3>1. CASE n = m
      <4>1. n # 0 /\ n - 1 \in 0..m /\ n - 1 # m
        BY <2>4, <3>1
      <4>2. h[n - 1] = f[m - 1] /\ h[n] = RecoverOne(f[m - 1], m, lost)
        BY <3>1, <4>1
      <4>. HIDE DEF h
      <4>. QED  BY <3>1, <4>1, <4>2
    <3>2. CASE n # m
      <4>1. n \in 0..(m - 1)
        BY <2>4, <3>2
      <4>2. h[n] = f[n]
        BY <3>2
      <4>3. CASE n = 0
        <5>. HIDE DEF h
        <5>. QED  BY <2>6, <4>1, <4>2, <4>3
      <4>4. CASE n # 0
        <5>1. n - 1 \in 0..m /\ n - 1 # m
          BY <2>4, <4>1, <4>4
        <5>2. h[n - 1] = f[n - 1]
          BY <5>1
        <5>. HIDE DEF h
        <5>. QED  BY <2>6, <4>1, <4>2, <4>4, <5>2
      <4>. QED  BY <4>3, <4>4
    <3>. QED  BY <3>1, <3>2
  <2>8. h = [n \in 0..m |-> h[n]]
    OBVIOUS
  <2>. HIDE DEF h
  <2>9. h = [n \in 0..m |-> IF n = 0 THEN Start ELSE RecoverOne(h[n - 1], n, lost)]
    BY <2>7, <2>8
  <2>10. \E g : Solves(g, m)
    BY <2>9
  <2>. HIDE DEF Solves
  <2>. QED  BY <2>2, <2>10
<1>2. Len(wal) \in 0..Len(wal)
  BY <1>0
<1>. HIDE DEF Solves
<1>3. \E f : Solves(f, Len(wal))
  BY <1>1, <1>2
<1>. QED  BY <1>3 DEF Solves

\* Recovery gives every id its last record, or fails on a put after a delete.
LEMMA RecoveredFacts ==
    ASSUME WalTyped, NEW lost
    PROVE  Replays(Recovered(lost), Len(wal), lost)
<1>0. Len(wal) \in Nat
  BY WalFacts
<1>. DEFINE upTo[n \in 0..Len(wal)] ==
                IF n = 0 THEN Start
                ELSE IF n \in lost \cup Torn THEN upTo[n - 1]
                ELSE Replay(upTo[n - 1], n)
<1>1. Recovered(lost) = upTo[Len(wal)]
  BY DEF Recovered, Start
<1>2. \E f : f = [n \in 0..Len(wal) |-> IF n = 0 THEN Start ELSE RecoverOne(f[n - 1], n, lost)]
  BY SomeReplay
<1>22. \E f : f = [n \in 0..Len(wal) |->
                       IF n = 0 THEN Start
                       ELSE IF n \in lost \cup Torn THEN f[n - 1]
                       ELSE Replay(f[n - 1], n)]
  BY <1>2 DEF RecoverOne
<1>3. upTo = [n \in 0..Len(wal) |->
                IF n = 0 THEN Start
                ELSE IF n \in lost \cup Torn THEN upTo[n - 1]
                ELSE Replay(upTo[n - 1], n)]
  BY <1>22
<1>. HIDE DEF upTo
<1>. DEFINE Bad == {n \in 0..Len(wal) : ~Replays(upTo[n], n, lost)}
<1>4. Bad = {}
  <2>. SUFFICES ASSUME Bad # {} PROVE FALSE
    OBVIOUS
  <2>1. Bad \in SUBSET Nat
    BY <1>0
  <2>2. PICK n \in Bad : \A k \in Bad : n <= k
    BY <2>1, SmallestOf
  <2>3. upTo[0] = Start
    BY <1>0, <1>3
  <2>4. n # 0
    BY <2>2, <2>3, ReplayStart
  <2>5. n \in 1..Len(wal) /\ n - 1 \in 0..Len(wal) /\ ~(n <= n - 1)
    BY <1>0, <2>4
  <2>6. Replays(upTo[n - 1], n - 1, lost)
    BY <2>2, <2>5
  <2>7. upTo[n] = RecoverOne(upTo[n - 1], n, lost)
    BY <1>3, <2>4, <2>5 DEF RecoverOne
  <2>. QED  BY <2>2, <2>5, <2>6, <2>7, RecoverStep
<1>5. Len(wal) \in 0..Len(wal)
  BY <1>0
<1>. QED  BY <1>1, <1>4, <1>5
-----------------------------------------------------------------------------
(* Sorted tables                                                             *)

LEMMA LevelFacts ==
    /\ Levels \in SUBSET Nat /\ 0 \in Levels
    /\ \A l \in Levels : l < MaxLevel => l + 1 \in Levels \ {0}
BY EngineAssumption DEF Levels

LEMMA TabFacts ==
    ASSUME NEW d, TabInv(d), NEW l \in Levels
    PROVE  /\ d[l] \in Seq(Tables) /\ Len(d[l]) \in Nat /\ DOMAIN d[l] = 1..Len(d[l])
           /\ \A k \in 1..Len(d[l]) : d[l][k] \in Tables /\ TableLogged(d[l][k])
<1>1. d[l] \in Seq(Tables)
  BY DEF TabInv
<1>. QED  BY <1>1, LenProperties, ElementOfSeq DEF TabInv

\* A table more.
LEMMA TabAppend ==
    ASSUME NEW d, TabInv(d), NEW l \in Levels, NEW s \in Tables, TableLogged(s),
           NEW x, x = [d EXCEPT ![l] = Append(d[l], s)]
    PROVE  TabInv(x)
<1>1. d[l] \in Seq(Tables) /\ d \in [Levels -> Seq(Tables)]
  BY TabFacts DEF TabInv
<1>2. /\ Append(d[l], s) \in Seq(Tables) /\ Len(Append(d[l], s)) = Len(d[l]) + 1
      /\ Append(d[l], s)[Len(d[l]) + 1] = s /\ Len(d[l]) \in Nat
      /\ \A k \in 1..Len(d[l]) : Append(d[l], s)[k] = d[l][k]
  BY <1>1, Longer
<1>3. /\ x \in [Levels -> Seq(Tables)] /\ x[l] = Append(d[l], s)
      /\ \A m \in Levels : m # l => x[m] = d[m]
  BY <1>1, <1>2
<1>4. ASSUME NEW m \in Levels, NEW k \in 1..Len(x[m]) PROVE TableLogged(x[m][k])
  <2>1. CASE m # l
    BY <1>3, <2>1, TabFacts
  <2>2. CASE m = l /\ k = Len(d[l]) + 1
    BY <1>2, <1>3, <2>2
  <2>3. CASE m = l /\ k # Len(d[l]) + 1
    <3>1. k \in 1..Len(d[l])
      BY <1>2, <1>3, <2>3
    <3>. QED  BY <1>2, <1>3, <2>3, <3>1, TabFacts
  <2>. QED  BY <2>1, <2>2, <2>3
<1>. QED  BY <1>3, <1>4 DEF TabInv

\* The oldest tables leave the list.
LEMMA TabDrop ==
    ASSUME NEW d, TabInv(d), NEW l \in Levels, NEW n \in Nat, n <= Len(d[l]),
           NEW x, x = [d EXCEPT ![l] = SubSeq(d[l], n + 1, Len(d[l]))]
    PROVE  TabInv(x)
<1>1. d[l] \in Seq(Tables) /\ d \in [Levels -> Seq(Tables)] /\ Len(d[l]) \in Nat
  BY TabFacts DEF TabInv
<1>2. PICK q : q = SubSeq(d[l], n + 1, Len(d[l]))
  OBVIOUS
<1>3. /\ q \in Seq(Tables) /\ Len(q) = Len(d[l]) - n
      /\ \A k \in 1..(Len(d[l]) - n) : q[k] = d[l][k + n]
  BY <1>1, <1>2, WithoutN
<1>4. /\ x \in [Levels -> Seq(Tables)] /\ x[l] = q
      /\ \A m \in Levels : m # l => x[m] = d[m]
  BY <1>1, <1>2, <1>3
<1>5. ASSUME NEW m \in Levels, NEW k \in 1..Len(x[m]) PROVE TableLogged(x[m][k])
  <2>1. CASE m # l
    BY <1>4, <2>1, TabFacts
  <2>2. CASE m = l
    <3>1. k + n \in 1..Len(d[l]) /\ k \in 1..(Len(d[l]) - n)
      BY <1>1, <1>3, <1>4, <2>2
    <3>. QED  BY <1>3, <1>4, <2>2, <3>1, TabFacts
  <2>. QED  BY <2>1, <2>2
<1>. QED  BY <1>4, <1>5 DEF TabInv

\* What a flush writes was logged.
LEMMA TableOfFacts ==
    ASSUME NEW m \in Memtables, MemLogged(m)
    PROVE  /\ TableOf(m) \in Tables /\ TableLogged(TableOf(m))
           /\ \A id \in Ids : TableOf(m)[id] = m.entries[id].v
<1>1. \A id \in Ids : m.entries[id].v \in 0..MaxRecords
  <2>1. m.entries \in [Ids -> MemEntries]
    BY MemFacts
  <2>. QED  BY <2>1, EntryFacts
<1>2. \A id \in Ids : TableOf(m)[id] = m.entries[id].v
  BY DEF TableOf
<1>3. TableOf(m) \in Tables
  BY <1>1 DEF TableOf, Tables
<1>. QED  BY <1>2, <1>3 DEF TableLogged, MemLogged

\* A merge takes the last vector of each id.
LEMMA MergeFacts ==
    ASSUME NEW q \in Seq(Tables)
    PROVE  /\ Merge(q) \in Tables
           /\ \A id \in Ids :
                 \/ Merge(q)[id] = Nil /\ \A k \in 1..Len(q) : q[k][id] = Nil
                 \/ \E k \in 1..Len(q) :
                       /\ q[k][id] # Nil /\ Merge(q)[id] = q[k][id]
                       /\ \A j \in 1..Len(q) : q[j][id] # Nil => j <= k
<1>1. Len(q) \in Nat /\ DOMAIN q = 1..Len(q) /\ \A k \in 1..Len(q) : q[k] \in Tables
  BY LenProperties, ElementOfSeq
<1>2. ASSUME NEW id \in Ids
      PROVE  /\ Merge(q)[id] \in 0..MaxRecords
             /\ \/ Merge(q)[id] = Nil /\ \A k \in 1..Len(q) : q[k][id] = Nil
                \/ \E k \in 1..Len(q) :
                       /\ q[k][id] # Nil /\ Merge(q)[id] = q[k][id]
                       /\ \A j \in 1..Len(q) : q[j][id] # Nil => j <= k
  <2>. DEFINE H == {k \in DOMAIN q : q[k][id] # Nil}
  <2>1. Merge(q)[id] = IF H = {} THEN Nil ELSE q[Max(H)][id]
    BY DEF Merge
  <2>2. CASE H = {}
    BY <1>1, <2>1, <2>2, EngineAssumption DEF Nil
  <2>3. CASE H # {}
    <3>1. H \in SUBSET Nat /\ \A k \in H : k <= Len(q)
      BY <1>1
    <3>2. Max(H) \in H /\ \A j \in H : j <= Max(H)
      BY <1>1, <2>3, <3>1, LargestOf
    <3>3. PICK k : k = Max(H)
      OBVIOUS
    <3>4. k \in 1..Len(q) /\ q[k][id] # Nil
      BY <1>1, <3>2, <3>3
    <3>5. \A j \in 1..Len(q) : q[j][id] # Nil => j <= k
      BY <1>1, <3>2, <3>3
    <3>6. Merge(q)[id] = q[k][id]
      BY <2>1, <2>3, <3>3
    <3>7. q[k][id] \in 0..MaxRecords
      BY <1>1, <3>4 DEF Tables
    <3>. QED  BY <3>4, <3>5, <3>6, <3>7
  <2>. QED  BY <2>2, <2>3
<1>3. Merge(q) \in Tables
  <2>1. Merge(q) = [id \in Ids |-> Merge(q)[id]]
    BY DEF Merge
  <2>2. \A id \in Ids : Merge(q)[id] \in 0..MaxRecords
    BY <1>2
  <2>. QED  BY <2>1, <2>2 DEF Tables
<1>. QED  BY <1>2, <1>3

LEMMA MergeLogged ==
    ASSUME NEW q \in Seq(Tables), \A k \in 1..Len(q) : TableLogged(q[k])
    PROVE  TableLogged(Merge(q))
<1>1. ASSUME NEW id \in Ids, Merge(q)[id] # Nil PROVE IsPut(Merge(q)[id], id)
  <2>1. PICK k \in 1..Len(q) : q[k][id] # Nil /\ Merge(q)[id] = q[k][id]
    BY <1>1, MergeFacts
  <2>. QED  BY <2>1 DEF TableLogged
<1>. QED  BY <1>1 DEF TableLogged

\* The places of tables are finitely many.
LEMMA PlacesFacts ==
    ASSUME NEW d, TabInv(d)
    PROVE  /\ Places(d) = {p \in Levels \X Nat : p[2] \in 1..Len(d[p[1]])}
           /\ IsFiniteSet(Places(d))
<1>1. \A l \in Levels : DOMAIN d[l] = 1..Len(d[l]) /\ Len(d[l]) \in Nat
  BY TabFacts
<1>2. Places(d) = {p \in Levels \X Nat : p[2] \in 1..Len(d[p[1]])}
  <2>1. ASSUME NEW p \in Places(d) PROVE p \in Levels \X Nat /\ p[2] \in 1..Len(d[p[1]])
    <3>1. PICK l \in Levels : p \in {l} \X DOMAIN d[l]
      BY DEF Places
    <3>. QED  BY <1>1, <3>1
  <2>2. ASSUME NEW p \in Levels \X Nat, p[2] \in 1..Len(d[p[1]]) PROVE p \in Places(d)
    <3>1. p[1] \in Levels /\ p \in {p[1]} \X DOMAIN d[p[1]]
      BY <1>1, <2>2
    <3>. QED  BY <3>1 DEF Places
  <2>. QED  BY <2>1, <2>2
<1>. DEFINE rows == {{l} \X DOMAIN d[l] : l \in Levels}
            f == [l \in Levels |-> {l} \X DOMAIN d[l]]
<1>3. IsFiniteSet(rows)
  <2>1. IsFiniteSet(Levels)
    BY EngineAssumption, FS_Interval DEF Levels
  <2>2. f \in Surjection(Levels, rows)
    BY DEF Surjection
  <2>. QED  BY <2>1, <2>2, FS_Surjection
<1>4. ASSUME NEW R \in rows PROVE IsFiniteSet(R)
  <2>1. PICK l \in Levels : R = {l} \X DOMAIN d[l]
    OBVIOUS
  <2>2. IsFiniteSet({l}) /\ IsFiniteSet(DOMAIN d[l])
    <3>1. IsFiniteSet({l})
      BY FS_Singleton
    <3>2. IsFiniteSet(1..Len(d[l]))
      BY <1>1, FS_Interval
    <3>. QED  BY <1>1, <3>1, <3>2
  <2>. QED  BY <2>1, <2>2, FS_Product
<1>5. IsFiniteSet(UNION rows)
  BY <1>3, <1>4, FS_UNION
<1>6. Places(d) = UNION rows
  BY DEF Places
<1>. QED  BY <1>2, <1>5, <1>6

LEMMA EntriesCounted == TabInv(disk) => Entries \in Nat
<1>. SUFFICES ASSUME TabInv(disk) PROVE Entries \in Nat
  OBVIOUS
<1>. DEFINE E == {e \in Places(disk) \X Ids : disk[e[1][1]][e[1][2]][e[2]] # Nil}
<1>1. IsFiniteSet(Places(disk) \X Ids)
  BY PlacesFacts, EngineAssumption, FS_Product
<1>2. IsFiniteSet(E)
  BY <1>1, FS_Subset
<1>. QED  BY <1>2, FS_CardinalityType DEF Entries
-----------------------------------------------------------------------------
(* Every step keeps the types, and nothing appears that was not logged       *)

\* A record more in the log, of which the log's reader may lose only the new one.
LEMMA LogGrows ==
    ASSUME WalTyped, NEW r \in Records, wal' = Append(wal, r), Len(wal) < MaxRecords,
           unseen \subseteq 1..Len(wal), unseen' \subseteq unseen \cup {Len(wal) + 1}
    PROVE  /\ WalTyped' /\ Len(wal') = Len(wal) + 1 /\ wal'[Len(wal) + 1] = r
           /\ \A i \in 1..Len(wal) : wal'[i] = wal[i]
           /\ \A v, id : IsPut(v, id) => IsPut(v, id)'
<1>1. /\ wal \in Seq(Records) /\ Len(wal) \in Nat /\ MaxRecords \in Nat
      /\ DOMAIN wal = 1..Len(wal)
  BY WalFacts, EngineAssumption DEF WalTyped
<1>2. /\ wal' \in Seq(Records) /\ Len(wal') = Len(wal) + 1 /\ wal'[Len(wal) + 1] = r
      /\ DOMAIN wal' = 1..(Len(wal) + 1)
      /\ \A i \in 1..Len(wal) : wal'[i] = wal[i]
  BY <1>1, Longer
<1>3. WalTyped'
  BY <1>1, <1>2 DEF WalTyped
<1>4. ASSUME NEW v, NEW id, IsPut(v, id) PROVE IsPut(v, id)'
  <2>1. v \in 1..Len(wal) /\ v \in 1..Len(wal') /\ wal'[v] = wal[v] /\ v # Len(wal) + 1
    BY <1>1, <1>2, <1>4 DEF IsPut
  <2>2. BehindTorn(v) => BehindTorn(v)'
    <3>1. ASSUME NEW j \in Torn, j < v PROVE j \in Torn'
      <4>1. j \in 1..Len(wal) /\ wal[j].op = "torn"
        BY <1>1 DEF Torn
      <4>. QED  BY <1>1, <1>2, <4>1 DEF Torn
    <3>. QED  BY <3>1 DEF BehindTorn
  <2>. QED  BY <1>4, <2>1, <2>2 DEF IsPut
<1>. QED  BY <1>2, <1>3, <1>4

\* What was logged stays logged: nothing that holds only logged vectors is disturbed.
LEMMA StillLogged ==
    ASSUME \A v, id : IsPut(v, id) => IsPut(v, id)'
    PROVE  /\ UNCHANGED heap /\ MemInv => MemInv'
           /\ UNCHANGED disk /\ TabInv(disk) => TabInv(disk)'
           /\ UNCHANGED levels /\ TabInv(levels) => TabInv(levels)'
           /\ UNCHANGED loaded /\ LoadInv => LoadInv'
<1>1. UNCHANGED heap /\ MemInv => MemInv'
  <2>. SUFFICES ASSUME UNCHANGED heap, MemInv PROVE MemInv'
    OBVIOUS
  <2>1. ASSUME NEW k \in 1..Len(heap) PROVE Accounted(heap[k])' /\ MemLogged(heap[k])'
    <3>1. PICK m : m = heap[k]
      OBVIOUS
    <3>2. Accounted(m) /\ MemLogged(m) /\ heap'[k] = m
      BY <3>1 DEF MemInv
    <3>3. \A i \in Ids : m.entries[i].v # Nil => IsPut(m.entries[i].v, i)'
      BY <3>2 DEF MemLogged
    <3>4. Accounted(heap[k])'
      BY <3>2 DEF Accounted, Puts
    <3>. QED  BY <3>2, <3>3, <3>4 DEF MemLogged
  <2>. QED  BY <2>1 DEF MemInv
<1>2. ASSUME NEW d, TabInv(d)
      PROVE  /\ d \in [Levels -> Seq(Tables)]
             /\ \A l \in Levels : \A k \in 1..Len(d[l]) :
                   \A i \in Ids : d[l][k][i] # Nil => IsPut(d[l][k][i], i)'
  BY <1>2 DEF TabInv, TableLogged
<1>3. UNCHANGED disk /\ TabInv(disk) => TabInv(disk)'
  <2>. SUFFICES ASSUME UNCHANGED disk, TabInv(disk) PROVE TabInv(disk)'
    OBVIOUS
  <2>1. PICK d : d = disk
    OBVIOUS
  <2>2. disk' = d /\ TabInv(d)
    BY <2>1
  <2>. QED  BY <1>2, <2>2 DEF TabInv, TableLogged
<1>4. UNCHANGED levels /\ TabInv(levels) => TabInv(levels)'
  <2>. SUFFICES ASSUME UNCHANGED levels, TabInv(levels) PROVE TabInv(levels)'
    OBVIOUS
  <2>1. PICK d : d = levels
    OBVIOUS
  <2>2. levels' = d /\ TabInv(d)
    BY <2>1
  <2>. QED  BY <1>2, <2>2 DEF TabInv, TableLogged
<1>5. UNCHANGED loaded /\ LoadInv => LoadInv'
  <2>. SUFFICES ASSUME UNCHANGED loaded, LoadInv PROVE LoadInv'
    OBVIOUS
  <2>1. ASSUME NEW t \in Threads PROVE TabInv(loaded[t])'
    <3>1. PICK d : d = loaded[t]
      OBVIOUS
    <3>2. loaded'[t] = d /\ TabInv(d)
      BY <3>1 DEF LoadInv
    <3>. QED  BY <1>2, <3>2 DEF TabInv, TableLogged
  <2>. QED  BY <2>1 DEF LoadInv
<1>. QED  BY <1>1, <1>3, <1>4, <1>5

\* What is unchanged stays right.
LEMMA SameLog ==
    ASSUME UNCHANGED <<wal, unseen>>
    PROVE  /\ WalTyped => WalTyped'
           /\ \A v, id : IsPut(v, id) => IsPut(v, id)'
           /\ UNCHANGED heap /\ MemInv => MemInv'
           /\ UNCHANGED disk /\ TabInv(disk) => TabInv(disk)'
           /\ UNCHANGED levels /\ TabInv(levels) => TabInv(levels)'
           /\ UNCHANGED loaded /\ LoadInv => LoadInv'
           /\ (up' = up \/ up' # "failed") /\ RecoverySucceeds => RecoverySucceeds'
<1>1. WalTyped => WalTyped'
  BY DEF WalTyped
<1>2. \A v, id : IsPut(v, id) => IsPut(v, id)'
  BY DEF IsPut, BehindTorn, Torn
<1>6. (up' = up \/ up' # "failed") /\ RecoverySucceeds => RecoverySucceeds'
  BY DEF RecoverySucceeds, PutAfterDelete, PositionsOf, Damaged, Torn
<1>. QED  BY <1>1, <1>2, <1>6, StillLogged

\* A memtable changes.
LEMMA MemChange ==
    ASSUME MemInv, NEW k \in 1..Len(heap), NEW m \in Memtables, Accounted(m), MemLogged(m),
           UNCHANGED <<wal, unseen>>, heap' = [heap EXCEPT ![k] = m]
    PROVE  MemInv' /\ Len(heap') = Len(heap)
<1>1. /\ heap' \in Seq(Memtables) /\ Len(heap') = Len(heap) /\ heap'[k] = m
      /\ \A j \in 1..Len(heap) : j # k => heap'[j] = heap[j]
  BY Replaced DEF MemInv
<1>2. ASSUME NEW j \in 1..Len(heap') PROVE Accounted(heap'[j]) /\ MemLogged(heap'[j])
  BY <1>1 DEF MemInv
<1>3. ASSUME NEW j \in 1..Len(heap') PROVE (Accounted(heap[j]) /\ MemLogged(heap[j]))'
  BY <1>2 DEF Accounted, Puts, MemLogged, IsPut, BehindTorn, Torn
<1>. QED  BY <1>1, <1>3 DEF MemInv

\* Only one memtable is there.
LEMMA MemSingle ==
    ASSUME NEW m \in Memtables, Accounted(m), heap' = <<m>>,
           \A id \in Ids : m.entries[id].v # Nil => IsPut(m.entries[id].v, id)'
    PROVE  MemInv' /\ Len(heap') = 1 /\ heap'[1] = m
<1>1. heap' \in Seq(Memtables) /\ Len(heap') = 1 /\ heap'[1] = m
  OBVIOUS
<1>2. \A k \in 1..Len(heap') : heap'[k] = m
  BY <1>1
<1>3. ASSUME NEW k \in 1..Len(heap') PROVE (Accounted(heap[k]) /\ MemLogged(heap[k]))'
  BY <1>2 DEF Accounted, Puts, MemLogged
<1>. QED  BY <1>1, <1>3 DEF MemInv

LEMMA MemInvFacts ==
    ASSUME MemInv
    PROVE  /\ Len(heap) \in Nat /\ DOMAIN heap = 1..Len(heap)
           /\ \A k \in 1..Len(heap) : heap[k] \in Memtables /\ Accounted(heap[k]) /\ MemLogged(heap[k])
BY LenProperties, ElementOfSeq DEF MemInv

LEMMA EmptyLogged == MemLogged(EmptyMem)
BY EmptyFacts, EntryFacts DEF MemLogged

LEMMA NoTablesFacts ==
    /\ TabInv(NoTables) /\ \A l \in Levels : NoTables[l] = <<>>
    /\ NoTables \in [Levels -> Seq(Tables)] /\ \A l \in Levels : 1..Len(NoTables[l]) = {}
<1>1. NoTables \in [Levels -> Seq(Tables)] /\ \A l \in Levels : NoTables[l] = <<>>
  BY DEF NoTables
<1>2. \A l \in Levels : 1..Len(NoTables[l]) = {}
  BY <1>1
<1>. QED  BY <1>1, <1>2 DEF TabInv

LEMMA TypesInit == Init => EngineInv
<1>. SUFFICES ASSUME Init PROVE EngineInv
  OBVIOUS
<1>1. wal = <<>> /\ up = "closed" /\ heap = <<EmptyMem>>
  BY DEF Init
<1>2. WalTyped
  BY <1>1, EngineAssumption DEF WalTyped
<1>3. MemInv
  <2>1. heap \in Seq(Memtables) /\ Len(heap) = 1 /\ heap[1] = EmptyMem
    BY <1>1, EmptyFacts
  <2>2. \A k \in 1..Len(heap) : heap[k] = EmptyMem
    BY <2>1
  <2>. QED  BY <2>1, <2>2, EmptyFacts, EmptyLogged DEF MemInv
<1>4. TabInv(disk) /\ TabInv(levels)
  BY NoTablesFacts DEF Init
<1>44. LoadInv
  <2>1. loaded = [t \in Threads |-> NoTables]
    BY DEF Init
  <2>. QED  BY <2>1, NoTablesFacts DEF LoadInv, TabInv
<1>5. CallInv
  <2>1. call \in [Threads -> 0..MaxRecords]
    BY EngineAssumption DEF Init
  <2>. QED  BY <2>1 DEF Init, CallInv, Writing
<1>6. FlagInv
  BY DEF Init, FlagInv
<1>7. Fresh /\ RecoverySucceeds
  BY DEF Init, Fresh, RecoverySucceeds
<1>. QED  BY <1>2, <1>3, <1>4, <1>44, <1>5, <1>6, <1>7, RotationInit DEF EngineInv

\* What follows for the active memtable and for what waits to be flushed.
LEMMA ActiveFacts ==
    ASSUME RotationInv, MemInv
    PROVE  /\ memtable = Len(heap) /\ memtable \in 1..Len(heap) /\ heap[memtable] \in Memtables
           /\ Accounted(heap[memtable]) /\ MemLogged(heap[memtable])
           /\ task # <<>> => /\ Head(task) \in 1..Len(heap) /\ Head(task) < memtable
                             /\ Head(task) \in Retired
<1>1. memtable = Len(heap) /\ memtable \in 1..Len(heap)
  BY MemInvFacts DEF RotationInv, Numbered
<1>2. ASSUME task # <<>>
      PROVE Head(task) \in 1..Len(heap) /\ Head(task) < memtable /\ Head(task) \in Retired
  <2>1. task \in Seq(Nat)
    BY DEF RotationInv, Typed
  <2>2. Head(task) = task[1] /\ 1 \in DOMAIN task
    BY <1>2, <2>1
  <2>3. Head(task) \in Retired
    BY <2>2 DEF Retired, ToSet
  <2>. QED  BY <1>1, <2>3 DEF RotationInv, Behind
<1>. QED  BY <1>1, <1>2, MemInvFacts

\* A thread goes on with its call, or begins one that writes nothing.
LEMMA CallMoves ==
    ASSUME CallInv, pc \in [Threads -> Steps], UNCHANGED <<wal, call, unseen>>,
           NEW t \in Threads, NEW s, pc' = [pc EXCEPT ![t] = s],
           s \in Writing => pc[t] \in Writing
    PROVE  CallInv'
<1>1. ASSUME NEW u \in Threads, pc'[u] \in Writing PROVE InSight(call[u])
  <2>1. pc[u] \in Writing
    BY <1>1
  <2>. QED  BY <2>1 DEF CallInv
<1>. QED  BY <1>1 DEF CallInv, InSight

LEMMA CallSame ==
    ASSUME CallInv, UNCHANGED <<wal, call, pc, unseen>>
    PROVE  CallInv'
BY DEF CallInv, InSight

\* A call that returns.
LEMMA Returned ==
    ASSUME CallInv, FlagInv, WalTyped, NEW t \in Threads, pc[t] \in Writing,
           acked' = acked \cup {call[t]}, UNCHANGED wal,
           vector_count' = IF wal[call[t]].op = "put" THEN vector_count + 1 ELSE vector_count
    PROVE  acked' \subseteq 1..Len(wal') /\ vector_count' \in Nat
<1>1. call[t] \in 1..Len(wal)
  BY DEF CallInv, InSight
<1>2. vector_count \in Nat /\ acked \subseteq 1..Len(wal)
  BY DEF FlagInv
<1>3. acked' \subseteq 1..Len(wal')
  <2>1. acked' \subseteq 1..Len(wal) /\ wal' = wal
    BY <1>1, <1>2
  <2>. QED  BY <2>1
<1>4. vector_count' = vector_count + 1 \/ vector_count' = vector_count
  OBVIOUS
<1>. QED  BY <1>2, <1>3, <1>4

\* What an opening finds.
LEMMA OpenFacts ==
    ASSUME EngineInv, Open
    PROVE  \E lost, m :
              /\ lost \in SUBSET (1..Len(wal)) /\ \A j \in lost : BehindTorn(j)
              /\ unseen' = lost
              /\ \/ /\ up' = "open" /\ heap' = <<m>> /\ levels' = disk /\ vector_count' = Entries
                    /\ m \in Memtables /\ Accounted(m)
                    /\ \A id \in Ids : Newest(m.entries[id], Live(id, lost))
                 \/ /\ up' = "failed" /\ UNCHANGED <<heap, levels, vector_count>>
                    /\ PutsLater(lost)
<1>0. WalTyped /\ Len(wal) \in Nat /\ DOMAIN wal = 1..Len(wal)
  BY WalFacts DEF EngineInv
<1>1. \E lost \in Losses :
         /\ unseen' = lost
         /\ IF Recovered(lost).ok
            THEN /\ up' = "open" /\ heap' = <<Recovered(lost).mem>>
                 /\ levels' = disk /\ vector_count' = Entries
            ELSE up' = "failed" /\ UNCHANGED <<heap, levels, vector_count>>
  BY DEF Open
<1>2. PICK lost \in Losses :
         /\ unseen' = lost
         /\ IF Recovered(lost).ok
            THEN /\ up' = "open" /\ heap' = <<Recovered(lost).mem>>
                 /\ levels' = disk /\ vector_count' = Entries
            ELSE up' = "failed" /\ UNCHANGED <<heap, levels, vector_count>>
  BY <1>1
<1>3. lost \in SUBSET (1..Len(wal)) /\ \A j \in lost : BehindTorn(j)
  BY <1>0, <1>2 DEF Losses, BehindTorn
<1>4. PICK acc : acc = Recovered(lost)
  OBVIOUS
<1>5. Replays(acc, Len(wal), lost)
  BY <1>0, <1>4, RecoveredFacts
<1>6. \A id \in Ids : UpTo(id, Len(wal), lost) = Live(id, lost)
  BY <1>0 DEF UpTo, Live
<1>7. acc.mem \in Memtables /\ Accounted(acc.mem) /\ acc.ok \in BOOLEAN
  BY <1>5 DEF Replays, Accs
<1>8. CASE acc.ok
  <2>1. \A id \in Ids : Newest(acc.mem.entries[id], Live(id, lost))
    BY <1>5, <1>6, <1>8 DEF Replays
  <2>2. up' = "open" /\ heap' = <<acc.mem>> /\ levels' = disk /\ vector_count' = Entries /\ unseen' = lost
    BY <1>2, <1>4, <1>8
  <2>. QED  BY <1>3, <1>7, <2>1, <2>2
<1>9. CASE ~acc.ok
  <2>1. PutsLater(lost)
    BY <1>5, <1>9 DEF Replays
  <2>2. up' = "failed" /\ UNCHANGED <<heap, levels, vector_count>> /\ unseen' = lost
    BY <1>2, <1>4, <1>9
  <2>. QED  BY <1>3, <2>1, <2>2
<1>. QED  BY <1>7, <1>8, <1>9

LEMMA TypesOpen ==
    ASSUME EngineInv, Open
    PROVE  /\ WalTyped' /\ MemInv' /\ TabInv(disk)' /\ TabInv(levels)' /\ LoadInv'
           /\ CallInv' /\ FlagInv' /\ Fresh' /\ RecoverySucceeds'
<1>0. /\ WalTyped /\ MemInv /\ TabInv(disk) /\ TabInv(levels) /\ LoadInv /\ FlagInv /\ Fresh
      /\ CallInv /\ RotationInv
  BY DEF EngineInv
<1>1. /\ UNCHANGED <<wal, flush_handle, flush_lock, disk, loaded, pc, call, acked, flushed, dropped, skipped>>
      /\ up = "closed"
  BY DEF Open
<1>2. PICK lost, m :
              /\ lost \in SUBSET (1..Len(wal)) /\ \A j \in lost : BehindTorn(j)
              /\ unseen' = lost
              /\ \/ /\ up' = "open" /\ heap' = <<m>> /\ levels' = disk /\ vector_count' = Entries
                    /\ m \in Memtables /\ Accounted(m)
                    /\ \A id \in Ids : Newest(m.entries[id], Live(id, lost))
                 \/ /\ up' = "failed" /\ UNCHANGED <<heap, levels, vector_count>>
                    /\ PutsLater(lost)
  BY OpenFacts
<1>3. flushed = {} /\ dropped = {} /\ \A t \in Threads : pc[t] = "idle"
  BY <1>0, <1>1 DEF Fresh, RotationInv, Asleep
<1>4. \A v, id : IsPut(v, id) => IsPut(v, id)'
  <2>1. ASSUME NEW v, NEW id, IsPut(v, id) PROVE IsPut(v, id)'
    <3>1. BehindTorn(v) => BehindTorn(v)'
      BY <1>1 DEF BehindTorn, Torn
    <3>. QED  BY <1>1, <1>2, <2>1, <3>1 DEF IsPut
  <2>. QED  BY <2>1
<1>5. WalTyped' /\ TabInv(disk)' /\ LoadInv'
  <2>1. WalTyped'
    BY <1>0, <1>1 DEF WalTyped
  <2>. QED  BY <1>0, <1>1, <1>4, <2>1, StillLogged
<1>6. CallInv'
  BY <1>0, <1>1, <1>3 DEF CallInv, Writing
<1>7. unseen' \subseteq 1..Len(wal')
  BY <1>1, <1>2
<1>8. CASE /\ up' = "open" /\ heap' = <<m>> /\ levels' = disk /\ vector_count' = Entries
           /\ m \in Memtables /\ Accounted(m)
           /\ \A id \in Ids : Newest(m.entries[id], Live(id, lost))
  <2>1. ASSUME NEW id \in Ids, m.entries[id].v # Nil
        PROVE  IsPut(m.entries[id].v, id)'
    <3>1. PICK e : e = m.entries[id]
      OBVIOUS
    <3>2. e.v \in Live(id, lost) /\ wal[e.v].op = "put"
      <4>1. Newest(e, Live(id, lost))
        BY <1>8, <3>1
      <4>2. Live(id, lost) \in SUBSET Live(id, lost)
        OBVIOUS
      <4>. QED  BY <1>0, <2>1, <3>1, <4>1, <4>2, NewestLogged
    <3>3. e.v \in 1..Len(wal) /\ wal[e.v].id = id /\ e.v \notin lost
      BY <3>2 DEF Live
    <3>. QED  BY <1>1, <1>2, <3>1, <3>2, <3>3 DEF IsPut
  <2>2. MemInv' /\ Len(heap') = 1
    BY <1>8, <2>1, MemSingle
  <2>3. TabInv(levels)'
    BY <1>1, <1>5, <1>8 DEF TabInv
  <2>4. Entries \in Nat
    BY <1>0, EntriesCounted
  <2>5. FlagInv'
    BY <1>0, <1>1, <1>3, <1>7, <1>8, <2>4 DEF FlagInv
  <2>. QED  BY <1>5, <1>6, <1>8, <2>2, <2>3, <2>5 DEF Fresh, RecoverySucceeds
<1>9. CASE up' = "failed" /\ UNCHANGED <<heap, levels, vector_count>> /\ PutsLater(lost)
  <2>1. MemInv' /\ TabInv(levels)'
    BY <1>0, <1>4, <1>9, StillLogged
  <2>2. FlagInv' /\ Fresh'
    BY <1>0, <1>1, <1>7, <1>9 DEF FlagInv, Fresh
  <2>33. PICK id \in Ids : \E i, j \in Live(id, lost) : i < j /\ wal[i].op = "delete" /\ wal[j].op = "put"
    BY <1>9 DEF PutsLater
  <2>3. PICK i \in Live(id, lost), j \in Live(id, lost) : i < j /\ wal[i].op = "delete" /\ wal[j].op = "put"
    BY <2>33
  <2>4. i \in PositionsOf(id)' /\ j \in PositionsOf(id)'
    BY <1>0, <1>1, <1>2, WalFacts DEF PositionsOf, Live
  <2>5. PutAfterDelete(id)'
    BY <1>1, <2>3, <2>4 DEF PutAfterDelete
  <2>6. RecoverySucceeds'
    BY <2>5 DEF RecoverySucceeds
  <2>. QED  BY <1>5, <1>6, <2>1, <2>2, <2>6
<1>. QED  BY <1>2, <1>8, <1>9

\* Everything but the calls, when a record is appended.
LEMMA TypesAppend ==
    ASSUME EngineInv, NEW r \in Records, wal' = Append(wal, r), Len(wal) < MaxRecords,
           unseen' \subseteq unseen \cup {Len(wal) + 1}, up = "open",
           UNCHANGED <<up, heap, flush_handle, flush_lock, levels, loaded, disk, acked, vector_count,
                       flushed, dropped, skipped>>
    PROVE  /\ WalTyped' /\ MemInv' /\ TabInv(disk)' /\ TabInv(levels)' /\ LoadInv'
           /\ FlagInv' /\ Fresh' /\ RecoverySucceeds'
           /\ Len(wal') = Len(wal) + 1 /\ wal'[Len(wal) + 1] = r
           /\ \A i \in 1..Len(wal) : wal'[i] = wal[i]
<1>0. /\ WalTyped /\ MemInv /\ TabInv(disk) /\ TabInv(levels) /\ LoadInv /\ FlagInv /\ Fresh
      /\ Len(wal) \in Nat /\ unseen \subseteq 1..Len(wal)
  BY WalFacts DEF EngineInv, FlagInv
<1>1. /\ WalTyped' /\ Len(wal') = Len(wal) + 1 /\ wal'[Len(wal) + 1] = r
      /\ \A i \in 1..Len(wal) : wal'[i] = wal[i]
      /\ \A v, id : IsPut(v, id) => IsPut(v, id)'
  BY <1>0, LogGrows
<1>2. MemInv' /\ TabInv(disk)' /\ TabInv(levels)' /\ LoadInv'
  BY <1>0, <1>1, StillLogged
<1>3. FlagInv'
  <2>1. acked \subseteq 1..Len(wal') /\ unseen' \subseteq 1..Len(wal')
    BY <1>0, <1>1 DEF FlagInv
  <2>. QED  BY <1>0, <2>1 DEF FlagInv
<1>. QED  BY <1>1, <1>2, <1>3 DEF Fresh, RecoverySucceeds

LEMMA TypesLog ==
    ASSUME EngineInv, NEW t \in Threads, NEW op \in {"put", "delete"}, NEW id \in Ids, Log(t, op, id)
    PROVE  /\ WalTyped' /\ MemInv' /\ TabInv(disk)' /\ TabInv(levels)' /\ LoadInv' /\ CallInv'
           /\ FlagInv' /\ Fresh' /\ RecoverySucceeds'
<1>0. WalTyped /\ FlagInv /\ CallInv /\ pc \in [Threads -> Steps]
  BY DEF EngineInv, RotationInv, Typed
<1>1. PICK r : r = [op |-> op, id |-> id]
  OBVIOUS
<1>2. /\ r \in Records /\ wal' = Append(wal, r) /\ Len(wal) < MaxRecords
      /\ call' = [call EXCEPT ![t] = Len(wal) + 1] /\ pc' = [pc EXCEPT ![t] = "apply"]
      /\ UNCHANGED <<up, heap, flush_handle, flush_lock, levels, loaded, disk, acked, vector_count,
                     flushed, dropped, skipped, unseen>>
      /\ up = "open" /\ r.op # "torn"
  BY <1>1 DEF Log, Records, Goto, shared, At, quiet
<1>3. /\ WalTyped' /\ MemInv' /\ TabInv(disk)' /\ TabInv(levels)' /\ LoadInv'
      /\ FlagInv' /\ Fresh' /\ RecoverySucceeds'
      /\ Len(wal') = Len(wal) + 1 /\ wal'[Len(wal) + 1] = r
      /\ \A i \in 1..Len(wal) : wal'[i] = wal[i]
  BY <1>2, TypesAppend
<1>4. Len(wal) \in Nat /\ MaxRecords \in Nat /\ unseen \subseteq 1..Len(wal)
  BY <1>0, WalFacts, EngineAssumption DEF FlagInv
<1>7. CallInv'
  <2>1. call \in [Threads -> 0..MaxRecords] /\ Len(wal) + 1 \in 0..MaxRecords
    BY <1>0, <1>2, <1>4 DEF CallInv
  <2>2. call' \in [Threads -> 0..MaxRecords]
    BY <1>2, <2>1
  <2>3. ASSUME NEW u \in Threads, pc'[u] \in Writing PROVE InSight(call[u])'
    <3>1. CASE u = t
      <4>1. call'[u] = Len(wal) + 1 /\ Len(wal) + 1 \in 1..Len(wal') /\ Len(wal) + 1 \notin unseen
        BY <1>2, <1>3, <1>4, <2>1, <3>1
      <4>. QED  BY <1>2, <1>3, <4>1 DEF InSight
    <3>2. CASE u # t
      <4>1. pc[u] \in Writing /\ call'[u] = call[u]
        BY <1>0, <1>2, <2>1, <2>3, <3>2
      <4>2. InSight(call[u])
        BY <1>0, <4>1 DEF CallInv
      <4>. QED  BY <1>2, <1>3, <1>4, <4>1, <4>2 DEF InSight
    <3>. QED  BY <3>1, <3>2
  <2>. QED  BY <2>2, <2>3 DEF CallInv
<1>. QED  BY <1>3, <1>7

LEMMA TypesLogFails ==
    ASSUME EngineInv, NEW t \in Threads, NEW op \in {"put", "delete"}, NEW id \in Ids, LogFails(t, op, id)
    PROVE  /\ WalTyped' /\ MemInv' /\ TabInv(disk)' /\ TabInv(levels)' /\ LoadInv' /\ CallInv'
           /\ FlagInv' /\ Fresh' /\ RecoverySucceeds'
<1>0. WalTyped /\ FlagInv /\ CallInv
  BY DEF EngineInv
<1>1. PICK reached \in {op, "torn"} : wal' = Append(wal, [op |-> reached, id |-> id])
  BY DEF LogFails
<1>2. PICK r : r = [op |-> reached, id |-> id]
  OBVIOUS
<1>3. /\ r \in Records /\ wal' = Append(wal, r) /\ Len(wal) < MaxRecords
      /\ UNCHANGED <<up, heap, flush_handle, flush_lock, levels, loaded, disk, acked, vector_count,
                     flushed, dropped, skipped, call, pc>>
      /\ up = "open" /\ unseen' = unseen \cup {Len(wal) + 1}
  BY <1>1, <1>2 DEF LogFails, Records, shared, At
<1>4. /\ WalTyped' /\ MemInv' /\ TabInv(disk)' /\ TabInv(levels)' /\ LoadInv'
      /\ FlagInv' /\ Fresh' /\ RecoverySucceeds'
      /\ Len(wal') = Len(wal) + 1
      /\ \A i \in 1..Len(wal) : wal'[i] = wal[i]
  BY <1>3, TypesAppend
<1>5. Len(wal) \in Nat
  BY <1>0, WalFacts
<1>6. ASSUME NEW u \in Threads, pc'[u] \in Writing PROVE InSight(call[u])'
  <2>1. InSight(call[u])
    BY <1>0, <1>3, <1>6 DEF CallInv
  <2>. QED  BY <1>3, <1>4, <1>5, <2>1 DEF InSight
<1>7. CallInv'
  BY <1>0, <1>3, <1>6 DEF CallInv
<1>. QED  BY <1>4, <1>7

\* What Apply does to the active memtable.
Changes(m, w, x, i) ==
    /\ w \in Memtables /\ Accounted(w) /\ MemLogged(w)
    /\ \A id \in Ids : id # x => w.entries[id] = m.entries[id]
    /\ \/ wal[i].op = "put" /\ m.entries[x].kind = "delete" /\ w.entries[x] = Absent
       \/ (wal[i].op = "put" => m.entries[x].kind # "delete") /\ w.entries[x] = EntryOf(i)

LEMMA ApplyFacts ==
    ASSUME EngineInv, NEW t \in Threads, Apply(t)
    PROVE  \E w : /\ heap' = [heap EXCEPT ![memtable] = w]
                  /\ Changes(heap[memtable], w, wal[call[t]].id, call[t])
<1>0. WalTyped /\ MemInv /\ CallInv /\ RotationInv
  BY DEF EngineInv
<1>1. pc[t] = "apply" /\ call[t] \in 1..Len(wal) /\ wal[call[t]].op # "torn" /\ call[t] \notin unseen
  BY <1>0 DEF Apply, At, CallInv, Writing, InSight
<1>2. PICK m, x, i : m = heap[memtable] /\ i = call[t] /\ x = wal[i].id
  OBVIOUS
<1>3. /\ m \in Memtables /\ Accounted(m) /\ MemLogged(m)
      /\ i \in 1..Len(wal) /\ i \in 1..MaxRecords /\ x \in Ids /\ wal[i].op \in {"put", "delete"}
      /\ i \notin unseen
  BY <1>0, <1>1, <1>2, ActiveFacts, WalFacts
<1>4. CASE wal[i].op = "put"
  <2>1. PICK w : w = MemPut(m, x, i)
    OBVIOUS
  <2>2. heap' = [heap EXCEPT ![memtable] = w]
    BY <1>2, <1>4, <2>1 DEF Apply
  <2>3. /\ w \in Memtables /\ Accounted(w)
        /\ \A id \in Ids : id # x => w.entries[id] = m.entries[id]
        /\ MemPutFails(m, x) => w.entries[x] = Absent
        /\ ~MemPutFails(m, x) => w.entries[x] = EntryOf(i)
    BY <1>3, <1>4, <2>1, MemPutFacts DEF EntryOf
  <2>4. MemLogged(w)
    <3>1. ASSUME NEW id \in Ids, w.entries[id].v # Nil PROVE IsPut(w.entries[id].v, id)
      <4>1. CASE id # x
        BY <1>3, <2>3, <3>1, <4>1 DEF MemLogged
      <4>2. CASE id = x
        <5>1. w.entries[x] # Absent
          BY <3>1, <4>2, EntryFacts
        <5>2. w.entries[x].v = i
          BY <1>0, <1>3, <1>4, <2>3, <5>1, EntryOfFacts
        <5>. QED  BY <1>2, <1>3, <1>4, <4>2, <5>2 DEF IsPut
      <4>. QED  BY <4>1, <4>2
    <3>. QED  BY <3>1 DEF MemLogged
  <2>5. Changes(m, w, x, i)
    BY <1>4, <2>3, <2>4 DEF Changes, MemPutFails
  <2>. QED  BY <1>2, <2>2, <2>5
<1>5. CASE wal[i].op = "delete"
  <2>1. PICK w : w = MemDelete(m, x)
    OBVIOUS
  <2>2. heap' = [heap EXCEPT ![memtable] = w]
    BY <1>2, <1>5, <2>1 DEF Apply
  <2>3. /\ w \in Memtables /\ Accounted(w)
        /\ \A id \in Ids : id # x => w.entries[id] = m.entries[id]
        /\ w.entries[x] = EntryOf(i) /\ w.entries[x].v = Nil
    BY <1>3, <1>5, <2>1, MemDeleteFacts, EntryFacts DEF EntryOf
  <2>4. MemLogged(w)
    <3>1. ASSUME NEW id \in Ids, w.entries[id].v # Nil PROVE IsPut(w.entries[id].v, id)
      BY <1>3, <2>3, <3>1 DEF MemLogged
    <3>. QED  BY <3>1 DEF MemLogged
  <2>5. Changes(m, w, x, i)
    BY <1>5, <2>3, <2>4 DEF Changes
  <2>. QED  BY <1>2, <2>2, <2>5
<1>. QED  BY <1>3, <1>4, <1>5

\* What a compaction writes.
LEMMA CompactFacts ==
    ASSUME EngineInv, NEW t \in Threads, NEW l \in Levels, Compact(t, l)
    PROVE  \E q, w : /\ q = SubSeq(levels[l], 1, CompactFiles) /\ q \in Seq(Tables)
                     /\ Len(q) = CompactFiles /\ CompactFiles <= Len(levels[l])
                     /\ \A k \in 1..CompactFiles : q[k] = levels[l][k]
                     /\ w = Merge(q) /\ w \in Tables /\ TableLogged(w) /\ l + 1 \in Levels
                     /\ levels' = [levels EXCEPT ![l] = SubSeq(levels[l], CompactFiles + 1, Len(levels[l]))]
                     /\ \/ disk' = disk
                        \/ disk' = [disk EXCEPT ![l + 1] = Append(disk[l + 1], w)]
                     /\ skipped' = (skipped \/ q # SubSeq(disk[l], 1, CompactFiles))
<1>1. TabInv(levels) /\ CompactFiles \in Nat /\ CompactFiles <= Len(levels[l]) /\ l < MaxLevel
  BY EngineAssumption, TabFacts DEF EngineInv, Compact
<1>2. PICK q : q = SubSeq(levels[l], 1, CompactFiles)
  OBVIOUS
<1>3. levels[l] \in Seq(Tables) /\ \A k \in 1..Len(levels[l]) : TableLogged(levels[l][k])
      /\ Len(levels[l]) \in Nat
  BY <1>1, TabFacts
<1>4. /\ q \in Seq(Tables) /\ Len(q) = CompactFiles
      /\ \A k \in 1..CompactFiles : q[k] = levels[l][k]
  BY <1>1, <1>2, <1>3, FirstN
<1>5. PICK w : w = Merge(q)
  OBVIOUS
<1>6. \A k \in 1..CompactFiles : k \in 1..Len(levels[l])
  BY <1>1, <1>3
<1>7. w \in Tables /\ TableLogged(w)
  BY <1>3, <1>4, <1>5, <1>6, MergeFacts, MergeLogged
<1>8. /\ levels' = [levels EXCEPT ![l] = SubSeq(levels[l], CompactFiles + 1, Len(levels[l]))]
      /\ disk' = IF Keys(w) = {} THEN disk ELSE [disk EXCEPT ![l + 1] = Append(disk[l + 1], w)]
      /\ skipped' = (skipped \/ q # SubSeq(disk[l], 1, CompactFiles))
  BY <1>2, <1>5 DEF Compact, PassesOver
<1>9. \/ disk' = disk
      \/ disk' = [disk EXCEPT ![l + 1] = Append(disk[l + 1], w)]
  BY <1>8
<1>10. l + 1 \in Levels
  BY <1>1, LevelFacts
<1>. QED  BY <1>1, <1>2, <1>4, <1>5, <1>7, <1>8, <1>9, <1>10

LEMMA TypesNext == EngineInv /\ [Next]_vars => EngineInv'
<1>. SUFFICES ASSUME EngineInv, [Next]_vars PROVE EngineInv'
  OBVIOUS
<1>0. /\ WalTyped /\ MemInv /\ TabInv(disk) /\ TabInv(levels) /\ FlagInv /\ Fresh /\ CallInv
      /\ RotationInv /\ RecoverySucceeds /\ LoadInv
      /\ pc \in [Threads -> Steps] /\ local \in [Threads -> Nat]
  BY DEF EngineInv, RotationInv, Typed
<1>00. RotationInv'
  BY <1>0, RotationNext
<1>1. CASE Open
  BY <1>1, <1>00, TypesOpen DEF EngineInv
<1>2. CASE Crash
  <2>1. /\ UNCHANGED <<wal, disk, acked, skipped, unseen>> /\ up' = "closed" /\ heap' = <<EmptyMem>>
        /\ flush_handle' = FALSE /\ flush_lock' = NoThread /\ vector_count' = 0 /\ flushed' = {} /\ dropped' = {}
        /\ levels' = NoTables /\ loaded' = [t \in Threads |-> NoTables]
        /\ pc' = [t \in Threads |-> "idle"] /\ call' = [t \in Threads |-> 0]
    BY <1>2 DEF Crash
  <2>2. WalTyped' /\ TabInv(disk)'
    BY <1>0, <2>1, SameLog
  <2>3. MemInv'
    <3>1. \A id \in Ids : EmptyMem.entries[id].v = Nil
      BY EmptyFacts, EntryFacts
    <3>. QED  BY <2>1, <3>1, EmptyFacts, MemSingle
  <2>4. TabInv(levels)'
    BY <2>1, NoTablesFacts DEF TabInv
  <2>44. LoadInv'
    BY <2>1, NoTablesFacts DEF LoadInv, TabInv
  <2>5. CallInv'
    <3>1. call' \in [Threads -> 0..MaxRecords]
      BY <2>1, EngineAssumption
    <3>. QED  BY <2>1, <3>1 DEF CallInv, Writing
  <2>6. FlagInv' /\ Fresh' /\ RecoverySucceeds'
    BY <1>0, <2>1 DEF FlagInv, Fresh, RecoverySucceeds
  <2>. QED  BY <1>00, <2>2, <2>3, <2>4, <2>44, <2>5, <2>6 DEF EngineInv
<1>3. CASE FlushMemtable
  <2>1. /\ UNCHANGED <<wal, up, heap, flush_handle, flush_lock, levels, pc, call, acked,
                       vector_count, skipped, loaded, dropped, unseen>>
        /\ up = "open" /\ task # <<>> /\ flushed' = flushed \cup {Head(task)}
        /\ disk' = [disk EXCEPT ![0] = Append(disk[0], TableOf(heap[Head(task)]))]
    BY <1>3 DEF FlushMemtable, quiet
  <2>2. WalTyped' /\ LoadInv' /\ MemInv' /\ TabInv(levels)' /\ RecoverySucceeds'
    BY <1>0, <2>1, SameLog
  <2>3. Head(task) \in 1..Len(heap)
    BY <1>0, <2>1, ActiveFacts
  <2>4. PICK s : s = TableOf(heap[Head(task)])
    OBVIOUS
  <2>5. s \in Tables /\ TableLogged(s)
    BY <1>0, <2>3, <2>4, MemInvFacts, TableOfFacts
  <2>6. PICK x : x = [disk EXCEPT ![0] = Append(disk[0], s)]
    OBVIOUS
  <2>7. TabInv(x)
    BY <1>0, <2>5, <2>6, TabAppend, LevelFacts
  <2>8. TabInv(disk)'
    BY <2>1, <2>4, <2>6, <2>7 DEF TabInv, TableLogged, IsPut, BehindTorn, Torn
  <2>9. CallInv'
    BY <1>0, <2>1, CallSame
  <2>10. FlagInv' /\ Fresh'
    BY <1>0, <2>1, <2>3 DEF FlagInv, Fresh
  <2>. QED  BY <1>00, <2>2, <2>8, <2>9, <2>10 DEF EngineInv
<1>4. ASSUME NEW t \in Threads, NEW op \in {"put", "delete"}, NEW id \in Ids, Log(t, op, id)
      PROVE  EngineInv'
  BY <1>4, <1>00, TypesLog DEF EngineInv
<1>44. ASSUME NEW t \in Threads, NEW op \in {"put", "delete"}, NEW id \in Ids, LogFails(t, op, id)
      PROVE  EngineInv'
  BY <1>44, <1>00, TypesLogFails DEF EngineInv
<1>5. ASSUME NEW t \in Threads, Apply(t) PROVE EngineInv'
  <2>1. /\ UNCHANGED <<wal, up, flush_handle, flush_lock, disk, levels, call, acked,
                       vector_count, flushed, skipped, loaded, dropped, unseen>>
        /\ up = "open" /\ pc[t] = "apply"
        /\ \E s \in {"idle", "check"} : pc' = [pc EXCEPT ![t] = s]
    BY <1>5 DEF Apply, quiet, At, Goto
  <2>2. WalTyped' /\ LoadInv' /\ TabInv(disk)' /\ TabInv(levels)' /\ RecoverySucceeds'
    BY <1>0, <2>1, SameLog
  <2>3. PICK w : /\ heap' = [heap EXCEPT ![memtable] = w]
                 /\ Changes(heap[memtable], w, wal[call[t]].id, call[t])
    BY <1>5, ApplyFacts
  <2>4. MemInv' /\ Len(heap') = Len(heap)
    BY <1>0, <2>1, <2>3, ActiveFacts, MemChange DEF Changes
  <2>5. CallInv'
    BY <1>0, <2>1, CallMoves DEF Writing
  <2>6. FlagInv' /\ Fresh'
    BY <1>0, <2>1, <2>4 DEF FlagInv, Fresh
  <2>. QED  BY <1>00, <2>2, <2>4, <2>5, <2>6 DEF EngineInv
<1>6. ASSUME NEW t \in Threads, Check(t) PROVE EngineInv'
  <2>1. /\ UNCHANGED <<wal, up, heap, flush_handle, flush_lock, disk, levels, call, flushed, skipped, loaded, dropped, unseen>>
        /\ up = "open" /\ pc[t] = "check"
        /\ \E s \in {"idle", "swap"} : pc' = [pc EXCEPT ![t] = s]
    BY <1>6 DEF Check, quiet, At, Goto, Return, shared
  <2>2. WalTyped' /\ LoadInv' /\ MemInv' /\ TabInv(disk)' /\ TabInv(levels)' /\ RecoverySucceeds'
    BY <1>0, <2>1, SameLog
  <2>3. CallInv'
    BY <1>0, <2>1, CallMoves DEF Writing
  <2>4. acked' \subseteq 1..Len(wal') /\ vector_count' \in Nat
    <3>1. CASE ShouldFlush(heap[memtable])
      BY <1>0, <1>6, <2>1, <3>1 DEF Check, FlagInv
    <3>2. CASE ~ShouldFlush(heap[memtable])
      <4>1. Return(t)
        BY <1>6, <3>2 DEF Check
      <4>. QED  BY <1>0, <2>1, <4>1, Returned DEF Return, Writing
    <3>. QED  BY <3>1, <3>2
  <2>5. FlagInv' /\ Fresh'
    BY <1>0, <2>1, <2>4 DEF FlagInv, Fresh
  <2>. QED  BY <1>00, <2>2, <2>3, <2>5 DEF EngineInv
<1>7. ASSUME NEW t \in Threads, Swap(t) PROVE EngineInv'
  <2>1. /\ UNCHANGED <<wal, up, flush_handle, flush_lock, disk, levels, call, acked,
                       vector_count, flushed, skipped, loaded, dropped, unseen>>
        /\ up = "open" /\ pc[t] = "swap" /\ pc' = [pc EXCEPT ![t] = "push"]
        /\ heap' = Append(heap, EmptyMem)
    BY <1>7 DEF Swap, quiet, At, Goto
  <2>2. WalTyped' /\ LoadInv' /\ TabInv(disk)' /\ TabInv(levels)' /\ RecoverySucceeds'
    BY <1>0, <2>1, SameLog
  <2>3. /\ heap' \in Seq(Memtables) /\ Len(heap') = Len(heap) + 1 /\ Len(heap) \in Nat
        /\ heap'[Len(heap) + 1] = EmptyMem /\ \A k \in 1..Len(heap) : heap'[k] = heap[k]
    BY <1>0, <2>1, EmptyFacts, Longer DEF MemInv
  <2>4. MemInv'
    <3>1. \A k \in 1..Len(heap') : Accounted(heap'[k]) /\ MemLogged(heap'[k])
      <4>1. ASSUME NEW k \in 1..Len(heap') PROVE Accounted(heap'[k]) /\ MemLogged(heap'[k])
        <5>1. CASE k = Len(heap) + 1
          BY <2>3, <5>1, EmptyFacts, EmptyLogged
        <5>2. CASE k # Len(heap) + 1
          <6>1. k \in 1..Len(heap)
            BY <2>3, <5>2
          <6>. QED  BY <1>0, <2>3, <6>1 DEF MemInv
        <5>. QED  BY <5>1, <5>2
      <4>. QED  BY <4>1
    <3>2. ASSUME NEW k \in 1..Len(heap') PROVE (Accounted(heap[k]) /\ MemLogged(heap[k]))'
      <4>1. PICK m : m = heap'[k]
        OBVIOUS
      <4>2. Accounted(m) /\ MemLogged(m) /\ heap'[k] = m /\ wal' = wal
        BY <2>1, <3>1, <4>1
      <4>22. unseen' = unseen
        BY <2>1
      <4>3. Accounted(heap[k])'
        BY ONLY <4>2 DEF Accounted, Puts
      <4>4. MemLogged(heap[k])'
        BY ONLY <4>2, <4>22 DEF MemLogged, IsPut, BehindTorn, Torn
      <4>. QED  BY <4>3, <4>4
    <3>. QED  BY <2>3, <3>2 DEF MemInv
  <2>5. CallInv'
    BY <1>0, <2>1, CallMoves DEF Writing
  <2>6. FlagInv' /\ Fresh'
    <3>1. flushed \subseteq 1..Len(heap')
      BY <1>0, <2>3 DEF FlagInv
    <3>. QED  BY <1>0, <2>1, <3>1 DEF FlagInv, Fresh
  <2>. QED  BY <1>00, <2>2, <2>4, <2>5, <2>6 DEF EngineInv
<1>8. ASSUME NEW t \in Threads, Push(t) PROVE EngineInv'
  <2>1. /\ UNCHANGED <<wal, up, heap, flush_handle, flush_lock, disk, levels, call, acked,
                       vector_count, flushed, skipped, loaded, dropped, unseen>>
        /\ up = "open" /\ pc[t] = "push" /\ pc' = [pc EXCEPT ![t] = "trigger"]
    BY <1>8 DEF Push, quiet, At, Goto
  <2>2. WalTyped' /\ LoadInv' /\ MemInv' /\ TabInv(disk)' /\ TabInv(levels)' /\ RecoverySucceeds'
    BY <1>0, <2>1, SameLog
  <2>3. CallInv'
    BY <1>0, <2>1, CallMoves DEF Writing
  <2>4. FlagInv' /\ Fresh'
    BY <1>0, <2>1 DEF FlagInv, Fresh
  <2>. QED  BY <1>00, <2>2, <2>3, <2>4 DEF EngineInv
<1>9. ASSUME NEW t \in Threads, Trigger(t) PROVE EngineInv'
  <2>1. /\ UNCHANGED <<wal, up, heap, flush_lock, disk, levels, call, flushed, skipped, loaded, dropped, unseen>>
        /\ up = "open" /\ pc[t] = "trigger" /\ pc' = [pc EXCEPT ![t] = "idle"]
        /\ Return(t) /\ StartTask
    BY <1>9 DEF Trigger, quiet, At, Goto, Return
  <2>2. WalTyped' /\ LoadInv' /\ MemInv' /\ TabInv(disk)' /\ TabInv(levels)' /\ RecoverySucceeds'
    BY <1>0, <2>1, SameLog
  <2>3. CallInv'
    BY <1>0, <2>1, CallMoves DEF Writing
  <2>4. acked' \subseteq 1..Len(wal') /\ vector_count' \in Nat
    BY <1>0, <2>1, Returned DEF Return, Writing
  <2>5. flush_handle' \in BOOLEAN
    BY <1>0, <2>1 DEF StartTask, FlagInv
  <2>6. FlagInv' /\ Fresh'
    BY <1>0, <2>1, <2>4, <2>5 DEF FlagInv, Fresh
  <2>. QED  BY <1>00, <2>2, <2>3, <2>6 DEF EngineInv
<1>10. ASSUME NEW t \in Threads, FlushCall(t) PROVE EngineInv'
  <2>1. /\ UNCHANGED <<wal, up, heap, disk, levels, call, acked, vector_count, flushed, skipped, loaded, dropped, unseen>>
        /\ up = "open" /\ pc' = [pc EXCEPT ![t] = "flush_trigger"]
        /\ flush_lock' = t /\ flush_handle' = FALSE
    BY <1>10 DEF FlushCall, quiet, At, Goto
  <2>2. WalTyped' /\ LoadInv' /\ MemInv' /\ TabInv(disk)' /\ TabInv(levels)' /\ RecoverySucceeds'
    BY <1>0, <2>1, SameLog
  <2>3. CallInv'
    BY <1>0, <2>1, CallMoves DEF Writing
  <2>4. FlagInv' /\ Fresh'
    BY <1>0, <2>1 DEF FlagInv, Fresh
  <2>. QED  BY <1>00, <2>2, <2>3, <2>4 DEF EngineInv
<1>11. ASSUME NEW t \in Threads, Install(t) PROVE EngineInv'
  <2>1. /\ UNCHANGED <<wal, up, heap, flush_handle, flush_lock, disk, call, acked, vector_count,
                       flushed, skipped, dropped, unseen>>
        /\ up = "open" /\ pc' = [pc EXCEPT ![t] = "idle"]
        /\ levels' = loaded[t] /\ loaded' = [loaded EXCEPT ![t] = NoTables]
    BY <1>11 DEF Install, At, Goto
  <2>2. WalTyped' /\ MemInv' /\ TabInv(disk)' /\ RecoverySucceeds'
    BY <1>0, <2>1, SameLog
  <2>3. TabInv(levels)'
    <3>1. TabInv(loaded[t])
      BY <1>0 DEF LoadInv
    <3>2. PICK x : x = loaded[t]
      OBVIOUS
    <3>3. TabInv(x) /\ levels' = x
      BY <2>1, <3>1, <3>2
    <3>. QED  BY <2>1, <3>3 DEF TabInv, TableLogged, IsPut, BehindTorn, Torn
  <2>33. LoadInv'
    <3>1. loaded' \in [Threads -> [Levels -> Seq(Tables)]]
      BY <1>0, <2>1, NoTablesFacts DEF LoadInv
    <3>2. ASSUME NEW u \in Threads PROVE TabInv(loaded[u])'
      <4>1. PICK x : x = loaded'[u]
        OBVIOUS
      <4>2. TabInv(x)
        BY <1>0, <2>1, <4>1, NoTablesFacts DEF LoadInv
      <4>. QED  BY <2>1, <4>1, <4>2 DEF TabInv, TableLogged, IsPut, BehindTorn, Torn
    <3>. QED  BY <3>1, <3>2 DEF LoadInv
  <2>4. CallInv'
    BY <1>0, <2>1, CallMoves DEF Writing
  <2>5. FlagInv' /\ Fresh'
    BY <1>0, <2>1 DEF FlagInv, Fresh
  <2>. QED  BY <1>00, <2>2, <2>3, <2>33, <2>4, <2>5 DEF EngineInv
<1>15. ASSUME NEW t \in Threads, LoadTables(t) PROVE EngineInv'
  <2>1. /\ UNCHANGED <<wal, up, heap, flush_handle, flush_lock, disk, levels, call, acked, vector_count,
                       flushed, skipped, dropped, unseen>>
        /\ up = "open" /\ \E l \in {"idle", "install"} : pc' = [pc EXCEPT ![t] = l]
        /\ loaded' = loaded \/ loaded' = [loaded EXCEPT ![t] = disk]
    BY <1>15 DEF LoadTables, At, Goto, shared
  <2>2. WalTyped' /\ MemInv' /\ TabInv(disk)' /\ TabInv(levels)' /\ RecoverySucceeds'
    BY <1>0, <2>1, SameLog
  <2>33. LoadInv'
    <3>1. loaded' \in [Threads -> [Levels -> Seq(Tables)]]
      BY <1>0, <2>1 DEF LoadInv, TabInv
    <3>2. ASSUME NEW u \in Threads PROVE TabInv(loaded[u])'
      <4>1. PICK x : x = loaded'[u]
        OBVIOUS
      <4>2. TabInv(x)
        BY <1>0, <2>1, <4>1 DEF LoadInv
      <4>. QED  BY <2>1, <4>1, <4>2 DEF TabInv, TableLogged, IsPut, BehindTorn, Torn
    <3>. QED  BY <3>1, <3>2 DEF LoadInv
  <2>4. CallInv'
    BY <1>0, <2>1, CallMoves DEF Writing
  <2>5. FlagInv' /\ Fresh'
    BY <1>0, <2>1 DEF FlagInv, Fresh
  <2>. QED  BY <1>00, <2>2, <2>33, <2>4, <2>5 DEF EngineInv
<1>12. ASSUME NEW t \in Threads, NEW l \in Levels, Compact(t, l) PROVE EngineInv'
  <2>1. /\ UNCHANGED <<wal, up, heap, flush_handle, flush_lock, call, acked, vector_count, flushed,
                       loaded, dropped, unseen>>
        /\ up = "open" /\ pc' = [pc EXCEPT ![t] = "reload"]
    BY <1>12 DEF Compact, At, Goto
  <2>2. WalTyped' /\ LoadInv' /\ MemInv' /\ RecoverySucceeds'
    BY <1>0, <2>1, SameLog
  <2>3. PICK q, w :
          /\ w \in Tables /\ TableLogged(w) /\ l + 1 \in Levels /\ CompactFiles <= Len(levels[l])
          /\ levels' = [levels EXCEPT ![l] = SubSeq(levels[l], CompactFiles + 1, Len(levels[l]))]
          /\ \/ disk' = disk
             \/ disk' = [disk EXCEPT ![l + 1] = Append(disk[l + 1], w)]
          /\ skipped' = (skipped \/ q # SubSeq(disk[l], 1, CompactFiles))
    BY <1>12, CompactFacts
  <2>4. CompactFiles \in Nat
    BY EngineAssumption
  <2>5. PICK x, y : x = levels' /\ y = disk'
    OBVIOUS
  <2>6. TabInv(x)
    BY <1>0, <2>3, <2>4, <2>5, TabDrop
  <2>7. TabInv(y)
    <3>1. CASE y = disk
      BY <1>0, <3>1
    <3>2. CASE y = [disk EXCEPT ![l + 1] = Append(disk[l + 1], w)]
      BY <1>0, <2>3, <3>2, TabAppend
    <3>. QED  BY <2>3, <2>5, <3>1, <3>2
  <2>8. TabInv(levels)' /\ TabInv(disk)'
    BY <2>1, <2>5, <2>6, <2>7 DEF TabInv, TableLogged, IsPut, BehindTorn, Torn
  <2>9. CallInv'
    BY <1>0, <2>1, CallMoves DEF Writing
  <2>10. FlagInv' /\ Fresh'
    BY <1>0, <2>1, <2>3 DEF FlagInv, Fresh
  <2>. QED  BY <1>00, <2>2, <2>8, <2>9, <2>10 DEF EngineInv
<1>13. ASSUME NEW t \in Threads, NEW l \in Levels, CompactFails(t, l) PROVE EngineInv'
  <2>1. /\ UNCHANGED <<wal, up, heap, flush_handle, flush_lock, call, acked, vector_count, flushed,
                       disk, pc, skipped, loaded, dropped, unseen>>
        /\ up = "open" /\ CompactFiles <= Len(levels[l])
        /\ levels' = [levels EXCEPT ![l] = SubSeq(levels[l], CompactFiles + 1, Len(levels[l]))]
    BY <1>0, <1>13, TabFacts, EngineAssumption DEF CompactFails, At
  <2>2. WalTyped' /\ LoadInv' /\ MemInv' /\ TabInv(disk)' /\ RecoverySucceeds'
    BY <1>0, <2>1, SameLog
  <2>3. PICK x : x = levels'
    OBVIOUS
  <2>4. TabInv(x)
    BY <1>0, <2>1, <2>3, TabDrop, EngineAssumption
  <2>44. levels' = x /\ wal' = wal /\ unseen' = unseen
    BY <2>1, <2>3
  <2>5. TabInv(levels)'
    BY <2>4, <2>44 DEF TabInv, TableLogged, IsPut, BehindTorn, Torn
  <2>6. CallInv'
    BY <1>0, <2>1, CallSame
  <2>7. FlagInv' /\ Fresh'
    BY <1>0, <2>1 DEF FlagInv, Fresh
  <2>. QED  BY <1>00, <2>2, <2>5, <2>6, <2>7 DEF EngineInv
<1>16. CASE OpenFails
  <2>1. /\ UNCHANGED <<wal, heap, flush_handle, flush_lock, disk, levels, call, acked,
                    vector_count, flushed, pc, skipped, loaded, dropped, unseen>>
        /\ up = "closed" /\ up' \in {"closed", "failed"}
        /\ up' = "failed" => Damaged
    BY <1>16 DEF OpenFails
  <2>2. WalTyped' /\ MemInv' /\ TabInv(disk)' /\ TabInv(levels)' /\ LoadInv'
    BY <1>0, <2>1, SameLog
  <2>3. CallInv' /\ FlagInv' /\ Fresh'
    BY <1>0, <2>1, CallSame DEF FlagInv, Fresh
  <2>4. RecoverySucceeds'
    <3>1. Damaged => Damaged'
      BY <2>1 DEF Damaged, Torn
    <3>. QED  BY <2>1, <3>1 DEF RecoverySucceeds
  <2>. QED  BY <1>00, <2>2, <2>3, <2>4 DEF EngineInv
<1>17. CASE FlushFails
  <2>1. /\ UNCHANGED <<wal, up, heap, flush_handle, flush_lock, disk, levels, call, acked,
                    vector_count, flushed, pc, skipped, loaded, unseen>>
        /\ up = "open" /\ task # <<>> /\ dropped' = dropped \cup {Head(task)}
    BY <1>17 DEF FlushFails
  <2>2. WalTyped' /\ MemInv' /\ TabInv(disk)' /\ TabInv(levels)' /\ LoadInv' /\ RecoverySucceeds'
    BY <1>0, <2>1, SameLog
  <2>22. Head(task) \in 1..Len(heap)
    BY <1>0, <2>1, ActiveFacts
  <2>3. CallInv' /\ FlagInv' /\ Fresh'
    BY <1>0, <2>1, <2>22, CallSame DEF FlagInv, Fresh
  <2>. QED  BY <1>00, <2>2, <2>3 DEF EngineInv
<1>14. CASE UNCHANGED vars
  <2>1. UNCHANGED <<wal, up, heap, flush_handle, flush_lock, disk, levels, call, acked,
                    vector_count, flushed, pc, skipped, loaded, dropped, unseen>>
    BY <1>14 DEF vars
  <2>2. WalTyped' /\ LoadInv' /\ MemInv' /\ TabInv(disk)' /\ TabInv(levels)' /\ RecoverySucceeds'
    BY <1>0, <2>1, SameLog
  <2>3. CallInv' /\ FlagInv' /\ Fresh'
    BY <1>0, <2>1, CallSame DEF FlagInv, Fresh
  <2>. QED  BY <1>00, <2>2, <2>3 DEF EngineInv
<1>. QED  BY <1>1, <1>2, <1>3, <1>4, <1>44, <1>15, <1>16, <1>17, <1>5, <1>6, <1>7, <1>8, <1>9, <1>10, <1>11, <1>12, <1>13,
             <1>14 DEF Next
-----------------------------------------------------------------------------
(* The types, and what a read looks at                                       *)

LEMMA EngineAlways == Spec => []EngineInv
BY TypesInit, TypesNext, PTL DEF Spec

LEMMA TypesHold == EngineInv => TypeOK
<1>. SUFFICES ASSUME EngineInv PROVE TypeOK
  OBVIOUS
<1>0. WalTyped /\ MemInv /\ TabInv(disk) /\ TabInv(levels) /\ CallInv /\ FlagInv /\ RotationInv /\ LoadInv
  BY DEF EngineInv
<1>1. wal \in Seq([op : {"put", "delete", "torn"}, id : Ids]) /\ Len(wal) <= MaxRecords /\ DOMAIN wal = 1..Len(wal)
  BY <1>0, WalFacts DEF WalTyped, Records
<1>2. heap \in Seq([entries : [Ids -> Entry], size : Nat])
  <2>1. MemEntries \subseteq Entry
    BY EntryFacts
  <2>2. ASSUME NEW m \in Memtables PROVE m \in [entries : [Ids -> Entry], size : Nat]
    <3>1. m.entries \in [Ids -> Entry] /\ m.size \in Nat
      BY <2>1, MemFacts
    <3>2. m = [entries |-> m.entries, size |-> m.size]
      BY DEF Memtables
    <3>. QED  BY <3>1, <3>2
  <2>3. heap \in Seq(Memtables) /\ \A k \in 1..Len(heap) : heap[k] \in Memtables
    BY <1>0, MemInvFacts DEF MemInv
  <2>4. PICK T : T = [entries : [Ids -> Entry], size : Nat]
    OBVIOUS
  <2>5. \A k \in 1..Len(heap) : heap[k] \in T
    BY <2>2, <2>3, <2>4
  <2>6. heap = [k \in 1..Len(heap) |-> heap[k]] /\ Len(heap) \in Nat
    BY <2>3, LenProperties
  <2>7. heap \in Seq(T)
    BY <2>5, <2>6, SeqDef
  <2>. QED  BY <2>4, <2>7
<1>3. memtable \in DOMAIN heap /\ DOMAIN heap = 1..Len(heap) /\ memtable = Len(heap) /\ Len(heap) \in Nat
  BY <1>0, ActiveFacts, MemInvFacts
<1>4. immutable \in Seq(DOMAIN heap) /\ task \in Seq(DOMAIN heap)
  <2>1. ASSUME NEW s \in Seq(Nat), \A x \in ToSet(s) : x < memtable /\ x > 0
        PROVE  s \in Seq(DOMAIN heap)
    <3>1. \A k \in 1..Len(s) : s[k] \in DOMAIN heap
      <4>1. ASSUME NEW k \in 1..Len(s) PROVE s[k] \in DOMAIN heap
        <5>1. s[k] \in ToSet(s) /\ s[k] \in Nat
          BY ElementOfSeq, LenProperties DEF ToSet
        <5>. QED  BY <1>3, <2>1, <5>1
      <4>. QED  BY <4>1
    <3>. QED  BY <3>1, LenProperties, SeqDef
  <2>2. /\ immutable \in Seq(Nat) /\ \A x \in ToSet(immutable) : x < memtable /\ x > 0
        /\ task \in Seq(Nat) /\ \A x \in ToSet(task) : x < memtable /\ x > 0
    BY <1>0 DEF RotationInv, Typed, Behind, Retired
  <2>. QED  BY <2>1, <2>2
<1>5. pc \in [Threads -> Steps] /\ local \in [Threads -> Nat]
  BY <1>0 DEF RotationInv, Typed
<1>. QED  BY <1>0, <1>1, <1>2, <1>3, <1>4, <1>5 DEF TypeOK, TabInv, LoadInv, Tables, CallInv, FlagInv

\* Every variable keeps its type, and opening fails for good only on a log in which
\* an id is put after it was deleted or a record lies behind a torn one
\* (engine.rs:77-95): with any number of threads, failing appends and openings,
\* whoever writes what.
THEOREM OpeningSucceeds == Spec => [](TypeOK /\ RecoverySucceeds)
<1>1. EngineInv => TypeOK /\ RecoverySucceeds
  BY TypesHold DEF EngineInv
<1>. QED  BY <1>1, EngineAlways, PTL

\* Of tables there is a first one in the order of reading.
LEMMA FirstOfFacts ==
    ASSUME TabInv(levels), NEW P \in SUBSET Places(levels), P # {}
    PROVE  FirstOf(P) \in P /\ \A q \in P : q = FirstOf(P) \/ Before(FirstOf(P), q)
<1>1. /\ \A p \in P : p \in Levels \X Nat /\ p[1] \in Nat /\ p[2] \in 1..Len(levels[p[1]])
      /\ \A p, q \in P : p[1] = q[1] /\ p[2] = q[2] => p = q
  <2>1. ASSUME NEW p \in P
        PROVE  /\ p \in Levels \X Nat /\ p[1] \in Nat /\ p[2] \in 1..Len(levels[p[1]])
               /\ p = <<p[1], p[2]>>
    <3>1. Places(levels) = {q \in Levels \X Nat : q[2] \in 1..Len(levels[q[1]])}
      BY PlacesFacts
    <3>2. p \in Levels \X Nat /\ p[2] \in 1..Len(levels[p[1]])
      BY <3>1
    <3>3. p[1] \in Levels /\ p = <<p[1], p[2]>>
      BY <3>2
    <3>4. p[1] \in Nat
      BY <3>3, LevelFacts
    <3>. QED  BY <3>2, <3>3, <3>4
  <2>. QED  BY <2>1
<1>2. PICK l \in {p[1] : p \in P} : \A y \in {p[1] : p \in P} : l <= y
  <2>1. {p[1] : p \in P} \in SUBSET Nat /\ {p[1] : p \in P} # {}
    BY <1>1
  <2>. QED  BY <2>1, SmallestOf
<1>3. PICK k \in {p[2] : p \in {q \in P : q[1] = l}} : \A y \in {p[2] : p \in {q \in P : q[1] = l}} : y <= k
  <2>1. l \in Levels /\ Len(levels[l]) \in Nat
    BY <1>1, <1>2, TabFacts
  <2>2. DEFINE S == {p[2] : p \in {q \in P : q[1] = l}}
  <2>3. S \in SUBSET Nat /\ S # {} /\ \A x \in S : x <= Len(levels[l])
    BY <1>1, <1>2, <2>1
  <2>. HIDE DEF S
  <2>4. \E x \in S : \A y \in S : y <= x
    BY <2>1, <2>3, LargestOf
  <2>. QED  BY <2>4 DEF S
<1>4. PICK p \in P : p[1] = l /\ p[2] = k
  BY <1>3
<1>5. ASSUME NEW q \in P PROVE q = p \/ Before(p, q)
  <2>1. p[1] <= q[1] /\ (q[1] = p[1] => q[2] <= p[2])
    BY <1>2, <1>3, <1>4
  <2>2. p[1] \in Nat /\ q[1] \in Nat /\ p[2] \in Nat /\ q[2] \in Nat
    BY <1>1
  <2>3. p[1] < q[1] \/ (p[1] = q[1] /\ p[2] > q[2]) \/ (p[1] = q[1] /\ p[2] = q[2])
    BY <2>1, <2>2
  <2>. QED  BY <1>1, <2>3 DEF Before
<1>6. \E x \in P : \A q \in P : q = x \/ Before(x, q)
  BY <1>5
<1>. QED  BY <1>6 DEF FirstOf

\* Which tables there are at the places.
LEMMA TableAtFacts ==
    ASSUME TabInv(levels), NEW p \in Places(levels)
    PROVE  /\ p[1] \in Levels /\ p[2] \in 1..Len(levels[p[1]]) /\ p = <<p[1], p[2]>>
           /\ TableAt(p) \in Tables /\ TableLogged(TableAt(p))
<1>1. p \in Levels \X Nat /\ p[2] \in 1..Len(levels[p[1]])
  <2>1. Places(levels) = {q \in Levels \X Nat : q[2] \in 1..Len(levels[q[1]])}
    BY PlacesFacts
  <2>. QED  BY <2>1
<1>. QED  BY <1>1, TabFacts DEF TableAt

-----------------------------------------------------------------------------
(* One writer for each id: the first memtable has what was applied           *)

LEMMA UnderWayFacts ==
    ASSUME EngineInv, NEW id
    PROVE  /\ UnderWay(id) \in SUBSET PositionsOf(id) /\ Applied(id) \in SUBSET PositionsOf(id)
           /\ \A t \in Threads : pc[t] = "apply" => call[t] \in 1..Len(wal) /\ InSight(call[t])
<1>1. WalTyped /\ CallInv
  BY DEF EngineInv
<1>2. \A t \in Threads : pc[t] = "apply" => call[t] \in 1..Len(wal) /\ InSight(call[t])
  BY <1>1 DEF CallInv, Writing, InSight
<1>. QED  BY <1>1, <1>2, WalFacts DEF UnderWay, Applied

\* Steps that write no record, and nothing into the first memtable.
LEMMA CurrentSame ==
    ASSUME Current, UNCHANGED <<wal, call, unseen>>, up' = "open" => up = "open",
           \A t \in Threads : pc'[t] = "apply" <=> pc[t] = "apply",
           heap' = heap \/ Len(heap') # 1
    PROVE  Current'
<1>1. \A id : PositionsOf(id)' = PositionsOf(id)
  BY DEF PositionsOf
<1>2. \A t \in Threads : LastOfWriter(t)'
  BY <1>1 DEF Current, LastOfWriter
<1>3. ASSUME (up = "open" /\ Len(heap) = 1)', NEW id \in Ids, ~PutAfterDelete(id)'
      PROVE  Newest(heap[1].entries[id], Applied(id))'
  <2>1. UnderWay(id)' = UnderWay(id)
    BY DEF UnderWay
  <2>2. Applied(id)' = Applied(id)
    BY <1>1, <2>1 DEF Applied
  <2>3. ~PutAfterDelete(id)
    BY <1>3 DEF PutAfterDelete, PositionsOf
  <2>4. Newest(heap[1].entries[id], Applied(id)) /\ heap' = heap
    BY <1>3, <2>3 DEF Current
  <2>. QED  BY <2>2, <2>4 DEF Newest, EntryOf
<1>. QED  BY <1>2, <1>3 DEF Current

LEMMA CurrentInit == Init => Current
BY DEF Init, Current, LastOfWriter

\* Recovery applies every record it can read.
LEMMA CurrentOpen == EngineInv /\ Open => Current'
<1>. SUFFICES ASSUME EngineInv, Open PROVE Current'
  OBVIOUS
<1>1. up = "closed" /\ UNCHANGED <<wal, pc, call>>
  BY DEF Open
<1>2. \A t \in Threads : pc'[t] # "apply"
  BY <1>1 DEF EngineInv, RotationInv, Asleep
<1>3. PICK lost, m :
              /\ lost \in SUBSET (1..Len(wal)) /\ \A j \in lost : BehindTorn(j)
              /\ unseen' = lost
              /\ \/ /\ up' = "open" /\ heap' = <<m>> /\ levels' = disk /\ vector_count' = Entries
                    /\ m \in Memtables /\ Accounted(m)
                    /\ \A id \in Ids : Newest(m.entries[id], Live(id, lost))
                 \/ /\ up' = "failed" /\ UNCHANGED <<heap, levels, vector_count>>
                    /\ PutsLater(lost)
  BY OpenFacts
<1>4. ASSUME up' = "open", NEW id \in Ids
      PROVE  Newest(heap[1].entries[id], Applied(id))'
  <2>1. heap' = <<m>> /\ Newest(m.entries[id], Live(id, lost))
    BY <1>3, <1>4
  <2>2. Applied(id)' = Live(id, lost)
    <3>1. UnderWay(id)' = {}
      BY <1>2 DEF UnderWay
    <3>2. PositionsOf(id)' = Live(id, lost)
      BY <1>1, <1>3, WalFacts DEF PositionsOf, Live, EngineInv
    <3>. QED  BY <3>1, <3>2 DEF Applied
  <2>3. heap'[1].entries[id] = m.entries[id]
    BY <2>1
  <2>. QED  BY <1>1, <2>1, <2>2, <2>3 DEF Newest, EntryOf
<1>. QED  BY <1>1, <1>2, <1>4 DEF Current, LastOfWriter

\* A record whose append failed does not count before the next opening.
LEMMA CurrentLogFails ==
    ASSUME EngineInv, Current, NEW t \in Threads, NEW op, NEW id, LogFails(t, op, id)
    PROVE  Current'
<1>0. WalTyped /\ Len(wal) \in Nat /\ wal \in Seq(Records)
  BY WalFacts DEF EngineInv, WalTyped
<1>1. PICK r : wal' = Append(wal, r)
  BY DEF LogFails
<1>2. /\ UNCHANGED <<up, heap, pc, call>> /\ unseen' = unseen \cup {Len(wal) + 1}
  BY DEF LogFails, shared
<1>3. /\ Len(wal') = Len(wal) + 1 /\ DOMAIN wal' = 1..(Len(wal) + 1)
      /\ \A i \in 1..Len(wal) : wal'[i] = wal[i]
  <2>1. wal \in Seq(Records \cup {r}) /\ r \in Records \cup {r}
    BY <1>0
  <2>. QED  BY <1>1, <2>1, Longer
<1>4. ASSUME NEW x PROVE PositionsOf(x)' = PositionsOf(x)
  <2>1. DOMAIN wal = 1..Len(wal)
    BY <1>0, WalFacts
  <2>2. \A i : i \in PositionsOf(x)' <=> i \in PositionsOf(x)
    BY <1>0, <1>2, <1>3, <2>1 DEF PositionsOf
  <2>. QED  BY <2>2
<1>5. \A x : PositionsOf(x) \in SUBSET (1..Len(wal))
  BY <1>0, WalFacts
<1>6. ASSUME NEW u \in Threads, pc[u] = "apply" PROVE wal'[call[u]] = wal[call[u]] /\ call'[u] = call[u] /\ pc'[u] = "apply"
  BY <1>2, <1>3, <1>6, UnderWayFacts
<1>7. ASSUME NEW u \in Threads PROVE LastOfWriter(u)'
  <2>1. LastOfWriter(u)
    BY DEF Current
  <2>. QED  BY <1>2, <1>4, <1>6, <2>1 DEF LastOfWriter
<1>8. ASSUME (up = "open" /\ Len(heap) = 1)', NEW x \in Ids, ~PutAfterDelete(x)'
      PROVE  Newest(heap[1].entries[x], Applied(x))'
  <2>1. UnderWay(x)' = UnderWay(x)
    <3>1. {u \in Threads : pc'[u] = "apply" /\ wal'[call'[u]].id = x}
            = {u \in Threads : pc[u] = "apply" /\ wal[call[u]].id = x}
      BY <1>2, <1>6
    <3>. QED  BY <1>2, <3>1 DEF UnderWay
  <2>2. Applied(x)' = Applied(x)
    BY <1>4, <2>1 DEF Applied
  <2>3. ~PutAfterDelete(x)
    BY <1>3, <1>4, <1>5, <1>8 DEF PutAfterDelete
  <2>4. Newest(heap[1].entries[x], Applied(x))
    BY <1>2, <1>8, <2>3 DEF Current
  <2>5. \A i \in Applied(x) : EntryOf(i)' = EntryOf(i)
    BY <1>3, <1>5 DEF EntryOf, Applied
  <2>. QED  BY <1>2, <2>2, <2>4, <2>5 DEF Newest
<1>. QED  BY <1>7, <1>8 DEF Current

\* The record of a new call is under way.
LEMMA CurrentLog ==
    ASSUME OneWriter, EngineInv, Current,
           NEW t \in Threads, NEW op \in {"put", "delete"}, NEW id \in Ids, Log(t, op, id)
    PROVE  Current'
<1>0. WalTyped /\ CallInv /\ pc \in [Threads -> Steps] /\ call \in [Threads -> 0..MaxRecords]
  BY DEF EngineInv, RotationInv, Typed, CallInv
<1>1. PICK r, n : r = [op |-> op, id |-> id] /\ n = Len(wal) + 1
  OBVIOUS
<1>2. /\ r \in Records /\ r.id = id /\ wal' = Append(wal, r) /\ Len(wal) < MaxRecords
      /\ call' = [call EXCEPT ![t] = n] /\ pc' = [pc EXCEPT ![t] = "apply"]
      /\ UNCHANGED <<up, heap, unseen>> /\ pc[t] = "idle" /\ <<t, id>> \in Workload
      /\ r.op # "torn"
  BY <1>1 DEF Log, Records, Goto, shared, At, quiet
<1>3. /\ WalTyped' /\ Len(wal') = n /\ wal'[n] = r
      /\ \A i \in 1..Len(wal) : wal'[i] = wal[i]
      /\ unseen \subseteq 1..Len(wal)
  BY <1>0, <1>1, <1>2, LogGrows DEF EngineInv, FlagInv
<1>4. Len(wal) \in Nat /\ n \in Nat /\ n \notin 1..Len(wal) /\ \A i \in 1..n : i <= n /\ (i = n \/ i \in 1..Len(wal))
  BY <1>0, <1>1, WalFacts
<1>5. ASSUME NEW x
      PROVE  /\ x # id => PositionsOf(x)' = PositionsOf(x)
             /\ x = id => PositionsOf(x)' = PositionsOf(x) \cup {n}
             /\ PositionsOf(x) \in SUBSET (1..Len(wal))
  <2>1. DOMAIN wal = 1..Len(wal) /\ DOMAIN wal' = 1..n
    BY <1>0, <1>3, LenProperties DEF WalTyped
  <2>2. /\ PositionsOf(x) = {i \in 1..Len(wal) : wal[i].id = x /\ wal[i].op # "torn" /\ i \notin unseen}
        /\ PositionsOf(x)' = {i \in 1..n : wal'[i].id = x /\ wal'[i].op # "torn" /\ i \notin unseen}
    BY <1>2, <2>1 DEF PositionsOf
  <2>3. PICK P, Q : P = PositionsOf(x) /\ Q = PositionsOf(x)'
    OBVIOUS
  <2>4. n \in Q <=> x = id
    BY <1>2, <1>3, <1>4, <2>2, <2>3
  <2>5. \A i \in 1..Len(wal) : i \in Q <=> i \in P
    BY <1>1, <1>3, <1>4, <2>2, <2>3
  <2>6. P \subseteq 1..Len(wal) /\ Q \subseteq (1..Len(wal)) \cup {n}
    BY <1>4, <2>2, <2>3
  <2>. QED  BY <1>4, <2>3, <2>4, <2>5, <2>6
<1>55. ASSUME NEW x \in Ids, PutAfterDelete(x) PROVE PutAfterDelete(x)'
  <2>1. PICK i, j \in PositionsOf(x) : i < j /\ wal[i].op = "delete" /\ wal[j].op = "put"
    BY <1>55 DEF PutAfterDelete
  <2>2. /\ i \in PositionsOf(x)' /\ j \in PositionsOf(x)'
        /\ wal'[i] = wal[i] /\ wal'[j] = wal[j]
    BY <1>3, <1>5, <2>1
  <2>. QED  BY <2>1, <2>2 DEF PutAfterDelete
<1>6. ASSUME NEW u \in Threads, u # t, pc'[u] = "apply"
      PROVE  /\ pc[u] = "apply" /\ call'[u] = call[u] /\ call[u] \in 1..Len(wal)
             /\ wal'[call'[u]] = wal[call[u]] /\ wal[call[u]].id # id
  <2>1. pc[u] = "apply" /\ call'[u] = call[u]
    BY <1>0, <1>2, <1>6
  <2>2. call[u] \in 1..Len(wal)
    BY <2>1, UnderWayFacts
  <2>3. <<u, wal[call[u]].id>> \in Workload
    BY <2>1 DEF Current, LastOfWriter
  <2>4. wal[call[u]].id # id
    BY <1>2, <1>6, <2>3 DEF OneWriter
  <2>. QED  BY <1>3, <2>1, <2>2, <2>4
<1>7. call'[t] = n /\ pc'[t] = "apply" /\ wal'[call'[t]].id = id
  BY <1>0, <1>2, <1>3
<1>8. ASSUME NEW u \in Threads PROVE LastOfWriter(u)'
  <2>1. CASE u = t
    <3>1. PositionsOf(id)' = PositionsOf(id) \cup {n} /\ PositionsOf(id) \in SUBSET (1..Len(wal))
      BY <1>5
    <3>2. \A i \in PositionsOf(id)' : i <= n
      BY <1>1, <1>4, <3>1
    <3>. QED  BY <1>2, <1>7, <2>1, <3>2 DEF LastOfWriter
  <2>2. CASE u # t /\ pc'[u] = "apply"
    <3>1. LastOfWriter(u)
      BY DEF Current
    <3>. QED  BY <1>5, <1>6, <2>2, <3>1 DEF LastOfWriter
  <2>. QED  BY <2>1, <2>2 DEF LastOfWriter
<1>9. ASSUME (up = "open" /\ Len(heap) = 1)', NEW x \in Ids, ~PutAfterDelete(x)'
      PROVE  Newest(heap[1].entries[x], Applied(x))'
  <2>1. Newest(heap[1].entries[x], Applied(x))
    BY <1>2, <1>55, <1>9 DEF Current
  <2>2. Applied(x)' = Applied(x)
    <3>1. CASE x = id
      <4>1. UnderWay(x)' = {n}
        BY <1>6, <1>7, <3>1 DEF UnderWay
      <4>2. UnderWay(x) = {}
        <5>1. ASSUME NEW u \in Threads, pc[u] = "apply" PROVE wal[call[u]].id # x
          <6>1. u # t /\ pc'[u] = "apply"
            BY <1>0, <1>2, <5>1
          <6>. QED  BY <1>6, <3>1, <6>1
        <5>. QED  BY <5>1 DEF UnderWay
      <4>. QED  BY <1>4, <1>5, <3>1, <4>1, <4>2 DEF Applied
    <3>2. CASE x # id
      <4>1. ASSUME NEW u \in Threads
            PROVE  (pc'[u] = "apply" /\ wal'[call'[u]].id = x) <=> (pc[u] = "apply" /\ wal[call[u]].id = x)
        <5>1. CASE u = t
          BY <1>2, <1>7, <3>2, <5>1
        <5>2. CASE u # t
          <6>1. pc'[u] = pc[u]
            BY <1>0, <1>2, <5>2
          <6>. QED  BY <1>6, <5>2, <6>1
        <5>. QED  BY <5>1, <5>2
      <4>2. ASSUME NEW u \in Threads, pc[u] = "apply", wal[call[u]].id = x PROVE call'[u] = call[u]
        BY <1>6, <1>7, <3>2, <4>1, <4>2
      <4>3. {u \in Threads : pc'[u] = "apply" /\ wal'[call'[u]].id = x}
              = {u \in Threads : pc[u] = "apply" /\ wal[call[u]].id = x}
        BY <4>1
      <4>4. UnderWay(x)' = UnderWay(x)
        BY <4>2, <4>3 DEF UnderWay
      <4>. QED  BY <1>5, <3>2, <4>4 DEF Applied
    <3>. QED  BY <3>1, <3>2
  <2>3. Applied(x) \in SUBSET (1..Len(wal))
    BY <1>5, UnderWayFacts
  <2>4. \A i \in Applied(x) : EntryOf(i)' = EntryOf(i)
    BY <1>3, <2>3 DEF EntryOf
  <2>. QED  BY <1>2, <2>1, <2>2, <2>4 DEF Newest
<1>. QED  BY <1>8, <1>9 DEF Current

\* A record reaches the memtable: it is the last of its id.
LEMMA CurrentApply ==
    ASSUME OneWriter, EngineInv, Current, NEW t \in Threads, Apply(t)
    PROVE  Current'
<1>0. WalTyped /\ CallInv /\ RotationInv /\ MemInv /\ pc \in [Threads -> Steps]
  BY DEF EngineInv, RotationInv, Typed
<1>1. /\ UNCHANGED <<wal, up, call, unseen>> /\ up = "open" /\ pc[t] = "apply"
      /\ \E s \in {"idle", "check"} : pc' = [pc EXCEPT ![t] = s]
  BY DEF Apply, At, Goto, quiet
<1>2. PICK i, x : i = call[t] /\ x = wal[i].id
  OBVIOUS
<1>3. i \in 1..Len(wal) /\ wal[i].op \in {"put", "delete"} /\ x \in Ids /\ i \in PositionsOf(x)
  BY <1>0, <1>1, <1>2, UnderWayFacts, WalFacts DEF InSight
<1>4. <<t, x>> \in Workload /\ \A j \in PositionsOf(x) : j <= i
  BY <1>1, <1>2 DEF Current, LastOfWriter
<1>5. \A y : PositionsOf(y)' = PositionsOf(y)
  BY <1>1 DEF PositionsOf
<1>6. \A u \in Threads : pc'[u] = "apply" <=> (pc[u] = "apply" /\ u # t)
  BY <1>0, <1>1
<1>7. \A u \in Threads : LastOfWriter(u)'
  BY <1>1, <1>5, <1>6 DEF Current, LastOfWriter
<1>8. ASSUME NEW u \in Threads, pc[u] = "apply", wal[call[u]].id = x PROVE u = t
  <2>1. <<u, x>> \in Workload
    BY <1>8 DEF Current, LastOfWriter
  <2>. QED  BY <1>4, <2>1 DEF OneWriter
<1>9. UnderWay(x) = {i} /\ UnderWay(x)' = {}
  BY <1>1, <1>2, <1>6, <1>8 DEF UnderWay
<1>10. ASSUME NEW y, y # x PROVE UnderWay(y)' = UnderWay(y)
  <2>1. {u \in Threads : pc'[u] = "apply" /\ wal'[call'[u]].id = y}
          = {u \in Threads : pc[u] = "apply" /\ wal[call[u]].id = y}
    BY <1>1, <1>2, <1>6, <1>10
  <2>. QED  BY <1>1, <2>1 DEF UnderWay
<1>11. ASSUME (up = "open" /\ Len(heap) = 1)', NEW y \in Ids, ~PutAfterDelete(y)'
       PROVE  Newest(heap[1].entries[y], Applied(y))'
  <2>1. PICK w : heap' = [heap EXCEPT ![memtable] = w] /\ Changes(heap[memtable], w, x, i)
    BY <1>2, ApplyFacts
  <2>2. Len(heap) = 1 /\ memtable = 1 /\ heap'[1] = w
    <3>1. memtable \in 1..Len(heap) /\ memtable = Len(heap) /\ heap \in Seq(Memtables)
      BY <1>0, ActiveFacts DEF MemInv
    <3>2. Len(heap') = Len(heap) /\ heap'[memtable] = w
      BY <2>1, <3>1, Replaced DEF Changes
    <3>. QED  BY <1>11, <3>1, <3>2
  <2>3. ~PutAfterDelete(y)
    BY <1>1, <1>11 DEF PutAfterDelete, PositionsOf
  <2>4. Newest(heap[1].entries[y], Applied(y))
    BY <1>1, <2>2, <2>3 DEF Current
  <2>5. CASE y # x
    <3>1. Applied(y)' = Applied(y)
      BY <1>5, <1>10, <2>5 DEF Applied
    <3>2. heap'[1].entries[y] = heap[1].entries[y]
      BY <2>1, <2>2, <2>5 DEF Changes
    <3>. QED  BY <1>1, <2>4, <3>1, <3>2 DEF Newest, EntryOf
  <2>6. CASE y = x
    <3>1. Applied(y)' = PositionsOf(x)
      BY <1>5, <1>9, <2>6 DEF Applied
    <3>2. w.entries[x] = EntryOf(i)
      <4>1. SUFFICES ASSUME wal[i].op = "put", heap[1].entries[x].kind = "delete" PROVE FALSE
        BY <2>1, <2>2 DEF Changes
      <4>2. heap[1].entries[x] # Absent
        BY <4>1, EntryFacts
      <4>3. PICK j \in Applied(x) : heap[1].entries[x] = EntryOf(j)
        BY <2>4, <2>6, <4>2 DEF Newest
      <4>4. j \in PositionsOf(x) /\ j # i
        BY <1>9, <4>3 DEF Applied
      <4>5. j \in 1..Len(wal) /\ j <= i /\ j \in Int /\ i \in Int
        BY <1>0, <1>3, <1>4, <4>4, WalFacts
      <4>6. wal[j].op = "delete"
        <5>1. wal[j].op \in {"put", "delete"} /\ EntryOf(j).kind = "delete"
          BY <1>0, <4>1, <4>3, <4>4, <4>5, WalFacts DEF InSight
        <5>2. wal[j].op = "put" => EntryOf(j).kind = "put"
          BY <1>0, <4>5, <5>1, EntryOfFacts
        <5>. QED  BY <5>1, <5>2
      <4>7. PutAfterDelete(x)
        BY <1>3, <4>1, <4>4, <4>5, <4>6 DEF PutAfterDelete
      <4>. QED  BY <2>3, <2>6, <4>7
    <3>3. heap'[1].entries[x] = EntryOf(i)
      BY <2>2, <3>2
    <3>4. EntryOf(i)' = EntryOf(i)
      BY <1>1 DEF EntryOf
    <3>. QED  BY <1>3, <1>4, <2>6, <3>1, <3>3, <3>4 DEF Newest
  <2>. QED  BY <2>5, <2>6
<1>. QED  BY <1>7, <1>11 DEF Current

LEMMA CurrentNext == OneWriter /\ EngineInv /\ Current /\ [Next]_vars => Current'
<1>. SUFFICES ASSUME OneWriter, EngineInv, Current, [Next]_vars PROVE Current'
  OBVIOUS
<1>0. pc \in [Threads -> Steps] /\ MemInv
  BY DEF EngineInv, RotationInv, Typed
<1>1. CASE Open
  BY <1>1, CurrentOpen
<1>2. CASE Crash
  BY <1>2 DEF Crash, Current, LastOfWriter
<1>3. CASE FlushMemtable
  BY <1>3, CurrentSame DEF FlushMemtable, quiet
<1>33. CASE OpenFails \/ FlushFails
  BY <1>33, CurrentSame DEF OpenFails, FlushFails
<1>34. ASSUME NEW t \in Threads, NEW op \in {"put", "delete"}, NEW id \in Ids, LogFails(t, op, id)
      PROVE  Current'
  BY <1>34, CurrentLogFails
<1>4. ASSUME NEW t \in Threads, NEW op \in {"put", "delete"}, NEW id \in Ids, Log(t, op, id)
      PROVE  Current'
  BY <1>4, CurrentLog
<1>5. ASSUME NEW t \in Threads, Apply(t) PROVE Current'
  BY <1>5, CurrentApply
<1>6. ASSUME NEW t \in Threads, Check(t) PROVE Current'
  <2>1. /\ UNCHANGED <<wal, up, heap, call, unseen>> /\ pc[t] = "check"
        /\ \E s \in {"idle", "swap"} : pc' = [pc EXCEPT ![t] = s]
    BY <1>6 DEF Check, At, Goto, Return, shared, quiet
  <2>2. \A u \in Threads : pc'[u] = "apply" <=> pc[u] = "apply"
    BY <1>0, <2>1
  <2>. QED  BY <2>1, <2>2, CurrentSame
<1>7. ASSUME NEW t \in Threads, Swap(t) PROVE Current'
  <2>1. /\ UNCHANGED <<wal, up, call, unseen>> /\ pc[t] = "swap" /\ pc' = [pc EXCEPT ![t] = "push"]
        /\ heap' = Append(heap, EmptyMem)
    BY <1>7 DEF Swap, At, Goto, quiet
  <2>2. \A u \in Threads : pc'[u] = "apply" <=> pc[u] = "apply"
    BY <1>0, <2>1
  <2>3. Len(heap') # 1
    <3>1. Len(heap') = Len(heap) + 1 /\ Len(heap) \in Nat
      BY <1>0, <2>1, EmptyFacts, Longer DEF MemInv
    <3>2. Len(heap) # 0
      BY MemInvFacts, <1>0 DEF EngineInv, RotationInv, Numbered
    <3>. QED  BY <3>1, <3>2
  <2>. QED  BY <2>1, <2>2, <2>3, CurrentSame
<1>8. ASSUME NEW t \in Threads, Push(t) \/ Trigger(t) \/ FlushCall(t) \/ LoadTables(t) \/ Install(t) PROVE Current'
  <2>1. /\ UNCHANGED <<wal, up, heap, call, unseen>> /\ pc[t] \in {"push", "trigger", "idle", "reload", "install"}
        /\ \E s \in {"trigger", "idle", "flush_trigger", "install"} : pc' = [pc EXCEPT ![t] = s]
    BY <1>8 DEF Push, Trigger, FlushCall, LoadTables, Install, At, Goto, Return, shared, quiet
  <2>2. \A u \in Threads : pc'[u] = "apply" <=> pc[u] = "apply"
    BY <1>0, <2>1
  <2>. QED  BY <2>1, <2>2, CurrentSame
<1>9. ASSUME NEW t \in Threads, NEW l \in Levels, Compact(t, l) PROVE Current'
  <2>1. /\ UNCHANGED <<wal, up, heap, call, unseen>> /\ pc[t] = "idle" /\ pc' = [pc EXCEPT ![t] = "reload"]
    BY <1>9 DEF Compact, At, Goto
  <2>2. \A u \in Threads : pc'[u] = "apply" <=> pc[u] = "apply"
    BY <1>0, <2>1
  <2>. QED  BY <2>1, <2>2, CurrentSame
<1>10. ASSUME NEW t \in Threads, NEW l \in Levels, CompactFails(t, l) PROVE Current'
  BY <1>10, CurrentSame DEF CompactFails
<1>11. CASE UNCHANGED vars
  BY <1>11, CurrentSame DEF vars
<1>. QED  BY <1>1, <1>2, <1>3, <1>33, <1>34, <1>4, <1>5, <1>6, <1>7, <1>8, <1>9, <1>10, <1>11 DEF Next

\* The memtable and the tables answer what the log says.
LEMMA LogServed == EngineInv /\ Current => ServesLog
<1>. SUFFICES ASSUME EngineInv, Current, up = "open", Len(heap) = 1,
                     NEW id \in Ids, Settled(id), ~PutAfterDelete(id), ~Overlooked(id)
              PROVE  /\ ScanValue(id) = LoggedValue(id)
                     /\ ~DeletedEver(id) => Get(id) = LoggedValue(id)
  BY DEF ServesLog
<1>0. WalTyped /\ MemInv /\ RotationInv /\ TabInv(levels)
  BY DEF EngineInv
<1>1. memtable = 1 /\ immutable = <<>>
  <2>1. memtable = 1
    BY <1>0, ActiveFacts
  <2>2. immutable \in Seq(Nat) /\ ToSet(immutable) = {}
    <3>1. \A x \in ToSet(immutable) : x \in Nat /\ 0 < x /\ x < 1
      BY <1>0, <2>1 DEF RotationInv, Behind, Retired
    <3>2. ToSet(immutable) = {}
      BY <3>1
    <3>. QED  BY <1>0, <3>2 DEF RotationInv, Typed
  <2>3. DOMAIN immutable = {}
    BY <2>2 DEF ToSet
  <2>4. Len(immutable) = 0
    BY <2>2, <2>3, LenProperties
  <2>. QED  BY <2>1, <2>2, <2>4, EmptySeq
<1>2. PICK e : e = heap[1].entries[id]
  OBVIOUS
<1>30. PositionsOf(id) = Live(id, unseen) /\ Live(id, unseen) \in SUBSET Live(id, unseen)
  BY <1>0, LivePositions
<1>3. Newest(e, PositionsOf(id)) /\ e \in MemEntries
  <2>1. UnderWay(id) = {}
    BY DEF UnderWay, Settled
  <2>2. Newest(e, PositionsOf(id))
    BY <1>2, <2>1 DEF Current, Applied
  <2>. QED  BY <1>0, <1>30, <2>2, NewestLogged
<1>4. SearchOrder = <<1>> /\ (e = Absent => Holding(id) = {}) /\ (e # Absent => Holding(id) = {1})
  <2>1. SearchOrder = <<1>>
    BY <1>1 DEF SearchOrder
  <2>2. DOMAIN SearchOrder = {1} /\ SearchOrder[1] = 1
    BY <2>1
  <2>. QED  BY <1>2, <2>1, <2>2 DEF Holding
<1>5. PositionsOf(id) \in SUBSET (1..Len(wal)) /\ Len(wal) \in Nat
  BY <1>0, WalFacts
<1>6. CASE PositionsOf(id) = {}
  <2>1. e = Absent /\ e.kind = "absent"
    <3>1. Newest(e, {}) /\ ~\E i \in {} : TRUE
      BY <1>3, <1>6
    <3>. QED  BY <3>1, EntryFacts DEF Newest
  <2>2. LoggedValue(id) = Nil
    <3>1. PositionsOf(id) \cup {0} = {0}
      BY <1>6
    <3>2. {0} \in SUBSET Nat /\ {0} # {} /\ \A x \in {0} : x <= 0
      OBVIOUS
    <3>3. Max({0}) \in {0}
      BY <3>2, LargestOf
    <3>4. LastLogged(id) = 0
      BY <3>1, <3>3 DEF LastLogged
    <3>. QED  BY <3>4 DEF LoggedValue
  <2>3. ASSUME NEW p \in Places(levels) PROVE TableAt(p)[id] = Nil
    <3>1. TableLogged(TableAt(p))
      BY <1>0, TableAtFacts
    <3>2. SUFFICES ASSUME TableAt(p)[id] # Nil PROVE FALSE
      OBVIOUS
    <3>3. IsPut(TableAt(p)[id], id)
      BY <3>1, <3>2 DEF TableLogged
    <3>4. PICK v : v = TableAt(p)[id]
      OBVIOUS
    <3>5. /\ v \in 1..Len(wal) /\ wal[v].op = "put" /\ wal[v].id = id
          /\ v \in unseen => \E i \in Torn : i < v
      BY <3>3, <3>4 DEF IsPut, BehindTorn
    <3>6. v \notin unseen
      <4>1. v \notin Torn
        BY <3>5 DEF Torn
      <4>. QED  BY <3>5, <4>1 DEF Overlooked
    <3>7. v \in PositionsOf(id)
      BY <1>30, <3>5, <3>6 DEF Live
    <3>. QED  BY <1>6, <3>7
  <2>4. ScanValue(id) = Nil
    <3>1. {p \in Places(levels) : TableAt(p)[id] # Nil} = {}
      BY <2>3
    <3>2. heap[memtable].entries[id].kind = "absent"
      BY <1>1, <1>2, <2>1
    <3>. QED  BY <3>1, <3>2 DEF ScanValue
  <2>5. GetFromMemtables(id) = Nil
    BY <1>4, <2>1 DEF GetFromMemtables
  <2>6. GetFromSSTables(id) = Nil
    <3>1. PICK P : P = {p \in Places(levels) : MayContain(TableAt(p), id)}
      OBVIOUS
    <3>2. P # {} => FirstOf(P) \in Places(levels)
      BY <1>0, <3>1, FirstOfFacts
    <3>3. P # {} => TableAt(FirstOf(P))[id] = Nil
      BY <2>3, <3>2
    <3>. QED  BY <3>1, <3>3 DEF GetFromSSTables
  <2>. QED  BY <2>2, <2>4, <2>5, <2>6 DEF Get
<1>7. CASE PositionsOf(id) # {}
  <2>1. PICK i \in PositionsOf(id) : (\A j \in PositionsOf(id) : j <= i) /\ e = EntryOf(i)
    BY <1>3, <1>7 DEF Newest
  <2>2. i \in 1..Len(wal) /\ i # 0 /\ wal[i].op \in {"put", "delete"}
    BY <1>0, <1>5, <2>1, WalFacts DEF InSight
  <2>3. LastLogged(id) = i
    <3>1. PICK S : S = PositionsOf(id) \cup {0}
      OBVIOUS
    <3>2. S \in SUBSET Nat /\ S # {} /\ i \in S /\ \A x \in S : x <= i
      BY <1>5, <2>1, <2>2, <3>1
    <3>3. Max(S) \in S /\ i <= Max(S)
      BY <2>2, <3>2, LargestOf
    <3>4. Max(S) = i
      <4>1. Max(S) <= i /\ Max(S) \in Nat /\ i \in Nat
        BY <3>2, <3>3
      <4>. QED  BY <3>3, <4>1
    <3>. QED  BY <3>1, <3>4 DEF LastLogged
  <2>4. CASE wal[i].op = "put"
    <3>1. e.kind = "put" /\ e.v = i /\ e # Absent
      BY <1>0, <2>1, <2>2, <2>4, EntryOfFacts
    <3>2. LoggedValue(id) = i
      BY <2>2, <2>3, <2>4 DEF LoggedValue
    <3>3. ScanValue(id) = i
      BY <1>1, <1>2, <3>1 DEF ScanValue
    <3>4. Min({1}) = 1
      BY FiniteHasMin
    <3>5. GetFromMemtables(id) = i
      <4>1. Holding(id) = {1} /\ SearchOrder = <<1>>
        BY <1>4, <3>1
      <4>2. Holding(id) # {} /\ SearchOrder[Min(Holding(id))] = 1
        BY <3>4, <4>1
      <4>. QED  BY <1>2, <3>1, <4>2 DEF GetFromMemtables
    <3>. QED  BY <2>2, <3>2, <3>3, <3>5 DEF Get, Nil
  <2>5. CASE wal[i].op = "delete"
    <3>1. e.kind = "delete"
      BY <1>0, <2>1, <2>2, <2>5, EntryOfFacts
    <3>2. LoggedValue(id) = Nil
      BY <2>3, <2>5 DEF LoggedValue
    <3>3. ScanValue(id) = Nil
      BY <1>1, <1>2, <3>1 DEF ScanValue
    <3>4. DeletedEver(id)
      BY <2>1, <2>5 DEF DeletedEver
    <3>. QED  BY <3>2, <3>3, <3>4
  <2>. QED  BY <2>2, <2>4, <2>5
<1>. QED  BY <1>6, <1>7

\* Until the memtable is first rotated reads answer what the log says, right
\* after a recovery too (engine.rs:77-95, 353-361, 409-448), and opening fails
\* for good only on a put after a delete or on records behind a torn one: with any
\* number of threads and failing appends, each id written by one thread.
THEOREM RecoveryServes == OneWriter => (Spec => []EngineRecovers)
<1>. SUFFICES ASSUME OneWriter PROVE Spec => []EngineRecovers
  OBVIOUS
<1>1. EngineInv /\ Current /\ [Next]_vars => (EngineInv /\ Current)'
  BY TypesNext, CurrentNext
<1>2. Init => EngineInv /\ Current
  BY TypesInit, CurrentInit
<1>3. EngineInv /\ Current => EngineRecovers
  BY TypesHold, LogServed DEF EngineRecovers, EngineInv
<1>. QED  BY <1>1, <1>2, <1>3, PTL DEF Spec

=============================================================================
