----------------------------- MODULE FilesProofs -----------------------------
(***************************************************************************)
(* Snapshots and backups keep what was acknowledged, for any number of     *)
(* callers, calls, seconds, restarts, segments and records (Snapshots).    *)
(*                                                                         *)
(* Of an id that no two calls worked on at once the invariant says what    *)
(* its one call has made of the files so far (JobFine), and what they hold *)
(* when the snapshot is kept or gone (IdFine).  A copy of the directory    *)
(* has, of what was there when it began, each record that is not in a      *)
(* segment still to be copied (Copying).                                   *)
(***************************************************************************)
EXTENDS Snapshots, FiniteSetTheorems, TLAPS

-----------------------------------------------------------------------------
(* Snapshots                                                                *)

Copies == [by : 0..SMaxCalls, whole : BOOLEAN]

Creating == {"create", "finish", "checksum", "meta", "insert"}
Deleting == {"delete", "delete_data", "delete_meta"}

Jobs == [at : Creating \cup Deleting, why : {"asked", "old"}, ids : (SUBSET SnapshotIds) \ {{}},
         call : 1..SMaxCalls, sum : Copies]

SnapshotsTyped ==
    /\ sdata \in [SnapshotIds -> Copies] /\ smeta \in [SnapshotIds -> Copies]
    /\ slist \in [SnapshotIds -> Copies]
    /\ slock \in STasks \cup {Nobody}
    /\ sjob \in [STasks -> Jobs \cup {Resting}]
    /\ sclock \in Nat /\ sclock <= SMaxClock /\ scalls \in 0..SMaxCalls /\ sup \in BOOLEAN
    /\ skept \in SUBSET SnapshotIds /\ sgone \in SUBSET SnapshotIds /\ sclash \in SUBSET SnapshotIds
    /\ scut \in SUBSET (1..SMaxCalls)

Works(t) == sjob[t].at # "none"

\* Two calls at work on an id at once clash, what creates a snapshot creates one,
\* and a manager that does not run has no calls.
Alone ==
    /\ \A s, t \in STasks : s # t /\ Works(s) /\ Works(t) => sjob[s].ids \cap sjob[t].ids \subseteq sclash
    /\ \A t \in STasks : Works(t) /\ sjob[t].at \in Creating => \A i, j \in sjob[t].ids : i = j
    /\ ~sup => \A t \in STasks : sjob[t] = Resting

\* Cleaning up has old ids only, and time does not go back.
Ages == \A t \in STasks : Works(t) /\ sjob[t].why = "old" => \A i \in sjob[t].ids : Old(i)

\* A file that is there, and whole unless its writer lost the end of it.
Sound(f) == f # None /\ (f.whole \/ f.by \in scut)

\* What a call has made of the files of the id it is at work on.
JobFine(t) ==
    Works(t) /\ Id(t) \notin sclash =>
        LET i == Id(t) IN
        /\ sjob[t].at = "create" => sdata[i] = None
        /\ sjob[t].at = "finish" => sdata[i] # None
        /\ sjob[t].at = "checksum" => Sound(sdata[i])
        /\ sjob[t].at \in {"meta", "insert"} => sjob[t].sum = sdata[i] /\ Sound(sdata[i])
        /\ sjob[t].at = "insert" => smeta[i] = sdata[i]
        /\ sjob[t].at \in {"delete_data", "delete_meta"} => slist[i] = None
        /\ sjob[t].at = "delete_meta" => sdata[i] = None

\* What the files of an id hold.
IdFine(i) ==
    i \notin sclash =>
        /\ smeta[i] # None => Sound(smeta[i])
        /\ slist[i] # None => Sound(slist[i])
        /\ i \in skept => /\ Sound(sdata[i]) /\ smeta[i] = sdata[i] /\ (sup => slist[i] = sdata[i])
                          /\ \A t \in STasks : Works(t) => i \notin sjob[t].ids
        /\ i \in sgone => /\ sdata[i] = None /\ smeta[i] = None /\ slist[i] = None
                          /\ \A t \in STasks : Works(t) /\ i \in sjob[t].ids => sjob[t].at \notin Creating

SnapshotsInv ==
    /\ SnapshotsTyped /\ Alone /\ Ages
    /\ \A t \in STasks : JobFine(t)
    /\ \A i \in SnapshotIds : IdFine(i)

LEMMA NoneTyped ==
    /\ None \in Copies /\ ~None.whole
    /\ \A c \in 1..SMaxCalls, b \in BOOLEAN :
          [by |-> c, whole |-> b] \in Copies /\ [by |-> c, whole |-> b] # None
<1>1. 0 \in 0..SMaxCalls /\ \A c \in 1..SMaxCalls : c \in 0..SMaxCalls /\ c # 0
  BY SnapshotsAssumption
<1>. QED  BY <1>1 DEF None, Copies

LEMMA WorksTyped ==
    ASSUME SnapshotsTyped, NEW t \in STasks, Works(t)
    PROVE  /\ sjob[t] \in Jobs /\ sjob[t].ids \subseteq SnapshotIds /\ sjob[t].ids # {}
           /\ Id(t) \in sjob[t].ids /\ Id(t) \in SnapshotIds
<1>1. sjob[t] \in Jobs \cup {Resting} /\ sjob[t].at # "none"
  BY DEF SnapshotsTyped, Works
<1>2. sjob[t] \in Jobs
  BY <1>1 DEF Resting
<1>3. sjob[t].ids \subseteq SnapshotIds /\ sjob[t].ids # {}
  BY <1>2 DEF Jobs
<1>. QED  BY <1>2, <1>3 DEF Id

\* A call works on its id: the others and their ids stay as they are.
LEMMA Progresses ==
    ASSUME SnapshotsTyped, Alone, Ages, \A s \in STasks : JobFine(s), \A i \in SnapshotIds : IdFine(i),
           NEW t \in STasks, Works(t), sup, NEW k, k = Id(t),
           \A s \in STasks : s # t => sjob'[s] = sjob[s],
           Works(t)' => /\ sjob'[t].ids \subseteq sjob[t].ids
                        /\ sjob'[t].why = sjob[t].why
                        /\ sjob'[t].at \in Creating => sjob[t].at \in Creating,
           \A i \in SnapshotIds : i # k =>
               /\ sdata'[i] = sdata[i] /\ smeta'[i] = smeta[i] /\ slist'[i] = slist[i]
               /\ i \in skept' <=> i \in skept
               /\ i \in sgone' <=> i \in sgone,
           sclash' = sclash, scut \subseteq scut', sup' = sup, sclock' = sclock,
           JobFine(t)', IdFine(k)'
    PROVE  Alone' /\ Ages' /\ (\A s \in STasks : JobFine(s)') /\ (\A i \in SnapshotIds : IdFine(i)')
<1>1. \A s \in STasks : s # t => (Works(s)' <=> Works(s)) /\ Id(s)' = Id(s)
  BY DEF Works, Id
<1>2. Alone'
  BY <1>1 DEF Alone, Works
<1>5. Ages'
  BY <1>1 DEF Ages, Old
<1>3. ASSUME NEW s \in STasks PROVE JobFine(s)'
  <2>. SUFFICES ASSUME s # t, Works(s), Id(s) \notin sclash PROVE JobFine(s)'
    BY <1>1 DEF JobFine, Sound
  <2>1. Id(s) \in sjob[s].ids /\ Id(s) \in SnapshotIds /\ k \in sjob[t].ids
    BY WorksTyped
  <2>2. Id(s) # k
    BY <2>1 DEF Alone
  <2>3. JobFine(s) /\ Id(s)' = Id(s) /\ sjob'[s] = sjob[s]
    BY <1>1
  <2>. QED  BY <2>1, <2>2, <2>3 DEF JobFine, Sound, Works
<1>4. ASSUME NEW i \in SnapshotIds PROVE IdFine(i)'
  <2>. SUFFICES ASSUME i # k PROVE IdFine(i)'
    OBVIOUS
  <2>1. IdFine(i)
    OBVIOUS
  <2>2. \A s \in STasks : Works(s)' /\ i \in sjob'[s].ids => Works(s) /\ i \in sjob[s].ids
    BY <1>1
  <2>3. \A s \in STasks : Works(s)' /\ i \in sjob'[s].ids /\ sjob'[s].at \in Creating => sjob[s].at \in Creating
    BY <1>1
  <2>. QED  BY <2>1, <2>2, <2>3 DEF IdFine, Sound
<1>. QED  BY <1>2, <1>3, <1>4, <1>5

LEMMA Moves ==
    ASSUME SnapshotsTyped, NEW t \in STasks, Works(t), NEW at \in Creating \cup Deleting, Move(t, at)
    PROVE  /\ sjob' \in [STasks -> Jobs \cup {Resting}] /\ Works(t)'
           /\ sjob'[t].at = at /\ sjob'[t].ids = sjob[t].ids /\ sjob'[t].why = sjob[t].why
           /\ sjob'[t].sum = sjob[t].sum
           /\ Id(t)' = Id(t)
           /\ \A s \in STasks : s # t => sjob'[s] = sjob[s]
<1>. DEFINE u == [sjob[t] EXCEPT !.at = at]
<1>1. sjob' = [sjob EXCEPT ![t] = u] /\ sjob \in [STasks -> Jobs \cup {Resting}] /\ sjob[t] \in Jobs
  BY WorksTyped DEF Move, SnapshotsTyped
<1>2. u \in Jobs /\ u.at = at /\ u.ids = sjob[t].ids /\ u.why = sjob[t].why /\ u.sum = sjob[t].sum /\ at # "none"
  BY <1>1 DEF Jobs, Creating, Deleting
<1>. HIDE DEF u
<1>3. sjob' \in [STasks -> Jobs \cup {Resting}] /\ sjob'[t] = u /\ \A s \in STasks : s # t => sjob'[s] = sjob[s]
  BY <1>1, <1>2
<1>. QED  BY <1>2, <1>3 DEF Works, Id

LEMMA Returning ==
    ASSUME SnapshotsTyped, NEW t \in STasks, ReturnSnapshot(t)
    PROVE  /\ sjob' \in [STasks -> Jobs \cup {Resting}] /\ ~Works(t)'
           /\ \A s \in STasks : s # t => sjob'[s] = sjob[s]
BY DEF SnapshotsTyped, ReturnSnapshot, Works, Resting

\* What a call at work, on an id that did not clash, says of that id.
LEMMA WorkedOn ==
    ASSUME SnapshotsInv, NEW t \in STasks, Works(t), Id(t) \notin sclash
    PROVE  /\ Id(t) \notin skept
           /\ sjob[t].at \in Creating => Id(t) \notin sgone
           /\ \A s \in STasks : s # t /\ Works(s) => Id(t) \notin sjob[s].ids
BY WorksTyped DEF SnapshotsInv, IdFine, Sound, Alone

LEMMA SnapshotsCreate ==
    ASSUME SnapshotsInv, NEW t \in STasks, CreateFile(t)
    PROVE  SnapshotsInv'
<1>1. SnapshotsTyped /\ Works(t) /\ sup /\ sjob[t].at = "create"
  BY DEF SnapshotsInv, CreateFile, AtStep, Works
<1>2. PICK k \in SnapshotIds : k = Id(t) /\ k \in sjob[t].ids
  BY <1>1, WorksTyped
<1>3. PICK f \in Copies : f = [by |-> sjob[t].call, whole |-> FALSE] /\ f # None
  <2>1. sjob[t].call \in 1..SMaxCalls
    BY <1>1, WorksTyped DEF Jobs
  <2>. QED  BY <2>1, NoneTyped
<1>4. sdata' = [sdata EXCEPT ![k] = f] /\ Move(t, "finish")
      /\ UNCHANGED <<smeta, slist, slock, sclock, scalls, sup, skept, sgone, sclash, scut>>
  BY <1>2, <1>3 DEF CreateFile
<1>5. /\ sjob' \in [STasks -> Jobs \cup {Resting}] /\ Works(t)' /\ sjob'[t].at = "finish"
      /\ sjob'[t].ids = sjob[t].ids /\ sjob'[t].why = sjob[t].why /\ Id(t)' = k
      /\ \A s \in STasks : s # t => sjob'[s] = sjob[s]
  BY <1>1, <1>2, <1>4, Moves DEF Creating
<1>6. sdata' \in [SnapshotIds -> Copies] /\ sdata'[k] = f /\ \A i \in SnapshotIds : i # k => sdata'[i] = sdata[i]
  BY <1>1, <1>4 DEF SnapshotsTyped
<1>7. SnapshotsTyped'
  BY <1>1, <1>4, <1>5, <1>6 DEF SnapshotsTyped
<1>8. JobFine(t)'
  BY <1>3, <1>5, <1>6 DEF JobFine, Sound
<1>9. IdFine(k)'
  <2>1. k \notin sclash => k \notin skept /\ k \notin sgone /\ IdFine(k)
    BY <1>1, <1>2, WorkedOn DEF Creating, SnapshotsInv
  <2>. QED  BY <1>4, <2>1 DEF IdFine, Sound
<1>. QED  BY <1>1, <1>2, <1>4, <1>5, <1>6, <1>7, <1>8, <1>9, Progresses DEF SnapshotsInv, Creating

LEMMA SnapshotsFinish ==
    ASSUME SnapshotsInv, NEW t \in STasks, FinishFile(t)
    PROVE  SnapshotsInv'
<1>1. SnapshotsTyped /\ Works(t) /\ sup /\ sjob[t].at = "finish" /\ JobFine(t)
  BY DEF SnapshotsInv, FinishFile, AtStep, Works
<1>2. PICK k \in SnapshotIds : k = Id(t) /\ k \in sjob[t].ids
  BY <1>1, WorksTyped
<1>3. PICK f \in Copies : /\ sdata' = [sdata EXCEPT ![k] = f] /\ (k \notin sclash => Sound(f)')
                         /\ scut \subseteq scut' /\ scut' \in SUBSET (1..SMaxCalls)
  <2>1. PICK whole \in BOOLEAN :
            /\ sdata' = [sdata EXCEPT ![k] = IF sdata[k] = None THEN None ELSE [by |-> sjob[t].call, whole |-> whole]]
            /\ scut' = IF whole THEN scut ELSE scut \cup {sjob[t].call}
    BY <1>1, <1>2 DEF FinishFile, SnapshotsTyped
  <2>2. [by |-> sjob[t].call, whole |-> whole] \in Copies /\ sjob[t].call \in 1..SMaxCalls
    <3>1. sjob[t].call \in 1..SMaxCalls /\ whole \in BOOLEAN
      BY <1>1, WorksTyped DEF Jobs
    <3>. QED  BY <3>1, NoneTyped
  <2>3. k \notin sclash => sdata[k] # None
    BY <1>1, <1>2 DEF JobFine, Sound
  <2>. QED  BY <1>1, <2>1, <2>2, <2>3, NoneTyped DEF SnapshotsTyped, Sound
<1>4. Move(t, "checksum") /\ UNCHANGED <<smeta, slist, slock, sclock, scalls, sup, skept, sgone, sclash>>
  BY DEF FinishFile
<1>5. /\ sjob' \in [STasks -> Jobs \cup {Resting}] /\ Works(t)' /\ sjob'[t].at = "checksum"
      /\ sjob'[t].ids = sjob[t].ids /\ sjob'[t].why = sjob[t].why /\ Id(t)' = k
      /\ \A s \in STasks : s # t => sjob'[s] = sjob[s]
  BY <1>1, <1>2, <1>4, Moves DEF Creating
<1>6. sdata' \in [SnapshotIds -> Copies] /\ sdata'[k] = f /\ \A i \in SnapshotIds : i # k => sdata'[i] = sdata[i]
  BY <1>1, <1>3 DEF SnapshotsTyped
<1>7. SnapshotsTyped'
  BY <1>1, <1>3, <1>4, <1>5, <1>6 DEF SnapshotsTyped
<1>8. JobFine(t)'
  BY <1>3, <1>4, <1>5, <1>6 DEF JobFine, Sound
<1>9. IdFine(k)'
  <2>1. k \notin sclash => k \notin skept /\ k \notin sgone /\ IdFine(k)
    BY <1>1, <1>2, WorkedOn DEF Creating, SnapshotsInv
  <2>. QED  BY <1>3, <1>4, <2>1 DEF IdFine, Sound
<1>. QED  BY <1>1, <1>2, <1>3, <1>4, <1>5, <1>6, <1>7, <1>8, <1>9, Progresses DEF SnapshotsInv, Creating

LEMMA SnapshotsChecksum ==
    ASSUME SnapshotsInv, NEW t \in STasks, Checksum(t)
    PROVE  SnapshotsInv'
<1>. DEFINE u == [sjob[t] EXCEPT !.at = "meta", !.sum = sdata[Id(t)]]
<1>1. SnapshotsTyped /\ Works(t) /\ sup /\ sjob[t].at = "checksum" /\ JobFine(t)
  BY DEF SnapshotsInv, Checksum, AtStep, Works
<1>2. PICK k \in SnapshotIds : k = Id(t) /\ k \in sjob[t].ids
  BY <1>1, WorksTyped
<1>3. sjob[t] \in Jobs /\ sdata[k] \in Copies
  BY <1>1, WorksTyped DEF SnapshotsTyped
<1>4. /\ sjob' = [sjob EXCEPT ![t] = u]
      /\ UNCHANGED <<sdata, smeta, slist, slock, sclock, scalls, sup, skept, sgone, sclash, scut>>
  BY <1>1 DEF Checksum, SnapshotsTyped
<1>5. u \in Jobs /\ u.at = "meta" /\ u.sum = sdata[k] /\ u.ids = sjob[t].ids /\ u.why = sjob[t].why
  BY <1>2, <1>3 DEF Jobs, Creating
<1>. HIDE DEF u
<1>6. /\ sjob' \in [STasks -> Jobs \cup {Resting}] /\ sjob'[t] = u
      /\ \A s \in STasks : s # t => sjob'[s] = sjob[s]
  BY <1>1, <1>4, <1>5 DEF SnapshotsTyped
<1>7. Works(t)' /\ Id(t)' = k
  BY <1>2, <1>5, <1>6 DEF Works, Id
<1>8. SnapshotsTyped'
  BY <1>1, <1>4, <1>6 DEF SnapshotsTyped
<1>9. JobFine(t)'
  <2>1. k \notin sclash => Sound(sdata[k])
    BY <1>1, <1>2 DEF JobFine, Sound
  <2>. QED  BY <1>4, <1>5, <1>6, <1>7, <2>1 DEF JobFine, Sound
<1>10. IdFine(k)'
  <2>1. k \notin sclash => k \notin skept /\ k \notin sgone /\ IdFine(k)
    BY <1>1, <1>2, WorkedOn DEF Creating, SnapshotsInv
  <2>. QED  BY <1>4, <2>1 DEF IdFine, Sound
<1>. QED  BY <1>1, <1>2, <1>4, <1>5, <1>6, <1>7, <1>8, <1>9, <1>10, Progresses DEF SnapshotsInv, Creating

LEMMA SnapshotsMeta ==
    ASSUME SnapshotsInv, NEW t \in STasks, WriteMeta(t)
    PROVE  SnapshotsInv'
<1>1. SnapshotsTyped /\ Works(t) /\ sup /\ sjob[t].at = "meta" /\ JobFine(t)
  BY DEF SnapshotsInv, WriteMeta, AtStep, Works
<1>2. PICK k \in SnapshotIds : k = Id(t) /\ k \in sjob[t].ids
  BY <1>1, WorksTyped
<1>3. PICK f \in Copies : f = sjob[t].sum
  BY <1>1, WorksTyped DEF Jobs
<1>4. /\ smeta' = [smeta EXCEPT ![k] = f] /\ Move(t, "insert")
      /\ UNCHANGED <<sdata, slist, slock, sclock, scalls, sup, skept, sgone, sclash, scut>>
  BY <1>2, <1>3 DEF WriteMeta
<1>5. /\ sjob' \in [STasks -> Jobs \cup {Resting}] /\ Works(t)' /\ sjob'[t].at = "insert"
      /\ sjob'[t].ids = sjob[t].ids /\ sjob'[t].why = sjob[t].why /\ Id(t)' = k /\ sjob'[t].sum = f
      /\ \A s \in STasks : s # t => sjob'[s] = sjob[s]
  BY <1>1, <1>2, <1>3, <1>4, Moves DEF Creating
<1>6. smeta' \in [SnapshotIds -> Copies] /\ smeta'[k] = f /\ \A i \in SnapshotIds : i # k => smeta'[i] = smeta[i]
  BY <1>1, <1>4 DEF SnapshotsTyped
<1>7. SnapshotsTyped'
  BY <1>1, <1>4, <1>5, <1>6 DEF SnapshotsTyped
<1>8. k \notin sclash => f = sdata[k] /\ Sound(f)
  BY <1>1, <1>2, <1>3 DEF JobFine, Sound
<1>9. JobFine(t)'
  BY <1>4, <1>5, <1>6, <1>8 DEF JobFine, Sound
<1>10. IdFine(k)'
  <2>1. k \notin sclash => k \notin skept /\ k \notin sgone /\ IdFine(k)
    BY <1>1, <1>2, WorkedOn DEF Creating, SnapshotsInv
  <2>. QED  BY <1>4, <1>6, <1>8, <2>1 DEF IdFine, Sound
<1>. QED  BY <1>1, <1>2, <1>4, <1>5, <1>6, <1>7, <1>9, <1>10, Progresses DEF SnapshotsInv, Creating

LEMMA SnapshotsInsert ==
    ASSUME SnapshotsInv, NEW t \in STasks, InsertEntry(t)
    PROVE  SnapshotsInv'
<1>1. SnapshotsTyped /\ Works(t) /\ sup /\ sjob[t].at = "insert" /\ JobFine(t)
  BY DEF SnapshotsInv, InsertEntry, AtStep, Works
<1>2. PICK k \in SnapshotIds : k = Id(t) /\ k \in sjob[t].ids
  BY <1>1, WorksTyped
<1>3. PICK f \in Copies : f = sjob[t].sum
  BY <1>1, WorksTyped DEF Jobs
<1>4. sjob[t].ids = {k}
  BY <1>1, <1>2 DEF SnapshotsInv, Alone, Creating
<1>5. /\ slist' = [slist EXCEPT ![k] = f] /\ ReturnSnapshot(t) /\ skept' = skept \cup {k}
      /\ UNCHANGED <<sdata, smeta, slock, sclock, scalls, sup, sgone, sclash, scut>>
  BY <1>2, <1>3, <1>4 DEF InsertEntry
<1>6. /\ sjob' \in [STasks -> Jobs \cup {Resting}] /\ ~Works(t)'
      /\ \A s \in STasks : s # t => sjob'[s] = sjob[s]
  BY <1>1, <1>5, Returning
<1>7. slist' \in [SnapshotIds -> Copies] /\ slist'[k] = f /\ \A i \in SnapshotIds : i # k => slist'[i] = slist[i]
  BY <1>1, <1>5 DEF SnapshotsTyped
<1>8. SnapshotsTyped'
  BY <1>1, <1>5, <1>6, <1>7 DEF SnapshotsTyped
<1>9. JobFine(t)'
  BY <1>6 DEF JobFine, Sound
<1>10. IdFine(k)'
  <2>1. k \notin sclash =>
            /\ k \notin sgone /\ IdFine(k) /\ f = sdata[k] /\ Sound(f) /\ smeta[k] = sdata[k]
            /\ \A s \in STasks : s # t /\ Works(s) => k \notin sjob[s].ids
    BY <1>1, <1>2, <1>3, WorkedOn DEF Creating, SnapshotsInv, JobFine, Sound
  <2>2. k \notin sclash => \A s \in STasks : Works(s)' => k \notin sjob'[s].ids
    BY <1>6, <2>1 DEF Works
  <2>. QED  BY <1>5, <1>7, <2>1, <2>2 DEF IdFine, Sound
<1>. QED  BY <1>1, <1>2, <1>5, <1>6, <1>7, <1>8, <1>9, <1>10, Progresses DEF SnapshotsInv

\* A file operation fails: the call returns.
LEMMA SnapshotsFail ==
    ASSUME SnapshotsInv, NEW t \in STasks, FailSnapshot(t)
    PROVE  SnapshotsInv'
<1>1. SnapshotsTyped /\ Works(t) /\ sup
  BY DEF SnapshotsInv, FailSnapshot, Works
<1>2. PICK k \in SnapshotIds : k = Id(t) /\ k \in sjob[t].ids
  BY <1>1, WorksTyped
<1>3. /\ ReturnSnapshot(t) /\ slock' \in {slock, Nobody}
      /\ UNCHANGED <<sdata, smeta, slist, sclock, scalls, sup, skept, sgone, sclash, scut>>
  BY DEF FailSnapshot
<1>4. /\ sjob' \in [STasks -> Jobs \cup {Resting}] /\ ~Works(t)'
      /\ \A s \in STasks : s # t => sjob'[s] = sjob[s]
  BY <1>1, <1>3, Returning
<1>5. SnapshotsTyped'
  BY <1>1, <1>3, <1>4 DEF SnapshotsTyped
<1>6. JobFine(t)'
  BY <1>4 DEF JobFine, Sound
<1>7. IdFine(k)'
  <2>1. IdFine(k)
    BY DEF SnapshotsInv
  <2>2. \A s \in STasks : Works(s)' => Works(s) /\ sjob'[s] = sjob[s]
    BY <1>4 DEF Works
  <2>. QED  BY <1>3, <2>1, <2>2 DEF IdFine, Sound
<1>. QED  BY <1>1, <1>2, <1>3, <1>4, <1>5, <1>6, <1>7, Progresses DEF SnapshotsInv

\* A call that deletes is done with its id: it returns, or goes on with the rest.
LEMMA NextDeletion ==
    ASSUME SnapshotsTyped, NEW t \in STasks, Works(t), NEW k, k = Id(t),
           sjob' = [sjob EXCEPT ![t] = WithoutId(t)]
    PROVE  /\ sjob' \in [STasks -> Jobs \cup {Resting}]
           /\ Works(t)' => /\ sjob'[t].ids \subseteq sjob[t].ids \ {k}
                           /\ sjob'[t].why = sjob[t].why /\ sjob'[t].at = "delete"
           /\ \A s \in STasks : s # t => sjob'[s] = sjob[s]
<1>. DEFINE u == [sjob[t] EXCEPT !.at = "delete", !.ids = sjob[t].ids \ {k}]
<1>1. sjob \in [STasks -> Jobs \cup {Resting}] /\ sjob[t] \in Jobs /\ k \in sjob[t].ids
  BY WorksTyped DEF SnapshotsTyped
<1>2. CASE Cardinality(sjob[t].ids) = 1
  <2>1. sjob' = [sjob EXCEPT ![t] = Resting]
    BY <1>2 DEF WithoutId
  <2>. QED  BY <1>1, <2>1 DEF Works, Resting
<1>3. CASE Cardinality(sjob[t].ids) # 1
  <2>1. sjob[t].ids # {k}
    BY <1>3, FS_Singleton
  <2>2. sjob[t].ids \ {k} \in (SUBSET SnapshotIds) \ {{}}
    BY <1>1, <2>1 DEF Jobs
  <2>3. u \in Jobs /\ u.ids = sjob[t].ids \ {k} /\ u.why = sjob[t].why /\ u.at = "delete"
    BY <1>1, <2>2 DEF Jobs, Deleting
  <2>4. sjob' = [sjob EXCEPT ![t] = u]
    BY <1>3 DEF WithoutId
  <2>. HIDE DEF u
  <2>5. sjob' \in [STasks -> Jobs \cup {Resting}] /\ sjob'[t] = u /\ \A s \in STasks : s # t => sjob'[s] = sjob[s]
    BY <1>1, <2>3, <2>4
  <2>. QED  BY <2>3, <2>5
<1>. QED  BY <1>2, <1>3

LEMMA SnapshotsDeleteEntry ==
    ASSUME SnapshotsInv, NEW t \in STasks, DeleteEntry(t)
    PROVE  SnapshotsInv'
<1>1. SnapshotsTyped /\ Works(t) /\ sup /\ sjob[t].at = "delete" /\ sjob[t] \in Jobs
  BY WorksTyped DEF SnapshotsInv, DeleteEntry, AtStep, Works
<1>2. PICK k \in SnapshotIds : k = Id(t) /\ k \in sjob[t].ids
  BY <1>1, WorksTyped
<1>3. UNCHANGED <<sdata, smeta, sclock, scalls, sup, skept, sgone, sclash, scut>>
  BY DEF DeleteEntry
<1>4. IdFine(k)
  BY DEF SnapshotsInv
<1>5. CASE slist[k] = None
  <2>1. sjob' = [sjob EXCEPT ![t] = WithoutId(t)] /\ UNCHANGED <<slist, slock>>
    BY <1>2, <1>5 DEF DeleteEntry
  <2>3. /\ sjob' \in [STasks -> Jobs \cup {Resting}]
        /\ Works(t)' => /\ sjob'[t].ids \subseteq sjob[t].ids \ {k}
                        /\ sjob'[t].why = sjob[t].why /\ sjob'[t].at = "delete"
        /\ \A s \in STasks : s # t => sjob'[s] = sjob[s]
    BY <1>1, <1>2, <2>1, NextDeletion
  <2>4. SnapshotsTyped'
    BY <1>1, <1>3, <2>1, <2>3 DEF SnapshotsTyped
  <2>5. JobFine(t)'
    BY <2>3 DEF JobFine, Sound
  <2>6. IdFine(k)'
    <3>1. \A s \in STasks : Works(s)' /\ k \in sjob'[s].ids => Works(s) /\ sjob'[s] = sjob[s]
      BY <2>3 DEF Works
    <3>. QED  BY <1>3, <1>4, <2>1, <3>1 DEF IdFine, Sound
  <2>. QED  BY <1>1, <1>2, <1>3, <2>1, <2>3, <2>4, <2>5, <2>6, Progresses DEF SnapshotsInv, Creating
<1>6. CASE slist[k] # None
  <2>1. slist' = [slist EXCEPT ![k] = None] /\ slock' = t /\ Move(t, "delete_data")
    BY <1>2, <1>6 DEF DeleteEntry
  <2>2. /\ sjob' \in [STasks -> Jobs \cup {Resting}] /\ Works(t)' /\ sjob'[t].at = "delete_data"
        /\ sjob'[t].ids = sjob[t].ids /\ sjob'[t].why = sjob[t].why /\ Id(t)' = k
        /\ \A s \in STasks : s # t => sjob'[s] = sjob[s]
    BY <1>1, <1>2, <2>1, Moves DEF Deleting
  <2>3. slist' \in [SnapshotIds -> Copies] /\ slist'[k] = None /\ \A i \in SnapshotIds : i # k => slist'[i] = slist[i]
    BY <1>1, <2>1, NoneTyped DEF SnapshotsTyped
  <2>4. SnapshotsTyped'
    BY <1>1, <1>3, <2>1, <2>2, <2>3 DEF SnapshotsTyped
  <2>5. JobFine(t)'
    BY <2>2, <2>3 DEF JobFine, Sound
  <2>6. IdFine(k)'
    <3>1. k \notin sclash => k \notin skept
      BY <1>1, <1>2, WorkedOn
    <3>2. \A s \in STasks : Works(s)' /\ sjob'[s].at \in Creating => Works(s) /\ sjob'[s] = sjob[s]
      BY <2>2 DEF Works, Creating
    <3>. QED  BY <1>3, <1>4, <2>3, <3>1, <3>2 DEF IdFine, Sound
  <2>. QED  BY <1>1, <1>2, <1>3, <2>2, <2>3, <2>4, <2>5, <2>6, Progresses DEF SnapshotsInv, Creating
<1>. QED  BY <1>5, <1>6

LEMMA SnapshotsDeleteData ==
    ASSUME SnapshotsInv, NEW t \in STasks, DeleteData(t)
    PROVE  SnapshotsInv'
<1>1. SnapshotsTyped /\ Works(t) /\ sup /\ sjob[t].at = "delete_data" /\ JobFine(t)
  BY DEF SnapshotsInv, DeleteData, AtStep, Works
<1>2. PICK k \in SnapshotIds : k = Id(t) /\ k \in sjob[t].ids
  BY <1>1, WorksTyped
<1>3. /\ sdata' = [sdata EXCEPT ![k] = None] /\ Move(t, "delete_meta")
      /\ UNCHANGED <<smeta, slist, slock, sclock, scalls, sup, skept, sgone, sclash, scut>>
  BY <1>2 DEF DeleteData, RemovedFile
<1>4. /\ sjob' \in [STasks -> Jobs \cup {Resting}] /\ Works(t)' /\ sjob'[t].at = "delete_meta"
      /\ sjob'[t].ids = sjob[t].ids /\ sjob'[t].why = sjob[t].why /\ Id(t)' = k
      /\ \A s \in STasks : s # t => sjob'[s] = sjob[s]
  BY <1>1, <1>2, <1>3, Moves DEF Deleting
<1>5. sdata' \in [SnapshotIds -> Copies] /\ sdata'[k] = None /\ \A i \in SnapshotIds : i # k => sdata'[i] = sdata[i]
  BY <1>1, <1>3, NoneTyped DEF SnapshotsTyped
<1>6. SnapshotsTyped'
  BY <1>1, <1>3, <1>4, <1>5 DEF SnapshotsTyped
<1>7. JobFine(t)'
  <2>1. k \notin sclash => slist[k] = None
    BY <1>1, <1>2 DEF JobFine, Sound
  <2>. QED  BY <1>3, <1>4, <1>5, <2>1 DEF JobFine, Sound
<1>8. IdFine(k)'
  <2>1. IdFine(k) /\ (k \notin sclash => k \notin skept)
    BY <1>1, <1>2, WorkedOn DEF SnapshotsInv
  <2>2. \A s \in STasks : Works(s)' /\ sjob'[s].at \in Creating => Works(s) /\ sjob'[s] = sjob[s]
    BY <1>4 DEF Works, Creating
  <2>. QED  BY <1>3, <1>5, <2>1, <2>2 DEF IdFine, Sound
<1>. QED  BY <1>1, <1>2, <1>3, <1>4, <1>5, <1>6, <1>7, <1>8, Progresses DEF SnapshotsInv, Creating

LEMMA SnapshotsDeleteMeta ==
    ASSUME SnapshotsInv, NEW t \in STasks, DeleteMeta(t)
    PROVE  SnapshotsInv'
<1>1. SnapshotsTyped /\ Works(t) /\ sup /\ sjob[t].at = "delete_meta" /\ JobFine(t)
  BY DEF SnapshotsInv, DeleteMeta, AtStep, Works
<1>2. PICK k \in SnapshotIds : k = Id(t) /\ k \in sjob[t].ids
  BY <1>1, WorksTyped
<1>3. /\ smeta' = [smeta EXCEPT ![k] = None] /\ sgone' = sgone \cup {k} /\ slock' = Nobody
      /\ sjob' = [sjob EXCEPT ![t] = WithoutId(t)]
      /\ UNCHANGED <<sdata, slist, sclock, scalls, sup, skept, sclash, scut>>
  BY <1>2 DEF DeleteMeta, RemovedFile
<1>4. /\ sjob' \in [STasks -> Jobs \cup {Resting}]
      /\ Works(t)' => /\ sjob'[t].ids \subseteq sjob[t].ids \ {k}
                      /\ sjob'[t].why = sjob[t].why /\ sjob'[t].at = "delete"
      /\ \A s \in STasks : s # t => sjob'[s] = sjob[s]
  BY <1>1, <1>2, <1>3, NextDeletion
<1>5. smeta' \in [SnapshotIds -> Copies] /\ smeta'[k] = None /\ \A i \in SnapshotIds : i # k => smeta'[i] = smeta[i]
  BY <1>1, <1>3, NoneTyped DEF SnapshotsTyped
<1>6. SnapshotsTyped'
  BY <1>1, <1>3, <1>4, <1>5 DEF SnapshotsTyped
<1>7. JobFine(t)'
  BY <1>4 DEF JobFine, Sound
<1>8. IdFine(k)'
  <2>1. IdFine(k) /\ (k \notin sclash => k \notin skept /\ slist[k] = None /\ sdata[k] = None)
    BY <1>1, <1>2, WorkedOn DEF SnapshotsInv, JobFine, Sound
  <2>2. k \notin sclash => \A s \in STasks : Works(s)' => k \notin sjob'[s].ids
    <3>1. k \notin sclash => \A s \in STasks : s # t /\ Works(s) => k \notin sjob[s].ids
      BY <1>1, <1>2, WorkedOn
    <3>. QED  BY <1>4, <3>1 DEF Works
  <2>. QED  BY <1>3, <1>5, <2>1, <2>2 DEF IdFine, Sound
<1>. QED  BY <1>1, <1>2, <1>3, <1>4, <1>5, <1>6, <1>7, <1>8, Progresses DEF SnapshotsInv, Creating

\* A call begins.
LEMMA SnapshotsBegin ==
    ASSUME SnapshotsInv, NEW t \in STasks, NEW at \in {"create", "delete"}, NEW why \in {"asked", "old"},
           NEW ids \in (SUBSET SnapshotIds) \ {{}}, StartSnapshot(t, at, why, ids),
           at = "create" => (\A i, j \in ids : i = j) /\ skept' = skept /\ sgone' = sgone \ ids,
           at = "delete" => skept' = skept \ ids /\ sgone' = sgone,
           why = "old" => \A i \in ids : Old(i)
    PROVE  SnapshotsInv'
<1>. DEFINE u == [at |-> at, why |-> why, ids |-> ids, call |-> scalls + 1, sum |-> None]
<1>1. /\ SnapshotsTyped /\ sup /\ ~Works(t) /\ scalls < SMaxCalls /\ scalls' = scalls + 1
      /\ sjob' = [sjob EXCEPT ![t] = u]
      /\ sclash' = sclash \cup {i \in ids : Busy(i) \/ (at = "create" /\ sdata[i] # None)}
      /\ UNCHANGED <<sdata, smeta, slist, slock, sclock, sup, scut>>
  BY DEF SnapshotsInv, StartSnapshot, Works, Resting
<1>2. u \in Jobs /\ scalls' \in 0..SMaxCalls
  <2>1. scalls + 1 \in 1..SMaxCalls
    BY <1>1, SnapshotsAssumption DEF SnapshotsTyped
  <2>2. u \in Jobs
    BY <2>1, NoneTyped DEF Jobs, Creating, Deleting
  <2>. QED  BY <1>1, <2>1, <2>2, SnapshotsAssumption
<1>3. u.at = at /\ u.ids = ids /\ u.why = why /\ at # "none"
  OBVIOUS
<1>. HIDE DEF u
<1>4. /\ sjob' \in [STasks -> Jobs \cup {Resting}] /\ sjob'[t] = u
      /\ \A s \in STasks : s # t => sjob'[s] = sjob[s]
  BY <1>1, <1>2 DEF SnapshotsTyped
<1>5. SnapshotsTyped'
  BY <1>1, <1>2, <1>4 DEF SnapshotsTyped
<1>6. /\ Works(t)' /\ sclash \subseteq sclash'
      /\ \A s \in STasks : s # t => (Works(s)' <=> Works(s)) /\ Id(s)' = Id(s)
  BY <1>1, <1>3, <1>4 DEF Works, Id
<1>7. \A s \in STasks : s # t /\ Works(s) => sjob[s].ids \cap ids \subseteq sclash'
  BY <1>1 DEF Busy, Works
<1>8. Alone'
  <2>1. ASSUME NEW r \in STasks, NEW s \in STasks, r # s, Works(r)', Works(s)'
        PROVE  sjob'[r].ids \cap sjob'[s].ids \subseteq sclash'
    <3>1. CASE r = t
      BY <1>3, <1>4, <1>6, <1>7, <2>1, <3>1
    <3>2. CASE s = t
      BY <1>3, <1>4, <1>6, <1>7, <2>1, <3>2
    <3>3. CASE r # t /\ s # t
      BY <1>4, <1>6, <2>1, <3>3 DEF SnapshotsInv, Alone
    <3>. QED  BY <3>1, <3>2, <3>3
  <2>2. ASSUME NEW s \in STasks, Works(s)', sjob'[s].at \in Creating PROVE \A i, j \in sjob'[s].ids : i = j
    <3>1. CASE s = t
      BY <1>3, <1>4, <2>2, <3>1 DEF Creating
    <3>2. CASE s # t
      BY <1>4, <1>6, <2>2, <3>2 DEF SnapshotsInv, Alone
    <3>. QED  BY <3>1, <3>2
  <2>. QED  BY <1>1, <2>1, <2>2 DEF Alone
<1>9. Ages'
  <2>1. ASSUME NEW s \in STasks, Works(s)', sjob'[s].why = "old" PROVE \A i \in sjob'[s].ids : Old(i)'
    <3>1. CASE s = t
      BY <1>1, <1>3, <1>4, <2>1, <3>1 DEF Old
    <3>2. CASE s # t
      BY <1>1, <1>4, <1>6, <2>1, <3>2 DEF SnapshotsInv, Ages, Old
    <3>. QED  BY <3>1, <3>2
  <2>. QED  BY <2>1 DEF Ages
<1>10. ASSUME NEW s \in STasks PROVE JobFine(s)'
  <2>1. CASE s = t
    <3>1. Id(t)' \in ids
      BY <1>3, <1>4 DEF Id
    <3>2. at = "create" /\ Id(t)' \notin sclash' => sdata[Id(t)'] = None
      BY <1>1, <3>1
    <3>3. sjob'[t].at = at
      BY <1>3, <1>4
    <3>. QED  BY <1>1, <2>1, <3>2, <3>3 DEF JobFine, Sound
  <2>2. CASE s # t
    <3>1. JobFine(s) /\ sjob'[s] = sjob[s] /\ Id(s)' = Id(s) /\ (Works(s)' <=> Works(s))
      BY <1>4, <1>6, <2>2 DEF SnapshotsInv
    <3>. QED  BY <1>1, <1>6, <3>1 DEF JobFine, Sound
  <2>. QED  BY <2>1, <2>2
<1>11. ASSUME NEW i \in SnapshotIds PROVE IdFine(i)'
  <2>. SUFFICES ASSUME i \notin sclash' PROVE IdFine(i)'
    BY DEF IdFine, Sound
  <2>1. i \notin sclash /\ IdFine(i)
    BY <1>6 DEF SnapshotsInv
  <2>2. i \in skept' => i \in skept /\ i \notin ids
    <3>1. CASE at = "create"
      <4>1. i \in skept => sdata[i] # None
        BY <2>1, NoneTyped DEF IdFine, Sound
      <4>. QED  BY <1>1, <3>1, <4>1
    <3>2. CASE at = "delete"
      BY <3>2
    <3>. QED  BY <3>1, <3>2
  <2>3. i \in sgone' => i \in sgone /\ (at = "create" => i \notin ids)
    OBVIOUS
  <2>4. i \in skept' => \A s \in STasks : Works(s)' => i \notin sjob'[s].ids
    BY <1>3, <1>4, <1>6, <2>1, <2>2 DEF IdFine, Sound
  <2>5. i \in sgone' => \A s \in STasks : Works(s)' /\ i \in sjob'[s].ids => sjob'[s].at \notin Creating
    BY <1>3, <1>4, <1>6, <2>1, <2>3 DEF IdFine, Sound, Creating
  <2>. QED  BY <1>1, <2>1, <2>2, <2>3, <2>4, <2>5 DEF IdFine, Sound
<1>. QED  BY <1>5, <1>8, <1>9, <1>10, <1>11 DEF SnapshotsInv

LEMMA SnapshotsTick ==
    ASSUME SnapshotsInv, Tick
    PROVE  SnapshotsInv'
<1>1. /\ UNCHANGED <<sdata, smeta, slist, slock, sjob, scalls, sup, skept, sgone, sclash, scut>>
      /\ sclock < SMaxClock /\ sclock' = sclock + 1 /\ SnapshotsTyped
  BY DEF Tick, SnapshotsInv
<1>2. SnapshotsTyped'
  <2>1. sclock' \in Nat /\ sclock' <= SMaxClock
    BY <1>1, SnapshotsAssumption DEF SnapshotsTyped
  <2>. QED  BY <1>1, <2>1 DEF SnapshotsTyped
<1>3. Alone' /\ (\A t \in STasks : Works(t)' = Works(t) /\ Id(t)' = Id(t))
  BY <1>1 DEF SnapshotsInv, Alone, Works, Id
<1>4. Ages'
  <2>1. ASSUME NEW i \in SnapshotIds, Old(i) PROVE Old(i)'
    <3>1. i.second \in Nat /\ sclock \in Nat /\ SRetention \in Nat
      BY <1>1, SnapshotsAssumption DEF SnapshotIds, SnapshotsTyped
    <3>. QED  BY <1>1, <2>1, <3>1 DEF Old
  <2>2. ASSUME NEW t \in STasks, Works(t), NEW i \in sjob[t].ids PROVE i \in SnapshotIds
    BY <1>1, <2>2, WorksTyped
  <2>. QED  BY <1>1, <1>3, <2>1, <2>2 DEF SnapshotsInv, Ages
<1>5. \A t \in STasks : JobFine(t)'
  BY <1>1, <1>3 DEF SnapshotsInv, JobFine, Sound
<1>6. \A i \in SnapshotIds : IdFine(i)'
  BY <1>1, <1>3 DEF SnapshotsInv, IdFine, Sound
<1>. QED  BY <1>2, <1>3, <1>4, <1>5, <1>6 DEF SnapshotsInv

LEMMA SnapshotsRestart ==
    ASSUME SnapshotsInv, NEW in_task \in BOOLEAN, RestartSnapshots(in_task)
    PROVE  SnapshotsInv'
<1>1. /\ UNCHANGED <<sdata, smeta, sclock, scalls, skept, sgone, sclash, scut>>
      /\ sup' \in BOOLEAN /\ slock' = Nobody /\ sjob' = [t \in STasks |-> Resting]
      /\ slist' = [i \in SnapshotIds |-> IF i \in Loadable /\ sup' THEN smeta[i] ELSE None]
      /\ SnapshotsTyped
  BY DEF RestartSnapshots, SnapshotsInv
<1>2. slist' \in [SnapshotIds -> Copies]
  BY <1>1, NoneTyped DEF SnapshotsTyped
<1>3. SnapshotsTyped'
  BY <1>1, <1>2 DEF SnapshotsTyped
<1>4. \A t \in STasks : ~Works(t)' /\ sjob'[t] = Resting
  BY <1>1 DEF Works, Resting
<1>5. Alone' /\ Ages' /\ \A t \in STasks : JobFine(t)'
  BY <1>4 DEF Alone, Ages, JobFine, Sound
<1>6. ASSUME NEW i \in SnapshotIds PROVE IdFine(i)'
  <2>1. IdFine(i)
    BY DEF SnapshotsInv
  <2>2. slist'[i] = IF i \in Loadable /\ sup' THEN smeta[i] ELSE None
    BY <1>1
  <2>3. (Sound(sdata[i]) /\ smeta[i] = sdata[i]) => i \in Loadable
    BY DEF Loadable, Sound
  <2>4. smeta[i] = None => i \notin Loadable
    BY DEF Loadable
  <2>. QED  BY <1>1, <1>4, <2>1, <2>2, <2>3, <2>4 DEF IdFine, Sound
<1>. QED  BY <1>3, <1>5, <1>6 DEF SnapshotsInv

LEMMA SnapshotsStart == SnapshotsInit => SnapshotsInv
<1>. SUFFICES ASSUME SnapshotsInit PROVE SnapshotsInv
  OBVIOUS
<1>1. SnapshotsTyped
  BY NoneTyped, SnapshotsAssumption DEF SnapshotsInit, SnapshotsTyped
<1>2. \A t \in STasks : ~Works(t)
  BY DEF SnapshotsInit, Works, Resting
<1>3. Alone /\ Ages /\ \A t \in STasks : JobFine(t)
  BY <1>2 DEF Alone, Ages, JobFine, Sound, SnapshotsInit
<1>4. \A i \in SnapshotIds : IdFine(i)
  BY DEF IdFine, Sound, SnapshotsInit
<1>. QED  BY <1>1, <1>3, <1>4 DEF SnapshotsInv

LEMMA SnapshotsKeep == SnapshotsInv /\ [SnapshotsNext]_SnapshotsVars => SnapshotsInv'
<1>. SUFFICES ASSUME SnapshotsInv, [SnapshotsNext]_SnapshotsVars PROVE SnapshotsInv'
  OBVIOUS
<1>1. CASE UNCHANGED SnapshotsVars
  <2>1. UNCHANGED <<sdata, smeta, slist, slock, sjob, sclock, scalls, srestarts, sup, skept, sgone, sclash, scut>>
    BY <1>1 DEF SnapshotsVars
  <2>2. SnapshotsTyped' /\ Alone' /\ Ages'
    BY <2>1 DEF SnapshotsInv, SnapshotsTyped, Alone, Ages, Works, Old
  <2>3. (\A t \in STasks : JobFine(t)') /\ (\A i \in SnapshotIds : IdFine(i)')
    BY <2>1 DEF SnapshotsInv, JobFine, IdFine, Sound, Works, Id
  <2>. QED  BY <2>2, <2>3 DEF SnapshotsInv
<1>2. ASSUME NEW t \in STasks, NEW kind \in {"full", "inc"}, create_snapshot(t, kind) PROVE SnapshotsInv'
  <2>. DEFINE i == [second |-> sclock, kind |-> kind]
  <2>1. {i} \in (SUBSET SnapshotIds) \ {{}}
    <3>1. sclock \in 0..SMaxClock
      BY SnapshotsAssumption DEF SnapshotsInv, SnapshotsTyped
    <3>2. i \in SnapshotIds
      BY <3>1 DEF SnapshotIds
    <3>. QED  BY <3>2
  <2>2. \A x, y \in {i} : x = y
    OBVIOUS
  <2>3. StartSnapshot(t, "create", "asked", {i}) /\ skept' = skept /\ sgone' = sgone \ {i}
    BY <1>2 DEF create_snapshot
  <2>. HIDE DEF i
  <2>. QED  BY <2>1, <2>2, <2>3, SnapshotsBegin
<1>3. ASSUME NEW t \in STasks, NEW i \in SnapshotIds, delete_snapshot(t, i) PROVE SnapshotsInv'
  BY <1>3, SnapshotsBegin DEF delete_snapshot
<1>4. ASSUME NEW t \in STasks, cleanup_old_snapshots(t) PROVE SnapshotsInv'
  <2>1. PICK old \in (SUBSET SnapshotIds) \ {{}} :
            /\ StartSnapshot(t, "delete", "old", old) /\ skept' = skept \ old /\ sgone' = sgone
            /\ \A i \in old : Old(i)
    BY <1>4 DEF cleanup_old_snapshots
  <2>. QED  BY <2>1, SnapshotsBegin
<1>5. ASSUME NEW t \in STasks,
             \/ CreateFile(t) \/ FinishFile(t) \/ Checksum(t) \/ WriteMeta(t) \/ InsertEntry(t)
             \/ FailSnapshot(t) \/ DeleteEntry(t) \/ DeleteData(t) \/ DeleteMeta(t)
      PROVE  SnapshotsInv'
  BY <1>5, SnapshotsCreate, SnapshotsFinish, SnapshotsChecksum, SnapshotsMeta, SnapshotsInsert,
     SnapshotsFail, SnapshotsDeleteEntry, SnapshotsDeleteData, SnapshotsDeleteMeta
<1>6. CASE Tick
  BY <1>6, SnapshotsTick
<1>7. ASSUME NEW in_task \in BOOLEAN, RestartSnapshots(in_task) PROVE SnapshotsInv'
  BY <1>7, SnapshotsRestart
<1>. QED  BY <1>1, <1>2, <1>3, <1>4, <1>5, <1>6, <1>7 DEF SnapshotsNext

-----------------------------------------------------------------------------
(* Backups                                                                  *)

BackupJobs == [at : {"none", "copy", "pack", "fill", "clear", "back", "restored"},
                todo : SUBSET Segments, temp : [Segments -> SUBSET (1..BMaxRecords)],
                before : SUBSET (1..BMaxRecords)]

BackupTyped ==
    /\ bfiles \in [Segments -> SUBSET (1..BMaxRecords)] /\ bnext \in Nat \ {0}
    /\ bjob \in BackupJobs
    /\ barchive \in [whole : BOOLEAN, files : [Segments -> SUBSET (1..BMaxRecords)],
                     before : SUBSET (1..BMaxRecords)]

\* Of what was there when it began a backup has copied each record that is not in
\* a segment still to be copied; segments only grow meanwhile.
Copying ==
    /\ bjob.at = "copy" =>
         /\ \A s \in Segments : bjob.temp[s] \subseteq bfiles[s]
         /\ \A r \in bjob.before : \E s \in Segments :
                r \in bjob.temp[s] \/ (s \in bjob.todo /\ r \in bfiles[s])
    /\ bjob.at \in {"pack", "fill"} => bjob.before \subseteq Records(bjob.temp)

\* A restore has cleared the directory and copied what is no longer to be copied.
Restoring ==
    /\ bjob.at \in {"clear", "back"} => bjob.temp = barchive.files
    /\ bjob.at = "clear" => bjob.todo = Here(bjob.temp)
    /\ bjob.at = "back" => \A s \in Segments : s \notin bjob.todo => bfiles[s] = bjob.temp[s]

BackupInv == BackupTyped /\ Copying /\ Restoring /\ BackupCovers /\ RestoreExact

LEMMA BackupStart == BackupInit => BackupInv
<1>. SUFFICES ASSUME BackupInit PROVE BackupInv
  OBVIOUS
<1>1. NoFiles \in [Segments -> SUBSET (1..BMaxRecords)]
  BY DEF NoFiles
<1>2. BackupTyped
  BY <1>1 DEF BackupInit, BackupTyped, BackupJobs, Waiting
<1>. QED  BY <1>2 DEF BackupInit, BackupInv, Copying, Restoring, Waiting, BackupCovers, RestoreExact

\* The manager rests again, or begins.
LEMMA WaitingTyped ==
    /\ NoFiles \in [Segments -> SUBSET (1..BMaxRecords)]
    /\ Waiting \in BackupJobs /\ Waiting.at = "none"
BY DEF Waiting, NoFiles, BackupJobs

LEMMA RecordsTyped ==
    ASSUME NEW files \in [Segments -> SUBSET (1..BMaxRecords)]
    PROVE  /\ Records(files) \in SUBSET (1..BMaxRecords)
           /\ \A r : r \in Records(files) <=> \E s \in Segments : r \in files[s]
           /\ Here(files) \in SUBSET Segments
BY DEF Records, Here

LEMMA BackupAppends ==
    ASSUME BackupInv, NEW s \in Segments, EngineAppends(s)
    PROVE  BackupInv'
<1>1. /\ BackupTyped /\ bnext <= BMaxRecords /\ bjob.at \in {"none", "copy", "pack"}
      /\ bfiles' = [bfiles EXCEPT ![s] = bfiles[s] \cup {bnext}] /\ bnext' = bnext + 1
      /\ UNCHANGED <<bjob, barchive>>
  BY DEF EngineAppends, BackupInv
<1>2. bnext \in 1..BMaxRecords /\ bnext' \in Nat \ {0}
  BY <1>1, BackupAssumption DEF BackupTyped
<1>3. bfiles' \in [Segments -> SUBSET (1..BMaxRecords)] /\ \A k \in Segments : bfiles[k] \subseteq bfiles'[k]
  BY <1>1, <1>2 DEF BackupTyped
<1>4. BackupTyped'
  BY <1>1, <1>2, <1>3 DEF BackupTyped
<1>5. Copying'
  <2>1. ASSUME bjob.at = "copy"
        PROVE  /\ \A k \in Segments : bjob.temp[k] \subseteq bfiles'[k]
               /\ \A r \in bjob.before : \E k \in Segments :
                      r \in bjob.temp[k] \/ (k \in bjob.todo /\ r \in bfiles'[k])
    BY <1>3, <2>1 DEF BackupInv, Copying
  <2>. QED  BY <1>1, <2>1 DEF BackupInv, Copying
<1>. QED  BY <1>1, <1>4, <1>5 DEF BackupInv, Restoring, BackupCovers, RestoreExact

LEMMA BackupBegins ==
    ASSUME BackupInv, create_backup \/ restore_backup
    PROVE  BackupInv'
<1>1. BackupTyped /\ bjob.at = "none" /\ UNCHANGED <<bfiles, bnext, barchive>>
  BY DEF create_backup, restore_backup, BackupInv
<1>2. CASE create_backup
  <2>1. bjob' = [at |-> "copy", todo |-> Here(bfiles), temp |-> NoFiles, before |-> Records(bfiles)]
    BY <1>2 DEF create_backup, Waiting
  <2>2. /\ Records(bfiles) \in SUBSET (1..BMaxRecords) /\ Here(bfiles) \in SUBSET Segments
        /\ \A r : r \in Records(bfiles) <=> \E s \in Segments : r \in bfiles[s]
    BY <1>1, RecordsTyped DEF BackupTyped
  <2>3. BackupTyped'
    BY <1>1, <2>1, <2>2, WaitingTyped DEF BackupTyped, BackupJobs
  <2>4. Copying'
    BY <1>1, <2>1, <2>2 DEF Copying, NoFiles, Here
  <2>. QED  BY <1>1, <2>1, <2>3, <2>4 DEF BackupInv, Restoring, BackupCovers, RestoreExact
<1>3. CASE restore_backup
  <2>1. bjob' = [at |-> "clear", todo |-> Here(barchive.files), temp |-> barchive.files, before |-> {}]
    BY <1>3 DEF restore_backup, Waiting
  <2>2. barchive.files \in [Segments -> SUBSET (1..BMaxRecords)] /\ Here(barchive.files) \in SUBSET Segments
    BY <1>1, RecordsTyped DEF BackupTyped
  <2>3. BackupTyped'
    BY <1>1, <2>1, <2>2 DEF BackupTyped, BackupJobs
  <2>. QED  BY <1>1, <2>1, <2>3 DEF BackupInv, Copying, Restoring, BackupCovers, RestoreExact
<1>. QED  BY <1>2, <1>3

LEMMA BackupCopies ==
    ASSUME BackupInv, CopyOut
    PROVE  BackupInv'
<1>1. /\ BackupTyped /\ bjob.at = "copy" /\ UNCHANGED <<bfiles, bnext, barchive>> /\ bjob \in BackupJobs
      /\ \A s \in Segments : bjob.temp[s] \subseteq bfiles[s]
      /\ \A r \in bjob.before : \E s \in Segments :
             r \in bjob.temp[s] \/ (s \in bjob.todo /\ r \in bfiles[s])
  BY DEF CopyOut, BackupInv, BackupTyped, Copying
<1>2. ASSUME NEW s \in bjob.todo,
             bjob' = [bjob EXCEPT !.todo = bjob.todo \ {s}, !.temp[s] = bfiles[s]]
      PROVE  BackupInv'
  <2>1. /\ bjob'.at = "copy" /\ bjob'.before = bjob.before /\ bjob'.todo = bjob.todo \ {s}
        /\ bjob'.temp = [bjob.temp EXCEPT ![s] = bfiles[s]]
        /\ s \in Segments /\ bfiles[s] \in SUBSET (1..BMaxRecords)
    BY <1>1, <1>2 DEF BackupJobs, BackupTyped
  <2>2. /\ bjob'.temp \in [Segments -> SUBSET (1..BMaxRecords)] /\ bjob'.temp[s] = bfiles[s]
        /\ \A k \in Segments : k # s => bjob'.temp[k] = bjob.temp[k]
    BY <1>1, <2>1 DEF BackupJobs
  <2>3. bjob' \in BackupJobs
    BY <1>1, <1>2, <2>1, <2>2 DEF BackupJobs
  <2>4. BackupTyped'
    BY <1>1, <2>3 DEF BackupTyped
  <2>5. \A k \in Segments : bjob'.temp[k] \subseteq bfiles[k]
    BY <1>1, <2>2
  <2>6. ASSUME NEW r \in bjob.before
        PROVE  \E k \in Segments : r \in bjob'.temp[k] \/ (k \in bjob'.todo /\ r \in bfiles[k])
    <3>1. PICK k \in Segments : r \in bjob.temp[k] \/ (k \in bjob.todo /\ r \in bfiles[k])
      BY <1>1
    <3>2. CASE k = s
      BY <1>1, <2>1, <2>2, <3>1, <3>2
    <3>3. CASE k # s
      BY <2>1, <2>2, <3>1, <3>3
    <3>. QED  BY <3>2, <3>3
  <2>7. Copying'
    BY <1>1, <2>1, <2>5, <2>6 DEF Copying
  <2>. QED  BY <1>1, <2>1, <2>4, <2>7 DEF BackupInv, Restoring, BackupCovers, RestoreExact
<1>3. ASSUME NEW s \in Here(bfiles), bjob' = [bjob EXCEPT !.todo = bjob.todo \cup {s}]
      PROVE  BackupInv'
  <2>1. /\ bjob'.at = "copy" /\ bjob'.before = bjob.before /\ bjob'.todo = bjob.todo \cup {s}
        /\ bjob'.temp = bjob.temp /\ bjob' \in BackupJobs
    BY <1>1, <1>3 DEF BackupJobs, Here
  <2>2. BackupTyped' /\ Copying'
    BY <1>1, <2>1 DEF BackupTyped, Copying
  <2>. QED  BY <1>1, <2>1, <2>2 DEF BackupInv, Restoring, BackupCovers, RestoreExact
<1>4. ASSUME bjob.todo = {}, bjob' = [bjob EXCEPT !.at = "pack"]
      PROVE  BackupInv'
  <2>1. bjob'.at = "pack" /\ bjob'.before = bjob.before /\ bjob'.temp = bjob.temp /\ bjob' \in BackupJobs
    BY <1>1, <1>4 DEF BackupJobs
  <2>2. bjob.before \subseteq Records(bjob.temp)
    BY <1>1, <1>4 DEF Records
  <2>3. BackupTyped' /\ Copying'
    BY <1>1, <2>1, <2>2 DEF BackupTyped, Copying, Records
  <2>. QED  BY <1>1, <2>1, <2>3 DEF BackupInv, Restoring, BackupCovers, RestoreExact
<1>. QED  BY <1>2, <1>3, <1>4 DEF CopyOut, CopiedFrom

LEMMA BackupPacks ==
    ASSUME BackupInv, Pack
    PROVE  BackupInv'
<1>1. /\ BackupTyped /\ UNCHANGED <<bfiles, bnext>> /\ bjob \in BackupJobs /\ bjob.at \in {"pack", "fill"}
      /\ barchive' = [whole |-> bjob.at = "fill", files |-> bjob.temp, before |-> bjob.before]
      /\ bjob.before \subseteq Records(bjob.temp)
  BY DEF Pack, BackupInv, BackupTyped, Copying
<1>2. CASE bjob.at = "pack"
  <2>1. bjob' = [bjob EXCEPT !.at = "fill"] /\ ~barchive'.whole
    <3>1. bjob' = [bjob EXCEPT !.at = "fill"]
      BY <1>2 DEF Pack
    <3>2. ~(bjob.at = "fill")
      BY <1>2
    <3>. QED  BY <1>1, <3>1, <3>2
  <2>2. bjob'.at = "fill" /\ bjob'.before = bjob.before /\ bjob'.temp = bjob.temp /\ bjob' \in BackupJobs
    BY <1>1, <2>1 DEF BackupJobs
  <2>3. BackupTyped'
    BY <1>1, <2>2 DEF BackupTyped, BackupJobs
  <2>4. Copying'
    BY <1>1, <2>2 DEF Copying, Records
  <2>. QED  BY <2>1, <2>2, <2>3, <2>4 DEF BackupInv, Restoring, BackupCovers, RestoreExact
<1>3. CASE bjob.at = "fill"
  <2>1. bjob' = Waiting
    BY <1>1, <1>3 DEF Pack
  <2>2. BackupTyped'
    BY <1>1, <2>1, WaitingTyped DEF BackupTyped, BackupJobs
  <2>3. BackupCovers'
    BY <1>1 DEF BackupCovers, Records
  <2>. QED  BY <2>1, <2>2, <2>3, WaitingTyped DEF BackupInv, Copying, Restoring, RestoreExact
<1>. QED  BY <1>1, <1>2, <1>3

LEMMA BackupRestores ==
    ASSUME BackupInv, Clear \/ CopyBack
    PROVE  BackupInv'
<1>1. BackupTyped /\ UNCHANGED <<bnext, barchive>> /\ bjob \in BackupJobs /\ bjob.temp = barchive.files
  BY DEF Clear, CopyBack, BackupInv, BackupTyped, Restoring
<1>2. CASE Clear
  <2>1. bjob.at = "clear" /\ bjob' = [bjob EXCEPT !.at = "back"] /\ bfiles' = NoFiles /\ bjob.todo = Here(bjob.temp)
    BY <1>2 DEF Clear, Cleared, BackupInv, Restoring
  <2>2. bjob'.at = "back" /\ bjob'.todo = bjob.todo /\ bjob'.temp = bjob.temp /\ bjob' \in BackupJobs
    BY <1>1, <2>1 DEF BackupJobs
  <2>3. BackupTyped'
    BY <1>1, <2>1, <2>2, WaitingTyped DEF BackupTyped
  <2>4. Restoring'
    BY <1>1, <2>1, <2>2 DEF Restoring, NoFiles, Here
  <2>. QED  BY <1>1, <2>2, <2>3, <2>4 DEF BackupInv, Copying, BackupCovers, RestoreExact
<1>3. CASE CopyBack
  <2>1. bjob.at = "back" /\ \A s \in Segments : s \notin bjob.todo => bfiles[s] = bjob.temp[s]
    BY <1>3 DEF CopyBack, BackupInv, Restoring
  <2>2. ASSUME NEW s \in bjob.todo, bfiles' = [bfiles EXCEPT ![s] = bjob.temp[s]],
               bjob' = [bjob EXCEPT !.todo = bjob.todo \ {s}]
        PROVE  BackupInv'
    <3>1. /\ bjob'.at = "back" /\ bjob'.todo = bjob.todo \ {s} /\ bjob'.temp = bjob.temp
          /\ bjob' \in BackupJobs /\ s \in Segments
      BY <1>1, <2>1, <2>2 DEF BackupJobs
    <3>2. /\ bfiles' \in [Segments -> SUBSET (1..BMaxRecords)] /\ bfiles'[s] = bjob.temp[s]
          /\ \A k \in Segments : k # s => bfiles'[k] = bfiles[k]
      BY <1>1, <2>2, <3>1 DEF BackupTyped, BackupJobs
    <3>3. BackupTyped'
      BY <1>1, <3>1, <3>2 DEF BackupTyped
    <3>4. Restoring'
      BY <1>1, <2>1, <3>1, <3>2 DEF Restoring
    <3>. QED  BY <1>1, <3>1, <3>3, <3>4 DEF BackupInv, Copying, BackupCovers, RestoreExact
  <2>3. ASSUME bjob.todo = {}, bjob' = [Waiting EXCEPT !.at = "restored"], bfiles' = bfiles
        PROVE  BackupInv'
    <3>1. bjob'.at = "restored" /\ bjob' \in BackupJobs
      BY <2>3, WaitingTyped DEF Waiting, BackupJobs
    <3>2. bfiles = barchive.files
      BY <1>1, <2>1, <2>3 DEF BackupTyped, BackupJobs
    <3>3. BackupTyped' /\ RestoreExact'
      BY <1>1, <2>3, <3>1, <3>2 DEF BackupTyped, RestoreExact
    <3>. QED  BY <1>1, <3>1, <3>3 DEF BackupInv, Copying, Restoring, BackupCovers
  <2>. QED  BY <1>3, <2>2, <2>3 DEF CopyBack
<1>. QED  BY <1>2, <1>3

LEMMA BackupKeeps == BackupInv /\ [BackupNext]_BackupVars => BackupInv'
<1>. SUFFICES ASSUME BackupInv, [BackupNext]_BackupVars PROVE BackupInv'
  OBVIOUS
<1>1. CASE UNCHANGED BackupVars
  BY <1>1 DEF BackupInv, BackupVars, BackupTyped, Copying, Restoring, BackupCovers, RestoreExact
<1>2. ASSUME NEW s \in Segments, EngineAppends(s) PROVE BackupInv'
  BY <1>2, BackupAppends
<1>3. CASE create_backup \/ restore_backup
  BY <1>3, BackupBegins
<1>4. CASE CopyOut
  BY <1>4, BackupCopies
<1>5. CASE Pack
  BY <1>5, BackupPacks
<1>6. CASE Clear \/ CopyBack
  BY <1>6, BackupRestores
<1>7. CASE Resume \/ CrashBackup
  <2>1. bjob' = Waiting /\ UNCHANGED <<bfiles, bnext, barchive>>
    BY <1>7 DEF Resume, CrashBackup
  <2>2. BackupTyped'
    BY <2>1, WaitingTyped DEF BackupInv, BackupTyped
  <2>. QED  BY <2>1, <2>2, WaitingTyped DEF BackupInv, Copying, Restoring, BackupCovers, RestoreExact
<1>. QED  BY <1>1, <1>2, <1>3, <1>4, <1>5, <1>6, <1>7 DEF BackupNext

-----------------------------------------------------------------------------
(* The theorems                                                             *)

LEMMA FilesInvSafe == SnapshotsInv /\ BackupInv => FilesSafe
<1>. SUFFICES ASSUME SnapshotsInv, BackupInv PROVE FilesSafe
  OBVIOUS
<1>1. SnapshotsTypeOK
  BY DEF SnapshotsInv, SnapshotsTyped, SnapshotsTypeOK, Copies
<1>2. RestoresWhole
  BY DEF SnapshotsInv, IdFine, Sound, RestoresWhole, Restores
<1>3. SnapshotKept
  BY NoneTyped DEF SnapshotsInv, SnapshotsTyped, IdFine, Sound, SnapshotKept, Restores
<1>4. DeletedStaysGone
  BY DEF SnapshotsInv, SnapshotsTyped, IdFine, DeletedStaysGone, Loadable
<1>5. BackupTypeOK
  BY DEF BackupInv, BackupTyped, BackupJobs, BackupTypeOK
<1>. QED  BY <1>1, <1>2, <1>3, <1>4, <1>5 DEF FilesSafe, BackupInv

LEMMA FilesInvHolds == FilesSpec => [](SnapshotsInv /\ BackupInv)
<1>1. SnapshotsInit /\ BackupInit => SnapshotsInv /\ BackupInv
  BY SnapshotsStart, BackupStart
<1>2. SnapshotsInv /\ BackupInv /\ [FilesNext]_<<SnapshotsVars, BackupVars>> => SnapshotsInv' /\ BackupInv'
  BY SnapshotsKeep, BackupKeeps DEF FilesNext
<1>. QED  BY <1>1, <1>2, PTL DEF FilesSpec

\* Through failing file operations, restarts and calls that cross, for any number
\* of callers and calls: a snapshot that restores is whole unless its writer lost
\* the end of it unnoticed, one that was acknowledged passes the checks of a
\* restore until its deletion is asked for, and one whose deletion was acknowledged
\* stays gone (SnapshotManager); a backup has every record that was there when it
\* began, and a restore leaves what the backup has and nothing else
\* (BackupManager).
THEOREM FilesSound == FilesSpec => []FilesSafe
BY FilesInvHolds, FilesInvSafe, PTL

LEMMA YoungStep ==
    ASSUME SnapshotsInv, [SnapshotsNext]_SnapshotsVars, NEW i \in SnapshotIds,
           sdata[i].whole, sdata'[i] = None
    PROVE  \/ i.second + SRetention < sclock
           \/ \E t \in STasks : AtStep(t, "delete_data") /\ sjob[t].why = "asked" /\ Id(t) = i
<1>1. sdata[i] # None /\ sdata \in [SnapshotIds -> Copies]
  BY NoneTyped DEF SnapshotsInv, SnapshotsTyped
<1>2. ASSUME sdata' = sdata PROVE FALSE
  BY <1>1, <1>2
<1>3. ASSUME NEW t \in STasks, CreateFile(t) \/ FinishFile(t) PROVE FALSE
  <2>1. Works(t) /\ sjob[t].call \in 1..SMaxCalls
    <3>1. Works(t)
      BY <1>3 DEF CreateFile, FinishFile, AtStep, Works
    <3>. QED  BY <3>1, WorksTyped DEF SnapshotsInv, Jobs
  <2>2. PICK whole \in BOOLEAN :
            \/ sdata' = [sdata EXCEPT ![Id(t)] = [by |-> sjob[t].call, whole |-> whole]]
            \/ sdata' = [sdata EXCEPT ![Id(t)] = sdata[Id(t)]]
    BY <1>1, <1>3 DEF CreateFile, FinishFile
  <2>3. [by |-> sjob[t].call, whole |-> whole] # None
    BY <2>1, NoneTyped
  <2>. QED  BY <1>1, <2>2, <2>3
<1>4. ASSUME NEW t \in STasks, DeleteData(t)
      PROVE  \/ i.second + SRetention < sclock
             \/ AtStep(t, "delete_data") /\ sjob[t].why = "asked" /\ Id(t) = i
  <2>1. Id(t) = i /\ AtStep(t, "delete_data") /\ Works(t)
    BY <1>1, <1>4 DEF DeleteData, RemovedFile, AtStep, Works
  <2>2. sjob[t].why \in {"asked", "old"} /\ i \in sjob[t].ids
    BY <2>1, WorksTyped DEF SnapshotsInv, Jobs
  <2>. QED  BY <2>1, <2>2 DEF SnapshotsInv, Ages, Old
<1>5. \/ sdata' = sdata
      \/ \E t \in STasks : CreateFile(t) \/ FinishFile(t) \/ DeleteData(t)
  BY DEF SnapshotsNext, SnapshotsVars, create_snapshot, delete_snapshot, cleanup_old_snapshots, StartSnapshot,
         Checksum, WriteMeta, InsertEntry, FailSnapshot, DeleteEntry, DeleteMeta, Tick, RestartSnapshots
<1>. QED  BY <1>2, <1>3, <1>4, <1>5

\* The file of a whole snapshot goes only when its deletion was asked for or when
\* it is older than the retention time (SnapshotManager::cleanup_old_snapshots).
THEOREM YoungSnapshotsStay == FilesSpec => YoungKept
<1>1. /\ SnapshotsInv /\ [FilesNext]_<<SnapshotsVars, BackupVars>>
      => [\A i \in SnapshotIds : sdata[i].whole /\ sdata'[i] = None /\ i \notin sclash =>
             \/ i.second + SRetention < sclock
             \/ \E t \in STasks : AtStep(t, "delete_data") /\ sjob[t].why = "asked" /\ Id(t) = i]_SnapshotsVars
  BY YoungStep DEF FilesNext
<1>. QED  BY <1>1, FilesInvHolds, PTL DEF FilesSpec, YoungKept

=============================================================================
