---------------------------- MODULE ToolsProofs ----------------------------
(***************************************************************************)
(* What the tools beside the database and the front of its interfaces      *)
(* keep, for every value of their constants: the migration with its        *)
(* checkpoints (Migration), the rate limiter, the monitor, the keys and    *)
(* the query cache (ApiGateway), the probes and the telemetry              *)
(* (Observability).                                                        *)
(***************************************************************************)
EXTENDS Migration, ApiGateway, Observability, FiniteSetTheorems, SequenceTheorems, TLAPS

-----------------------------------------------------------------------------
(* The migration                                                            *)

Batches == [recs : SUBSET Source, next : Nat]
Tasks == [st : {"free", "insert", "open", "write", "rename", "done"}, batch : Batches,
          ino : {0} \cup Inodes, add : Nat]

MigrationTyped ==
    /\ mcfg \in MConfigs
    /\ mstatus \in {"none", "Pending", "Running", "Completed", "Failed", "Cancelled"}
    /\ mrun \in [st : {"idle", "load", "run"}, resume : BOOLEAN]
    /\ mprod \in [st : {"off", "on", "done", "failed"}, offset : Nat, cursor : Nat]
    /\ mqueue \in Seq(Batches) /\ Len(mqueue) <= MConcurrency
    /\ mtasks \in [Slots -> Tasks]
    /\ mfile \in [tmp : {0} \cup Inodes, json : {0} \cup Inodes, data : [Inodes -> Int]]
    /\ mtarget \in SUBSET Source /\ mskipped \in SUBSET Source
    /\ mcount \in Nat

\* Only a run has batches, and only its workers have tasks.
Quiet ==
    /\ mrun.st # "run" => /\ mqueue = <<>> /\ mprod.st \in {"off", "failed"}
                          /\ \A w \in Slots : mtasks[w] = FreeTask
    /\ \A w \in Slots \ Workers : mtasks[w] = FreeTask

\* The one worker of a stream writes a file that is not the checkpoint, and
\* gives it the checkpoint's name when it is whole.
Saving(t) ==
    /\ t.st = "write" => t.ino = mfile.tmp /\ t.ino # 0 /\ mfile.data[t.ino] = Empty
    /\ t.st = "rename" => mfile.tmp # 0 /\ mfile.data[mfile.tmp] = t.batch.next
    /\ t.st # "write" => t.ino = 0

FilesApart ==
    mcfg.strategy = "stream" =>
        /\ mfile.tmp # 0 => mfile.tmp # mfile.json
        /\ Checkpoint >= 0
        /\ \A w \in Workers : Saving(mtasks[w])

\* The records that are in the target or were counted as failed, with those the
\* worker is about to insert and those of the first i batches of the channel.
Settled == mtarget \cup mskipped
Taken == IF mtasks[1].st = "insert" THEN mtasks[1].batch.recs ELSE {}
Known(i) == Settled \cup Taken \cup UNION {mqueue[j].recs : j \in 1..i}

Reached(S, n) == \A p \in Records : p < n => p \in S

Streams == mcfg.strategy = "stream" /\ ~mcfg.dry /\ PagesWell

\* Whoever holds the end of a batch holds, with what comes before, every record up to it.
Ahead ==
    Streams =>
        /\ Reached(Settled, Checkpoint)
        /\ mtasks[1].st = "insert" => Reached(Settled \cup Taken, mtasks[1].batch.next)
        /\ mtasks[1].st \in {"open", "write", "rename"} => Reached(Settled, mtasks[1].batch.next)
        /\ \A i \in 1..Len(mqueue) : Reached(Known(i), mqueue[i].next)
        /\ mprod.st = "on" => Reached(Known(Len(mqueue)), mprod.offset)
        /\ mprod.st = "done" => Records \subseteq Known(Len(mqueue))

\* The pages of a Parquet file begin where its row batches allow: else a resumed
\* stream would skip to the end of a row batch.
Aligned(n) == n % MBatch = 0 \/ n >= MTotal

PagesAligned ==
    Streams /\ mcfg.source = "parquet" =>
        /\ Aligned(Checkpoint)
        /\ mprod.st = "on" => Aligned(mprod.offset)
        /\ \A i \in 1..Len(mqueue) : Aligned(mqueue[i].next)
        /\ mtasks[1].st \in {"insert", "open", "write", "rename"} => Aligned(mtasks[1].batch.next)

\* Batches under way are parts of the source without a record in common.
Holding == {w \in Slots : mtasks[w].st # "free"}

Apart ==
    /\ \A i \in 1..Len(mqueue) : mqueue[i].recs # {} /\ \A p \in mqueue[i].recs : p < mprod.offset
    /\ \A w \in Holding :
         /\ mtasks[w].batch.recs # {} /\ \A p \in mtasks[w].batch.recs : p < mprod.offset
         /\ mtasks[w].st # "insert" => mtasks[w].add <= Cardinality(mtasks[w].batch.recs)
    /\ \A i, j \in 1..Len(mqueue) : i # j => mqueue[i].recs \cap mqueue[j].recs = {}
    /\ \A i \in 1..Len(mqueue) : \A w \in Holding : mqueue[i].recs \cap mtasks[w].batch.recs = {}
    /\ \A v, w \in Holding : v # w => mtasks[v].batch.recs \cap mtasks[w].batch.recs = {}

\* The counters count records that are behind all of these: C.
CountedIn(C) ==
    /\ mcount <= Cardinality(C) /\ \A p \in C : p < mprod.offset
    /\ \A i \in 1..Len(mqueue) : mqueue[i].recs \cap C = {}
    /\ \A w \in Holding : mtasks[w].batch.recs \cap C = {}

CountsOnce ==
    PagesWell =>
        /\ mrun.st = "load" => mcount = 0
        /\ mrun.st = "run" => Apart /\ \E C \in SUBSET Source : CountedIn(C)
        /\ mcount <= MTotal

MigrationInv ==
    /\ MigrationTyped /\ Quiet /\ FilesApart /\ Ahead /\ PagesAligned /\ CountsOnce
    /\ CompletedWhole

-----------------------------------------------------------------------------
(* The source and its pages                                                 *)

LEMMA SourceFinite ==
    ASSUME NEW X \in SUBSET Source
    PROVE  IsFiniteSet(X) /\ Cardinality(X) \in Nat /\ Cardinality(X) <= MTotal
<1>1. IsFiniteSet(Source) /\ Cardinality(Source) = MTotal
  BY MigrationAssumption, FS_Interval DEF Source
<1>2. IsFiniteSet(X) /\ Cardinality(X) <= Cardinality(Source)
  BY <1>1, FS_Subset
<1>. QED  BY <1>1, <1>2, FS_CardinalityType

\* What a page of n records from position o on is.
LEMMA WindowIs ==
    ASSUME NEW o \in Nat, NEW n \in Nat
    PROVE  /\ Window(o, n) \in SUBSET Source
           /\ \A p \in Source : p \in Window(o, n) <=> o <= p /\ p < o + n
           /\ Cardinality(Window(o, n)) \in Nat
           /\ o + n <= MTotal => Cardinality(Window(o, n)) = n
           /\ o + n > MTotal => o + Cardinality(Window(o, n)) >= MTotal
<1>1. Window(o, n) \in SUBSET Source /\ \A p \in Source : p \in Window(o, n) <=> o <= p /\ p < o + n
  BY MigrationAssumption DEF Window, Source
<1>2. Cardinality(Window(o, n)) \in Nat
  BY <1>1, SourceFinite
<1>3. ASSUME o + n <= MTotal PROVE Cardinality(Window(o, n)) = n
  <2>1. Window(o, n) = o .. (o + n - 1)
    BY <1>3, MigrationAssumption DEF Window, Source
  <2>. QED  BY <2>1, FS_Interval
<1>4. ASSUME o + n > MTotal PROVE o + Cardinality(Window(o, n)) >= MTotal
  <2>1. CASE o < MTotal
    <3>1. Window(o, n) = o .. (MTotal - 1)
      BY <1>4, <2>1, MigrationAssumption DEF Window, Source
    <3>2. Cardinality(Window(o, n)) = MTotal - 1 - o + 1
      BY <3>1, <2>1, MigrationAssumption, FS_Interval
    <3>. QED  BY <3>2, MigrationAssumption
  <2>2. CASE o >= MTotal
    BY <2>2, <1>2, MigrationAssumption
  <2>. QED  BY <2>1, <2>2, MigrationAssumption
<1>. QED  BY <1>1, <1>2, <1>3, <1>4

LEMMA PositiveMultiple ==
    ASSUME NEW d \in Nat \ {0}, NEW z \in Int, d * z > 0
    PROVE  d * z >= d
<1>1. z >= 1
  <2>. SUFFICES ASSUME z <= 0 PROVE FALSE
    OBVIOUS
  <2>1. d * (-z) >= 0
    OBVIOUS
  <2>2. d * z = -(d * (-z))
    OBVIOUS
  <2>. QED  BY <2>1, <2>2
<1>2. d * (z - 1) >= 0
  BY <1>1
<1>3. d * z = d * (z - 1) + d
  OBVIOUS
<1>. QED  BY <1>2, <1>3

\* What is left of a row batch from a position on is no less than a page, if
\* pages divide row batches and the position is the beginning of a page.
LEMMA RestOfGroup ==
    ASSUME NEW d \in Nat \ {0}, NEW g \in Nat \ {0}, NEW o \in Nat, g % d = 0, o % d = 0
    PROVE  g - (o % g) >= d
<1>1. PICK x \in Int : g = d * x
  <2>1. g = d * (g \div d) /\ g \div d \in Int
    OBVIOUS
  <2>. QED  BY <2>1
<1>2. PICK y \in Int : o = d * y
  <2>1. o = d * (o \div d) /\ o \div d \in Int
    OBVIOUS
  <2>. QED  BY <2>1
<1>3. PICK q \in Int : o % g = o - g * q
  <2>1. o \div g \in Int /\ o % g \in Int
    OBVIOUS
  <2>2. o = g * (o \div g) + (o % g)
    OBVIOUS
  <2>3. \A k \in Int, r \in Int : o = k + r => r = o - k
    OBVIOUS
  <2>4. g * (o \div g) \in Int
    BY <2>1
  <2>5. o % g = o - g * (o \div g)
    BY <2>1, <2>2, <2>3, <2>4
  <2>. QED  BY <2>1, <2>5
<1>4. g - (o % g) = d * (x - y + x * q)
  <2>1. g * q = d * (x * q)
    BY <1>1
  <2>2. g - (o % g) = d * x - d * y + d * (x * q)
    BY <1>1, <1>2, <1>3, <2>1
  <2>3. d * x - d * y = d * (x - y) /\ x * q \in Int
    OBVIOUS
  <2>4. d * (x - y) + d * (x * q) = d * (x - y + x * q)
    OBVIOUS
  <2>. QED  BY <2>2, <2>3, <2>4
<1>5. g - (o % g) > 0
  OBVIOUS
<1>6. x - y + x * q \in Int
  OBVIOUS
<1>. QED  BY <1>4, <1>5, <1>6, PositiveMultiple

LEMMA MultiplePlus ==
    ASSUME NEW d \in Nat \ {0}, NEW o \in Nat, o % d = 0
    PROVE  (o + d) % d = 0
<1>1. o = d * (o \div d) /\ o \div d \in Int
  OBVIOUS
<1>2. o + d = d * ((o \div d) + 1)
  BY <1>1
<1>3. \A z \in Int : (d * z) % d = 0
  OBVIOUS
<1>4. (o \div d) + 1 \in Int
  BY <1>1
<1>5. (d * ((o \div d) + 1)) % d = 0
  BY <1>3, <1>4
<1>. QED  BY <1>2, <1>5

\* A page of whatever source is a part of the source.
LEMMA FetchTyped ==
    ASSUME mcfg \in MConfigs, NEW o \in Nat, NEW c \in Nat
    PROVE  /\ Fetch(o, c) \in SUBSET Source
           /\ PagesWell => \A p \in Fetch(o, c) : o <= p /\ p < o + MBatch
<1>. DEFINE rest == MGroup - (o % MGroup)
<1>1. rest \in Nat /\ MBatch \in Nat
  BY MigrationAssumption
<1>2. mcfg.source \in MSources
  BY MigrationAssumption
<1>3. CASE mcfg.source \in {"milvus", "weaviate", "lancedb"}
  <2>1. Fetch(o, c) = Window(o, MBatch)
    BY <1>3 DEF Fetch, milvus_fetch_batch, weaviate_fetch_batch, lancedb_fetch_batch
  <2>2. /\ Window(o, MBatch) \in SUBSET Source
        /\ \A p \in Source : p \in Window(o, MBatch) <=> o <= p /\ p < o + MBatch
    BY <1>1, WindowIs
  <2>. QED  BY <2>1, <2>2
<1>4. CASE mcfg.source = "lines"
  <2>1. Fetch(o, c) = Window(o, MBatch) \ MBlank
    BY <1>4 DEF Fetch, jsonl_fetch_batch
  <2>. QED  BY <1>1, <2>1, WindowIs
<1>5. CASE mcfg.source \in {"qdrant_text", "qdrant_number"}
  <2>1. Fetch(o, c) = Window(c, MBatch)
    BY <1>5 DEF Fetch, qdrant_fetch_batch
  <2>2. Window(c, MBatch) \in SUBSET Source
    BY <1>1, WindowIs
  <2>3. ~PagesWell
    BY <1>5 DEF PagesWell
  <2>. QED  BY <2>1, <2>2, <2>3
<1>6. CASE mcfg.source = "pinecone"
  <2>1. Fetch(o, c) = Window(0, MBatch)
    BY <1>6 DEF Fetch, pinecone_fetch_batch
  <2>. QED  BY <1>1, <1>6, <2>1, WindowIs DEF PagesWell
<1>7. CASE mcfg.source = "parquet"
  <2>1. PICK n \in Nat : n <= MBatch /\ Fetch(o, c) = Window(o, n)
    <3>1. CASE rest < MGroup /\ rest < MBatch
      BY <1>1, <1>7, <3>1 DEF Fetch, parquet_fetch_batch
    <3>2. CASE ~(rest < MGroup /\ rest < MBatch)
      BY <1>1, <1>7, <3>2 DEF Fetch, parquet_fetch_batch
    <3>. QED  BY <3>1, <3>2
  <2>2. /\ Window(o, n) \in SUBSET Source
        /\ \A p \in Source : p \in Window(o, n) <=> o <= p /\ p < o + n
    BY WindowIs
  <2>3. \A p \in Fetch(o, c) : p \in Nat /\ o <= p /\ p < o + n
    BY <2>1, <2>2 DEF Source
  <2>. QED  BY <1>1, <2>1, <2>2, <2>3
<1>8. CASE mcfg.source = "unsupported"
  BY <1>8 DEF Fetch
<1>. QED  BY <1>2, <1>3, <1>4, <1>5, <1>6, <1>7, <1>8 DEF MSources

\* Where pages follow the offset without a gap, a page holds every record up to
\* the next offset, an empty one is behind the last record, and the offset and
\* the checkpoint that follow are beginnings of pages again.
LEMMA FetchWhole ==
    ASSUME mcfg \in MConfigs, PagesWell, NEW o \in Nat, NEW c \in Nat,
           mcfg.source = "parquet" => Aligned(o)
    PROVE  /\ \A p \in Records : o <= p /\ p < o + MBatch => p \in Fetch(o, c)
           /\ Fetch(o, c) = {} => \A p \in Records : p < o
           /\ Cardinality(Fetch(o, c)) \in Nat /\ Cardinality(Fetch(o, c)) <= MBatch
           /\ mcfg.source = "parquet" =>
                Aligned(o + MBatch) /\ Aligned(o + Cardinality(Fetch(o, c)))
<1>. DEFINE W == Window(o, MBatch)
<1>1. MBatch \in Nat \ {0} /\ MGroup \in Nat \ {0} /\ MTotal \in Nat
  BY MigrationAssumption
<1>2. /\ W \in SUBSET Source
      /\ \A p \in Source : p \in W <=> o <= p /\ p < o + MBatch
      /\ Cardinality(W) \in Nat
      /\ o + MBatch <= MTotal => Cardinality(W) = MBatch
      /\ o + MBatch > MTotal => o + Cardinality(W) >= MTotal
  BY <1>1, WindowIs
<1>3. Cardinality(W) <= MBatch
  <2>1. W \subseteq o .. (o + MBatch - 1)
    BY <1>1, <1>2 DEF Source
  <2>2. IsFiniteSet(o .. (o + MBatch - 1)) /\ Cardinality(o .. (o + MBatch - 1)) = MBatch
    BY <1>1, FS_Interval
  <2>. QED  BY <2>1, <2>2, FS_Subset
<1>4. Records \subseteq Source /\ \A p \in Source : p \in Nat /\ p < MTotal
  BY <1>1 DEF Records, Source
<1>5. CASE mcfg.source = "lines"
  <2>1. Fetch(o, c) = W \ MBlank
    BY <1>5 DEF Fetch, jsonl_fetch_batch
  <2>2. \A p \in Records : p \notin MBlank
    BY <1>5 DEF Records
  <2>3. \A p \in Source : Window(p, MBatch) \ MBlank # {}
    BY <1>5 DEF PagesWell
  <2>4. ASSUME Fetch(o, c) = {}, NEW p \in Records, p >= o PROVE FALSE
    <3>1. o \in Source
      BY <1>1, <1>4, <2>4 DEF Source
    <3>. QED  BY <2>1, <2>3, <2>4, <3>1
  <2>5. Cardinality(Fetch(o, c)) \in Nat /\ Cardinality(Fetch(o, c)) <= Cardinality(W)
    BY <1>2, <2>1, SourceFinite, FS_Subset
  <2>6. \A p \in Records : o <= p /\ p < o + MBatch => p \in Fetch(o, c)
    BY <1>2, <1>4, <2>1, <2>2
  <2>7. Fetch(o, c) = {} => \A p \in Records : p < o
    BY <1>4, <2>4
  <2>. QED  BY <1>1, <1>2, <1>3, <1>5, <2>5, <2>6, <2>7
<1>6. ASSUME mcfg.source # "lines", Fetch(o, c) = W
      PROVE  /\ \A p \in Records : o <= p /\ p < o + MBatch => p \in Fetch(o, c)
             /\ Fetch(o, c) = {} => \A p \in Records : p < o
             /\ Cardinality(Fetch(o, c)) \in Nat /\ Cardinality(Fetch(o, c)) <= MBatch
  <2>1. ASSUME W = {}, NEW p \in Records, p >= o PROVE FALSE
    <3>1. o \in Source
      BY <1>1, <1>4, <2>1 DEF Source
    <3>2. o \in W
      BY <1>1, <1>2, <3>1
    <3>. QED  BY <2>1, <3>2
  <2>2. \A p \in Records : o <= p /\ p < o + MBatch => p \in Fetch(o, c)
    BY <1>2, <1>4, <1>6
  <2>3. Fetch(o, c) = {} => \A p \in Records : p < o
    BY <1>4, <1>6, <2>1
  <2>. QED  BY <1>2, <1>3, <1>6, <2>2, <2>3
<1>7. CASE mcfg.source \in {"milvus", "weaviate", "lancedb"}
  <2>1. Fetch(o, c) = W
    BY <1>7 DEF Fetch, milvus_fetch_batch, weaviate_fetch_batch, lancedb_fetch_batch
  <2>2. mcfg.source # "lines" /\ mcfg.source # "parquet"
    BY <1>7
  <2>. QED  BY <1>6, <2>1, <2>2
<1>8. CASE mcfg.source = "parquet"
  <2>1. Aligned(o) /\ MGroup % MBatch = 0
    BY <1>8 DEF PagesWell
  <2>2. Fetch(o, c) = W
    <3>. DEFINE rest == MGroup - (o % MGroup)
                n == IF rest < MGroup /\ rest < MBatch THEN rest ELSE MBatch
    <3>1. Fetch(o, c) = Window(o, n)
      BY <1>8 DEF Fetch, parquet_fetch_batch
    <3>2. CASE o % MBatch = 0
      <4>1. rest >= MBatch
        BY <1>1, <2>1, <3>2, RestOfGroup
      <4>2. rest \in Int
        BY <1>1
      <4>3. n = MBatch
        BY <1>1, <4>1, <4>2
      <4>. QED  BY <3>1, <4>3
    <3>3. CASE o >= MTotal
      <4>1. n \in Nat
        BY <1>1
      <4>2. \A p \in Source : ~(o <= p)
        BY <1>1, <1>4, <3>3
      <4>3. Window(o, n) \in SUBSET Source /\ \A p \in Source : p \in Window(o, n) <=> o <= p /\ p < o + n
        BY <4>1, WindowIs
      <4>4. Window(o, n) = {} /\ W = {}
        BY <1>2, <4>2, <4>3
      <4>. QED  BY <3>1, <4>4
    <3>. QED  BY <2>1, <3>2, <3>3 DEF Aligned
  <2>3. Aligned(o + MBatch)
    <3>1. CASE o % MBatch = 0
      BY <1>1, <3>1, MultiplePlus DEF Aligned
    <3>2. CASE o >= MTotal
      BY <1>1, <3>2 DEF Aligned
    <3>. QED  BY <2>1, <3>1, <3>2 DEF Aligned
  <2>4. Aligned(o + Cardinality(Fetch(o, c)))
    <3>1. CASE o + MBatch <= MTotal
      BY <1>2, <2>2, <2>3, <3>1
    <3>2. CASE o + MBatch > MTotal
      BY <1>2, <2>2, <3>2 DEF Aligned
    <3>. QED  BY <1>1, <3>1, <3>2
  <2>5. mcfg.source # "lines"
    BY <1>8
  <2>. QED  BY <1>6, <2>2, <2>3, <2>4, <2>5
<1>. QED  BY <1>5, <1>7, <1>8 DEF PagesWell

-----------------------------------------------------------------------------
(* Types                                                                    *)

LEMMA NoBatchTyped == NoBatch \in Batches /\ FreeTask \in Tasks
BY DEF NoBatch, FreeTask, Batches, Tasks

\* There is a file left for a temporary file: those in use are the checkpoint
\* and at most one for each task.
LEMMA FileLeft ==
    ASSUME MigrationTyped
    PROVE  \E n \in Inodes : n \notin {mfile.json} \cup {mtasks[v].ino : v \in Slots}
<1>. DEFINE inos == {mtasks[v].ino : v \in Slots}
            f == [v \in Slots |-> mtasks[v].ino]
<1>1. IsFiniteSet(Slots) /\ Cardinality(Slots) = MConcurrency
  BY MigrationAssumption, FS_Interval DEF Slots
<1>2. IsFiniteSet(inos) /\ Cardinality(inos) <= MConcurrency
  <2>1. f \in Surjection(Slots, inos)
    BY DEF Surjection
  <2>. QED  BY <1>1, <2>1, FS_Surjection
<1>3. IsFiniteSet({mfile.json} \cup inos) /\ Cardinality({mfile.json} \cup inos) <= MConcurrency + 1
  <2>1. Cardinality(inos \cup {mfile.json}) = IF mfile.json \in inos THEN Cardinality(inos) ELSE Cardinality(inos) + 1
    BY <1>2, FS_AddElement
  <2>2. Cardinality(inos) \in Nat
    BY <1>2, FS_CardinalityType
  <2>3. inos \cup {mfile.json} = {mfile.json} \cup inos
    OBVIOUS
  <2>4. IsFiniteSet(inos \cup {mfile.json})
    BY <1>2, FS_AddElement
  <2>5. Cardinality(inos \cup {mfile.json}) <= MConcurrency + 1
    BY <1>2, <2>1, <2>2, MigrationAssumption
  <2>. QED  BY <2>3, <2>4, <2>5
<1>4. Cardinality(Inodes) = MConcurrency + 2
  BY MigrationAssumption, FS_Interval DEF Inodes
<1>5. ASSUME Inodes \subseteq {mfile.json} \cup inos PROVE FALSE
  BY <1>3, <1>4, <1>5, MigrationAssumption, FS_Subset, FS_CardinalityType
<1>. QED  BY <1>5

\* What a run leaves when it ends.
LEMMA RunEnds ==
    ASSUME MigrationTyped, Quiet, NEW status, EndRun(status),
           status \in {"none", "Completed", "Failed"}, mcfg' = mcfg
    PROVE  /\ mstatus' = status /\ mrun' \in [st : {"idle", "load", "run"}, resume : BOOLEAN]
           /\ mrun'.st = "idle" /\ mqueue' = <<>> /\ mprod'.st \in {"off", "failed"}
           /\ mprod' \in [st : {"off", "on", "done", "failed"}, offset : Nat, cursor : Nat]
           /\ mprod'.st = "failed" <=> mprod.st = "failed"
           /\ \A w \in Slots : mtasks'[w] = FreeTask
           /\ mtasks' \in [Slots -> Tasks]
           /\ mqueue' \in Seq(Batches) /\ Len(mqueue') <= MConcurrency
<1>1. mtasks' = [w \in Slots |-> FreeTask] /\ mqueue' = <<>> /\ mstatus' = status
  BY DEF EndRun
<1>2. mtasks' \in [Slots -> Tasks]
  BY <1>1, NoBatchTyped
<1>3. mrun' \in [st : {"idle", "load", "run"}, resume : BOOLEAN] /\ mrun'.st = "idle"
  BY DEF EndRun, MigrationTyped
<1>4. /\ mprod' \in [st : {"off", "on", "done", "failed"}, offset : Nat, cursor : Nat]
      /\ mprod'.st \in {"off", "failed"}
      /\ mprod'.st = "failed" <=> mprod.st = "failed"
  BY DEF EndRun, NoProducer, MigrationTyped
<1>5. mqueue' \in Seq(Batches) /\ Len(mqueue') <= MConcurrency
  BY <1>1, MigrationAssumption
<1>. QED  BY <1>1, <1>2, <1>3, <1>4, <1>5

\* A step of one worker's task.
LEMMA TaskTyped ==
    ASSUME mtasks \in [Slots -> Tasks], NEW w \in Slots, NEW t \in Tasks,
           mtasks' = [mtasks EXCEPT ![w] = t]
    PROVE  mtasks' \in [Slots -> Tasks] /\ mtasks'[w] = t /\ \A v \in Slots : v # w => mtasks'[v] = mtasks[v]
OBVIOUS

LEMMA TypedReceive ==
    ASSUME MigrationTyped, Quiet, NEW w \in Slots, ReceiveBatch(w)
    PROVE  MigrationTyped' /\ Quiet'
<1>. DEFINE t == [FreeTask EXCEPT !.st = "insert", !.batch = Head(mqueue)]
<1>1. mqueue # <<>> /\ mqueue \in Seq(Batches) /\ Len(mqueue) <= MConcurrency
  BY DEF ReceiveBatch, MigrationTyped
<1>2. Head(mqueue) \in Batches /\ Tail(mqueue) \in Seq(Batches) /\ Len(Tail(mqueue)) <= MConcurrency
  BY <1>1, MigrationAssumption
<1>3. t \in Tasks
  BY <1>2 DEF Tasks, FreeTask
<1>4. mtasks' = [mtasks EXCEPT ![w] = t]
  BY DEF ReceiveBatch
<1>5. mtasks' \in [Slots -> Tasks] /\ mtasks'[w] = t /\ \A v \in Slots : v # w => mtasks'[v] = mtasks[v]
  BY <1>3, <1>4, TaskTyped DEF MigrationTyped
<1>6. MigrationTyped'
  BY <1>2, <1>5 DEF MigrationTyped, ReceiveBatch
<1>7. Quiet'
  BY <1>5 DEF Quiet, ReceiveBatch, Workers
<1>. QED  BY <1>6, <1>7

LEMMA TypedHandled ==
    ASSUME MigrationTyped, Quiet, NEW w \in Slots,
           process_batch(w) \/ process_batch_streaming(w)
    PROVE  MigrationTyped' /\ Quiet'
<1>. DEFINE b == mtasks[w].batch
            Done(st) == [mtasks[w] EXCEPT !.st = st, !.add = Cardinality(b.recs)]
<1>1. mtasks[w] \in Tasks /\ mtasks[w].st = "insert" /\ b \in Batches /\ b.recs \in SUBSET Source
  BY DEF process_batch, process_batch_streaming, MigrationTyped, Tasks, Batches
<1>2. Cardinality(b.recs) \in Nat
  BY <1>1, SourceFinite
<1>3. Done("open") \in Tasks /\ Done("done") \in Tasks
  BY <1>1, <1>2 DEF Tasks
<1>4. mtasks' = [mtasks EXCEPT ![w] = Done("open")] \/ mtasks' = [mtasks EXCEPT ![w] = Done("done")]
  BY <1>1 DEF process_batch, process_batch_streaming, BatchHandled, BatchFailed, MigrationTyped
<1>5. mtasks' \in [Slots -> Tasks] /\ \A v \in Slots : v # w => mtasks'[v] = mtasks[v]
  BY <1>3, <1>4, TaskTyped DEF MigrationTyped
<1>6. mtarget' \in SUBSET Source /\ mskipped' \in SUBSET Source
  BY <1>1 DEF process_batch, process_batch_streaming, BatchHandled, BatchFailed, MigrationTyped, insert_batch
<1>7. UNCHANGED <<mcfg, mstatus, mrun, mprod, mqueue, mfile, mcount, mbound>>
  BY DEF process_batch, process_batch_streaming
<1>8. MigrationTyped'
  BY <1>5, <1>6, <1>7 DEF MigrationTyped
<1>9. mrun.st = "run" /\ w \in Workers
  BY <1>1 DEF Quiet, FreeTask
<1>10. Quiet'
  BY <1>5, <1>7, <1>9 DEF Quiet, Workers
<1>. QED  BY <1>8, <1>10

LEMMA TypedSave ==
    ASSUME MigrationTyped, Quiet, NEW w \in Slots, OpenTmp(w) \/ WriteTmp(w) \/ RenameTmp(w)
    PROVE  MigrationTyped' /\ Quiet'
<1>. DEFINE t == mtasks[w]
<1>1. t \in Tasks /\ t.st \in {"open", "write", "rename"} /\ mtasks \in [Slots -> Tasks]
  BY DEF OpenTmp, WriteTmp, RenameTmp, MigrationTyped
<1>2. UNCHANGED <<mcfg, mstatus, mrun, mprod, mqueue, mtarget, mskipped, mcount>>
  BY DEF OpenTmp, WriteTmp, RenameTmp
<1>3. \E u \in Tasks : mtasks' = [mtasks EXCEPT ![w] = u]
  <2>1. CASE OpenTmp(w)
    <3>1. PICK i \in Inodes : mtasks' = [mtasks EXCEPT ![w].st = "write", ![w].ino = i]
      <4>1. \E n \in Inodes : n \notin {mfile.json} \cup {mtasks[v].ino : v \in Slots}
        BY FileLeft
      <4>2. mfile.tmp # 0 => mfile.tmp \in Inodes
        BY DEF MigrationTyped
      <4>. QED  BY <2>1, <4>1, <4>2 DEF OpenTmp
    <3>2. mtasks' = [mtasks EXCEPT ![w] = [t EXCEPT !.st = "write", !.ino = i]]
      BY <1>1, <3>1
    <3>3. [t EXCEPT !.st = "write", !.ino = i] \in Tasks
      BY <1>1 DEF Tasks
    <3>. QED  BY <3>2, <3>3
  <2>2. CASE WriteTmp(w)
    <3>1. mtasks' = [mtasks EXCEPT ![w] = [t EXCEPT !.st = "rename", !.ino = 0]]
      BY <1>1, <2>2 DEF WriteTmp
    <3>2. [t EXCEPT !.st = "rename", !.ino = 0] \in Tasks
      BY <1>1 DEF Tasks
    <3>. QED  BY <3>1, <3>2
  <2>3. CASE RenameTmp(w)
    <3>1. mtasks' = [mtasks EXCEPT ![w] = [t EXCEPT !.st = "done"]]
      BY <1>1, <2>3 DEF RenameTmp
    <3>2. [t EXCEPT !.st = "done"] \in Tasks
      BY <1>1 DEF Tasks
    <3>. QED  BY <3>1, <3>2
  <2>. QED  BY <2>1, <2>2, <2>3
<1>4. mtasks' \in [Slots -> Tasks] /\ \A v \in Slots : v # w => mtasks'[v] = mtasks[v]
  BY <1>1, <1>3, TaskTyped
<1>5. mfile' \in [tmp : {0} \cup Inodes, json : {0} \cup Inodes, data : [Inodes -> Int]]
  <2>. DEFINE F == [tmp : {0} \cup Inodes, json : {0} \cup Inodes, data : [Inodes -> Int]]
  <2>1. mfile \in F
    BY DEF MigrationTyped
  <2>2. CASE OpenTmp(w)
    <3>1. PICK i \in Inodes : mfile' = [mfile EXCEPT !.tmp = i, !.data[i] = Empty]
      <4>1. \E n \in Inodes : n \notin {mfile.json} \cup {mtasks[v].ino : v \in Slots}
        BY FileLeft
      <4>2. mfile.tmp # 0 => mfile.tmp \in Inodes
        BY DEF MigrationTyped
      <4>. QED  BY <2>2, <4>1, <4>2 DEF OpenTmp
    <3>2. mfile'.tmp = i /\ mfile'.json = mfile.json /\ mfile'.data = [mfile.data EXCEPT ![i] = Empty]
      BY <2>1, <3>1
    <3>3. mfile'.data \in [Inodes -> Int]
      BY <2>1, <3>2 DEF Empty
    <3>. QED  BY <2>1, <3>1, <3>2, <3>3
  <2>3. CASE WriteTmp(w)
    <3>1. t.batch.next \in Nat
      BY <1>1 DEF Tasks, Batches
    <3>4. PICK c \in {t.batch.next} \cup (IF mfile.data[t.ino] = Empty THEN {} ELSE {Torn}) :
              mfile' = [mfile EXCEPT !.data[t.ino] = c]
      BY <2>3 DEF WriteTmp
    <3>2. c \in Int /\ mfile' = [mfile EXCEPT !.data[t.ino] = c]
      BY <3>1, <3>4 DEF Torn
    <3>3. mfile'.tmp = mfile.tmp /\ mfile'.json = mfile.json /\ mfile'.data \in [Inodes -> Int]
      BY <2>1, <3>2
    <3>. QED  BY <2>1, <3>2, <3>3
  <2>4. CASE RenameTmp(w)
    BY <2>1, <2>4 DEF RenameTmp
  <2>. QED  BY <2>2, <2>3, <2>4
<1>6. mrun.st = "run" /\ w \in Workers
  BY <1>1 DEF Quiet, FreeTask
<1>7. MigrationTyped'
  BY <1>2, <1>4, <1>5 DEF MigrationTyped
<1>8. Quiet'
  BY <1>2, <1>4, <1>6 DEF Quiet, Workers
<1>. QED  BY <1>7, <1>8

LEMMA TypedProgress ==
    ASSUME MigrationTyped, Quiet, NEW w \in Slots, Progress(w)
    PROVE  MigrationTyped' /\ Quiet'
<1>1. mtasks' = [mtasks EXCEPT ![w] = FreeTask] /\ mtasks \in [Slots -> Tasks]
  BY DEF Progress, MigrationTyped
<1>2. mtasks' \in [Slots -> Tasks] /\ mtasks'[w] = FreeTask /\ \A v \in Slots : v # w => mtasks'[v] = mtasks[v]
  BY <1>1, NoBatchTyped, TaskTyped
<1>3. mtasks[w].add \in Nat
  BY <1>1 DEF Tasks
<1>4. mcount' \in Nat
  BY <1>3 DEF Progress, MigrationTyped
<1>5. MigrationTyped'
  BY <1>2, <1>4 DEF MigrationTyped, Progress
<1>6. Quiet'
  BY <1>2 DEF Quiet, Progress, Workers
<1>. QED  BY <1>5, <1>6

LEMMA TypedFails ==
    ASSUME MigrationTyped, Quiet, NEW w \in Slots, SaveFails(w)
    PROVE  MigrationTyped' /\ Quiet'
<1>. DEFINE t == [mtasks[w] EXCEPT !.st = "done", !.ino = 0, !.add = 1]
<1>1. mtasks[w] \in Tasks /\ mtasks[w].st \in {"open", "write", "rename"} /\ mtasks \in [Slots -> Tasks]
  BY DEF SaveFails, MigrationTyped
<1>2. UNCHANGED <<mcfg, mfile, mtarget, mskipped, mcount>>
  BY DEF SaveFails
<1>3. CASE mcfg.strategy = "stream"
  <2>1. EndRun("Failed")
    BY <1>3 DEF SaveFails
  <2>2. MigrationTyped'
    BY <1>2, <2>1, RunEnds DEF MigrationTyped
  <2>3. Quiet'
    BY <1>2, <2>1, RunEnds DEF Quiet
  <2>. QED  BY <2>2, <2>3
<1>4. CASE mcfg.strategy # "stream"
  <2>1. t \in Tasks /\ mtasks' = [mtasks EXCEPT ![w] = t]
    BY <1>1, <1>4 DEF Tasks, SaveFails
  <2>2. mtasks' \in [Slots -> Tasks] /\ \A v \in Slots : v # w => mtasks'[v] = mtasks[v]
    BY <1>1, <2>1, TaskTyped
  <2>3. UNCHANGED <<mstatus, mrun, mprod, mqueue>>
    BY <1>4 DEF SaveFails
  <2>4. mrun.st = "run" /\ w \in Workers
    BY <1>1 DEF Quiet, FreeTask
  <2>5. MigrationTyped'
    BY <1>2, <2>2, <2>3 DEF MigrationTyped
  <2>6. Quiet'
    BY <1>2, <2>2, <2>3, <2>4 DEF Quiet, Workers
  <2>. QED  BY <2>5, <2>6
<1>. QED  BY <1>3, <1>4

\* The three ways a turn of the producer goes.
LEMMA ProduceCases ==
    ASSUME MigrationTyped, Quiet, ProduceTurn
    PROVE  LET recs == Fetch(mprod.offset, mprod.cursor)
           IN /\ mrun.st = "run" /\ recs \in SUBSET Source
              /\ UNCHANGED <<mcfg, mstatus, mrun, mtasks, mfile, mtarget, mskipped, mcount>>
              /\ \/ recs = {} /\ mprod' = [mprod EXCEPT !.st = "done"] /\ mqueue' = mqueue
                 \/ mprod' = [mprod EXCEPT !.st = "failed"] /\ mqueue' = mqueue
                 \/ /\ recs # {} /\ Len(mqueue) < MConcurrency
                    /\ mqueue' = Append(mqueue, [recs |-> recs, next |-> mprod.offset + Cardinality(recs)])
                    /\ mprod'.offset = mprod.offset + MBatch /\ mprod'.st = "on"
                    /\ mprod' \in [st : {"off", "on", "done", "failed"}, offset : Nat, cursor : Nat]
<1>. DEFINE recs == Fetch(mprod.offset, mprod.cursor)
<1>1. /\ mprod \in [st : {"off", "on", "done", "failed"}, offset : Nat, cursor : Nat]
      /\ mprod.st = "on" /\ mcfg \in MConfigs
  BY DEF ProduceTurn, MigrationTyped
<1>2. recs \in SUBSET Source
  BY <1>1, FetchTyped
<1>3. mrun.st = "run"
  BY <1>1 DEF Quiet
<1>4. NextOffset(mprod.offset) \in Nat /\ NextCursor(mprod.cursor) \in Nat
  BY <1>1, MigrationAssumption DEF NextOffset, NextCursor
<1>5. ASSUME mprod' = [mprod EXCEPT !.offset = NextOffset(@), !.cursor = NextCursor(@)]
      PROVE  /\ mprod'.offset = mprod.offset + MBatch /\ mprod'.st = "on"
             /\ mprod' \in [st : {"off", "on", "done", "failed"}, offset : Nat, cursor : Nat]
  <2>1. mprod' = [st |-> "on", offset |-> NextOffset(mprod.offset), cursor |-> NextCursor(mprod.cursor)]
    BY <1>1, <1>5
  <2>. QED  BY <1>4, <2>1 DEF NextOffset
<1>6. \/ recs = {} /\ mprod' = [mprod EXCEPT !.st = "done"] /\ mqueue' = mqueue
      \/ mprod' = [mprod EXCEPT !.st = "failed"] /\ mqueue' = mqueue
      \/ /\ recs # {} /\ Len(mqueue) < MConcurrency
         /\ mqueue' = Append(mqueue, [recs |-> recs, next |-> mprod.offset + Cardinality(recs)])
         /\ mprod' = [mprod EXCEPT !.offset = NextOffset(@), !.cursor = NextCursor(@)]
  BY DEF ProduceTurn, CheckpointOf
<1>7. UNCHANGED <<mcfg, mstatus, mrun, mtasks, mfile, mtarget, mskipped, mcount>>
  BY DEF ProduceTurn
<1>. QED  BY <1>2, <1>3, <1>5, <1>6, <1>7

LEMMA TypedProduce ==
    ASSUME MigrationTyped, Quiet, ProduceTurn
    PROVE  MigrationTyped' /\ Quiet'
<1>. DEFINE recs == Fetch(mprod.offset, mprod.cursor)
            b == [recs |-> recs, next |-> mprod.offset + Cardinality(recs)]
<1>1. mprod \in [st : {"off", "on", "done", "failed"}, offset : Nat, cursor : Nat]
  BY DEF MigrationTyped
<1>2. recs \in SUBSET Source /\ Cardinality(recs) \in Nat
  BY ProduceCases, SourceFinite
<1>3. b \in Batches
  BY <1>1, <1>2 DEF Batches
<1>4. mqueue \in Seq(Batches) /\ Len(mqueue) <= MConcurrency
  BY DEF MigrationTyped
<1>5. mqueue' \in Seq(Batches) /\ Len(mqueue') <= MConcurrency
  <2>1. mqueue' = mqueue \/ (mqueue' = Append(mqueue, b) /\ Len(mqueue) < MConcurrency)
    BY ProduceCases
  <2>. QED  BY <1>3, <1>4, <2>1, MigrationAssumption
<1>6. mprod' \in [st : {"off", "on", "done", "failed"}, offset : Nat, cursor : Nat]
  BY <1>1, ProduceCases
<1>7. mrun.st = "run" /\ UNCHANGED <<mcfg, mstatus, mrun, mtasks, mfile, mtarget, mskipped, mcount>>
  BY ProduceCases
<1>8. MigrationTyped'
  BY <1>5, <1>6, <1>7 DEF MigrationTyped
<1>9. Quiet'
  BY <1>7 DEF Quiet, Workers
<1>. QED  BY <1>8, <1>9

\* The task of the manager, the calls, and a crash.
LEMMA TypedManager ==
    ASSUME MigrationTyped, Quiet,
           \/ \E resume \in BOOLEAN : start_migration(resume)
           \/ execute_migration \/ Complete \/ cancel_migration \/ resume_migration \/ MCrash
    PROVE  MigrationTyped' /\ Quiet'
<1>1. CASE \E resume \in BOOLEAN : start_migration(resume)
  <2>1. PICK resume \in BOOLEAN : start_migration(resume)
    BY <1>1
  <2>2. mrun' \in [st : {"idle", "load", "run"}, resume : BOOLEAN] /\ mrun'.st = "load" /\ mrun.st = "idle"
    BY <2>1 DEF start_migration
  <2>3. mcount' = 0 /\ mstatus' = "Pending"
        /\ UNCHANGED <<mcfg, mprod, mqueue, mtasks, mfile, mtarget, mskipped>>
    BY <2>1 DEF start_migration
  <2>4. MigrationTyped'
    BY <2>2, <2>3 DEF MigrationTyped
  <2>5. Quiet'
    BY <2>2, <2>3 DEF Quiet, Workers
  <2>. QED  BY <2>4, <2>5
<1>2. CASE execute_migration
  <2>1. mrun \in [st : {"idle", "load", "run"}, resume : BOOLEAN] /\ mrun.st = "load"
    BY <1>2 DEF execute_migration, MigrationTyped
  <2>2. UNCHANGED <<mcfg, mqueue, mtasks, mfile, mtarget, mskipped, mcount>>
    BY <1>2 DEF execute_migration
  <2>3. CASE mstatus' = "Failed" /\ mrun' = [mrun EXCEPT !.st = "idle"] /\ UNCHANGED mprod
    <3>1. mrun' \in [st : {"idle", "load", "run"}, resume : BOOLEAN] /\ mrun'.st = "idle"
      BY <2>1, <2>3
    <3>2. MigrationTyped'
      BY <2>2, <2>3, <3>1 DEF MigrationTyped
    <3>3. Quiet'
      BY <2>1, <2>2, <2>3, <3>1 DEF Quiet, Workers
    <3>. QED  BY <3>2, <3>3
  <2>4. CASE /\ Loaded >= 0 /\ mstatus' = "Running" /\ mrun' = [mrun EXCEPT !.st = "run"]
             /\ mprod' = [st |-> "on", offset |-> FirstOffset, cursor |-> 0]
    <3>1. mrun' \in [st : {"idle", "load", "run"}, resume : BOOLEAN] /\ mrun'.st = "run"
      BY <2>1, <2>4
    <3>2. Loaded \in Int
      BY DEF Loaded, Checkpoint, MigrationTyped
    <3>3. FirstOffset \in Nat
      BY <2>4, <3>2 DEF FirstOffset
    <3>4. MigrationTyped'
      BY <2>2, <2>4, <3>1, <3>3 DEF MigrationTyped
    <3>5. Quiet'
      BY <2>1, <2>2, <3>1 DEF Quiet, Workers
    <3>. QED  BY <3>4, <3>5
  <2>. QED  BY <1>2, <2>3, <2>4 DEF execute_migration
<1>3. CASE Complete \/ MCrash
  <2>1. PICK status \in {"none", "Completed"} : EndRun(status)
    BY <1>3 DEF Complete, MCrash
  <2>2. UNCHANGED <<mcfg, mfile, mtarget, mskipped, mcount>>
    BY <1>3 DEF Complete, MCrash
  <2>3. MigrationTyped'
    BY <2>1, <2>2, RunEnds DEF MigrationTyped
  <2>4. Quiet'
    BY <2>1, <2>2, RunEnds DEF Quiet
  <2>. QED  BY <2>3, <2>4
<1>4. CASE cancel_migration \/ resume_migration
  <2>1. /\ mstatus' \in {"Cancelled", "Running"}
        /\ UNCHANGED <<mcfg, mrun, mprod, mqueue, mtasks, mfile, mtarget, mskipped, mcount>>
    BY <1>4 DEF cancel_migration, resume_migration
  <2>2. MigrationTyped'
    BY <2>1 DEF MigrationTyped
  <2>3. Quiet'
    BY <2>1 DEF Quiet, Workers
  <2>. QED  BY <2>2, <2>3
<1>. QED  BY <1>1, <1>2, <1>3, <1>4

Worker(w) ==
    \/ ReceiveBatch(w) \/ process_batch(w) \/ process_batch_streaming(w)
    \/ OpenTmp(w) \/ WriteTmp(w) \/ RenameTmp(w) \/ Progress(w) \/ SaveFails(w)

Manager ==
    \/ \E resume \in BOOLEAN : start_migration(resume)
    \/ execute_migration \/ Complete \/ cancel_migration \/ resume_migration \/ MCrash

LEMMA MigrationSteps ==
    MNext => Manager \/ ProduceTurn \/ \E w \in Slots : Worker(w)
BY DEF MNext, Manager, Worker, Work, produce_batches, produce_batches_streaming

LEMMA TypedNext ==
    ASSUME MigrationTyped, Quiet, [MNext]_MVars
    PROVE  MigrationTyped' /\ Quiet'
<1>1. CASE UNCHANGED MVars
  <2>1. MigrationTyped'
    BY <1>1 DEF MigrationTyped, MVars
  <2>2. Quiet'
    BY <1>1 DEF Quiet, Workers, MVars
  <2>. QED  BY <2>1, <2>2
<1>2. CASE Manager
  BY <1>2, TypedManager DEF Manager
<1>3. CASE ProduceTurn
  BY <1>3, TypedProduce
<1>4. ASSUME NEW w \in Slots, Worker(w) PROVE MigrationTyped' /\ Quiet'
  BY <1>4, TypedReceive, TypedHandled, TypedSave, TypedProgress, TypedFails DEF Worker
<1>. QED  BY <1>1, <1>2, <1>3, <1>4, MigrationSteps

-----------------------------------------------------------------------------
(* The checkpoint can be read                                               *)

LEMMA OneWorker == mcfg.strategy = "stream" => Workers = {1} /\ 1 \in Slots
BY MigrationAssumption DEF Workers, Slots

\* A stream's worker writes, or the files and what the worker has of them stay.
LEMMA FilesSaved ==
    ASSUME MigrationTyped, Quiet, FilesApart, mcfg.strategy = "stream",
           OpenTmp(1) \/ WriteTmp(1) \/ RenameTmp(1)
    PROVE  /\ FilesApart'
           /\ mtasks'[1].batch = mtasks[1].batch
           /\ \/ Checkpoint' = Checkpoint /\ mtasks[1].st \in {"open", "write"}
                                          /\ mtasks'[1].st \in {"write", "rename"}
              \/ Checkpoint' = mtasks[1].batch.next /\ mtasks[1].st = "rename" /\ mtasks'[1].st = "done"
<1>. DEFINE t == mtasks[1]
            F == [tmp : {0} \cup Inodes, json : {0} \cup Inodes, data : [Inodes -> Int]]
<1>1. mcfg' = mcfg /\ Workers = {1} /\ 1 \in Slots /\ mcfg'.strategy = "stream" /\ Workers' = {1}
  BY OneWorker DEF OpenTmp, WriteTmp, RenameTmp, Workers
<1>2. t \in Tasks /\ mtasks \in [Slots -> Tasks] /\ mfile \in F /\ t.batch.next \in Nat
  BY <1>1 DEF MigrationTyped, Tasks, Batches
<1>3. Saving(t) /\ (mfile.tmp # 0 => mfile.tmp # mfile.json) /\ Checkpoint >= 0
  BY <1>1 DEF FilesApart
<1>4. 0 \notin Inodes
  BY DEF Inodes
<1>5. CASE OpenTmp(1)
  <2>1. PICK i \in Inodes : /\ mfile' = [mfile EXCEPT !.tmp = i, !.data[i] = Empty] /\ i # mfile.json
                            /\ mtasks' = [mtasks EXCEPT ![1].st = "write", ![1].ino = i]
    <3>1. \E n \in Inodes : n \notin {mfile.json} \cup {mtasks[v].ino : v \in Slots}
      BY FileLeft
    <3>2. mfile.tmp # 0 => mfile.tmp \in Inodes /\ mfile.tmp # mfile.json
      BY <1>2, <1>3
    <3>. QED  BY <1>5, <3>1, <3>2 DEF OpenTmp
  <2>2. mfile'.tmp = i /\ mfile'.json = mfile.json /\ mfile'.data = [mfile.data EXCEPT ![i] = Empty]
    BY <1>2, <2>1
  <2>3. mtasks'[1].st = "write" /\ mtasks'[1].ino = i /\ mtasks'[1].batch = t.batch
    BY <1>1, <1>2, <2>1
  <2>4. mfile'.data[i] = Empty /\ (mfile.json # 0 => mfile'.data[mfile.json] = mfile.data[mfile.json])
    BY <1>2, <2>1, <2>2
  <2>5. Checkpoint' = Checkpoint
    BY <2>2, <2>4 DEF Checkpoint
  <2>6. Saving(mtasks[1])'
    BY <1>4, <2>2, <2>3, <2>4 DEF Saving
  <2>7. FilesApart'
    BY <1>1, <1>3, <2>1, <2>2, <2>5, <2>6 DEF FilesApart
  <2>8. t.st = "open"
    BY <1>5 DEF OpenTmp
  <2>. QED  BY <2>3, <2>5, <2>7, <2>8
<1>6. CASE WriteTmp(1)
  <2>1. t.st = "write" /\ t.ino = mfile.tmp /\ mfile.tmp \in Inodes /\ mfile.data[t.ino] = Empty
    BY <1>2, <1>3, <1>6 DEF WriteTmp, Saving
  <2>2. mfile' = [mfile EXCEPT !.data[t.ino] = t.batch.next]
    BY <1>6, <2>1 DEF WriteTmp
  <2>3. mfile'.tmp = mfile.tmp /\ mfile'.json = mfile.json
        /\ mfile'.data = [mfile.data EXCEPT ![mfile.tmp] = t.batch.next]
    BY <1>2, <2>1, <2>2
  <2>4. mtasks' = [mtasks EXCEPT ![1].st = "rename", ![1].ino = 0]
    BY <1>6 DEF WriteTmp
  <2>5. mtasks'[1].st = "rename" /\ mtasks'[1].ino = 0 /\ mtasks'[1].batch = t.batch
    BY <1>1, <1>2, <2>4
  <2>6. mfile'.data[mfile.tmp] = t.batch.next
    BY <1>2, <2>1, <2>3
  <2>7. mfile.json # 0 => mfile'.data[mfile.json] = mfile.data[mfile.json]
    BY <1>2, <1>3, <1>4, <2>1, <2>3
  <2>8. Checkpoint' = Checkpoint
    BY <2>3, <2>7 DEF Checkpoint
  <2>9. Saving(mtasks[1])'
    BY <1>4, <2>1, <2>3, <2>5, <2>6 DEF Saving
  <2>10. FilesApart'
    BY <1>1, <1>3, <2>3, <2>8, <2>9 DEF FilesApart
  <2>. QED  BY <2>1, <2>5, <2>8, <2>10
<1>7. CASE RenameTmp(1)
  <2>1. t.st = "rename" /\ mfile.tmp # 0 /\ mfile.data[mfile.tmp] = t.batch.next /\ t.ino = 0
    BY <1>3, <1>7 DEF RenameTmp, Saving
  <2>2. mfile'.json = mfile.tmp /\ mfile'.tmp = 0 /\ mfile'.data = mfile.data
    BY <1>2, <1>7 DEF RenameTmp
  <2>3. mtasks'[1].st = "done" /\ mtasks'[1].ino = 0 /\ mtasks'[1].batch = t.batch
    BY <1>1, <1>2, <1>7, <2>1 DEF RenameTmp
  <2>4. Checkpoint' = t.batch.next
    BY <2>1, <2>2 DEF Checkpoint
  <2>5. Saving(mtasks[1])'
    BY <2>3 DEF Saving
  <2>6. FilesApart'
    BY <1>1, <1>2, <2>2, <2>4, <2>5 DEF FilesApart
  <2>. QED  BY <2>1, <2>3, <2>4, <2>6
<1>. QED  BY <1>5, <1>6, <1>7

LEMMA FilesKept ==
    ASSUME MigrationTyped, FilesApart, mcfg' = mcfg, mfile' = mfile,
           mcfg.strategy = "stream" =>
               mtasks'[1] = mtasks[1] \/ (mtasks'[1].st \notin {"write", "rename"} /\ mtasks'[1].ino = 0)
    PROVE  FilesApart'
<1>1. SUFFICES ASSUME mcfg.strategy = "stream" PROVE FilesApart'
  BY DEF FilesApart
<1>2. Workers = {1} /\ Workers' = {1}
  BY <1>1, OneWorker DEF Workers
<1>3. Saving(mtasks[1])'
  BY <1>1, <1>2 DEF Saving, FilesApart
<1>. QED  BY <1>1, <1>2, <1>3 DEF FilesApart, Checkpoint

\* Whoever works on a stream is worker 1.
LEMMA WorkerIsOne ==
    ASSUME MigrationTyped, Quiet, mcfg.strategy = "stream", NEW w \in Slots, Worker(w)
    PROVE  w = 1
<1>1. Workers = {1}
  BY OneWorker
<1>2. w # 1 => mtasks[w].st = "free"
  BY <1>1 DEF Quiet, FreeTask
<1>3. mtasks[w].st # "free" \/ w \in Workers
  BY DEF Worker, ReceiveBatch, process_batch, process_batch_streaming, OpenTmp, WriteTmp, RenameTmp,
         Progress, SaveFails
<1>. QED  BY <1>1, <1>2, <1>3

\* A batch that was handled is inserted or counted as failed, but for a dry run.
LEMMA HandledBatch ==
    ASSUME MigrationTyped, NEW w \in Slots, process_batch(w) \/ process_batch_streaming(w)
    PROVE  /\ mtasks[w].st = "insert" /\ mtasks'[w].st \in {"open", "done"}
           /\ mtasks'[w].ino = mtasks[w].ino /\ mtasks'[w].batch = mtasks[w].batch
           /\ mtasks'[w].add = Cardinality(mtasks[w].batch.recs)
           /\ \A v \in Slots : v # w => mtasks'[v] = mtasks[v]
           /\ UNCHANGED <<mcfg, mstatus, mrun, mprod, mqueue, mfile, mcount>>
           /\ mtarget \subseteq mtarget' /\ mskipped \subseteq mskipped'
           /\ ~mcfg.dry => mtasks[w].batch.recs \subseteq mtarget' \cup mskipped'
<1>. DEFINE recs == mtasks[w].batch.recs
            To(s) == [mtasks EXCEPT ![w].st = s, ![w].add = Cardinality(recs)]
<1>1. mtasks \in [Slots -> Tasks] /\ mtasks[w] \in Tasks /\ mcfg.dry \in BOOLEAN
  BY MigrationAssumption DEF MigrationTyped
<1>2. mtasks[w].st = "insert" /\ UNCHANGED <<mcfg, mstatus, mrun, mprod, mqueue, mfile, mcount>>
  BY DEF process_batch, process_batch_streaming
<1>3. \/ mcfg.dry /\ (mtasks' = To("open") \/ mtasks' = To("done"))
         /\ mtarget' = mtarget /\ (mskipped' = mskipped \/ mskipped' = mskipped \cup recs)
      \/ mtasks' = To("open") /\ mtarget' = mtarget \cup recs /\ mskipped' = mskipped
      \/ mtasks' = To("done") /\ mtarget' \in {mtarget, mtarget \cup recs} /\ mskipped' = mskipped \cup recs
  <2>1. CASE process_batch(w)
    BY <2>1 DEF process_batch, BatchHandled, BatchFailed, insert_batch
  <2>2. CASE process_batch_streaming(w)
    BY <2>2 DEF process_batch_streaming, BatchHandled, BatchFailed, insert_batch
  <2>. QED  BY <2>1, <2>2
<1>4. /\ mtarget \subseteq mtarget' /\ mskipped \subseteq mskipped'
      /\ ~mcfg.dry => recs \subseteq mtarget' \cup mskipped'
  BY <1>1, <1>3
<1>5. mtasks' = To("open") \/ mtasks' = To("done")
  BY <1>3
<1>6. ASSUME NEW s \in {"open", "done"}, mtasks' = To(s)
      PROVE  /\ mtasks'[w].st = s /\ mtasks'[w].ino = mtasks[w].ino
             /\ mtasks'[w].batch = mtasks[w].batch /\ mtasks'[w].add = Cardinality(recs)
             /\ \A v \in Slots : v # w => mtasks'[v] = mtasks[v]
  BY <1>1, <1>6 DEF Tasks
<1>7. /\ mtasks'[w].st \in {"open", "done"} /\ mtasks'[w].ino = mtasks[w].ino
      /\ mtasks'[w].batch = mtasks[w].batch /\ mtasks'[w].add = Cardinality(recs)
      /\ \A v \in Slots : v # w => mtasks'[v] = mtasks[v]
  BY <1>5, <1>6
<1>. QED  BY <1>2, <1>4, <1>7

LEMMA FilesNext ==
    ASSUME MigrationTyped, Quiet, FilesApart, [MNext]_MVars
    PROVE  FilesApart'
<1>1. CASE UNCHANGED MVars
  BY <1>1, FilesKept DEF MVars
<1>2. CASE Manager
  <2>1. mcfg' = mcfg /\ mfile' = mfile
    BY <1>2 DEF Manager, start_migration, execute_migration, Complete, cancel_migration,
                resume_migration, MCrash
  <2>2. mtasks' = mtasks \/ mtasks' = [w \in Slots |-> FreeTask]
    BY <1>2 DEF Manager, start_migration, execute_migration, Complete, cancel_migration,
                resume_migration, MCrash, EndRun
  <2>3. mcfg.strategy = "stream" =>
            mtasks'[1] = mtasks[1] \/ (mtasks'[1].st \notin {"write", "rename"} /\ mtasks'[1].ino = 0)
    BY <2>2, OneWorker DEF FreeTask
  <2>. QED  BY <2>1, <2>3, FilesKept
<1>3. CASE ProduceTurn
  BY <1>3, FilesKept DEF ProduceTurn
<1>4. ASSUME NEW w \in Slots, Worker(w) PROVE FilesApart'
  <2>0. mcfg' = mcfg
    BY <1>4 DEF Worker, ReceiveBatch, process_batch, process_batch_streaming, OpenTmp, WriteTmp,
                RenameTmp, Progress, SaveFails
  <2>1. SUFFICES ASSUME mcfg.strategy = "stream" PROVE FilesApart'
    BY <2>0 DEF FilesApart
  <2>2. w = 1 /\ 1 \in Slots /\ mtasks \in [Slots -> Tasks] /\ Saving(mtasks[1])
    BY <1>4, <2>1, WorkerIsOne, OneWorker DEF MigrationTyped, FilesApart
  <2>3. CASE OpenTmp(w) \/ WriteTmp(w) \/ RenameTmp(w)
    BY <2>1, <2>2, <2>3, FilesSaved
  <2>4. CASE ReceiveBatch(w)
    <3>1. mtasks'[1].st = "insert" /\ mtasks'[1].ino = 0 /\ mfile' = mfile
      BY <2>2, <2>4 DEF ReceiveBatch, FreeTask
    <3>. QED  BY <2>0, <3>1, FilesKept
  <2>5. CASE process_batch(w) \/ process_batch_streaming(w)
    <3>1. /\ mtasks[1].st = "insert" /\ mfile' = mfile
          /\ mtasks'[1].st \in {"open", "done"} /\ mtasks'[1].ino = mtasks[1].ino
      BY <2>2, <2>5, HandledBatch
    <3>2. mtasks[1].ino = 0
      BY <2>2, <3>1 DEF Saving
    <3>. QED  BY <2>0, <3>1, <3>2, FilesKept
  <2>6. CASE Progress(w)
    <3>1. mtasks'[1].st = "free" /\ mtasks'[1].ino = 0 /\ mfile' = mfile
      BY <2>2, <2>6 DEF Progress, FreeTask
    <3>. QED  BY <2>0, <3>1, FilesKept
  <2>7. CASE SaveFails(w)
    <3>1. mtasks'[1].st = "free" /\ mtasks'[1].ino = 0 /\ mfile' = mfile
      BY <2>1, <2>2, <2>7 DEF SaveFails, EndRun, FreeTask
    <3>. QED  BY <2>0, <3>1, FilesKept
  <2>. QED  BY <1>4, <2>3, <2>4, <2>5, <2>6, <2>7 DEF Worker
<1>. QED  BY <1>1, <1>2, <1>3, <1>4, MigrationSteps

-----------------------------------------------------------------------------
(* The checkpoint is never ahead of the work                                *)

Saves == {"open", "write", "rename"}

LEMMA RecordsAreNumbers == Records \subseteq Nat /\ \A p \in Records : p < MTotal
BY MigrationAssumption DEF Records, Source

\* Work was done on a batch, or nothing: what is behind the ends of batches stays.
LEMMA AheadKept ==
    ASSUME Ahead, PagesAligned, mcfg' = mcfg, mqueue' = mqueue, mprod' = mprod,
           Streams =>
               /\ Settled \subseteq Settled' /\ Settled \cup Taken \subseteq Settled' \cup Taken'
               /\ \/ Checkpoint' = Checkpoint
                  \/ mtasks[1].st = "rename" /\ Checkpoint' = mtasks[1].batch.next
               /\ mtasks'[1].st \in {"insert"} \cup Saves => mtasks'[1].batch = mtasks[1].batch
               /\ mtasks'[1].st = "insert" => mtasks[1].st = "insert"
               /\ mtasks'[1].st \in Saves =>
                    mtasks[1].st \in Saves \/ (mtasks[1].st = "insert" /\ Settled \cup Taken \subseteq Settled')
    PROVE  Ahead' /\ PagesAligned'
<1>1. Streams' = Streams /\ Records' = Records
  BY DEF Streams, PagesWell, Records
<1>2. ASSUME Streams PROVE Ahead'
  <2>1. \A i \in 0..Len(mqueue) : Known(i) \subseteq Known(i)'
    BY <1>2 DEF Known
  <2>2. Reached(Settled, Checkpoint)'
    BY <1>1, <1>2 DEF Ahead, Reached, Saves
  <2>3. (mtasks[1].st = "insert" => Reached(Settled \cup Taken, mtasks[1].batch.next))'
    BY <1>1, <1>2 DEF Ahead, Reached, Saves
  <2>4. (mtasks[1].st \in Saves => Reached(Settled, mtasks[1].batch.next))'
    BY <1>1, <1>2 DEF Ahead, Reached, Saves
  <2>5. (\A i \in 1..Len(mqueue) : Reached(Known(i), mqueue[i].next))'
    BY <1>1, <1>2, <2>1 DEF Ahead, Reached
  <2>6. Len(mqueue) \in 0..Len(mqueue) \/ Len(mqueue) \notin Nat
    OBVIOUS
  <2>7. Known(Len(mqueue)) \subseteq Known(Len(mqueue))'
    BY <1>2 DEF Known
  <2>8. (mprod.st = "on" => Reached(Known(Len(mqueue)), mprod.offset))'
    BY <1>1, <1>2, <2>7 DEF Ahead, Reached
  <2>9. (mprod.st = "done" => Records \subseteq Known(Len(mqueue)))'
    BY <1>1, <1>2, <2>7 DEF Ahead
  <2>. QED  BY <2>2, <2>3, <2>4, <2>5, <2>8, <2>9 DEF Ahead, Saves
<1>3. ASSUME Streams, mcfg.source = "parquet" PROVE PagesAligned'
  <2>1. Aligned(Checkpoint)'
    BY <1>3 DEF PagesAligned, Aligned, Saves
  <2>2. (mtasks[1].st \in {"insert", "open", "write", "rename"} => Aligned(mtasks[1].batch.next))'
    BY <1>3 DEF PagesAligned, Aligned, Saves
  <2>. QED  BY <1>1, <1>3, <2>1, <2>2 DEF PagesAligned, Aligned
<1>. QED  BY <1>1, <1>2, <1>3 DEF Ahead, PagesAligned

LEMMA AheadEnds ==
    ASSUME MigrationTyped, Ahead, PagesAligned, NEW status \in {"none", "Completed", "Failed"},
           Quiet, EndRun(status), UNCHANGED <<mcfg, mfile, mtarget, mskipped>>
    PROVE  Ahead' /\ PagesAligned'
<1>1. Streams' = Streams /\ Records' = Records /\ Settled' = Settled /\ Checkpoint' = Checkpoint
  BY DEF Streams, PagesWell, Records, Settled, Checkpoint
<1>2. mqueue' = <<>> /\ mprod'.st \in {"off", "failed"} /\ (Streams => mtasks'[1].st = "free")
  BY RunEnds, OneWorker DEF FreeTask, Streams
<1>. QED  BY <1>1, <1>2 DEF Ahead, PagesAligned, Reached, Aligned

LEMMA AheadReceives ==
    ASSUME MigrationTyped, Quiet, Ahead, PagesAligned, NEW w \in Slots, ReceiveBatch(w)
    PROVE  Ahead' /\ PagesAligned'
<1>9. PICK n \in Nat : n = Len(mqueue)
  BY DEF MigrationTyped
<1>0. Streams' = Streams /\ Records' = Records /\ mcfg' = mcfg
  BY DEF Streams, PagesWell, Records, ReceiveBatch
<1>. SUFFICES ASSUME Streams PROVE Ahead' /\ PagesAligned'
  BY <1>0 DEF Ahead, PagesAligned
<1>1. w = 1 /\ 1 \in Slots
  BY WorkerIsOne, OneWorker DEF Streams, Worker
<1>2. mqueue \in Seq(Batches) /\ n \in Nat /\ n >= 1 /\ mqueue # <<>>
  BY <1>9 DEF ReceiveBatch, MigrationTyped
<1>3. mqueue' = Tail(mqueue) /\ Len(mqueue') = n - 1 /\ \A i \in 1..(n - 1) : mqueue'[i] = mqueue[i + 1]
  BY <1>2, <1>9 DEF ReceiveBatch
<1>4. mtasks[1].st = "free" /\ mtasks'[1].st = "insert" /\ mtasks'[1].batch = mqueue[1]
  BY <1>1, <1>2 DEF ReceiveBatch, FreeTask, MigrationTyped
<1>5. Settled' = Settled /\ Taken = {} /\ Taken' = mqueue[1].recs /\ mprod' = mprod /\ Checkpoint' = Checkpoint
  BY <1>4 DEF Settled, Taken, ReceiveBatch, Checkpoint
<1>6. ASSUME NEW i \in 0..(n - 1) PROVE Known(i + 1) \subseteq Known(i)'
  <2>1. ASSUME NEW j \in 1..(i + 1) PROVE mqueue[j].recs \subseteq Known(i)'
    <3>1. CASE j = 1
      BY <1>5, <3>1 DEF Known
    <3>2. CASE j # 1
      <4>1. j - 1 \in 1..i /\ mqueue'[j - 1] = mqueue[j]
        BY <1>3, <2>1, <3>2
      <4>. QED  BY <4>1 DEF Known
    <3>. QED  BY <3>1, <3>2
  <2>2. Settled \subseteq Known(i)'
    BY <1>5 DEF Known
  <2>. QED  BY <1>5, <2>1, <2>2 DEF Known
<1>7. Known(1) \subseteq Settled' \cup Taken'
  BY <1>5 DEF Known
<1>8. Ahead'
  <2>1. Reached(Settled, Checkpoint)'
    BY <1>0, <1>5 DEF Ahead, Reached
  <2>2. Reached(Settled \cup Taken, mtasks[1].batch.next)'
    BY <1>0, <1>2, <1>4, <1>7, <1>9 DEF Ahead, Reached
  <2>3. ASSUME NEW i \in 1..(n - 1) PROVE Reached(Known(i), mqueue[i].next)'
    <3>1. i + 1 \in 1..n /\ i \in 0..(n - 1)
      BY <1>2
    <3>2. Reached(Known(i + 1), mqueue[i + 1].next) /\ Known(i + 1) \subseteq Known(i)'
      BY <1>6, <1>9, <3>1 DEF Ahead
    <3>. QED  BY <1>0, <1>3, <3>2 DEF Reached
  <2>4. PICK i \in 0..(n - 1) : i + 1 = n
    <3>1. n - 1 \in 0..(n - 1) /\ (n - 1) + 1 = n
      BY <1>2
    <3>. QED  BY <3>1
  <2>7. Known(Len(mqueue)) \subseteq Known(Len(mqueue))'
    <3>4. Len(mqueue) = i + 1
      BY <1>9, <2>4
    <3>5. Len(mqueue') = i
      <4>1. i = n - 1
        BY <2>4
      <4>. QED  BY <1>3, <4>1
    <3>0. Len(mqueue) = i + 1 /\ Len(mqueue') = i
      BY <3>4, <3>5
    <3>1. Known(Len(mqueue)) = Known(i + 1)
      BY <3>0
    <3>2. Known(Len(mqueue))' = Known(i)'
      BY <3>0
    <3>. QED  BY <1>6, <3>1, <3>2
  <2>5. (mprod.st = "on" => Reached(Known(Len(mqueue)), mprod.offset))'
    BY <1>0, <1>5, <2>7 DEF Ahead, Reached
  <2>6. (mprod.st = "done" => Records \subseteq Known(Len(mqueue)))'
    BY <1>0, <1>5, <2>7 DEF Ahead
  <2>. QED  BY <1>3, <1>4, <2>1, <2>2, <2>3, <2>5, <2>6 DEF Ahead
<1>10. PagesAligned'
  <2>1. SUFFICES ASSUME mcfg.source = "parquet" PROVE PagesAligned'
    BY <1>0 DEF PagesAligned
  <2>2. \A i \in 1..n : Aligned(mqueue[i].next)
    BY <1>9, <2>1 DEF PagesAligned
  <2>3. (\A i \in 1..Len(mqueue) : Aligned(mqueue[i].next))'
    BY <1>2, <1>3, <2>2 DEF Aligned
  <2>4. Aligned(mtasks[1].batch.next)'
    BY <1>2, <1>4, <2>2 DEF Aligned
  <2>5. Aligned(Checkpoint)' /\ (mprod.st = "on" => Aligned(mprod.offset))'
    BY <1>5, <2>1 DEF PagesAligned, Aligned
  <2>. QED  BY <2>3, <2>4, <2>5 DEF PagesAligned
<1>. QED  BY <1>8, <1>10

LEMMA AheadStarts ==
    ASSUME MigrationTyped, Quiet, Ahead, PagesAligned, execute_migration
    PROVE  Ahead' /\ PagesAligned'
<1>1. UNCHANGED <<mcfg, mqueue, mtasks, mfile, mtarget, mskipped>> /\ mqueue = <<>>
      /\ \A w \in Slots : mtasks[w] = FreeTask
  BY DEF execute_migration, Quiet
<1>2. /\ Streams' = Streams /\ Records' = Records /\ Settled' = Settled /\ Checkpoint' = Checkpoint
      /\ Taken' = Taken
  BY <1>1 DEF Streams, PagesWell, Records, Settled, Checkpoint, Taken
<1>. SUFFICES ASSUME Streams PROVE Ahead' /\ PagesAligned'
  BY <1>2 DEF Ahead, PagesAligned
<1>3. mtasks'[1].st = "free"
  BY <1>1, OneWorker DEF Streams, FreeTask
<1>4. CASE mprod' = mprod
  BY <1>1, <1>2, <1>4, AheadKept
<1>5. CASE /\ Loaded >= 0 /\ mprod' = [st |-> "on", offset |-> FirstOffset, cursor |-> 0]
  <2>1. mprod'.st = "on" /\ mprod'.offset \in {0, Checkpoint}
    BY <1>5 DEF FirstOffset, Loaded
  <2>2. Reached(Settled, 0)
    BY RecordsAreNumbers DEF Reached
  <2>3. Reached(Settled, Checkpoint)' /\ Reached(Settled, mprod.offset)'
    BY <1>2, <2>1, <2>2 DEF Ahead, Reached
  <2>4. Reached(Known(Len(mqueue)), mprod.offset)'
    BY <2>3 DEF Reached, Known
  <2>5. Ahead'
    BY <1>1, <1>3, <2>1, <2>3, <2>4 DEF Ahead
  <2>6. Aligned(0)
    BY MigrationAssumption DEF Aligned
  <2>7. PagesAligned'
    BY <1>1, <1>2, <1>3, <2>1, <2>6 DEF PagesAligned, Aligned
  <2>. QED  BY <2>5, <2>7
<1>. QED  BY <1>4, <1>5 DEF execute_migration

LEMMA AheadProduces ==
    ASSUME MigrationTyped, Quiet, Ahead, PagesAligned, ProduceTurn
    PROVE  Ahead' /\ PagesAligned'
<1>. DEFINE recs == Fetch(mprod.offset, mprod.cursor)
            next == mprod.offset + Cardinality(recs)
<1>1. PICK n \in Nat : n = Len(mqueue)
  BY DEF MigrationTyped
<1>2. PICK o \in Nat : o = mprod.offset
  BY DEF MigrationTyped
<1>3. UNCHANGED <<mcfg, mtasks, mfile, mtarget, mskipped>>
  BY ProduceCases
<1>4. /\ Streams' = Streams /\ Records' = Records /\ Settled' = Settled /\ Checkpoint' = Checkpoint
      /\ Taken' = Taken
  BY <1>3 DEF Streams, PagesWell, Records, Settled, Checkpoint, Taken
<1>. SUFFICES ASSUME Streams PROVE Ahead' /\ PagesAligned'
  BY <1>4 DEF Ahead, PagesAligned
<1>5. mprod.st = "on" /\ mprod.cursor \in Nat /\ mcfg \in MConfigs /\ PagesWell
  BY DEF ProduceTurn, MigrationTyped, Streams
<1>6. mcfg.source = "parquet" => Aligned(o)
  BY <1>2, <1>5 DEF PagesAligned
<1>7. /\ \A p \in Records : o <= p /\ p < o + MBatch => p \in recs
      /\ recs = {} => \A p \in Records : p < o
      /\ Cardinality(recs) \in Nat /\ Cardinality(recs) <= MBatch
      /\ mcfg.source = "parquet" => Aligned(o + MBatch) /\ Aligned(o + Cardinality(recs))
  BY <1>2, <1>5, <1>6, FetchWhole
<1>8. Reached(Known(n), o)
  BY <1>1, <1>2, <1>5 DEF Ahead
<1>9. CASE recs = {} /\ mprod' = [mprod EXCEPT !.st = "done"] /\ mqueue' = mqueue
  <2>1. Known(n)' = Known(n)
    BY <1>4, <1>9 DEF Known
  <2>2. Records \subseteq Known(n)
    BY <1>7, <1>8, <1>9 DEF Reached
  <2>3. mprod'.st = "done"
    BY <1>9 DEF MigrationTyped
  <2>4. (\A i \in 1..Len(mqueue) : Reached(Known(i), mqueue[i].next))'
    BY <1>4, <1>9 DEF Ahead, Reached, Known
  <2>5. (Records \subseteq Known(Len(mqueue)))'
    BY <1>1, <1>4, <1>9, <2>1, <2>2 DEF Known
  <2>6. Ahead'
    BY <1>3, <1>4, <2>3, <2>4, <2>5 DEF Ahead, Reached
  <2>7. PagesAligned'
    BY <1>3, <1>4, <1>9, <2>3 DEF PagesAligned, Aligned
  <2>. QED  BY <2>6, <2>7
<1>10. CASE mprod' = [mprod EXCEPT !.st = "failed"] /\ mqueue' = mqueue
  <2>1. mprod'.st = "failed"
    BY <1>10 DEF MigrationTyped
  <2>2. (\A i \in 1..Len(mqueue) : Reached(Known(i), mqueue[i].next))'
    BY <1>4, <1>10 DEF Ahead, Reached, Known
  <2>3. Ahead'
    BY <1>3, <1>4, <2>1, <2>2 DEF Ahead, Reached
  <2>4. PagesAligned'
    BY <1>3, <1>4, <1>10, <2>1 DEF PagesAligned, Aligned
  <2>. QED  BY <2>3, <2>4
<1>11. CASE /\ recs # {} /\ mqueue' = Append(mqueue, [recs |-> recs, next |-> next])
            /\ mprod'.offset = mprod.offset + MBatch /\ mprod'.st = "on"
  <2>1. mqueue \in Seq(Batches)
    BY DEF MigrationTyped
  <2>2. /\ Len(mqueue') = n + 1 /\ \A i \in 1..n : mqueue'[i] = mqueue[i]
        /\ mqueue'[n + 1].recs = recs /\ mqueue'[n + 1].next = o + Cardinality(recs)
    BY <1>1, <1>2, <1>11, <2>1
  <2>3. ASSUME NEW i \in 0..n PROVE Known(i)' = Known(i)
    BY <1>4, <2>2 DEF Known
  <2>4. PICK m \in Nat : m = n + 1
    OBVIOUS
  <2>5. Known(n) \cup recs \subseteq Known(m)'
    <3>1. ASSUME NEW j \in 1..n PROVE mqueue[j].recs \subseteq Known(m)'
      BY <2>2, <2>4 DEF Known
    <3>2. Settled \cup Taken \cup recs \subseteq Known(m)'
      BY <1>4, <2>2, <2>4 DEF Known
    <3>. QED  BY <3>1, <3>2 DEF Known
  <2>6. \A p \in Records : p < o + MBatch => p \in Known(n) \cup recs
    BY <1>7, <1>8, RecordsAreNumbers DEF Reached
  <2>7. \A p \in Records : p < o + MBatch => p \in Known(m)'
    BY <2>5, <2>6
  <2>8. \A p \in Records : p < o + Cardinality(recs) => p \in Known(m)'
    <3>. SUFFICES ASSUME NEW p \in Records, p < o + Cardinality(recs) PROVE p < o + MBatch
      BY <2>7
    <3>. QED  BY <1>7, RecordsAreNumbers, MigrationAssumption
  <2>9. (\A i \in 1..Len(mqueue) : Reached(Known(i), mqueue[i].next))'
    <3>1. ASSUME NEW i \in 1..(n + 1) PROVE Reached(Known(i), mqueue[i].next)'
      <4>1. CASE i \in 1..n
        <5>1. Reached(Known(i), mqueue[i].next) /\ i \in 0..n
          BY <1>1, <4>1 DEF Ahead
        <5>. QED  BY <1>4, <2>2, <2>3, <4>1, <5>1 DEF Reached
      <4>2. CASE i = m
        BY <1>4, <2>2, <2>4, <2>8, <4>2 DEF Reached
      <4>. QED  BY <2>4, <4>1, <4>2
    <3>. QED  BY <2>2, <3>1
  <2>10. Reached(Known(Len(mqueue)), mprod.offset)'
    <3>1. Len(mqueue') = m /\ mprod'.offset = o + MBatch
      BY <1>2, <1>11, <2>2, <2>4
    <3>2. Known(Len(mqueue))' = Known(m)'
      BY <3>1
    <3>. QED  BY <1>4, <2>7, <3>1, <3>2 DEF Reached
  <2>11. Ahead'
    BY <1>3, <1>4, <1>11, <2>9, <2>10 DEF Ahead, Reached
  <2>12. PagesAligned'
    <3>1. SUFFICES ASSUME mcfg.source = "parquet" PROVE PagesAligned'
      BY <1>3 DEF PagesAligned
    <3>2. (\A i \in 1..Len(mqueue) : Aligned(mqueue[i].next))'
      BY <1>1, <1>7, <2>2, <3>1 DEF PagesAligned, Aligned
    <3>3. Aligned(mprod.offset)'
      BY <1>2, <1>7, <1>11, <3>1 DEF Aligned
    <3>. QED  BY <1>3, <1>4, <3>1, <3>2, <3>3 DEF PagesAligned, Aligned
  <2>. QED  BY <2>11, <2>12
<1>. QED  BY <1>9, <1>10, <1>11, ProduceCases

LEMMA AheadNext ==
    ASSUME MigrationTyped, Quiet, FilesApart, Ahead, PagesAligned, [MNext]_MVars
    PROVE  Ahead' /\ PagesAligned'
<1>1. CASE UNCHANGED <<mcfg, mprod, mqueue, mtasks, mfile, mtarget, mskipped>>
  <2>1. Settled' = Settled /\ Taken' = Taken /\ Checkpoint' = Checkpoint
    BY <1>1 DEF Settled, Taken, Checkpoint
  <2>. QED  BY <1>1, <2>1, AheadKept
<1>2. CASE Manager
  <2>1. CASE execute_migration
    BY <2>1, AheadStarts
  <2>2. CASE Complete \/ MCrash
    <3>1. PICK status \in {"none", "Completed"} : EndRun(status)
      BY <2>2 DEF Complete, MCrash
    <3>. QED  BY <2>2, <3>1, AheadEnds DEF Complete, MCrash
  <2>3. CASE cancel_migration \/ resume_migration \/ \E resume \in BOOLEAN : start_migration(resume)
    BY <1>1, <2>3 DEF cancel_migration, resume_migration, start_migration
  <2>. QED  BY <1>2, <2>1, <2>2, <2>3 DEF Manager
<1>3. CASE ProduceTurn
  BY <1>3, AheadProduces
<1>4. ASSUME NEW w \in Slots, Worker(w) PROVE Ahead' /\ PagesAligned'
  <2>0. mcfg' = mcfg
    BY <1>4 DEF Worker, ReceiveBatch, process_batch, process_batch_streaming, OpenTmp, WriteTmp,
                RenameTmp, Progress, SaveFails
  <2>1. SUFFICES ASSUME Streams PROVE Ahead' /\ PagesAligned'
    BY <2>0 DEF Ahead, PagesAligned, Streams, PagesWell
  <2>2. w = 1 /\ 1 \in Slots /\ mtasks \in [Slots -> Tasks]
    BY <1>4, <2>1, WorkerIsOne, OneWorker DEF MigrationTyped, Streams
  <2>3. CASE OpenTmp(w) \/ WriteTmp(w) \/ RenameTmp(w)
    <3>1. UNCHANGED <<mcfg, mprod, mqueue, mtarget, mskipped>>
      BY <2>3 DEF OpenTmp, WriteTmp, RenameTmp
    <3>2. /\ mtasks'[1].batch = mtasks[1].batch
          /\ \/ Checkpoint' = Checkpoint /\ mtasks[1].st \in {"open", "write"}
                                         /\ mtasks'[1].st \in {"write", "rename"}
             \/ Checkpoint' = mtasks[1].batch.next /\ mtasks[1].st = "rename" /\ mtasks'[1].st = "done"
      BY <2>1, <2>2, <2>3, FilesSaved DEF Streams
    <3>3. Settled' = Settled /\ Taken = {}
      BY <3>1, <3>2 DEF Settled, Taken
    <3>. QED  BY <3>1, <3>2, <3>3, AheadKept DEF Saves
  <2>4. CASE ReceiveBatch(w)
    BY <2>4, AheadReceives
  <2>5. CASE process_batch(w) \/ process_batch_streaming(w)
    <3>1. /\ mtasks[1].st = "insert" /\ mtasks'[1].st \in {"open", "done"}
          /\ mtasks'[1].batch = mtasks[1].batch
          /\ UNCHANGED <<mcfg, mprod, mqueue, mfile>>
          /\ mtarget \subseteq mtarget' /\ mskipped \subseteq mskipped'
          /\ mtasks[1].batch.recs \subseteq mtarget' \cup mskipped'
      BY <2>1, <2>2, <2>5, HandledBatch DEF Streams
    <3>2. Settled \subseteq Settled' /\ Settled \cup Taken \subseteq Settled' /\ Checkpoint' = Checkpoint
      BY <3>1 DEF Settled, Taken, Checkpoint
    <3>. QED  BY <3>1, <3>2, AheadKept DEF Saves
  <2>6. CASE Progress(w)
    <3>1. /\ mtasks[1].st = "done" /\ mtasks'[1].st = "free"
          /\ UNCHANGED <<mcfg, mprod, mqueue, mfile, mtarget, mskipped>>
      BY <2>2, <2>6 DEF Progress, FreeTask
    <3>2. Settled' = Settled /\ Taken = {} /\ Checkpoint' = Checkpoint
      BY <3>1 DEF Settled, Taken, Checkpoint
    <3>. QED  BY <3>1, <3>2, AheadKept DEF Saves
  <2>7. CASE SaveFails(w)
    <3>1. EndRun("Failed") /\ UNCHANGED <<mcfg, mfile, mtarget, mskipped>>
      BY <2>1, <2>7 DEF SaveFails, Streams
    <3>. QED  BY <3>1, AheadEnds
  <2>. QED  BY <1>4, <2>3, <2>4, <2>5, <2>6, <2>7 DEF Worker
<1>. QED  BY <1>1, <1>2, <1>3, <1>4, MigrationSteps DEF MVars

-----------------------------------------------------------------------------
(* The counters count no record twice                                       *)

\* One task does what leaves its batch to it.
LEMMA CountsKept ==
    ASSUME CountsOnce, UNCHANGED <<mcfg, mrun, mprod, mqueue, mcount>>,
           NEW w \in Slots, \A v \in Slots : v # w => mtasks'[v] = mtasks[v],
           mtasks[w].st # "free", mtasks'[w].st # "free", mtasks'[w].batch = mtasks[w].batch,
           \/ mtasks'[w].st = "insert"
           \/ mtasks'[w].add = mtasks[w].add /\ mtasks[w].st # "insert"
           \/ PagesWell /\ mrun.st = "run" => mtasks'[w].add <= Cardinality(mtasks[w].batch.recs)
    PROVE  CountsOnce'
<1>1. PagesWell' = PagesWell
  BY DEF PagesWell
<1>2. Holding' = Holding /\ \A v \in Holding : mtasks'[v].batch = mtasks[v].batch
  BY DEF Holding
<1>3. ASSUME PagesWell, mrun.st = "run" PROVE Apart'
  <2>1. Apart
    BY <1>3 DEF CountsOnce
  <2>2. (\A v \in Holding : mtasks[v].st # "insert" => mtasks[v].add <= Cardinality(mtasks[v].batch.recs))'
    BY <1>2, <1>3, <2>1 DEF Apart, Holding
  <2>3. (\A v \in Holding : mtasks[v].batch.recs # {} /\ \A p \in mtasks[v].batch.recs : p < mprod.offset)'
    BY <1>2, <2>1 DEF Apart
  <2>4. (\A i \in 1..Len(mqueue) : \A v \in Holding : mqueue[i].recs \cap mtasks[v].batch.recs = {})'
    BY <1>2, <2>1 DEF Apart
  <2>5. (\A u, v \in Holding : u # v => mtasks[u].batch.recs \cap mtasks[v].batch.recs = {})'
    BY <1>2, <2>1 DEF Apart
  <2>. QED  BY <2>1, <2>2, <2>3, <2>4, <2>5 DEF Apart
<1>4. ASSUME PagesWell, mrun.st = "run" PROVE (\E C \in SUBSET Source : CountedIn(C))'
  <2>1. PICK C \in SUBSET Source : CountedIn(C)
    BY <1>4 DEF CountsOnce
  <2>2. CountedIn(C)'
    BY <1>2, <2>1 DEF CountedIn
  <2>. QED  BY <2>1, <2>2
<1>. QED  BY <1>1, <1>3, <1>4 DEF CountsOnce

LEMMA CountsReceives ==
    ASSUME MigrationTyped, Quiet, CountsOnce, NEW w \in Slots, ReceiveBatch(w)
    PROVE  CountsOnce'
<1>0. UNCHANGED <<mcfg, mrun, mprod, mcount>> /\ PagesWell' = PagesWell
  BY DEF ReceiveBatch, PagesWell
<1>. SUFFICES ASSUME PagesWell PROVE CountsOnce'
  BY <1>0 DEF CountsOnce
<1>1. mrun.st = "run" /\ mtasks[w].st = "free" /\ mqueue # <<>> /\ Apart
  BY DEF ReceiveBatch, CountsOnce
<1>2. PICK n \in Nat : n = Len(mqueue)
  BY DEF MigrationTyped
<1>3. mqueue \in Seq(Batches) /\ n >= 1
  BY <1>1, <1>2 DEF MigrationTyped
<1>4. Len(mqueue') = n - 1 /\ \A i \in 1..(n - 1) : i + 1 \in 1..n /\ mqueue'[i] = mqueue[i + 1]
  BY <1>2, <1>3 DEF ReceiveBatch
<1>5. /\ mtasks'[w].st = "insert" /\ mtasks'[w].batch = mqueue[1]
      /\ \A v \in Slots : v # w => mtasks'[v] = mtasks[v]
  BY <1>3 DEF ReceiveBatch, FreeTask, MigrationTyped
<1>6. Holding' = Holding \cup {w} /\ w \notin Holding
  BY <1>1, <1>5 DEF Holding
<1>7. \A v \in Holding : mtasks'[v] = mtasks[v]
  BY <1>5, <1>6 DEF Holding
<1>8. 1 \in 1..n
  BY <1>3
<1>9. Apart'
  <2>1. (\A i \in 1..Len(mqueue) : mqueue[i].recs # {} /\ \A p \in mqueue[i].recs : p < mprod.offset)'
    BY <1>0, <1>1, <1>2, <1>4 DEF Apart
  <2>2. (\A v \in Holding :
            /\ mtasks[v].batch.recs # {} /\ \A p \in mtasks[v].batch.recs : p < mprod.offset
            /\ mtasks[v].st # "insert" => mtasks[v].add <= Cardinality(mtasks[v].batch.recs))'
    BY <1>0, <1>1, <1>2, <1>5, <1>6, <1>7, <1>8 DEF Apart
  <2>3. (\A i, j \in 1..Len(mqueue) : i # j => mqueue[i].recs \cap mqueue[j].recs = {})'
    <3>1. ASSUME NEW i \in 1..(n - 1), NEW j \in 1..(n - 1), i # j
          PROVE  mqueue'[i].recs \cap mqueue'[j].recs = {}
      <4>1. i + 1 # j + 1 /\ i + 1 \in 1..n /\ j + 1 \in 1..n
        BY <1>4, <3>1
      <4>2. mqueue[i + 1].recs \cap mqueue[j + 1].recs = {}
        BY <1>1, <1>2, <4>1 DEF Apart
      <4>. QED  BY <1>4, <4>2
    <3>. QED  BY <1>4, <3>1
  <2>4. (\A i \in 1..Len(mqueue) : \A v \in Holding : mqueue[i].recs \cap mtasks[v].batch.recs = {})'
    <3>1. ASSUME NEW i \in 1..(n - 1), NEW v \in Holding
          PROVE  mqueue'[i].recs \cap mtasks'[v].batch.recs = {}
      BY <1>1, <1>2, <1>4, <1>7 DEF Apart
    <3>2. ASSUME NEW i \in 1..(n - 1) PROVE mqueue'[i].recs \cap mtasks'[w].batch.recs = {}
      <4>1. i + 1 # 1 /\ i + 1 \in 1..n
        BY <1>4
      <4>2. mqueue[i + 1].recs \cap mqueue[1].recs = {}
        BY <1>1, <1>2, <1>8, <4>1 DEF Apart
      <4>. QED  BY <1>4, <1>5, <4>2
    <3>. QED  BY <1>4, <1>6, <3>1, <3>2
  <2>5. (\A u, v \in Holding : u # v => mtasks[u].batch.recs \cap mtasks[v].batch.recs = {})'
    <3>1. \A v \in Holding : mtasks'[v].batch.recs \cap mtasks'[w].batch.recs = {}
      BY <1>1, <1>2, <1>5, <1>7, <1>8 DEF Apart
    <3>2. \A u, v \in Holding : u # v => mtasks'[u].batch.recs \cap mtasks'[v].batch.recs = {}
      BY <1>1, <1>7 DEF Apart
    <3>. QED  BY <1>6, <3>1, <3>2
  <2>. QED  BY <2>1, <2>2, <2>3, <2>4, <2>5 DEF Apart
<1>10. PICK C \in SUBSET Source : CountedIn(C)
  BY <1>1 DEF CountsOnce
<1>11. CountedIn(C)'
  <2>1. (\A i \in 1..Len(mqueue) : mqueue[i].recs \cap C = {})'
    BY <1>2, <1>4, <1>10 DEF CountedIn
  <2>2. (\A v \in Holding : mtasks[v].batch.recs \cap C = {})'
    BY <1>2, <1>5, <1>6, <1>7, <1>8, <1>10 DEF CountedIn
  <2>. QED  BY <1>0, <1>10, <2>1, <2>2 DEF CountedIn
<1>. QED  BY <1>0, <1>1, <1>9, <1>10, <1>11 DEF CountsOnce

LEMMA CountsProduces ==
    ASSUME MigrationTyped, Quiet, CountsOnce, ProduceTurn
    PROVE  CountsOnce'
<1>. DEFINE recs == Fetch(mprod.offset, mprod.cursor)
<1>0. UNCHANGED <<mcfg, mrun, mtasks, mcount>> /\ PagesWell' = PagesWell /\ mrun.st = "run"
  BY ProduceCases DEF PagesWell
<1>. SUFFICES ASSUME PagesWell PROVE CountsOnce'
  BY <1>0 DEF CountsOnce
<1>1. Apart /\ Holding' = Holding
  BY <1>0 DEF CountsOnce, Holding
<1>2. PICK C \in SUBSET Source : CountedIn(C)
  BY <1>0 DEF CountsOnce
<1>3. PICK o \in Nat : o = mprod.offset
  BY DEF MigrationTyped
<1>4. mprod \in [st : {"off", "on", "done", "failed"}, offset : Nat, cursor : Nat] /\ mcfg \in MConfigs
  BY DEF MigrationTyped
<1>5. CASE mprod'.offset = mprod.offset /\ mqueue' = mqueue
  <2>1. Apart'
    BY <1>0, <1>1, <1>5 DEF Apart
  <2>2. CountedIn(C)'
    BY <1>0, <1>1, <1>2, <1>5 DEF CountedIn
  <2>. QED  BY <1>0, <1>2, <2>1, <2>2 DEF CountsOnce
<1>6. CASE /\ recs # {} /\ mqueue' = Append(mqueue, [recs |-> recs, next |-> mprod.offset + Cardinality(recs)])
           /\ mprod'.offset = mprod.offset + MBatch
  <2>1. PICK n \in Nat : n = Len(mqueue)
    BY DEF MigrationTyped
  <2>2. /\ Len(mqueue') = n + 1 /\ \A i \in 1..n : mqueue'[i] = mqueue[i]
        /\ mqueue'[n + 1].recs = recs
    BY <1>6, <2>1 DEF MigrationTyped
  <2>3. recs \in SUBSET Source /\ \A p \in recs : p \in Nat /\ o <= p /\ p < o + MBatch
    BY <1>3, <1>4, FetchTyped, MigrationAssumption DEF Source
  <2>4. /\ \A i \in 1..n : mqueue[i].recs \subseteq Source /\ \A p \in mqueue[i].recs : p \in Nat /\ p < o
        /\ \A v \in Holding : mtasks[v].batch.recs \subseteq Source
                              /\ \A p \in mtasks[v].batch.recs : p \in Nat /\ p < o
        /\ \A p \in C : p \in Nat /\ p < o
    <3>1. \A X \in SUBSET Source : \A p \in X : p \in Nat
      BY MigrationAssumption DEF Source
    <3>2. \A i \in 1..n : mqueue[i].recs \in SUBSET Source
      <4>1. \A i \in 1..n : mqueue[i] \in Batches
        BY <2>1 DEF MigrationTyped
      <4>. QED  BY <4>1 DEF Batches
    <3>3. \A v \in Holding : mtasks[v].batch.recs \in SUBSET Source
      BY DEF MigrationTyped, Tasks, Batches, Holding
    <3>4. \A i \in 1..n : \A p \in mqueue[i].recs : p < o
      BY <1>1, <1>3, <2>1 DEF Apart
    <3>5. \A v \in Holding : \A p \in mtasks[v].batch.recs : p < o
      BY <1>1, <1>3 DEF Apart
    <3>6. \A p \in C : p < o
      BY <1>2, <1>3 DEF CountedIn
    <3>. QED  BY <1>2, <3>1, <3>2, <3>3, <3>4, <3>5, <3>6
  <2>5. \A p \in Nat : p < o => p < o + MBatch
    BY MigrationAssumption
  <2>6. \A p \in Nat : ~(p < o /\ o <= p)
    OBVIOUS
  <2>7. PICK m \in Nat : m = n + 1
    OBVIOUS
  <2>8. 1..(n + 1) = 1..n \cup {m} /\ m \notin 1..n
    BY <2>7
  <2>9. mprod'.offset = o + MBatch
    BY <1>3, <1>6
  <2>10. /\ \A i \in 1..n : mqueue[i].recs \cap recs = {}
         /\ \A v \in Holding : mtasks[v].batch.recs \cap recs = {}
         /\ C \cap recs = {}
    BY <2>3, <2>4, <2>6
  <2>11. Apart'
    <3>1. (\A i \in 1..Len(mqueue) : mqueue[i].recs # {} /\ \A p \in mqueue[i].recs : p < mprod.offset)'
      <4>1. \A i \in 1..n : mqueue'[i].recs # {} /\ \A p \in mqueue'[i].recs : p < o + MBatch
        BY <1>1, <2>1, <2>2, <2>4, <2>5 DEF Apart
      <4>2. mqueue'[m].recs # {} /\ \A p \in mqueue'[m].recs : p < o + MBatch
        BY <1>6, <2>2, <2>3, <2>7
      <4>. QED  BY <2>2, <2>8, <2>9, <4>1, <4>2
    <3>2. (\A v \in Holding :
              /\ mtasks[v].batch.recs # {} /\ \A p \in mtasks[v].batch.recs : p < mprod.offset
              /\ mtasks[v].st # "insert" => mtasks[v].add <= Cardinality(mtasks[v].batch.recs))'
      BY <1>0, <1>1, <2>4, <2>5, <2>9 DEF Apart
    <3>3. (\A i, j \in 1..Len(mqueue) : i # j => mqueue[i].recs \cap mqueue[j].recs = {})'
      <4>1. \A i, j \in 1..n : i # j => mqueue'[i].recs \cap mqueue'[j].recs = {}
        BY <1>1, <2>1, <2>2 DEF Apart
      <4>2. \A i \in 1..n : mqueue'[i].recs \cap mqueue'[m].recs = {}
        BY <2>2, <2>7, <2>10
      <4>. QED  BY <2>2, <2>8, <4>1, <4>2
    <3>4. (\A i \in 1..Len(mqueue) : \A v \in Holding : mqueue[i].recs \cap mtasks[v].batch.recs = {})'
      <4>1. \A i \in 1..n : \A v \in Holding : mqueue'[i].recs \cap mtasks'[v].batch.recs = {}
        BY <1>0, <1>1, <2>1, <2>2 DEF Apart
      <4>2. \A v \in Holding : mqueue'[m].recs \cap mtasks'[v].batch.recs = {}
        BY <1>0, <2>2, <2>7, <2>10
      <4>. QED  BY <1>1, <2>2, <2>8, <4>1, <4>2
    <3>5. (\A u, v \in Holding : u # v => mtasks[u].batch.recs \cap mtasks[v].batch.recs = {})'
      BY <1>0, <1>1 DEF Apart
    <3>. QED  BY <3>1, <3>2, <3>3, <3>4, <3>5 DEF Apart
  <2>12. CountedIn(C)'
    <3>1. (\A p \in C : p < mprod.offset)'
      BY <2>4, <2>5, <2>9
    <3>2. (\A i \in 1..Len(mqueue) : mqueue[i].recs \cap C = {})'
      <4>1. \A i \in 1..n : mqueue'[i].recs \cap C = {}
        BY <1>2, <2>1, <2>2 DEF CountedIn
      <4>2. mqueue'[m].recs \cap C = {}
        BY <2>2, <2>7, <2>10
      <4>. QED  BY <2>2, <2>8, <4>1, <4>2
    <3>3. (\A v \in Holding : mtasks[v].batch.recs \cap C = {})'
      BY <1>0, <1>1, <1>2 DEF CountedIn
    <3>. QED  BY <1>0, <1>2, <3>1, <3>2, <3>3 DEF CountedIn
  <2>. QED  BY <1>0, <1>2, <2>11, <2>12 DEF CountsOnce
<1>. QED  BY <1>4, <1>5, <1>6, ProduceCases

LEMMA CountsProgress ==
    ASSUME MigrationTyped, Quiet, CountsOnce, NEW w \in Slots, Progress(w)
    PROVE  CountsOnce'
<1>. DEFINE R == mtasks[w].batch.recs
<1>0. UNCHANGED <<mcfg, mrun, mprod, mqueue>> /\ PagesWell' = PagesWell
  BY DEF Progress, PagesWell
<1>. SUFFICES ASSUME PagesWell PROVE CountsOnce'
  BY <1>0 DEF CountsOnce
<1>1. mtasks[w].st = "done" /\ mcount' = mcount + mtasks[w].add
  BY DEF Progress
<1>2. /\ mtasks'[w].st = "free" /\ \A v \in Slots : v # w => mtasks'[v] = mtasks[v]
      /\ mtasks[w] \in Tasks /\ R \in SUBSET Source /\ mtasks[w].add \in Nat
  BY DEF Progress, FreeTask, MigrationTyped, Tasks, Batches
<1>3. mrun.st = "run" /\ Apart
  BY <1>1 DEF Quiet, FreeTask, CountsOnce
<1>4. Holding' \subseteq Holding /\ w \in Holding /\ w \notin Holding'
      /\ \A v \in Holding' : v # w /\ mtasks'[v] = mtasks[v]
  BY <1>1, <1>2 DEF Holding
<1>5. Apart'
  <2>1. (\A i \in 1..Len(mqueue) : mqueue[i].recs # {} /\ \A p \in mqueue[i].recs : p < mprod.offset)'
    BY <1>0, <1>3 DEF Apart
  <2>2. (\A v \in Holding :
            /\ mtasks[v].batch.recs # {} /\ \A p \in mtasks[v].batch.recs : p < mprod.offset
            /\ mtasks[v].st # "insert" => mtasks[v].add <= Cardinality(mtasks[v].batch.recs))'
    BY <1>0, <1>3, <1>4 DEF Apart
  <2>3. (\A i, j \in 1..Len(mqueue) : i # j => mqueue[i].recs \cap mqueue[j].recs = {})'
    BY <1>0, <1>3 DEF Apart
  <2>4. (\A i \in 1..Len(mqueue) : \A v \in Holding : mqueue[i].recs \cap mtasks[v].batch.recs = {})'
    BY <1>0, <1>3, <1>4 DEF Apart
  <2>5. (\A u, v \in Holding : u # v => mtasks[u].batch.recs \cap mtasks[v].batch.recs = {})'
    BY <1>3, <1>4 DEF Apart
  <2>. QED  BY <2>1, <2>2, <2>3, <2>4, <2>5 DEF Apart
<1>6. PICK C \in SUBSET Source : CountedIn(C)
  BY <1>3 DEF CountsOnce
<1>7. PICK D \in SUBSET Source : D = C \cup R
  BY <1>2
<1>8. mcount' <= Cardinality(D)
  <2>1. IsFiniteSet(C) /\ IsFiniteSet(R) /\ Cardinality(C) \in Nat /\ Cardinality(R) \in Nat
    BY <1>2, SourceFinite
  <2>2. C \cap R = {}
    BY <1>4, <1>6 DEF CountedIn
  <2>3. Cardinality(D) = Cardinality(C) + Cardinality(R)
    <3>1. Cardinality(C \cup R) = Cardinality(C) + Cardinality(R) - Cardinality(C \cap R)
      BY <2>1, FS_Union
    <3>2. Cardinality(C \cap R) = 0
      BY <2>2, FS_EmptySet
    <3>. QED  BY <1>7, <2>1, <3>1, <3>2
  <2>4. mcount <= Cardinality(C) /\ mtasks[w].add <= Cardinality(R)
    BY <1>1, <1>3, <1>4, <1>6 DEF CountedIn, Apart
  <2>5. mcount \in Nat
    BY DEF MigrationTyped
  <2>. QED  BY <1>1, <1>2, <2>1, <2>3, <2>4, <2>5
<1>9. CountedIn(D)'
  <2>1. (\A p \in D : p < mprod.offset)'
    BY <1>0, <1>3, <1>4, <1>6, <1>7 DEF CountedIn, Apart
  <2>2. (\A i \in 1..Len(mqueue) : mqueue[i].recs \cap D = {})'
    BY <1>0, <1>3, <1>4, <1>6, <1>7 DEF CountedIn, Apart
  <2>3. (\A v \in Holding : mtasks[v].batch.recs \cap D = {})'
    BY <1>3, <1>4, <1>6, <1>7 DEF CountedIn, Apart
  <2>. QED  BY <1>8, <2>1, <2>2, <2>3 DEF CountedIn
<1>10. mcount' <= MTotal
  <2>1. Cardinality(D) \in Nat /\ Cardinality(D) <= MTotal
    BY SourceFinite
  <2>2. mcount' \in Nat
    BY <1>1, <1>2 DEF MigrationTyped
  <2>. QED  BY <1>8, <2>1, <2>2, MigrationAssumption
<1>. QED  BY <1>0, <1>3, <1>5, <1>7, <1>9, <1>10 DEF CountsOnce

LEMMA CountsStarts ==
    ASSUME MigrationTyped, Quiet, CountsOnce, execute_migration
    PROVE  CountsOnce'
<1>1. /\ mrun.st = "load" /\ mrun'.st \in {"idle", "run"}
      /\ UNCHANGED <<mcfg, mqueue, mtasks, mcount>> /\ PagesWell' = PagesWell
  BY DEF execute_migration, PagesWell, MigrationTyped
<1>. SUFFICES ASSUME PagesWell PROVE CountsOnce'
  BY <1>1 DEF CountsOnce
<1>2. mcount = 0 /\ mqueue = <<>> /\ Holding = {}
  BY <1>1 DEF CountsOnce, Quiet, Holding, FreeTask
<1>3. Holding' = Holding /\ Len(mqueue') = 0
  BY <1>1, <1>2 DEF Holding
<1>4. Apart'
  BY <1>2, <1>3 DEF Apart
<1>5. CountedIn({})'
  BY <1>1, <1>2, <1>3, FS_EmptySet DEF CountedIn
<1>. QED  BY <1>1, <1>2, <1>4, <1>5, MigrationAssumption DEF CountsOnce

LEMMA CountsNext ==
    ASSUME MigrationTyped, Quiet, CountsOnce, [MNext]_MVars
    PROVE  CountsOnce'
<1>1. CASE UNCHANGED <<mcfg, mrun, mprod, mqueue, mtasks, mcount>>
  BY <1>1 DEF CountsOnce, PagesWell, Apart, CountedIn, Holding
<1>2. ASSUME NEW status, EndRun(status), mcfg' = mcfg, mcount' = mcount PROVE CountsOnce'
  BY <1>2 DEF EndRun, CountsOnce, PagesWell, MigrationTyped
<1>3. CASE Manager
  <2>1. CASE \E resume \in BOOLEAN : start_migration(resume)
    BY <2>1, MigrationAssumption DEF start_migration, CountsOnce, PagesWell
  <2>2. CASE execute_migration
    BY <2>2, CountsStarts
  <2>3. CASE Complete \/ MCrash
    BY <1>2, <2>3 DEF Complete, MCrash
  <2>4. CASE cancel_migration \/ resume_migration
    BY <1>1, <2>4 DEF cancel_migration, resume_migration
  <2>. QED  BY <1>3, <2>1, <2>2, <2>3, <2>4 DEF Manager
<1>4. CASE ProduceTurn
  BY <1>4, CountsProduces
<1>5. ASSUME NEW w \in Slots, Worker(w) PROVE CountsOnce'
  <2>0. mtasks \in [Slots -> Tasks] /\ mtasks[w] \in Tasks
    BY DEF MigrationTyped
  <2>1. CASE ReceiveBatch(w)
    BY <2>1, CountsReceives
  <2>2. CASE process_batch(w) \/ process_batch_streaming(w)
    <3>1. /\ mtasks[w].st = "insert" /\ mtasks'[w].st \in {"open", "done"}
          /\ mtasks'[w].batch = mtasks[w].batch /\ mtasks'[w].add = Cardinality(mtasks[w].batch.recs)
          /\ \A v \in Slots : v # w => mtasks'[v] = mtasks[v]
          /\ UNCHANGED <<mcfg, mrun, mprod, mqueue, mcount>>
      BY <2>2, HandledBatch
    <3>2. Cardinality(mtasks[w].batch.recs) \in Nat
      BY <2>0, SourceFinite DEF Tasks, Batches
    <3>. QED  BY <3>1, <3>2, CountsKept
  <2>3. CASE OpenTmp(w) \/ WriteTmp(w) \/ RenameTmp(w)
    <3>1. /\ mtasks[w].st \in {"open", "write", "rename"}
          /\ UNCHANGED <<mcfg, mrun, mprod, mqueue, mcount>>
      BY <2>3 DEF OpenTmp, WriteTmp, RenameTmp
    <3>2. \E st \in {"write", "rename", "done"}, ino \in Nat \cup Inodes \cup {mtasks[w].ino} :
             mtasks' = [mtasks EXCEPT ![w] = [mtasks[w] EXCEPT !.st = st, !.ino = ino]]
      <4>1. CASE OpenTmp(w)
        <5>1. PICK i \in Inodes : mtasks' = [mtasks EXCEPT ![w].st = "write", ![w].ino = i]
          <6>1. \E n \in Inodes : n \notin {mfile.json} \cup {mtasks[v].ino : v \in Slots}
            BY FileLeft
          <6>2. mfile.tmp # 0 => mfile.tmp \in Inodes
            BY DEF MigrationTyped
          <6>. QED  BY <4>1, <6>1, <6>2 DEF OpenTmp
        <5>2. mtasks' = [mtasks EXCEPT ![w] = [mtasks[w] EXCEPT !.st = "write", !.ino = i]]
          BY <2>0, <5>1
        <5>. QED  BY <5>2
      <4>2. CASE WriteTmp(w)
        <5>1. mtasks' = [mtasks EXCEPT ![w] = [mtasks[w] EXCEPT !.st = "rename", !.ino = 0]]
          BY <2>0, <4>2 DEF WriteTmp
        <5>. QED  BY <5>1
      <4>3. CASE RenameTmp(w)
        <5>1. mtasks' = [mtasks EXCEPT ![w] = [mtasks[w] EXCEPT !.st = "done", !.ino = mtasks[w].ino]]
          BY <2>0, <4>3 DEF RenameTmp, Tasks
        <5>. QED  BY <5>1
      <4>. QED  BY <2>3, <4>1, <4>2, <4>3
    <3>3. /\ mtasks'[w].st \in {"write", "rename", "done"} /\ mtasks'[w].batch = mtasks[w].batch
          /\ mtasks'[w].add = mtasks[w].add /\ \A v \in Slots : v # w => mtasks'[v] = mtasks[v]
      BY <2>0, <3>2 DEF Tasks
    <3>. QED  BY <3>1, <3>3, CountsKept
  <2>4. CASE Progress(w)
    BY <2>4, CountsProgress
  <2>5. CASE SaveFails(w)
    <3>1. CASE mcfg.strategy = "stream"
      BY <1>2, <2>5, <3>1 DEF SaveFails
    <3>2. CASE mcfg.strategy # "stream"
      <4>1. /\ mtasks[w].st \in {"open", "write", "rename"}
            /\ UNCHANGED <<mcfg, mrun, mprod, mqueue, mcount>>
            /\ mtasks' = [mtasks EXCEPT ![w].st = "done", ![w].ino = 0, ![w].add = 1]
        BY <2>5, <3>2 DEF SaveFails
      <4>2. /\ mtasks'[w].st = "done" /\ mtasks'[w].batch = mtasks[w].batch
            /\ mtasks'[w].add = 1 /\ \A v \in Slots : v # w => mtasks'[v] = mtasks[v]
        BY <2>0, <4>1 DEF Tasks
      <4>3. ASSUME PagesWell, mrun.st = "run" PROVE 1 <= Cardinality(mtasks[w].batch.recs)
        <5>1. mtasks[w].batch.recs # {}
          BY <4>1, <4>3 DEF CountsOnce, Apart, Holding
        <5>2. mtasks[w].batch.recs \in SUBSET Source
          BY <2>0 DEF Tasks, Batches
        <5>. QED  BY <5>1, <5>2, SourceFinite, FS_EmptySet
      <4>. QED  BY <4>1, <4>2, <4>3, CountsKept
    <3>. QED  BY <3>1, <3>2
  <2>. QED  BY <1>5, <2>1, <2>2, <2>3, <2>4, <2>5 DEF Worker
<1>. QED  BY <1>1, <1>3, <1>4, <1>5, MigrationSteps DEF MVars

-----------------------------------------------------------------------------
(* A migration that reports Completed left nothing out                      *)

LEMMA CompletedNext ==
    ASSUME MigrationTyped, Quiet, Ahead, CompletedWhole, [MNext]_MVars
    PROVE  CompletedWhole'
<1>0. mcfg' = mcfg /\ PagesWell' = PagesWell /\ Records' = Records
  BY DEF MNext, MVars, start_migration, execute_migration, produce_batches, produce_batches_streaming,
         ProduceTurn, Complete, Work, ReceiveBatch, process_batch, process_batch_streaming, OpenTmp,
         WriteTmp, RenameTmp, Progress, SaveFails, cancel_migration, resume_migration, MCrash,
         PagesWell, Records
<1>. SUFFICES ASSUME Streams PROVE CompletedWhole'
  BY <1>0 DEF CompletedWhole, Streams
<1>1. CASE UNCHANGED <<mstatus, mrun, mprod, mtarget, mskipped>>
  BY <1>0, <1>1 DEF CompletedWhole
<1>2. CASE Complete
  <2>1. mqueue = <<>> /\ mprod.st \in {"done", "failed"} /\ mtasks[1].st = "free"
    BY <1>2, OneWorker DEF Complete, ChannelClosed, Streams
  <2>2. (mprod'.st = "failed" <=> mprod.st = "failed") /\ UNCHANGED <<mtarget, mskipped>>
    BY <1>2, RunEnds DEF Complete
  <2>3. Known(Len(mqueue)) = Settled
    BY <2>1 DEF Known, Taken
  <2>4. mprod.st = "done" => Records \subseteq Settled
    BY <2>3 DEF Ahead
  <2>. QED  BY <1>0, <2>1, <2>2, <2>4 DEF CompletedWhole, Settled
<1>3. CASE Manager /\ ~Complete
  <2>1. mstatus' # "Completed" \/ mrun'.st # "idle"
    BY <1>3 DEF Manager, start_migration, execute_migration, cancel_migration, resume_migration, MCrash, EndRun
  <2>. QED  BY <2>1 DEF CompletedWhole
<1>4. CASE ProduceTurn
  <2>1. mrun' = mrun /\ mrun.st = "run"
    BY <1>4, ProduceCases
  <2>. QED  BY <2>1 DEF CompletedWhole
<1>5. ASSUME NEW w \in Slots, Worker(w) PROVE CompletedWhole'
  <2>1. CASE SaveFails(w)
    <3>1. mstatus' = "Failed"
      BY <2>1 DEF SaveFails, EndRun, Streams
    <3>. QED  BY <3>1 DEF CompletedWhole
  <2>2. CASE ~SaveFails(w)
    <3>1. mrun' = mrun
      BY <1>5, <2>2 DEF Worker, ReceiveBatch, process_batch, process_batch_streaming, OpenTmp,
                        WriteTmp, RenameTmp, Progress
    <3>2. mtasks[w].st # "free" \/ mrun.st = "run"
      BY <1>5, <2>2 DEF Worker, ReceiveBatch, process_batch, process_batch_streaming, OpenTmp,
                        WriteTmp, RenameTmp, Progress
    <3>3. mrun.st = "run"
      BY <3>2 DEF Quiet, FreeTask
    <3>. QED  BY <3>1, <3>3 DEF CompletedWhole
  <2>. QED  BY <2>1, <2>2
<1>. QED  BY <1>1, <1>2, <1>3, <1>4, <1>5, MigrationSteps DEF MVars

-----------------------------------------------------------------------------
(* The theorem                                                              *)

LEMMA MigrationStarts == MInit => MigrationInv
<1>. SUFFICES ASSUME MInit PROVE MigrationInv
  OBVIOUS
<1>1. /\ mcfg \in MConfigs /\ mstatus = "none" /\ mrun = [st |-> "idle", resume |-> FALSE]
      /\ mprod = [st |-> "off", offset |-> 0, cursor |-> 0] /\ mqueue = <<>> /\ mcount = 0
      /\ mtasks = [w \in Slots |-> FreeTask] /\ mtarget = {} /\ mskipped = {}
      /\ mfile = [tmp |-> 0, json |-> 0, data |-> [i \in Inodes |-> Empty]]
  BY DEF MInit, NoProducer
<1>2. MigrationTyped
  BY <1>1, NoBatchTyped, MigrationAssumption DEF MigrationTyped, Empty
<1>3. Quiet /\ Checkpoint = 0
  BY <1>1 DEF Quiet, Checkpoint
<1>4. FilesApart
  BY <1>1, <1>3, OneWorker DEF FilesApart, Saving, FreeTask
<1>5. Streams => mtasks[1].st = "free"
  BY <1>1, OneWorker DEF FreeTask, Streams
<1>6. Ahead
  BY <1>1, <1>3, <1>5, RecordsAreNumbers DEF Ahead, Reached
<1>7. PagesAligned
  BY <1>1, <1>3, <1>5, MigrationAssumption DEF PagesAligned, Aligned
<1>8. CountsOnce /\ CompletedWhole
  BY <1>1, MigrationAssumption DEF CountsOnce, CompletedWhole
<1>. QED  BY <1>2, <1>3, <1>4, <1>6, <1>7, <1>8 DEF MigrationInv

LEMMA MigrationKeeps == MigrationInv /\ [MNext]_MVars => MigrationInv'
<1>. SUFFICES ASSUME MigrationInv, [MNext]_MVars PROVE MigrationInv'
  OBVIOUS
<1>1. MigrationTyped /\ Quiet /\ FilesApart /\ Ahead /\ PagesAligned /\ CountsOnce /\ CompletedWhole
  BY DEF MigrationInv
<1>2. MigrationTyped' /\ Quiet'
  BY <1>1, TypedNext
<1>3. FilesApart'
  BY <1>1, FilesNext
<1>4. Ahead' /\ PagesAligned'
  BY <1>1, AheadNext
<1>5. CountsOnce'
  BY <1>1, CountsNext
<1>6. CompletedWhole'
  BY <1>1, CompletedNext
<1>. QED  BY <1>2, <1>3, <1>4, <1>5, <1>6 DEF MigrationInv

LEMMA MigrationInvSafe == MigrationInv => MigrationSafe
<1>. SUFFICES ASSUME MigrationInv PROVE MigrationSafe
  OBVIOUS
<1>1. MigrationTypeOK
  BY DEF MigrationInv, MigrationTyped, MigrationTypeOK, Tasks, Batches
<1>2. CheckpointCovered
  BY DEF MigrationInv, Ahead, Streams, Reached, Settled, CheckpointCovered
<1>3. CheckpointReadable
  BY DEF MigrationInv, FilesApart, CheckpointReadable
<1>4. CountWithinTotal
  BY DEF MigrationInv, CountsOnce, CountWithinTotal
<1>. QED  BY <1>1, <1>2, <1>3, <1>4 DEF MigrationInv, MigrationSafe

\* Whatever fails, crashes or is resumed, for every source, batch size and number
\* of workers: the checkpoint of a stream can be read and never runs ahead of what
\* was inserted or counted as failed, a migration that reports Completed left
\* nothing out, and the counters stay within the total, so that the subtraction
\* in update_processed does not underflow (migration/mod.rs, checkpoint.rs).
THEOREM CheckpointsHold == MigrationSpec => []MigrationSafe
<1>1. MigrationSpec => []MigrationInv
  BY MigrationStarts, MigrationKeeps, PTL DEF MigrationSpec
<1>. QED  BY <1>1, MigrationInvSafe, PTL

-----------------------------------------------------------------------------
(* The limiter of requests                                                  *)

Windows == [count : 1..OMax, start : Nat]
Places == [at : {"idle", "running", "answered"}] \cup [at : {"counting", "failing"}, error : BOOLEAN]

GatewayTyped ==
    /\ clock \in Nat /\ clock <= OMaxClock
    /\ clients \in [DOMAIN clients -> Windows]
    /\ \A c \in DOMAIN clients : clients[c].start <= clock
    /\ request \in [ORequests -> Places]
    /\ counts \in [{"times", "requests", "errors"} -> Nat]
    /\ resetting \in 0..3 /\ resets \in Nat /\ (resets = 0 => resetting = 0)
    /\ IsFiniteSet(admitted) /\ \A a \in admitted : a.when \in Nat /\ a.when <= clock
    /\ finished \in SUBSET ORequests

\* Of the requests in S that client c was admitted: those from s on, those of the
\* last window's length before s, and those of the window's length that t begins.
Since(S, c, s) == {a \in S : a.client = c /\ a.when >= s}
Before(S, c, s) == {a \in S : a.client = c /\ a.when < s /\ a.when + OWindow > s}
Burst(S, c, t) == {a \in S : a.client = c /\ a.when \in t..t + OWindow - 1}

\* The window that a client is in counts what was admitted since it began, nothing
\* was admitted behind its end, and in a window's length before it no more than one
\* window admits.
InWindow(S, c, w) ==
    /\ Cardinality(Since(S, c, w.start)) <= w.count
    /\ Cardinality(Before(S, c, w.start)) <= OMax
    /\ \A a \in S : a.client = c => a.when < w.start + OWindow

\* A client that was forgotten was admitted nothing for a window's length.
Forgotten(S, c) == \A a \in S : a.client = c => a.when + OWindow <= clock

WithinLimits ==
    OWindow > 0 =>
        /\ \A c \in DOMAIN clients : InWindow(admitted, c, clients[c])
        /\ \A c \in OClients \ DOMAIN clients : Forgotten(admitted, c)
        /\ \A c \in OClients, t \in Nat : Cardinality(Burst(admitted, c, t)) <= 2 * OMax

\* A request under way has its sample, and a failing one is counted already.
At(at) == {r \in ORequests : request[r].at = at}
Metrics ==
    resets = 0 =>
        /\ counts["requests"] + Cardinality(At("counting")) <= counts["times"]
        /\ counts["errors"] + Cardinality(At("failing")) <= counts["requests"]
        /\ Cardinality(finished) + Cardinality(At("failing")) <= counts["requests"]

GatewayInv == GatewayTyped /\ WithinLimits /\ Metrics

LEMMA Fewer ==
    ASSUME NEW S, IsFiniteSet(S), NEW T, T \subseteq S
    PROVE  IsFiniteSet(T) /\ Cardinality(T) \in Nat /\ Cardinality(S) \in Nat /\ Cardinality(T) <= Cardinality(S)
  BY FS_Subset, FS_CardinalityType

LEMMA OneMore ==
    ASSUME NEW S, IsFiniteSet(S), NEW x, NEW T, T \subseteq S \cup {x}
    PROVE  IsFiniteSet(T) /\ Cardinality(T) \in Nat /\ Cardinality(S) \in Nat /\ Cardinality(T) <= Cardinality(S) + 1
<1>1. IsFiniteSet(S \cup {x}) /\ Cardinality(S \cup {x}) <= Cardinality(S) + 1 /\ Cardinality(S) \in Nat
  BY FS_AddElement, FS_CardinalityType
<1>. QED  BY <1>1, Fewer

LEMMA OneLess ==
    ASSUME NEW S, IsFiniteSet(S), NEW x \in S
    PROVE  Cardinality(S \ {x}) = Cardinality(S) - 1 /\ Cardinality(S) \in Nat /\ IsFiniteSet(S \ {x})
  BY FS_RemoveElement, FS_CardinalityType

LEMMA TwoSets ==
    ASSUME NEW S, IsFiniteSet(S), NEW T, IsFiniteSet(T), NEW U, U \subseteq S \cup T
    PROVE  Cardinality(U) \in Nat /\ Cardinality(U) <= Cardinality(S) + Cardinality(T)
<1>1. IsFiniteSet(S \cup T) /\ Cardinality(S \cup T) = Cardinality(S) + Cardinality(T) - Cardinality(S \cap T)
  BY FS_Union
<1>2. Cardinality(S) \in Nat /\ Cardinality(T) \in Nat /\ Cardinality(S \cap T) \in Nat
  BY FS_CardinalityType, FS_Subset
<1>3. Cardinality(U) \in Nat /\ Cardinality(U) <= Cardinality(S \cup T)
  BY <1>1, Fewer
<1>. QED  BY <1>1, <1>2, <1>3

LEMMA PlacesMove ==
    ASSUME GatewayTyped, NEW r \in ORequests, NEW p \in Places, request' = [request EXCEPT ![r] = p]
    PROVE  /\ request' \in [ORequests -> Places]
           /\ At("counting")' = IF p.at = "counting" THEN At("counting") \cup {r} ELSE At("counting") \ {r}
           /\ At("failing")' = IF p.at = "failing" THEN At("failing") \cup {r} ELSE At("failing") \ {r}
<1>1. request' \in [ORequests -> Places] /\ request'[r] = p /\ \A q \in ORequests \ {r} : request'[q] = request[q]
  BY DEF GatewayTyped
<1>. QED  BY <1>1 DEF At

LEMMA AtFinite == \A x : IsFiniteSet(At(x)) /\ Cardinality(At(x)) \in Nat
  BY GatewayAssumption, FS_Subset, FS_CardinalityType DEF At

LEMMA GatewayStart == GatewayInit => GatewayInv
<1>. SUFFICES ASSUME GatewayInit PROVE GatewayInv
  OBVIOUS
<1>1. GatewayTyped
  <2>1. request \in [ORequests -> Places] /\ counts \in [{"times", "requests", "errors"} -> Nat]
    BY DEF GatewayInit, Places
  <2>2. clients \in [DOMAIN clients -> Windows] /\ DOMAIN clients = {}
    BY DEF GatewayInit
  <2>3. clock = 0 /\ resetting = 0 /\ resets = 0 /\ admitted = {} /\ finished = {} /\ IsFiniteSet(admitted)
    BY FS_EmptySet DEF GatewayInit
  <2>. QED  BY <2>1, <2>2, <2>3, GatewayAssumption DEF GatewayTyped
<1>2. WithinLimits
  <2>1. DOMAIN clients = {} /\ admitted = {}
    BY DEF GatewayInit
  <2>2. \A c, t : Burst(admitted, c, t) = {}
    BY <2>1 DEF Burst
  <2>3. Cardinality({}) <= 2 * OMax
    BY FS_EmptySet, GatewayAssumption
  <2>. QED  BY <2>1, <2>2, <2>3 DEF WithinLimits, Forgotten
<1>3. Metrics
  <2>1. At("counting") = {} /\ At("failing") = {} /\ finished = {}
    BY DEF GatewayInit, At
  <2>2. counts["requests"] = 0 /\ counts["times"] = 0 /\ counts["errors"] = 0
    BY DEF GatewayInit
  <2>. QED  BY <2>1, <2>2, FS_EmptySet DEF Metrics
<1>. QED  BY <1>1, <1>2, <1>3 DEF GatewayInv

\* What a client is admitted begins its next window or counts in the one it is in;
\* in neither does a window's length hold more than two windows admit.
LEMMA Admission ==
    ASSUME GatewayTyped, WithinLimits, OWindow > 0, NEW c \in OClients, is_allowed(c),
           NEW a, a.client = c, a.when = clock, NEW w \in Windows, w = Counted(c)[c]
    PROVE  /\ InWindow(admitted \cup {a}, c, w) /\ w.start <= clock
           /\ \A t \in Nat : Cardinality(Burst(admitted \cup {a}, c, t)) <= 2 * OMax
<1>. DEFINE S == admitted \cup {a}
<1>1. clock \in Nat /\ OWindow \in Nat /\ OMax \in Nat \ {0} /\ w.start \in Nat /\ w.count \in 1..OMax
      /\ \A b \in admitted : b.when \in Nat /\ b.when <= clock
  BY GatewayAssumption DEF GatewayTyped, Windows
<1>2. IsFiniteSet(admitted) /\ IsFiniteSet(S)
  BY FS_AddElement DEF GatewayTyped
<1>3. InWindow(S, c, w) /\ w.start <= clock
  <2>1. CASE c \in DOMAIN clients /\ ~Expired(c)
    <3>. DEFINE v == clients[c]
    <3>1. InWindow(admitted, c, v) /\ v \in Windows /\ v.count < OMax /\ v.start <= clock
      BY <2>1 DEF WithinLimits, is_allowed, GatewayTyped
    <3>2. w = [v EXCEPT !.count = v.count + 1]
      BY <2>1 DEF Counted, Put
    <3>3. w.start = v.start /\ w.count = v.count + 1 /\ v.start \in Nat /\ v.count \in Nat
      BY <3>1, <3>2 DEF Windows
    <3>4. clock < v.start + OWindow
      BY <1>1, <2>1, <3>3 DEF Expired
    <3>. HIDE DEF v
    <3>5. Since(S, c, w.start) \subseteq Since(admitted, c, v.start) \cup {a}
      BY <3>3 DEF Since
    <3>6. Cardinality(Since(S, c, w.start)) <= w.count
      <4>1. Since(admitted, c, v.start) \subseteq admitted
        BY DEF Since
      <4>2. IsFiniteSet(Since(admitted, c, v.start))
        BY <1>2, <4>1, Fewer
      <4>3. /\ Cardinality(Since(S, c, w.start)) \in Nat /\ Cardinality(Since(admitted, c, v.start)) \in Nat
            /\ Cardinality(Since(S, c, w.start)) <= Cardinality(Since(admitted, c, v.start)) + 1
        BY <3>5, <4>2, OneMore
      <4>4. Cardinality(Since(admitted, c, v.start)) <= v.count
        BY <3>1 DEF InWindow
      <4>. QED  BY <3>3, <4>3, <4>4
    <3>7. Before(S, c, w.start) = Before(admitted, c, v.start)
      BY <1>1, <3>1, <3>3 DEF Before
    <3>8. \A b \in S : b.client = c => b.when < w.start + OWindow
      BY <3>1, <3>3, <3>4 DEF InWindow
    <3>. QED  BY <3>1, <3>3, <3>6, <3>7, <3>8 DEF InWindow
  <2>2. CASE ~(c \in DOMAIN clients /\ ~Expired(c))
    <3>1. w = [count |-> 1, start |-> clock]
      BY <2>2 DEF Counted, Put
    <3>2. \A b \in admitted : b.client = c => b.when < clock
      <4>1. CASE c \in DOMAIN clients
        <5>1. clock >= clients[c].start + OWindow /\ clients[c].start \in Nat
          BY <1>1, <2>2, <4>1 DEF Expired, GatewayTyped, Windows
        <5>2. \A b \in admitted : b.client = c => b.when < clients[c].start + OWindow
          BY <4>1 DEF WithinLimits, InWindow
        <5>. QED  BY <1>1, <5>1, <5>2
      <4>2. CASE c \notin DOMAIN clients
        BY <1>1, <4>2 DEF WithinLimits, Forgotten
      <4>. QED  BY <4>1, <4>2
    <3>3. Since(S, c, clock) \subseteq {a}
      BY <1>1, <3>2 DEF Since
    <3>4. Cardinality(Since(S, c, clock)) <= 1
      <4>1. IsFiniteSet({a}) /\ Cardinality({a}) = 1
        BY FS_Singleton
      <4>2. Cardinality(Since(S, c, clock)) <= Cardinality({a})
        BY <3>3, <4>1, Fewer
      <4>. QED  BY <4>1, <4>2
    <3>5. Cardinality(Before(S, c, clock)) <= OMax
      <4>1. CASE c \in DOMAIN clients
        <5>. DEFINE v == clients[c]
        <5>1. clock >= v.start + OWindow /\ v.start \in Nat /\ v.count \in 1..OMax
          BY <1>1, <2>2, <4>1 DEF Expired, GatewayTyped, Windows
        <5>2. Cardinality(Since(admitted, c, v.start)) <= v.count
          BY <4>1 DEF WithinLimits, InWindow
        <5>. HIDE DEF v
        <5>3. Before(S, c, clock) \subseteq Since(admitted, c, v.start) /\ Since(admitted, c, v.start) \subseteq admitted
          BY <1>1, <5>1 DEF Before, Since
        <5>4. /\ Cardinality(Before(S, c, clock)) \in Nat /\ Cardinality(Since(admitted, c, v.start)) \in Nat
              /\ Cardinality(Before(S, c, clock)) <= Cardinality(Since(admitted, c, v.start))
          BY <1>2, <5>3, Fewer
        <5>. QED  BY <1>1, <5>1, <5>2, <5>4
      <4>2. CASE c \notin DOMAIN clients
        <5>1. Before(S, c, clock) = {}
          BY <1>1, <4>2 DEF Before, WithinLimits, Forgotten
        <5>2. Cardinality({}) = 0 /\ 0 <= OMax
          BY <1>1, FS_EmptySet
        <5>. QED  BY <5>1, <5>2
      <4>. QED  BY <4>1, <4>2
    <3>6. \A b \in S : b.client = c => b.when < clock + OWindow
      BY <1>1
    <3>. QED  BY <1>1, <3>1, <3>4, <3>5, <3>6 DEF InWindow
  <2>. QED  BY <2>1, <2>2
<1>4. ASSUME NEW t \in Nat PROVE Cardinality(Burst(S, c, t)) <= 2 * OMax
  <2>1. CASE clock \in t..t + OWindow - 1
    <3>1. Burst(S, c, t) \subseteq Since(S, c, w.start) \cup Before(S, c, w.start)
      <4>. SUFFICES ASSUME NEW b \in S, b.client = c, b.when \in t..t + OWindow - 1,
                           b.when < w.start
                    PROVE  b.when + OWindow > w.start
        BY <1>1 DEF Burst, Since, Before
      <4>. QED  BY <1>1, <1>3, <2>1
    <3>2. Since(S, c, w.start) \subseteq S /\ Before(S, c, w.start) \subseteq S
      BY DEF Since, Before
    <3>3. /\ IsFiniteSet(Since(S, c, w.start)) /\ Cardinality(Since(S, c, w.start)) \in Nat
          /\ IsFiniteSet(Before(S, c, w.start)) /\ Cardinality(Before(S, c, w.start)) \in Nat
      BY <1>2, <3>2, Fewer
    <3>4. /\ Cardinality(Burst(S, c, t)) \in Nat
          /\ Cardinality(Burst(S, c, t)) <= Cardinality(Since(S, c, w.start)) + Cardinality(Before(S, c, w.start))
      BY <3>1, <3>3, TwoSets
    <3>5. Cardinality(Since(S, c, w.start)) <= w.count /\ Cardinality(Before(S, c, w.start)) <= OMax
      BY <1>3 DEF InWindow
    <3>. QED  BY <1>1, <3>3, <3>4, <3>5
  <2>2. CASE clock \notin t..t + OWindow - 1
    <3>1. Burst(S, c, t) = Burst(admitted, c, t)
      BY <2>2 DEF Burst
    <3>. QED  BY <3>1 DEF WithinLimits
  <2>. QED  BY <2>1, <2>2
<1>. QED  BY <1>3, <1>4

LEMMA GatewayEnter ==
    ASSUME GatewayInv, NEW r \in ORequests, NEW h \in OHeaders,
           NEW length \in {"unknown", "within", "beyond"}, Enter(r, h[1], h[2], length)
    PROVE  GatewayInv'
<1>1. GatewayTyped /\ WithinLimits /\ Metrics
  BY DEF GatewayInv
<1>2. PICK c \in OClients : c = extract_client_ip(h[1], h[2])
  BY DEF OClients
<1>3. PICK p \in Places : request' = [request EXCEPT ![r] = p] /\ p.at \in {"running", "answered"}
  <2>1. [at |-> "running"] \in Places /\ [at |-> "answered"] \in Places
    BY DEF Places
  <2>. QED  BY <2>1 DEF Enter
<1>4. request[r].at = "idle" /\ UNCHANGED <<clock, counts, resetting, resets, finished>>
  BY DEF Enter, metricVars
<1>5. Metrics' /\ request' \in [ORequests -> Places]
  <2>1. At("counting")' = At("counting") /\ At("failing")' = At("failing") /\ request' \in [ORequests -> Places]
    BY <1>1, <1>3, <1>4 DEF At, GatewayTyped
  <2>. QED  BY <1>1, <1>4, <2>1 DEF Metrics
<1>6. CASE ~is_allowed(c)
  <2>1. clients' = clients /\ admitted' = admitted
    BY <1>2, <1>6 DEF Enter
  <2>2. GatewayTyped' /\ WithinLimits'
    BY <1>1, <1>4, <1>5, <2>1 DEF GatewayTyped, WithinLimits, InWindow, Forgotten
  <2>. QED  BY <1>5, <2>2 DEF GatewayInv
<1>7. CASE is_allowed(c)
  <2>. DEFINE a == [req |-> r, client |-> c, when |-> clock]
  <2>1. clients' = Counted(c) /\ admitted' = admitted \cup {a} /\ a.client = c /\ a.when = clock
    BY <1>2, <1>7 DEF Enter
  <2>. HIDE DEF a
  <2>2. PICK w \in Windows : w = Counted(c)[c] /\ w.start <= clock
    <3>1. CASE c \in DOMAIN clients /\ ~Expired(c)
      <4>1. clients[c] \in Windows /\ clients[c].count < OMax /\ clients[c].start <= clock
        BY <1>1, <1>7, <3>1 DEF is_allowed, GatewayTyped
      <4>2. Counted(c)[c] = [clients[c] EXCEPT !.count = clients[c].count + 1]
        BY <3>1 DEF Counted, Put
      <4>. QED  BY <4>1, <4>2, GatewayAssumption DEF Windows
    <3>2. CASE ~(c \in DOMAIN clients /\ ~Expired(c))
      <4>1. Counted(c)[c] = [count |-> 1, start |-> clock]
        BY <3>2 DEF Counted, Put
      <4>. QED  BY <1>1, <4>1, GatewayAssumption DEF Windows, GatewayTyped
    <3>. QED  BY <3>1, <3>2
  <2>3. clients' = [x \in DOMAIN clients \cup {c} |-> IF x = c THEN w ELSE clients[x]]
    BY <2>1, <2>2 DEF Counted, Put
  <2>4. GatewayTyped'
    <3>1. clients' \in [DOMAIN clients' -> Windows] /\ \A d \in DOMAIN clients' : clients'[d].start <= clock
      BY <1>1, <2>2, <2>3 DEF GatewayTyped
    <3>2. IsFiniteSet(admitted') /\ \A b \in admitted' : b.when \in Nat /\ b.when <= clock
      BY <1>1, <2>1, FS_AddElement DEF GatewayTyped
    <3>. QED  BY <1>1, <1>4, <1>5, <3>1, <3>2 DEF GatewayTyped
  <2>5. WithinLimits'
    <3>. SUFFICES ASSUME OWindow > 0
                  PROVE  /\ \A d \in DOMAIN clients' : InWindow(admitted', d, clients'[d])
                         /\ \A d \in OClients \ DOMAIN clients' : Forgotten(admitted, d) /\ d # c
                         /\ \A d \in OClients, t \in Nat : Cardinality(Burst(admitted', d, t)) <= 2 * OMax
      BY <1>4, <2>1 DEF WithinLimits, Forgotten
    <3>1. /\ InWindow(admitted', c, w)
          /\ \A t \in Nat : Cardinality(Burst(admitted', c, t)) <= 2 * OMax
      BY <1>1, <1>7, <2>1, <2>2, Admission
    <3>2. \A d, s : d # c => /\ Since(admitted', d, s) = Since(admitted, d, s)
                             /\ Before(admitted', d, s) = Before(admitted, d, s)
                             /\ Burst(admitted', d, s) = Burst(admitted, d, s)
      BY <2>1 DEF Since, Before, Burst
    <3>3. \A d \in DOMAIN clients : d # c => InWindow(admitted', d, clients[d])
      BY <1>1, <2>1, <3>2 DEF WithinLimits, InWindow
    <3>4. \A d \in OClients \ DOMAIN clients' : Forgotten(admitted, d) /\ d # c
      BY <1>1, <2>3 DEF WithinLimits
    <3>5. \A d \in OClients, t \in Nat : Cardinality(Burst(admitted', d, t)) <= 2 * OMax
      BY <1>1, <3>1, <3>2 DEF WithinLimits
    <3>. QED  BY <2>3, <3>1, <3>3, <3>4, <3>5
  <2>. QED  BY <1>5, <2>4, <2>5 DEF GatewayInv
<1>. QED  BY <1>6, <1>7

\* A request moves on from one counter of the monitor to the next.
LEMMA GatewayRecord ==
    ASSUME GatewayInv, NEW r \in ORequests,
           (\E e \in BOOLEAN : RecordTime(r, e)) \/ RecordCount(r) \/ RecordError(r) \/ timeout_middleware(r)
    PROVE  GatewayInv'
<1>1. GatewayTyped /\ WithinLimits /\ Metrics
  BY DEF GatewayInv
<1>2. UNCHANGED <<clock, clients, admitted, resetting, resets>>
  BY DEF RecordTime, RecordCount, RecordError, timeout_middleware, metricVars
<1>3. WithinLimits'
  BY <1>1, <1>2 DEF WithinLimits, InWindow, Forgotten
<1>4. /\ [at |-> "answered"] \in Places
      /\ \A e \in BOOLEAN : [at |-> "counting", error |-> e] \in Places /\ [at |-> "failing", error |-> e] \in Places
  BY DEF Places
<1>5. request[r] \in Places /\ counts \in [{"times", "requests", "errors"} -> Nat]
  BY <1>1 DEF GatewayTyped
<1>6. /\ counts["times"] \in Nat /\ counts["requests"] \in Nat /\ counts["errors"] \in Nat
      /\ \A x : IsFiniteSet(At(x)) /\ Cardinality(At(x)) \in Nat
  BY <1>5, AtFinite
<1>7. ASSUME NEW e \in BOOLEAN, RecordTime(r, e) PROVE GatewayInv'
  <2>1. /\ request[r].at = "running" /\ finished' = finished
        /\ counts' = [counts EXCEPT !["times"] = counts["times"] + 1]
        /\ request' = [request EXCEPT ![r] = [at |-> "counting", error |-> e]]
    BY <1>7 DEF RecordTime
  <2>2. /\ request' \in [ORequests -> Places]
        /\ At("counting")' = At("counting") \cup {r} /\ At("failing")' = At("failing") \ {r}
    BY <1>1, <1>4, <2>1, PlacesMove
  <2>3. At("failing")' = At("failing")
    BY <2>1, <2>2 DEF At
  <2>4. Cardinality(At("counting")') <= Cardinality(At("counting")) + 1 /\ Cardinality(At("counting")') \in Nat
    BY <1>6, <2>2, OneMore
  <2>5. counts'["times"] = counts["times"] + 1 /\ counts'["requests"] = counts["requests"]
        /\ counts'["errors"] = counts["errors"] /\ counts' \in [{"times", "requests", "errors"} -> Nat]
    BY <1>5, <2>1
  <2>6. GatewayTyped'
    BY <1>1, <1>2, <2>1, <2>2, <2>5 DEF GatewayTyped
  <2>7. Metrics'
    BY <1>1, <1>2, <1>6, <2>1, <2>3, <2>4, <2>5 DEF Metrics
  <2>. QED  BY <1>3, <2>6, <2>7 DEF GatewayInv
<1>8. CASE RecordCount(r)
  <2>1. /\ request[r].at = "counting" /\ counts' = [counts EXCEPT !["requests"] = counts["requests"] + 1]
        /\ request' = [request EXCEPT ![r] = AfterCount(r)]
        /\ finished' = IF request[r].error THEN finished ELSE finished \cup {r}
    BY <1>8 DEF RecordCount
  <2>2. request[r] \in [at : {"counting", "failing"}, error : BOOLEAN] /\ request[r].error \in BOOLEAN
    BY <1>5, <2>1 DEF Places
  <2>3. counts'["times"] = counts["times"] /\ counts'["requests"] = counts["requests"] + 1
        /\ counts'["errors"] = counts["errors"] /\ counts' \in [{"times", "requests", "errors"} -> Nat]
    BY <1>5, <2>1
  <2>4. r \in At("counting")
    BY <2>1 DEF At
  <2>5. Cardinality(At("counting") \ {r}) = Cardinality(At("counting")) - 1
    BY <1>6, <2>4, OneLess
  <2>6. CASE request[r].error
    <3>1. AfterCount(r) \in Places /\ AfterCount(r).at = "failing"
      BY <2>2, <2>6 DEF AfterCount, Places
    <3>2. /\ request' \in [ORequests -> Places]
          /\ At("counting")' = At("counting") \ {r} /\ At("failing")' = At("failing") \cup {r}
      BY <1>1, <2>1, <3>1, PlacesMove
    <3>3. Cardinality(At("failing")') <= Cardinality(At("failing")) + 1 /\ Cardinality(At("failing")') \in Nat
      BY <1>6, <3>2, OneMore
    <3>4. GatewayTyped'
      BY <1>1, <1>2, <2>1, <2>3, <2>6, <3>2 DEF GatewayTyped
    <3>5. IsFiniteSet(finished) /\ Cardinality(finished) \in Nat
      BY <1>1, GatewayAssumption, Fewer DEF GatewayTyped
    <3>6. Metrics'
      <4>1. Cardinality(At("counting")') = Cardinality(At("counting")) - 1
        BY <2>5, <3>2
      <4>2. finished' = finished
        BY <2>1, <2>6
      <4>. QED  BY <1>1, <1>2, <1>6, <2>3, <3>3, <3>5, <4>1, <4>2 DEF Metrics
    <3>. QED  BY <1>3, <3>4, <3>6 DEF GatewayInv
  <2>7. CASE ~request[r].error
    <3>1. AfterCount(r) = [at |-> "answered"]
      BY <2>7 DEF AfterCount
    <3>2. /\ request' \in [ORequests -> Places]
          /\ At("counting")' = At("counting") \ {r} /\ At("failing")' = At("failing") \ {r}
      BY <1>1, <1>4, <2>1, <3>1, PlacesMove
    <3>3. At("failing")' = At("failing")
      BY <2>1, <3>2 DEF At
    <3>4. IsFiniteSet(finished) /\ finished' = finished \cup {r} /\ finished' \in SUBSET ORequests
      BY <1>1, <2>1, <2>7, GatewayAssumption, Fewer DEF GatewayTyped
    <3>5. Cardinality(finished') <= Cardinality(finished) + 1 /\ Cardinality(finished') \in Nat /\ Cardinality(finished) \in Nat
      BY <3>4, OneMore
    <3>6. GatewayTyped'
      BY <1>1, <1>2, <2>3, <3>2, <3>4 DEF GatewayTyped
    <3>7. Metrics'
      <4>1. Cardinality(At("counting")') = Cardinality(At("counting")) - 1
        BY <2>5, <3>2
      <4>. QED  BY <1>1, <1>2, <1>6, <2>3, <3>3, <3>5, <4>1 DEF Metrics
    <3>. QED  BY <1>3, <3>6, <3>7 DEF GatewayInv
  <2>. QED  BY <2>6, <2>7
<1>9. CASE RecordError(r)
  <2>1. /\ request[r].at = "failing" /\ counts' = [counts EXCEPT !["errors"] = counts["errors"] + 1]
        /\ request' = [request EXCEPT ![r] = [at |-> "answered"]] /\ finished' = finished \cup {r}
    BY <1>9 DEF RecordError
  <2>2. /\ request' \in [ORequests -> Places]
        /\ At("counting")' = At("counting") \ {r} /\ At("failing")' = At("failing") \ {r}
    BY <1>1, <1>4, <2>1, PlacesMove
  <2>3. At("counting")' = At("counting") /\ r \in At("failing")
    BY <2>1, <2>2 DEF At
  <2>4. Cardinality(At("failing")') = Cardinality(At("failing")) - 1
    BY <1>6, <2>2, <2>3, OneLess
  <2>5. counts'["times"] = counts["times"] /\ counts'["requests"] = counts["requests"]
        /\ counts'["errors"] = counts["errors"] + 1 /\ counts' \in [{"times", "requests", "errors"} -> Nat]
    BY <1>5, <2>1
  <2>6. IsFiniteSet(finished) /\ finished' \in SUBSET ORequests
    BY <1>1, <2>1, GatewayAssumption, Fewer DEF GatewayTyped
  <2>7. Cardinality(finished') <= Cardinality(finished) + 1 /\ Cardinality(finished') \in Nat /\ Cardinality(finished) \in Nat
    BY <2>1, <2>6, OneMore
  <2>8. GatewayTyped'
    BY <1>1, <1>2, <2>2, <2>5, <2>6 DEF GatewayTyped
  <2>9. Metrics'
    BY <1>1, <1>2, <1>6, <2>3, <2>4, <2>5, <2>7 DEF Metrics
  <2>. QED  BY <1>3, <2>8, <2>9 DEF GatewayInv
<1>10. CASE timeout_middleware(r)
  <2>1. request' = [request EXCEPT ![r] = [at |-> "answered"]] /\ UNCHANGED <<counts, finished>>
    BY <1>10 DEF timeout_middleware, metricVars
  <2>2. /\ request' \in [ORequests -> Places]
        /\ At("counting")' = At("counting") \ {r} /\ At("failing")' = At("failing") \ {r}
    BY <1>1, <1>4, <2>1, PlacesMove
  <2>3. /\ Cardinality(At("counting")') <= Cardinality(At("counting")) /\ Cardinality(At("counting")') \in Nat
        /\ Cardinality(At("failing")') <= Cardinality(At("failing")) /\ Cardinality(At("failing")') \in Nat
    <3>1. At("counting")' \subseteq At("counting") /\ At("failing")' \subseteq At("failing")
      BY <2>2
    <3>. QED  BY <1>6, <3>1, Fewer
  <2>4. IsFiniteSet(finished) /\ Cardinality(finished) \in Nat
    BY <1>1, GatewayAssumption, Fewer DEF GatewayTyped
  <2>5. GatewayTyped'
    BY <1>1, <1>2, <2>1, <2>2 DEF GatewayTyped
  <2>6. Metrics'
    BY <1>1, <1>2, <1>6, <2>1, <2>3, <2>4 DEF Metrics
  <2>. QED  BY <1>3, <2>5, <2>6 DEF GatewayInv
<1>. QED  BY <1>7, <1>8, <1>9, <1>10

LEMMA GatewayKeeps == GatewayInv /\ [GatewayNext]_GatewayVars => GatewayInv'
<1>. SUFFICES ASSUME GatewayInv, [GatewayNext]_GatewayVars PROVE GatewayInv'
  OBVIOUS
<1>1. GatewayTyped /\ WithinLimits /\ Metrics
  BY DEF GatewayInv
<1>2. CASE UNCHANGED GatewayVars
  BY <1>1, <1>2 DEF GatewayVars, GatewayInv, GatewayTyped, WithinLimits, InWindow, Forgotten, Metrics, At
<1>3. CASE cleanup_expired
  <2>1. /\ clients' = [c \in {d \in DOMAIN clients : ~Stale(d)} |-> clients[c]]
        /\ UNCHANGED <<clock, request, admitted, finished, counts, resetting, resets>>
    BY <1>3 DEF cleanup_expired, metricVars
  <2>2. GatewayTyped' /\ Metrics'
    BY <1>1, <2>1 DEF GatewayTyped, Metrics, At
  <2>3. ASSUME OWindow > 0, NEW c \in DOMAIN clients, Stale(c) PROVE Forgotten(admitted, c)
    <3>1. clock \in Nat /\ OWindow \in Nat /\ clients[c].start \in Nat /\ \A a \in admitted : a.when \in Nat
      BY <1>1, GatewayAssumption DEF GatewayTyped, Windows
    <3>2. \A a \in admitted : a.client = c => a.when < clients[c].start + OWindow
      BY <1>1, <2>3 DEF WithinLimits, InWindow
    <3>3. clock - clients[c].start >= OWindow + OWindow
      BY <2>3, <3>1 DEF Stale
    <3>. QED  BY <3>1, <3>2, <3>3 DEF Forgotten
  <2>4. WithinLimits'
    BY <1>1, <2>1, <2>3 DEF WithinLimits, InWindow, Forgotten
  <2>. QED  BY <2>2, <2>4 DEF GatewayInv
<1>4. CASE reset \/ ResetCounter
  <2>1. UNCHANGED <<clock, clients, request, admitted, finished>> /\ resets' # 0
    BY <1>1, <1>4 DEF reset, ResetCounter, requestVars, GatewayTyped
  <2>2. counts' \in [{"times", "requests", "errors"} -> Nat] /\ resetting' \in 0..3 /\ resets' \in Nat
    BY <1>1, <1>4 DEF reset, ResetCounter, GatewayTyped, Counters
  <2>3. GatewayTyped' /\ Metrics' /\ WithinLimits'
    BY <1>1, <2>1, <2>2 DEF GatewayTyped, Metrics, WithinLimits, InWindow, Forgotten
  <2>. QED  BY <2>3 DEF GatewayInv
<1>5. CASE GatewayTick
  <2>1. clock' = clock + 1 /\ clock < OMaxClock
        /\ UNCHANGED <<clients, request, admitted, finished, counts, resetting, resets>>
    BY <1>5 DEF GatewayTick, requestVars, metricVars
  <2>2. GatewayTyped' /\ Metrics'
    BY <1>1, <2>1, GatewayAssumption DEF GatewayTyped, Windows, Metrics, At
  <2>3. \A c : Forgotten(admitted, c) => Forgotten(admitted, c)'
    BY <1>1, <2>1, GatewayAssumption DEF GatewayTyped, Forgotten
  <2>4. WithinLimits'
    BY <1>1, <2>1, <2>3 DEF WithinLimits, InWindow
  <2>. QED  BY <2>2, <2>4 DEF GatewayInv
<1>. QED  BY <1>2, <1>3, <1>4, <1>5, GatewayEnter, GatewayRecord DEF GatewayNext

LEMMA GatewayHolds ==
    GatewayInv => GatewayTypeOK /\ BurstBounded /\ RecordedInOrder /\ RemainingTruthful
<1>. SUFFICES ASSUME GatewayInv PROVE GatewayTypeOK /\ BurstBounded /\ RecordedInOrder /\ RemainingTruthful
  OBVIOUS
<1>1. GatewayTyped /\ WithinLimits /\ Metrics
  BY DEF GatewayInv
<1>2. GatewayTypeOK
  <2>1. Len(Counters) = 3
    BY DEF Counters
  <2>. QED  BY <1>1, <2>1, GatewayAssumption DEF GatewayTyped, Windows, Places, GatewayTypeOK
<1>3. BurstBounded
  <2>. SUFFICES ASSUME NEW c \in OClients, NEW t \in 0..OMaxClock
                PROVE  Cardinality(Burst(admitted, c, t)) <= 2 * OMax
    BY DEF BurstBounded, Burst
  <2>1. CASE OWindow > 0
    BY <1>1, <2>1 DEF WithinLimits
  <2>2. CASE OWindow = 0
    <3>1. Burst(admitted, c, t) = {}
      BY <2>2 DEF Burst
    <3>2. Cardinality({}) = 0 /\ 0 <= 2 * OMax
      BY GatewayAssumption, FS_EmptySet
    <3>. QED  BY <3>1, <3>2
  <2>. QED  BY <2>1, <2>2, GatewayAssumption
<1>4. RecordedInOrder
  <2>1. counts["times"] \in Nat /\ counts["requests"] \in Nat /\ counts["errors"] \in Nat
    BY <1>1 DEF GatewayTyped
  <2>2. Cardinality(finished) \in Nat
    BY <1>1, GatewayAssumption, Fewer DEF GatewayTyped
  <2>3. Cardinality(At("counting")) \in Nat /\ Cardinality(At("failing")) \in Nat
    BY AtFinite
  <2>. QED  BY <1>1, <2>1, <2>2, <2>3 DEF Metrics, RecordedInOrder
<1>5. RemainingTruthful
  <2>. SUFFICES ASSUME NEW c \in OClients PROVE (remaining_requests(c) > 0) <=> is_allowed(c)
    BY DEF RemainingTruthful
  <2>1. c \in DOMAIN clients => clients[c].count \in 1..OMax
    BY <1>1 DEF GatewayTyped, Windows
  <2>2. CASE c \notin DOMAIN clients \/ Expired(c)
    BY <2>2, GatewayAssumption DEF remaining_requests, is_allowed
  <2>3. CASE c \in DOMAIN clients /\ ~Expired(c)
    BY <2>1, <2>3, GatewayAssumption DEF remaining_requests, is_allowed
  <2>. QED  BY <2>2, <2>3
<1>. QED  BY <1>2, <1>3, <1>4, <1>5

-----------------------------------------------------------------------------
(* The keys and the cache of query results                                  *)

\* A key that was revoked and not added again is in the store and inactive.
KeysRight ==
    /\ time \in Nat /\ time <= AMaxClock
    /\ keys \in [DOMAIN keys -> [name : ANames, role : ARoles, active : BOOLEAN, expires : Nat]]
    /\ \A k \in revoked : k \in DOMAIN keys /\ ~keys[k].active
    /\ RevokedStaysOut

\* The cache is within its size, and an entry of it is the last write of its query.
CacheRight ==
    /\ writes \in Nat
    /\ query_cache \in [DOMAIN query_cache -> [value : Nat, expires : Nat]]
    /\ DOMAIN query_cache \subseteq AQueries
    /\ IsFiniteSet(DOMAIN query_cache) /\ Cardinality(DOMAIN query_cache) <= ACacheSize
    /\ \A q \in DOMAIN query_cache : /\ q \in DOMAIN written
                                     /\ query_cache[q].value = written[q].value
                                     /\ query_cache[q].expires = written[q].until

AccessInv == KeysRight /\ CacheRight

LEMMA AccessStart == AccessInit => AccessInv
<1>. SUFFICES ASSUME AccessInit PROVE AccessInv
  OBVIOUS
<1>1. /\ time = 0 /\ writes = 0 /\ revoked = {} /\ opened = NoRequest
      /\ keys = << >> /\ query_cache = << >> /\ DOMAIN << >> = {}
  BY DEF AccessInit
<1>2. KeysRight
  BY <1>1, AccessAssumption DEF KeysRight, RevokedStaysOut, NoRequest
<1>3. CacheRight
  BY <1>1, FS_EmptySet, AccessAssumption DEF CacheRight
<1>. QED  BY <1>2, <1>3 DEF AccessInv

\* A reader may not change anything.
LEMMA ReaderReads ==
    get_permissions_for_role("reader") \cap
        {"CreateCollection", "DeleteCollection", "InsertVectors", "DeleteVectors",
         "CreateIndex", "DeleteIndex"} = {}
  BY DEF get_permissions_for_role, has_permission, reader_permissions

LEMMA AccessKeysStep ==
    ASSUME AccessInv,
           \/ \E k \in AKeys, n \in ANames, role \in ARoles, life \in {0, 1} : add_key(k, n, role, life)
           \/ \E n \in ANames : revoke(n)
           \/ \E public \in BOOLEAN, h \in AKeys \cup {"none"}, b \in AKeys \cup {"none"} :
                Request(public, h, b)
    PROVE  AccessInv'
<1>1. KeysRight /\ CacheRight
  BY DEF AccessInv
<1>2. UNCHANGED <<time, query_cache, written, writes>>
  BY DEF add_key, revoke, Request, cacheVars
<1>3. CacheRight'
  BY <1>1, <1>2 DEF CacheRight
<1>4. time \in Nat /\ time <= AMaxClock /\ RevokedStaysOut
      /\ keys \in [DOMAIN keys -> [name : ANames, role : ARoles, active : BOOLEAN, expires : Nat]]
      /\ \A k \in revoked : k \in DOMAIN keys /\ ~keys[k].active
  BY <1>1 DEF KeysRight
<1>5. ASSUME NEW k \in AKeys, NEW n \in ANames, NEW role \in ARoles, NEW life \in {0, 1},
             add_key(k, n, role, life)
      PROVE  KeysRight'
  <2>. DEFINE e == IF life = 0 THEN AMaxClock ELSE time + life
              v == [name |-> n, role |-> role, active |-> TRUE, expires |-> e]
  <2>1. keys' = Put(keys, k, v) /\ revoked' = revoked \ {k} /\ opened' = opened
    BY <1>5 DEF add_key
  <2>2. e \in Nat
    BY <1>4, AccessAssumption
  <2>. HIDE DEF e
  <2>3. v \in [name : ANames, role : ARoles, active : BOOLEAN, expires : Nat]
    BY <2>2
  <2>. HIDE DEF v
  <2>4. keys' \in [DOMAIN keys' -> [name : ANames, role : ARoles, active : BOOLEAN, expires : Nat]]
    BY <1>4, <2>1, <2>3 DEF Put
  <2>5. \A x \in revoked' : x \in DOMAIN keys' /\ ~keys'[x].active
    BY <1>4, <2>1 DEF Put
  <2>. QED  BY <1>2, <1>4, <2>1, <2>4, <2>5 DEF KeysRight, RevokedStaysOut
<1>6. ASSUME NEW n \in ANames, revoke(n) PROVE KeysRight'
  <2>1. PICK k \in DOMAIN keys : keys' = [keys EXCEPT ![k].active = FALSE] /\ revoked' = revoked \cup {k}
    BY <1>6 DEF revoke
  <2>2. opened' = opened
    BY <1>6 DEF revoke
  <2>3. DOMAIN keys' = DOMAIN keys /\ \A x \in DOMAIN keys : keys'[x] =
            IF x = k THEN [keys[k] EXCEPT !.active = FALSE] ELSE keys[x]
    BY <1>4, <2>1
  <2>4. \A x \in DOMAIN keys : keys'[x] \in [name : ANames, role : ARoles, active : BOOLEAN, expires : Nat]
    BY <1>4, <2>3
  <2>5. keys' = [x \in DOMAIN keys' |-> keys'[x]]
    BY <1>4, <2>1
  <2>6. ~keys'[k].active
    BY <1>4, <2>3
  <2>7. \A x \in revoked' : x \in DOMAIN keys' /\ ~keys'[x].active
    BY <1>4, <2>1, <2>3, <2>6
  <2>. QED  BY <1>2, <1>4, <2>2, <2>3, <2>4, <2>5, <2>7 DEF KeysRight, RevokedStaysOut
<1>7. ASSUME NEW public \in BOOLEAN, NEW h \in AKeys \cup {"none"}, NEW b \in AKeys \cup {"none"},
             Request(public, h, b)
      PROVE  KeysRight'
  <2>1. UNCHANGED <<keys, revoked>>
    BY <1>7 DEF Request
  <2>2. CASE public \/ DOMAIN keys = {}
    <3>1. opened' = NoRequest
      BY <1>7, <2>2 DEF Request
    <3>2. RevokedStaysOut'
      BY <3>1 DEF RevokedStaysOut, NoRequest
    <3>. QED  BY <1>2, <1>4, <2>1, <3>2 DEF KeysRight
  <2>3. CASE ~(public \/ DOMAIN keys = {})
    <3>. DEFINE key == extract_api_key(h, b)
                may == get_permissions_for_role(keys[key].role)
    <3>1. key \in DOMAIN keys /\ keys[key].active
      BY <1>7, <2>3 DEF Request, auth_middleware, validate
    <3>2. opened' = [key |-> key, role |-> keys[key].role, may |-> may, revoked |-> key \in revoked]
      BY <1>7, <2>3 DEF Request
    <3>3. key \notin revoked
      BY <1>4, <3>1
    <3>4. keys[key].role = "reader" => may \cap {"CreateCollection", "DeleteCollection", "InsertVectors",
                "DeleteVectors", "CreateIndex", "DeleteIndex"} = {}
      BY ReaderReads
    <3>. HIDE DEF key, may
    <3>5. ~opened'.revoked /\ opened'.role = keys[key].role /\ opened'.may = may
      BY <3>2, <3>3
    <3>6. RevokedStaysOut'
      BY <3>4, <3>5 DEF RevokedStaysOut
    <3>. QED  BY <1>2, <1>4, <2>1, <3>6 DEF KeysRight
  <2>. QED  BY <2>2, <2>3
<1>8. KeysRight'
  BY <1>5, <1>6, <1>7
<1>. QED  BY <1>3, <1>8 DEF AccessInv

LEMMA AccessCacheStep ==
    ASSUME AccessInv, NEW q \in AQueries, NEW ttl \in ATtls, put_with_ttl(q, ttl)
    PROVE  AccessInv'
<1>1. KeysRight /\ CacheRight
  BY DEF AccessInv
<1>2. UNCHANGED <<time, keys, revoked, opened>> /\ time \in Nat /\ ttl \in Nat /\ writes \in Nat
  BY <1>1, AccessAssumption DEF put_with_ttl, keyVars, KeysRight, CacheRight
<1>3. KeysRight'
  BY <1>1, <1>2 DEF KeysRight, RevokedStaysOut
<1>. DEFINE entry == [value |-> writes + 1, expires |-> time + ttl]
            kept == [k \in {x \in DOMAIN query_cache : ~is_expired(query_cache[x])} |-> query_cache[k]]
<1>4. PICK c \in Evicted(kept) : query_cache' = Put(c, q, entry)
  BY DEF put_with_ttl, Inserted
<1>5. written' = Put(written, q, [value |-> writes + 1, until |-> time + ttl]) /\ writes' = writes + 1
  BY DEF put_with_ttl
<1>6. DOMAIN kept \subseteq DOMAIN query_cache /\ \A k \in DOMAIN kept : kept[k] = query_cache[k]
  OBVIOUS
<1>7. entry \in [value : Nat, expires : Nat] /\ entry.value = writes + 1 /\ entry.expires = time + ttl
  BY <1>2
<1>8. IsFiniteSet(DOMAIN kept) /\ Cardinality(DOMAIN kept) <= ACacheSize /\ Cardinality(DOMAIN kept) \in Nat
      /\ ACacheSize \in Nat \ {0}
  BY <1>1, <1>6, Fewer, AccessAssumption DEF CacheRight
<1>. HIDE DEF kept, entry
<1>9. /\ DOMAIN c \subseteq DOMAIN kept /\ \A k \in DOMAIN c : c[k] = kept[k]
      /\ IsFiniteSet(DOMAIN c) /\ Cardinality(DOMAIN c) \in Nat /\ Cardinality(DOMAIN c) <= ACacheSize - 1
  <2>1. CASE Cardinality(DOMAIN kept) >= ACacheSize /\ DOMAIN kept # {}
    <3>1. PICK k \in DOMAIN kept : c = Dropped(kept, k)
      BY <1>4, <2>1 DEF Evicted
    <3>2. DOMAIN c = DOMAIN kept \ {k} /\ \A x \in DOMAIN c : c[x] = kept[x]
      BY <3>1 DEF Dropped
    <3>3. Cardinality(DOMAIN kept \ {k}) = Cardinality(DOMAIN kept) - 1 /\ IsFiniteSet(DOMAIN kept \ {k})
      BY <1>8, OneLess
    <3>4. Cardinality(DOMAIN c) \in Nat
      BY <3>2, <3>3, FS_CardinalityType
    <3>. QED  BY <1>8, <3>2, <3>3, <3>4
  <2>2. CASE ~(Cardinality(DOMAIN kept) >= ACacheSize /\ DOMAIN kept # {})
    <3>1. c = kept
      BY <1>4, <2>2 DEF Evicted
    <3>2. Cardinality(DOMAIN kept) < ACacheSize
      <4>1. CASE DOMAIN kept = {}
        <5>1. Cardinality(DOMAIN kept) = 0
          BY <4>1, FS_EmptySet
        <5>. QED  BY <1>8, <5>1
      <4>2. CASE DOMAIN kept # {}
        BY <1>8, <2>2, <4>2
      <4>. QED  BY <4>1, <4>2
    <3>. QED  BY <1>8, <3>1, <3>2
  <2>. QED  BY <2>1, <2>2
<1>10. /\ DOMAIN query_cache' = DOMAIN c \cup {q} /\ query_cache'[q] = entry
       /\ \A k \in DOMAIN c : k # q => query_cache'[k] = query_cache[k]
       /\ query_cache' = [k \in DOMAIN query_cache' |-> query_cache'[k]]
  BY <1>4, <1>6, <1>9 DEF Put
<1>11. IsFiniteSet(DOMAIN query_cache') /\ Cardinality(DOMAIN query_cache') <= ACacheSize
  <2>1. /\ IsFiniteSet(DOMAIN query_cache') /\ Cardinality(DOMAIN query_cache') \in Nat
        /\ Cardinality(DOMAIN query_cache') <= Cardinality(DOMAIN c) + 1
    BY <1>9, <1>10, OneMore
  <2>. QED  BY <1>8, <1>9, <2>1
<1>12. \A k \in DOMAIN query_cache' : /\ query_cache'[k] \in [value : Nat, expires : Nat] /\ k \in AQueries
                                      /\ k \in DOMAIN written'
                                      /\ query_cache'[k].value = written'[k].value
                                      /\ query_cache'[k].expires = written'[k].until
  <2>. SUFFICES ASSUME NEW k \in DOMAIN query_cache'
                PROVE  /\ query_cache'[k] \in [value : Nat, expires : Nat] /\ k \in AQueries
                       /\ k \in DOMAIN written'
                       /\ query_cache'[k].value = written'[k].value
                       /\ query_cache'[k].expires = written'[k].until
    OBVIOUS
  <2>1. CASE k = q
    <3>1. k \in DOMAIN written' /\ written'[k] = [value |-> writes + 1, until |-> time + ttl]
      BY <1>5, <2>1 DEF Put
    <3>. QED  BY <1>7, <1>10, <2>1, <3>1
  <2>2. CASE k # q
    <3>1. k \in DOMAIN query_cache /\ query_cache'[k] = query_cache[k]
      BY <1>6, <1>9, <1>10, <2>2
    <3>2. k \in DOMAIN written => k \in DOMAIN written' /\ written'[k] = written[k]
      BY <1>5, <2>2 DEF Put
    <3>. QED  BY <1>1, <3>1, <3>2 DEF CacheRight
  <2>. QED  BY <2>1, <2>2
<1>13. CacheRight'
  <2>1. DOMAIN query_cache' \subseteq AQueries /\ writes' \in Nat
    BY <1>2, <1>5, <1>12
  <2>2. query_cache' \in [DOMAIN query_cache' -> [value : Nat, expires : Nat]]
    BY <1>10, <1>12
  <2>. QED  BY <1>11, <1>12, <2>1, <2>2 DEF CacheRight
<1>. QED  BY <1>3, <1>13 DEF AccessInv

LEMMA AccessKeeps == AccessInv /\ [AccessNext]_AccessVars => AccessInv'
<1>. SUFFICES ASSUME AccessInv, [AccessNext]_AccessVars PROVE AccessInv'
  OBVIOUS
<1>1. KeysRight /\ CacheRight
  BY DEF AccessInv
<1>2. CASE UNCHANGED AccessVars
  BY <1>1, <1>2 DEF AccessVars, AccessInv, KeysRight, CacheRight, RevokedStaysOut
<1>3. CASE clear_cache
  <2>1. query_cache' = << >> /\ UNCHANGED <<time, keys, revoked, opened, written, writes>>
    BY <1>3 DEF clear_cache, keyVars
  <2>2. KeysRight'
    BY <1>1, <2>1 DEF KeysRight, RevokedStaysOut
  <2>3. DOMAIN query_cache' = {} /\ query_cache' \in [{} -> [value : Nat, expires : Nat]]
    BY <2>1
  <2>4. CacheRight'
    BY <1>1, <2>1, <2>3, FS_EmptySet, AccessAssumption DEF CacheRight
  <2>. QED  BY <2>2, <2>4 DEF AccessInv
<1>4. CASE AccessTick
  <2>1. time' = time + 1 /\ time < AMaxClock /\ UNCHANGED <<keys, revoked, opened, query_cache, written, writes>>
    BY <1>4 DEF AccessTick, keyVars, cacheVars
  <2>2. KeysRight' /\ CacheRight'
    BY <1>1, <2>1, AccessAssumption DEF KeysRight, CacheRight, RevokedStaysOut
  <2>. QED  BY <2>2 DEF AccessInv
<1>. QED  BY <1>2, <1>3, <1>4, AccessKeysStep, AccessCacheStep DEF AccessNext

LEMMA AccessHolds == AccessInv => AccessTypeOK /\ RevokedStaysOut /\ CacheLatest
<1>. SUFFICES ASSUME AccessInv PROVE AccessTypeOK /\ RevokedStaysOut /\ CacheLatest
  OBVIOUS
<1>1. KeysRight /\ CacheRight
  BY DEF AccessInv
<1>2. CacheStats.active_entries = Cardinality({q \in AQueries : get(q)})
  <2>. DEFINE old == {k \in DOMAIN query_cache : is_expired(query_cache[k])}
  <2>1. CacheStats.active_entries = Cardinality(DOMAIN query_cache) - Cardinality(old)
    BY DEF CacheStats
  <2>2. {q \in AQueries : get(q)} = DOMAIN query_cache \ old
    BY <1>1 DEF CacheRight, get
  <2>3. IsFiniteSet(DOMAIN query_cache) /\ DOMAIN query_cache \cap old = old
    BY <1>1 DEF CacheRight
  <2>. HIDE DEF old
  <2>4. Cardinality(DOMAIN query_cache \ old) = Cardinality(DOMAIN query_cache) - Cardinality(old)
    BY <2>3, FS_Difference
  <2>. QED  BY <2>1, <2>2, <2>4
<1>3. AccessTypeOK
  BY <1>1, <1>2, AccessAssumption DEF KeysRight, CacheRight, AccessTypeOK
<1>4. CacheLatest
  <2>. SUFFICES ASSUME NEW q \in AQueries, get(q)
                PROVE  query_cache[q].value = written[q].value /\ time <= written[q].until
    BY DEF CacheLatest
  <2>1. q \in DOMAIN query_cache /\ ~(time > query_cache[q].expires)
    BY DEF get, is_expired
  <2>2. query_cache[q].expires \in Nat /\ time \in Nat
    BY <1>1, <2>1 DEF KeysRight, CacheRight
  <2>. QED  BY <1>1, <2>1, <2>2 DEF CacheRight
<1>. QED  BY <1>1, <1>3, <1>4 DEF KeysRight

\* However requests, the ends of windows, resets of the metrics, changes of the key
\* store and writes of the cache interleave: no client gets more than twice its limit
\* through in a window's length and is told truly what is left, the metrics stay in
\* the order record_request writes them, a revoked key opens nothing, and the query
\* cache, never beyond its size, answers with the last write or not at all
\* (api/middleware.rs, api/performance.rs, auth/).
THEOREM FrontHolds == FrontSpec => []GatewaySafe
<1>1. GatewayInit /\ AccessInit => GatewayInv /\ AccessInv
  BY GatewayStart, AccessStart
<1>2. GatewayInv /\ AccessInv /\ [FrontNext]_<<GatewayVars, AccessVars>> => (GatewayInv /\ AccessInv)'
  <2>. SUFFICES ASSUME GatewayInv, AccessInv, [FrontNext]_<<GatewayVars, AccessVars>>
                PROVE  GatewayInv' /\ AccessInv'
    OBVIOUS
  <2>1. [GatewayNext]_GatewayVars /\ [AccessNext]_AccessVars
    BY DEF FrontNext
  <2>. QED  BY <2>1, GatewayKeeps, AccessKeeps
<1>3. GatewayInv /\ AccessInv => GatewaySafe
  BY GatewayHolds, AccessHolds DEF GatewaySafe
<1>. QED  BY <1>1, <1>2, <1>3, PTL DEF FrontSpec

-----------------------------------------------------------------------------
(* The probes                                                               *)

Rounds ==
    [at : {"waiting"}] \cup [at : {"asking"}, list : Seq(YChecks), next : Nat \ {0}]
        \cup [at : {"startup"}, readiness : Statuses] \cup [at : {"notify"}, status : Statuses]

HealthTyped ==
    /\ uptime \in 0..YGrace /\ is_ready \in BOOLEAN /\ checks \in Seq(YChecks)
    /\ condition \in [YChecks -> Statuses]
    /\ mon \in Rounds
    /\ last_status \in Statuses \cup {"Unknown"} /\ sent \in Seq(Statuses)
    /\ good \in [asked : SUBSET YChecks, seen : SUBSET YChecks]

\* The critical checks of the round were healthy when they were asked.
Witnessed == is_ready /\ good.asked \cap YCritical \subseteq good.seen

\* A round found the first checks of its list well, the whole list, and so the status.
RoundFine ==
    /\ mon.at = "asking" =>
          /\ is_ready /\ mon.next <= Len(mon.list) + 1
          /\ good.asked = {mon.list[i] : i \in DOMAIN mon.list}
          /\ \A i \in 1..Len(mon.list) : i < mon.next /\ mon.list[i] \in YCritical => mon.list[i] \in good.seen
    /\ mon.at = "startup" /\ mon.readiness = "Healthy" => Witnessed
    /\ mon.at = "notify" /\ mon.status # "Unhealthy" =>
          /\ mon.status = "Healthy" /\ Witnessed
          /\ check_results["readiness"] = "Healthy" /\ check_results["startup"] = "Healthy"

Announced == last_status = "Unknown" => sent = << >>

HealthInv == HealthTyped /\ RoundFine /\ Announced /\ OnlyChangesSent /\ ProbesOrdered

LEMMA ReportsTyped == Reports \subseteq Statuses
  BY DEF Reports, Statuses, StorageHealth, ClusterHealth

LEMMA HealthStart == HealthInit => HealthInv
<1>. SUFFICES ASSUME HealthInit PROVE HealthInv
  OBVIOUS
<1>1. HealthTyped
  <2>1. mon \in Rounds
    BY DEF HealthInit, Rounds
  <2>2. 0 \in 0..YGrace /\ condition \in [YChecks -> Statuses]
    BY HealthAssumption DEF HealthInit, Statuses
  <2>3. checks \in Seq(YChecks) /\ sent \in Seq(Statuses) /\ good \in [asked : SUBSET YChecks, seen : SUBSET YChecks]
    BY DEF HealthInit
  <2>4. uptime = 0 /\ is_ready = FALSE /\ last_status = "Unknown"
    BY DEF HealthInit
  <2>. QED  BY ONLY <2>1, <2>2, <2>3, <2>4 DEF HealthTyped
<1>2. RoundFine /\ Announced /\ OnlyChangesSent /\ ProbesOrdered
  BY DEF HealthInit, RoundFine, Announced, OnlyChangesSent, ProbesOrdered
<1>. QED  BY <1>1, <1>2 DEF HealthInv

LEMMA HealthKeeps == HealthInv /\ [HealthNext]_HealthVars => HealthInv'
<1>. SUFFICES ASSUME HealthInv, [HealthNext]_HealthVars PROVE HealthInv'
  OBVIOUS
<1>. USE DEF HealthInv
<1>1. CASE UNCHANGED HealthVars
  BY <1>1 DEF HealthVars, HealthTyped, RoundFine, Witnessed, Announced, OnlyChangesSent, ProbesOrdered
<1>2. ASSUME NEW c \in YChecks, add_readiness_check(c) PROVE HealthInv'
  <2>1. checks' = Append(checks, c) /\ UNCHANGED <<uptime, is_ready, condition, mon, last_status, check_results,
                                                    sent, good, probed>>
    BY <1>2 DEF add_readiness_check, monitorVars
  <2>. QED  BY <2>1 DEF HealthTyped, RoundFine, Witnessed, Announced, OnlyChangesSent, ProbesOrdered
<1>3. CASE mark_ready
  <2>1. is_ready' = TRUE /\ UNCHANGED <<uptime, checks, condition, mon, last_status, check_results,
                                         sent, good, probed>>
    BY <1>3 DEF mark_ready, monitorVars
  <2>. QED  BY <2>1 DEF HealthTyped, RoundFine, Witnessed, Announced, OnlyChangesSent, ProbesOrdered
<1>4. CASE Seconds
  <2>1. uptime' \in 0..YGrace /\ UNCHANGED <<is_ready, checks, condition, mon, last_status, check_results,
                                             sent, good, probed>>
    BY <1>4, HealthAssumption DEF Seconds, monitorVars, HealthTyped
  <2>. QED  BY <2>1 DEF HealthTyped, RoundFine, Witnessed, Announced, OnlyChangesSent, ProbesOrdered
<1>5. ASSUME NEW c \in YChecks, NEW s \in Reports, Change(c, s) PROVE HealthInv'
  <2>1. condition' = [condition EXCEPT ![c] = s]
        /\ UNCHANGED <<uptime, is_ready, checks, mon, last_status, check_results, sent, good, probed>>
    BY <1>5 DEF Change, monitorVars
  <2>. QED  BY <2>1, ReportsTyped DEF HealthTyped, RoundFine, Witnessed, Announced, OnlyChangesSent, ProbesOrdered
<1>6. CASE Round
  <2>1. /\ mon' = IF is_ready THEN [at |-> "asking", list |-> checks, next |-> 1]
                  ELSE [at |-> "startup", readiness |-> "Unhealthy"]
        /\ good' = [asked |-> IF is_ready THEN Registered ELSE {}, seen |-> {}]
        /\ UNCHANGED <<uptime, is_ready, checks, condition, last_status, check_results, sent, probed>>
    BY <1>6 DEF Round, worldVars
  <2>2. HealthTyped'
    BY <2>1 DEF HealthTyped, Rounds, Statuses, Registered
  <2>3. RoundFine'
    BY <2>1 DEF RoundFine, HealthTyped, Registered
  <2>. QED  BY <2>1, <2>2, <2>3 DEF Announced, OnlyChangesSent, ProbesOrdered
<1>7. CASE AskCheck
  <2>. DEFINE c == mon.list[mon.next]
  <2>1. /\ mon.at = "asking" /\ mon.next <= Len(mon.list)
        /\ mon' = IF Failing(c) THEN [at |-> "startup", readiness |-> condition[c]]
                  ELSE [mon EXCEPT !.next = mon.next + 1]
        /\ good' = IF is_healthy(condition[c]) THEN [good EXCEPT !.seen = good.seen \cup {c}] ELSE good
        /\ UNCHANGED <<uptime, is_ready, checks, condition, last_status, check_results, sent, probed>>
    BY <1>7 DEF AskCheck, worldVars
  <2>2. mon \in [at : {"asking"}, list : Seq(YChecks), next : Nat \ {0}]
    BY <2>1 DEF HealthTyped, Rounds
  <2>3. c \in YChecks
    BY <2>1, <2>2
  <2>4. good'.asked = good.asked /\ good.seen \subseteq good'.seen /\ good' \in [asked : SUBSET YChecks, seen : SUBSET YChecks]
    BY <2>1, <2>3 DEF HealthTyped
  <2>5. CASE Failing(c)
    <3>1. mon' = [at |-> "startup", readiness |-> condition[c]] /\ condition[c] # "Healthy"
      BY <2>1, <2>5 DEF Failing, is_healthy
    <3>2. HealthTyped'
      <4>1. mon' \in [at : {"startup"}, readiness : Statuses]
        BY <2>3, <3>1 DEF HealthTyped
      <4>. QED  BY <2>1, <2>4, <4>1 DEF HealthTyped, Rounds
    <3>. QED  BY <2>1, <3>1, <3>2 DEF RoundFine, Announced, OnlyChangesSent, ProbesOrdered
  <2>6. CASE ~Failing(c)
    <3>1. /\ mon'.at = "asking" /\ mon'.list = mon.list /\ mon'.next = mon.next + 1
          /\ mon' \in [at : {"asking"}, list : Seq(YChecks), next : Nat \ {0}]
      BY <2>1, <2>2, <2>6
    <3>2. HealthTyped'
      BY <2>1, <2>4, <3>1 DEF HealthTyped, Rounds
    <3>3. c \in YCritical => c \in good'.seen
      BY <2>1, <2>6 DEF Failing, HealthTyped
    <3>4. RoundFine'
      BY <2>1, <2>2, <2>4, <3>1, <3>3 DEF RoundFine
    <3>. QED  BY <2>1, <3>2, <3>4 DEF Announced, OnlyChangesSent, ProbesOrdered
  <2>. QED  BY <2>5, <2>6
<1>8. CASE AskedAll
  <2>1. /\ mon.at = "asking" /\ mon.next > Len(mon.list)
        /\ mon' = [at |-> "startup", readiness |-> "Healthy"]
        /\ UNCHANGED <<uptime, is_ready, checks, condition, last_status, check_results, sent, good, probed>>
    BY <1>8 DEF AskedAll, worldVars
  <2>2. mon \in [at : {"asking"}, list : Seq(YChecks), next : Nat \ {0}]
    BY <2>1 DEF HealthTyped, Rounds
  <2>3. Witnessed
    BY <2>1, <2>2 DEF RoundFine, Witnessed
  <2>4. HealthTyped'
    BY <2>1 DEF HealthTyped, Rounds, Statuses
  <2>5. RoundFine'
    BY <2>1, <2>3 DEF RoundFine, Witnessed
  <2>. QED  BY <2>1, <2>4, <2>5 DEF Announced, OnlyChangesSent, ProbesOrdered
<1>9. CASE overall_status
  <2>1. /\ mon.at = "startup"
        /\ check_results' = [liveness |-> check_liveness, readiness |-> mon.readiness, startup |-> check_startup]
        /\ mon' = [at |-> "notify", status |-> Overall(check_liveness, mon.readiness, check_startup)]
        /\ UNCHANGED <<uptime, is_ready, checks, condition, last_status, sent, good, probed>>
    BY <1>9 DEF overall_status, worldVars
  <2>2. mon.readiness \in Statuses
    BY <2>1 DEF HealthTyped, Rounds
  <2>3. Overall(check_liveness, mon.readiness, check_startup) \in {"Healthy", "Unhealthy"}
    BY DEF Overall, is_healthy
  <2>4. mon'.status = "Healthy" => is_ready /\ mon.readiness = "Healthy"
    BY <2>1, <2>2 DEF Overall, is_healthy, check_startup, Statuses
  <2>5. HealthTyped'
    BY <2>1, <2>3 DEF HealthTyped, Rounds, Statuses
  <2>6. RoundFine'
    BY <2>1, <2>3, <2>4 DEF RoundFine, Witnessed, check_startup
  <2>. QED  BY <2>1, <2>5, <2>6 DEF Announced, OnlyChangesSent, ProbesOrdered
<1>10. CASE Notify
  <2>1. /\ mon.at = "notify" /\ mon' = [at |-> "waiting"]
        /\ sent' = IF mon.status # last_status THEN Append(sent, mon.status) ELSE sent
        /\ last_status' = mon.status
        /\ UNCHANGED <<uptime, is_ready, checks, condition, check_results, good, probed>>
    BY <1>10 DEF Notify, worldVars
  <2>2. mon.status \in Statuses /\ sent \in Seq(Statuses) /\ "Unknown" \notin Statuses
    BY <2>1 DEF HealthTyped, Rounds, Statuses
  <2>3. HealthTyped'
    BY <2>1, <2>2 DEF HealthTyped, Rounds
  <2>4. RoundFine' /\ Announced' /\ ProbesOrdered'
    BY <2>1, <2>2 DEF RoundFine, Announced, ProbesOrdered
  <2>5. OnlyChangesSent'
    <3>1. CASE mon.status = last_status
      BY <2>1, <2>2, <3>1 DEF OnlyChangesSent
    <3>2. CASE mon.status # last_status
      <4>1. sent' = Append(sent, mon.status)
        BY <2>1, <3>2
      <4>2. sent # << >> => sent[Len(sent)] # mon.status
        BY <3>2 DEF OnlyChangesSent, Announced
      <4>. QED  BY <2>1, <2>2, <4>1, <4>2 DEF OnlyChangesSent
    <3>. QED  BY <3>1, <3>2
  <2>. QED  BY <2>3, <2>4, <2>5
<1>11. CASE Probe
  <2>1. /\ mon.at = "notify"
        /\ probed' = [live |-> liveness_handler, ready |-> readiness_handler, started |-> startup_handler]
        /\ UNCHANGED <<uptime, is_ready, checks, condition, mon, last_status, check_results, sent, good>>
    BY <1>11 DEF Probe, worldVars
  <2>2. HealthTyped' /\ RoundFine' /\ Announced' /\ OnlyChangesSent'
    BY <2>1 DEF HealthTyped, RoundFine, Witnessed, Announced, OnlyChangesSent
  <2>3. ProbesOrdered'
    BY <2>1, HealthAssumption DEF ProbesOrdered, HealthTyped, RoundFine, Witnessed, liveness_handler,
       readiness_handler, startup_handler, http_code
  <2>. QED  BY <2>2, <2>3
<1>. QED  BY <1>1, <1>2, <1>3, <1>4, <1>5, <1>6, <1>7, <1>8, <1>9, <1>10, <1>11 DEF HealthNext

LEMMA HealthSafe == HealthInv => HealthTypeOK /\ HealthyWitnessed /\ OnlyChangesSent /\ ProbesOrdered
  BY DEF HealthInv, HealthTyped, Rounds, RoundFine, Witnessed, HealthTypeOK, HealthyWitnessed, Registered

-----------------------------------------------------------------------------
(* The telemetry                                                            *)

TelemetryTyped ==
    /\ custom_counters \in SUBSET INames
    /\ rec \in [ITasks -> [at : {"idle"}] \cup [at : {"creating"}, name : INames]]
    /\ recorded \in [INames -> Nat]
    /\ observed \in [DOMAIN observed -> 1..ILimit]
    /\ buffer \in Seq(Nat) /\ exported \in Seq(Nat)
    /\ pushed \in Nat /\ dropped_spans \in Nat /\ current_memory \in Nat /\ current_memory <= IMemory
    /\ future \in [IFutures -> [at : {"unborn"}] \cup [at : {"pending", "done"}, id : IFutures]]

\* An operation is recorded only of a counter that is there.
CountersRight ==
    /\ registry \in [custom_counters -> Nat]
    /\ \A n \in INames : recorded[n] = IF n \in custom_counters THEN registry[n] ELSE 0

\* The numbers of the spans that were kept, exported or not.
Kept == exported \o buffer

SpansRight ==
    /\ Len(exported) + Len(buffer) + dropped_spans = pushed
    /\ current_memory = ISpanSize * Len(buffer)
    /\ \A i, j \in 1..Len(Kept) : i < j => Kept[i] < Kept[j]
    /\ \A i \in 1..Len(Kept) : Kept[i] <= pushed

ContextsRight ==
    /\ \A f \in IFutures : future[f].at # "unborn" => future[f].id = f
    /\ OwnContext

TelemetryInv == TelemetryTyped /\ CountersRight /\ SpansRight /\ ContextsRight

LEMMA TelemetryStart == TelemetryInit => TelemetryInv
<1>. SUFFICES ASSUME TelemetryInit PROVE TelemetryInv
  OBVIOUS
<1>1. TelemetryTyped
  <2>1. /\ rec \in [ITasks -> [at : {"idle"}] \cup [at : {"creating"}, name : INames]]
        /\ future \in [IFutures -> [at : {"unborn"}] \cup [at : {"pending", "done"}, id : IFutures]]
        /\ recorded \in [INames -> Nat]
    BY DEF TelemetryInit
  <2>2. observed \in [DOMAIN observed -> 1..ILimit] /\ buffer \in Seq(Nat) /\ exported \in Seq(Nat)
    BY DEF TelemetryInit
  <2>. QED  BY <2>1, <2>2, TelemetryAssumption DEF TelemetryInit, TelemetryTyped
<1>2. CountersRight
  BY DEF TelemetryInit, CountersRight
<1>3. SpansRight
  <2>1. Kept = << >>
    BY DEF TelemetryInit, Kept
  <2>. QED  BY <2>1, TelemetryAssumption DEF TelemetryInit, SpansRight
<1>4. ContextsRight
  BY DEF TelemetryInit, ContextsRight, OwnContext
<1>. QED  BY <1>1, <1>2, <1>3, <1>4 DEF TelemetryInv

LEMMA TelemetryRecord ==
    ASSUME TelemetryInv, NEW t \in ITasks, NEW n \in INames, record_operation(t, n)
    PROVE  TelemetryInv'
<1>. USE DEF TelemetryInv
<1>1. UNCHANGED <<custom_counters, buffer, current_memory, dropped_spans, pushed, exported, observed, future, logged>>
  BY DEF record_operation, spanVars, logVars
<1>2. SpansRight' /\ ContextsRight'
  BY <1>1 DEF SpansRight, Kept, ContextsRight, OwnContext
<1>3. CASE n \in custom_counters
  <2>1. /\ registry' = [registry EXCEPT ![n] = registry[n] + 1]
        /\ recorded' = [recorded EXCEPT ![n] = recorded[n] + 1] /\ rec' = rec
    BY <1>3 DEF record_operation
  <2>2. TelemetryTyped'
    BY <1>1, <2>1 DEF TelemetryTyped
  <2>3. CountersRight'
    BY <1>1, <1>3, <2>1 DEF CountersRight, TelemetryTyped
  <2>. QED  BY <1>2, <2>2, <2>3
<1>4. CASE n \notin custom_counters
  <2>1. rec' = [rec EXCEPT ![t] = [at |-> "creating", name |-> n]] /\ registry' = registry /\ recorded' = recorded
    BY <1>4 DEF record_operation
  <2>2. TelemetryTyped'
    BY <1>1, <2>1 DEF TelemetryTyped
  <2>3. CountersRight'
    BY <1>1, <2>1 DEF CountersRight
  <2>. QED  BY <1>2, <2>2, <2>3
<1>. QED  BY <1>3, <1>4

LEMMA TelemetryCreate ==
    ASSUME TelemetryInv, NEW t \in ITasks, CreateCounter(t)
    PROVE  TelemetryInv'
<1>. USE DEF TelemetryInv
<1>1. UNCHANGED <<buffer, current_memory, dropped_spans, pushed, exported, observed, future, logged>>
  BY DEF CreateCounter, spanVars, logVars
<1>2. SpansRight' /\ ContextsRight'
  BY <1>1 DEF SpansRight, Kept, ContextsRight, OwnContext
<1>3. PICK n \in INames : rec[t].name = n
  BY DEF CreateCounter, TelemetryTyped
<1>4. rec' = [rec EXCEPT ![t] = [at |-> "idle"]]
  BY DEF CreateCounter
<1>5. DOMAIN registry = custom_counters
  BY DEF CountersRight
<1>6. CASE n \notin custom_counters
  <2>1. /\ registry' = [x \in custom_counters \cup {n} |-> IF x = n THEN 1 ELSE registry[x]]
        /\ custom_counters' = custom_counters \cup {n}
        /\ recorded' = [recorded EXCEPT ![n] = recorded[n] + 1]
    BY <1>3, <1>5, <1>6 DEF CreateCounter, CanRegister, Entered
  <2>2. TelemetryTyped'
    BY <1>1, <1>4, <2>1 DEF TelemetryTyped
  <2>3. CountersRight'
    BY <1>6, <2>1 DEF CountersRight, TelemetryTyped
  <2>. QED  BY <1>2, <2>2, <2>3
<1>7. CASE n \in custom_counters
  <2>1. UNCHANGED <<registry, custom_counters, recorded>>
    BY <1>3, <1>5, <1>7 DEF CreateCounter, CanRegister
  <2>2. TelemetryTyped'
    BY <1>1, <1>4, <2>1 DEF TelemetryTyped
  <2>3. CountersRight'
    BY <2>1 DEF CountersRight
  <2>. QED  BY <1>2, <2>2, <2>3
<1>. QED  BY <1>6, <1>7

\* A span behind those that wait is behind all that were kept.
LEMMA BehindAll ==
    ASSUME NEW e \in Seq(Nat), NEW b \in Seq(Nat), NEW x \in Nat
    PROVE  e \o b \in Seq(Nat) /\ e \o Append(b, x) = Append(e \o b, x)
<1>. DEFINE s == e \o Append(b, x)  t == Append(e \o b, x)
<1>1. e \o b \in Seq(Nat) /\ s \in Seq(Nat) /\ t \in Seq(Nat) /\ Append(b, x) \in Seq(Nat)
  OBVIOUS
<1>2. Len(s) = Len(e) + Len(b) + 1 /\ Len(t) = Len(e) + Len(b) + 1 /\ Len(e) \in Nat /\ Len(b) \in Nat
  OBVIOUS
<1>3. \A i \in 1..Len(e) + Len(b) + 1 : s[i] = t[i]
  <2>. SUFFICES ASSUME NEW i \in 1..Len(e) + Len(b) + 1 PROVE s[i] = t[i]
    OBVIOUS
  <2>1. CASE i <= Len(e)
    BY <1>2, <2>1
  <2>2. CASE i > Len(e) /\ i <= Len(e) + Len(b)
    BY <1>2, <2>2
  <2>3. CASE i = Len(e) + Len(b) + 1
    BY <1>2, <2>3
  <2>. QED  BY <1>2, <2>1, <2>2, <2>3
<1>4. s = t
  <2>. HIDE DEF s, t
  <2>. QED  BY <1>1, <1>2, <1>3, SeqEqual
<1>. QED  BY <1>1, <1>4

\* What leaves the front of those that wait for the end of those that left.
LEMMA PassedOn ==
    ASSUME NEW e \in Seq(Nat), NEW b \in Seq(Nat), NEW k \in 0..Len(b)
    PROVE  (e \o SubSeq(b, 1, k)) \o SubSeq(b, k + 1, Len(b)) = e \o b
<1>1. PICK u \in Seq(Nat) : u = SubSeq(b, 1, k)
  <2>1. SubSeq(b, 1, k) \in Seq(Nat)
    OBVIOUS
  <2>. QED  BY <2>1
<1>2. PICK v \in Seq(Nat) : v = SubSeq(b, k + 1, Len(b))
  <2>1. SubSeq(b, k + 1, Len(b)) \in Seq(Nat)
    OBVIOUS
  <2>. QED  BY <2>1
<1>3. /\ Len(u) = k /\ Len(b) = k + Len(v) /\ k \in Nat
      /\ \A i \in 1..k : u[i] = b[i]
      /\ \A i \in 1..Len(v) : v[i] = b[i + k]
  BY <1>1, <1>2
<1>4. Len(e) \in Nat /\ Len(v) \in Nat
  OBVIOUS
<1>5. PICK c \in Seq(Nat) : c = e \o u
  <2>1. e \o u \in Seq(Nat)
    OBVIOUS
  <2>. QED  BY <2>1
<1>6. /\ Len(c) = Len(e) + Len(u)
      /\ \A i \in 1..Len(e) + Len(u) : c[i] = IF i <= Len(e) THEN e[i] ELSE u[i - Len(e)]
  BY <1>5
<1>7. PICK s \in Seq(Nat) : s = c \o v
  <2>1. c \o v \in Seq(Nat)
    OBVIOUS
  <2>. QED  BY <2>1
<1>8. /\ Len(s) = Len(c) + Len(v)
      /\ \A i \in 1..Len(c) + Len(v) : s[i] = IF i <= Len(c) THEN c[i] ELSE v[i - Len(c)]
  BY <1>7
<1>9. PICK t \in Seq(Nat) : t = e \o b
  <2>1. e \o b \in Seq(Nat)
    OBVIOUS
  <2>. QED  BY <2>1
<1>10. /\ Len(t) = Len(e) + Len(b)
       /\ \A i \in 1..Len(e) + Len(b) : t[i] = IF i <= Len(e) THEN e[i] ELSE b[i - Len(e)]
  BY <1>9
<1>11. Len(s) = Len(t)
  BY ONLY <1>3, <1>4, <1>6, <1>8, <1>10
<1>12. ASSUME NEW i \in 1..Len(s) PROVE s[i] = t[i]
  <2>6. i \in 1..Len(c) + Len(v) /\ i \in 1..Len(e) + Len(b) /\ Len(c) = Len(e) + k
    BY ONLY <1>3, <1>4, <1>6, <1>8, i \in 1..Len(s)
  <2>0. /\ s[i] = IF i <= Len(c) THEN c[i] ELSE v[i - Len(c)]
        /\ t[i] = IF i <= Len(e) THEN e[i] ELSE b[i - Len(e)]
    BY <1>8, <1>10, <2>6
  <2>5. i <= Len(c) => c[i] = IF i <= Len(e) THEN e[i] ELSE u[i - Len(e)]
    <3>1. i <= Len(c) => i \in 1..Len(e) + Len(u)
      BY ONLY <1>3, <1>4, <1>6, i \in 1..Len(s)
    <3>. QED  BY <1>6, <3>1
  <2>1. CASE i <= Len(e)
    <3>1. i <= Len(c)
      BY ONLY <1>3, <1>4, <1>6, <2>1, i \in 1..Len(s)
    <3>. QED  BY <2>0, <2>1, <2>5, <3>1
  <2>2. CASE i > Len(e) /\ i <= Len(e) + k
    <3>1. i - Len(e) \in 1..k /\ ~(i <= Len(e)) /\ i <= Len(c)
      BY ONLY <1>3, <1>4, <1>6, <2>2, i \in 1..Len(s)
    <3>2. s[i] = u[i - Len(e)] /\ t[i] = b[i - Len(e)]
      BY <2>0, <2>5, <3>1
    <3>. QED  BY <1>3, <3>1, <3>2
  <2>3. CASE i > Len(e) + k
    <3>1. i - Len(c) \in 1..Len(v) /\ (i - Len(c)) + k = i - Len(e) /\ ~(i <= Len(e)) /\ ~(i <= Len(c))
      BY ONLY <1>3, <1>4, <2>3, <2>6
    <3>2. s[i] = v[i - Len(c)] /\ t[i] = b[i - Len(e)]
      BY <2>0, <3>1
    <3>. QED  BY <1>3, <3>1, <3>2
  <2>4. i <= Len(e) \/ (i > Len(e) /\ i <= Len(e) + k) \/ i > Len(e) + k
    <3>1. i \in Int /\ Len(e) \in Int /\ k \in Int
      OBVIOUS
    <3>. QED  BY ONLY <3>1
  <2>. QED  BY <2>1, <2>2, <2>3, <2>4
<1>13. s = t
  BY <1>11, <1>12, SeqEqual
<1>. QED  BY <1>1, <1>2, <1>5, <1>7, <1>9, <1>13

LEMMA TelemetryPush ==
    ASSUME TelemetryInv, NEW n \in INames, NEW u \in BOOLEAN, push(n, u)
    PROVE  TelemetryInv'
<1>. USE DEF TelemetryInv
<1>1. UNCHANGED <<custom_counters, registry, rec, recorded, exported, future, logged>> /\ pushed' = pushed + 1
  BY DEF push, counterVars, logVars
<1>2. CountersRight' /\ ContextsRight'
  BY <1>1 DEF CountersRight, ContextsRight, OwnContext
<1>3. observed' \in [DOMAIN observed' -> 1..ILimit]
  <2>1. CASE ~check_cardinality(n, u)
    BY <2>1 DEF push, TelemetryTyped
  <2>2. CASE check_cardinality(n, u)
    <3>1. observed' = [x \in DOMAIN observed \cup {n} |->
                          IF x = n THEN (IF n \in DOMAIN observed THEN observed[n] + 1 ELSE 1) ELSE observed[x]]
      BY <2>2 DEF push, Entered
    <3>2. n \in DOMAIN observed => observed[n] + 1 \in 1..ILimit
      BY <2>2, TelemetryAssumption DEF check_cardinality, TelemetryTyped
    <3>3. 1 \in 1..ILimit
      BY TelemetryAssumption
    <3>. QED  BY <3>1, <3>2, <3>3 DEF TelemetryTyped
  <2>. QED  BY <2>1, <2>2
<1>4. CASE Fits
  <2>1. /\ buffer' = Append(buffer, pushed + 1) /\ dropped_spans' = dropped_spans
        /\ current_memory' = current_memory + ISpanSize
    BY <1>4 DEF push
  <2>2. buffer \in Seq(Nat) /\ pushed \in Nat /\ buffer' \in Seq(Nat) /\ Len(buffer') = Len(buffer) + 1
    BY <2>1 DEF TelemetryTyped
  <2>3. TelemetryTyped'
    BY <1>1, <1>3, <1>4, <2>1, <2>2, TelemetryAssumption DEF TelemetryTyped, Fits
  <2>4. ISpanSize * (Len(buffer) + 1) = ISpanSize * Len(buffer) + ISpanSize
    BY <2>2, TelemetryAssumption
  <2>5. Kept \in Seq(Nat) /\ Kept' = Append(Kept, pushed + 1)
    <3>1. exported' = exported /\ exported \in Seq(Nat) /\ pushed + 1 \in Nat
      BY <1>1, <2>2 DEF TelemetryTyped
    <3>. QED  BY <2>1, <2>2, <3>1, BehindAll DEF Kept
  <2>6. (\A i, j \in 1..Len(Kept') : i < j => Kept'[i] < Kept'[j]) /\ \A i \in 1..Len(Kept') : Kept'[i] <= pushed'
    <3>1. /\ Len(Kept') = Len(Kept) + 1 /\ Len(Kept) \in Nat
          /\ \A i \in 1..Len(Kept) : Kept'[i] = Kept[i] /\ Kept[i] <= pushed /\ Kept[i] \in Nat
          /\ Kept'[Len(Kept) + 1] = pushed + 1
      BY <2>2, <2>5 DEF SpansRight
    <3>2. \A i, j \in 1..Len(Kept) : i < j => Kept[i] < Kept[j]
      BY DEF SpansRight
    <3>. HIDE DEF TelemetryInv
    <3>3. ASSUME NEW i \in 1..Len(Kept'), NEW j \in 1..Len(Kept'), i < j PROVE Kept'[i] < Kept'[j]
      <4>1. i \in 1..Len(Kept)
        BY <3>1, <3>3
      <4>2. CASE j = Len(Kept) + 1
        BY <2>2, <3>1, <4>1, <4>2
      <4>3. CASE j \in 1..Len(Kept)
        BY <3>1, <3>2, <3>3, <4>1, <4>3
      <4>. QED  BY <3>1, <4>2, <4>3
    <3>4. ASSUME NEW i \in 1..Len(Kept') PROVE Kept'[i] <= pushed'
      BY <1>1, <2>2, <3>1
    <3>. QED  BY <3>3, <3>4
  <2>7. Len(exported') + Len(buffer') + dropped_spans' = pushed'
    BY <1>1, <2>1, <2>2 DEF SpansRight, TelemetryTyped
  <2>8. current_memory' = ISpanSize * Len(buffer')
    BY <2>1, <2>2, <2>4 DEF SpansRight
  <2>. QED  BY <1>2, <2>3, <2>6, <2>7, <2>8 DEF SpansRight
<1>5. CASE ~Fits
  <2>1. buffer' = buffer /\ dropped_spans' = dropped_spans + 1 /\ current_memory' = current_memory
    BY <1>5 DEF push
  <2>2. TelemetryTyped'
    BY <1>1, <1>3, <2>1 DEF TelemetryTyped
  <2>3. Kept' = Kept
    BY <1>1, <2>1 DEF Kept
  <2>4. Len(exported') + Len(buffer') + dropped_spans' = pushed'
    BY <1>1, <2>1 DEF SpansRight, TelemetryTyped
  <2>5. Kept \in Seq(Nat) /\ \A i \in 1..Len(Kept') : Kept'[i] <= pushed'
    <3>1. Kept \in Seq(Nat) /\ pushed \in Nat
      BY DEF Kept, TelemetryTyped
    <3>2. \A i \in 1..Len(Kept) : Kept[i] <= pushed /\ Kept[i] \in Nat
      BY <3>1 DEF SpansRight
    <3>. QED  BY ONLY <1>1, <2>3, <3>1, <3>2
  <2>6. SpansRight'
    BY <2>1, <2>3, <2>4, <2>5 DEF SpansRight
  <2>. QED  BY <1>2, <2>2, <2>6
<1>. QED  BY <1>4, <1>5

LEMMA TelemetryPop ==
    ASSUME TelemetryInv, pop_batch
    PROVE  TelemetryInv'
<1>. USE DEF TelemetryInv
<1>. DEFINE k == IF Len(buffer) < IBatch THEN Len(buffer) ELSE IBatch
<1>1. /\ UNCHANGED <<custom_counters, registry, rec, recorded, future, logged, pushed, dropped_spans, observed>>
      /\ exported' = exported \o SubSeq(buffer, 1, k) /\ buffer' = SubSeq(buffer, k + 1, Len(buffer))
      /\ current_memory' = Released(k)
  BY DEF pop_batch, counterVars, logVars
<1>2. CountersRight' /\ ContextsRight'
  BY <1>1 DEF CountersRight, ContextsRight, OwnContext
<1>3. /\ k \in 0..Len(buffer) /\ buffer \in Seq(Nat) /\ exported \in Seq(Nat)
      /\ pushed \in Nat /\ dropped_spans \in Nat /\ current_memory \in Nat
  BY TelemetryAssumption DEF TelemetryTyped
<1>. HIDE DEF k
<1>4. buffer' \in Seq(Nat) /\ Len(buffer') = Len(buffer) - k
  BY <1>1, <1>3
<1>5. SubSeq(buffer, 1, k) \in Seq(Nat) /\ Len(SubSeq(buffer, 1, k)) = k
  BY <1>3
<1>6. exported' \in Seq(Nat) /\ Len(exported') = Len(exported) + k
  BY <1>1, <1>3, <1>5
<1>7. current_memory' = ISpanSize * Len(buffer') /\ current_memory' \in Nat /\ current_memory' <= current_memory
  <2>. DEFINE r == Len(buffer) - k
  <2>1. r \in Nat /\ Len(buffer) = r + k /\ k \in Nat
    BY <1>3
  <2>2. ISpanSize * Len(buffer) = ISpanSize * r + ISpanSize * k /\ ISpanSize * r \in Nat /\ ISpanSize * k \in Nat
        /\ k * ISpanSize = ISpanSize * k
    BY <2>1, TelemetryAssumption
  <2>3. current_memory = ISpanSize * r + ISpanSize * k
    BY <2>2 DEF SpansRight
  <2>4. Released(k) = ISpanSize * r
    BY <2>2, <2>3 DEF Released
  <2>. QED  BY <1>1, <1>4, <2>2, <2>3, <2>4
<1>8. TelemetryTyped'
  <2>1. current_memory' <= IMemory
    BY <1>3, <1>7, TelemetryAssumption DEF TelemetryTyped
  <2>. QED  BY <1>1, <1>4, <1>6, <1>7, <2>1 DEF TelemetryTyped
<1>9. Kept' = Kept
  BY <1>1, <1>3, PassedOn DEF Kept
<1>10. SpansRight'
  <2>1. Len(exported') + Len(buffer') + dropped_spans' = pushed'
    <3>1. Len(exported) + Len(buffer) + dropped_spans = pushed
      BY DEF SpansRight
    <3>2. Len(exported) \in Nat /\ Len(buffer) \in Nat
      BY <1>3
    <3>3. Len(exported') + Len(buffer') = Len(exported) + Len(buffer)
      BY ONLY <1>3, <1>4, <1>6, <3>2
    <3>. QED  BY ONLY <1>1, <3>1, <3>3
  <2>. QED  BY <1>1, <1>7, <1>9, <2>1 DEF SpansRight
<1>. QED  BY <1>2, <1>8, <1>10

LEMMA TelemetryContexts ==
    ASSUME TelemetryInv, NEW th \in IThreads, NEW f \in IFutures,
           set_request_id(th, f) \/ \E r \in BOOLEAN : poll(th, f, r)
    PROVE  TelemetryInv'
<1>. USE DEF TelemetryInv
<1>1. UNCHANGED <<custom_counters, registry, rec, recorded, buffer, current_memory, dropped_spans, pushed, exported, observed>>
  BY DEF set_request_id, poll, counterVars, spanVars
<1>2. CountersRight' /\ SpansRight'
  BY <1>1 DEF CountersRight, SpansRight, Kept
<1>3. CASE set_request_id(th, f)
  <2>1. future' = [future EXCEPT ![f] = [at |-> "pending", id |-> f]] /\ logged' = logged
    BY <1>3 DEF set_request_id
  <2>2. TelemetryTyped'
    BY <1>1, <2>1 DEF TelemetryTyped
  <2>3. ContextsRight'
    BY <2>1 DEF ContextsRight, OwnContext, TelemetryTyped
  <2>. QED  BY <1>2, <2>2, <2>3
<1>4. ASSUME NEW r \in BOOLEAN, poll(th, f, r) PROVE TelemetryInv'
  <2>1. /\ future[f].at = "pending" /\ logged' = logged \cup {<<f, future[f].id>>}
        /\ future' = IF r THEN [future EXCEPT ![f].at = "done"] ELSE future
    BY <1>4 DEF poll, DuringPoll
  <2>2. future[f].id = f /\ future[f] \in [at : {"pending", "done"}, id : IFutures]
    BY <2>1 DEF ContextsRight, TelemetryTyped
  <2>3. TelemetryTyped' /\ (\A g \in IFutures : future'[g].at # "unborn" => future'[g].id = g)
    BY <1>1, <2>1, <2>2 DEF TelemetryTyped, ContextsRight
  <2>4. OwnContext'
    BY <2>1, <2>2 DEF ContextsRight, OwnContext
  <2>. QED  BY <1>2, <2>3, <2>4 DEF ContextsRight
<1>. QED  BY <1>3, <1>4

LEMMA TelemetryKeeps == TelemetryInv /\ [TelemetryNext]_TelemetryVars => TelemetryInv'
<1>. SUFFICES ASSUME TelemetryInv, [TelemetryNext]_TelemetryVars PROVE TelemetryInv'
  OBVIOUS
<1>1. CASE UNCHANGED TelemetryVars
  BY <1>1 DEF TelemetryVars, TelemetryInv, TelemetryTyped, CountersRight, SpansRight, Kept, ContextsRight, OwnContext
<1>. QED  BY <1>1, TelemetryRecord, TelemetryCreate, TelemetryPush, TelemetryPop, TelemetryContexts DEF TelemetryNext

LEMMA TelemetrySafe == TelemetryInv => TelemetryTypeOK /\ CountersKept /\ SpansAccounted /\ OwnContext
<1>. SUFFICES ASSUME TelemetryInv PROVE TelemetryTypeOK /\ CountersKept /\ SpansAccounted /\ OwnContext
  OBVIOUS
<1>. USE DEF TelemetryInv
<1>1. TelemetryTypeOK /\ OwnContext
  BY DEF TelemetryTyped, TelemetryTypeOK, ContextsRight
<1>2. CountersKept
  BY DEF CountersRight, CountersKept, TelemetryTyped
<1>3. SpansAccounted
  BY DEF SpansRight, Kept, SpansAccounted
<1>. QED  BY <1>1, <1>2, <1>3

\* However the subjects of checks change during a round: a status Healthy was given
\* by checks that the round asked, only changes are announced and the probes do not
\* contradict each other (HealthChecker, server.rs).  However tasks and threads
\* interleave: a counter is the number of operations it was found for, every span is
\* exported or waits or was counted as dropped, in order and within the memory, and
\* a future logs under its own request (observability/performance.rs, logging.rs).
THEOREM ProbesHold == ProbesSpec => []ProbesSafe
<1>. DEFINE Inv == HealthInv /\ TelemetryInv
<1>1. HealthInit /\ TelemetryInit => Inv
  BY HealthStart, TelemetryStart
<1>2. Inv /\ [ProbesNext]_<<HealthVars, TelemetryVars>> => Inv'
  BY HealthKeeps, TelemetryKeeps DEF ProbesNext
<1>3. Inv => ProbesSafe
  BY HealthSafe, TelemetrySafe DEF ProbesSafe
<1>. QED  BY <1>1, <1>2, <1>3, PTL DEF ProbesSpec

=============================================================================
