----------------------------- MODULE Migration -----------------------------
(* The migration tool (migration/mod.rs, strategies.rs, checkpoint.rs,      *)
(* clients.rs): a manager starts a task that pages through a source, hands  *)
(* batches over a bounded channel to the workers, inserts them into the     *)
(* target and saves a checkpoint after each.  The "stream" strategy handles *)
(* one batch after the other; the three other strategies run the concurrent *)
(* executor of strategies.rs.  Records are the positions of the source.     *)
EXTENDS Integers, Sequences, FiniteSets, FiniteSetsExt

CONSTANTS MConfigs,      \* configurations: strategy, kind of source, dry_run
          MTotal,        \* records (or lines) of the source
          MBatch,        \* batch_size
          MConcurrency,  \* max_concurrency: channel capacity and workers
          MGroup,        \* rows of a record batch of the Parquet reader
          MBlank,        \* blank lines of a JSONL source
          MBad,          \* records validate_record refuses
          MMaxOffset,    \* bound: offsets an endless producer may reach
          MMaxStarts,    \* bound: calls of start_migration, by strategy
          MMaxCrashes,   \* bound: crashes of the process
          MMaxCancels    \* bound: calls of cancel_migration

\* The kinds of source that create_source_client distinguishes.
MSources == {"milvus", "weaviate", "lancedb", "lines", "qdrant_text", "qdrant_number",
             "pinecone", "parquet", "unsupported"}

ASSUME MigrationAssumption ==
    /\ MConfigs \subseteq [strategy : {"stream", "executor"}, source : MSources, dry : BOOLEAN]
    /\ MTotal \in Nat /\ MBatch \in Nat \ {0} /\ MConcurrency \in Nat \ {0}
    /\ MGroup \in Nat \ {0}

VARIABLES mcfg,      \* the configuration: strategy, source, dry_run
          mstatus,   \* MigrationProgress.status, "none" before the first start
          mrun,      \* the spawned task: idle, loading or running
          mprod,     \* the producer task
          mqueue,    \* the channel of batches
          mtasks,    \* the workers
          mfile,     \* the checkpoint directory: inodes, the names tmp and json
          mtarget,   \* records the target holds
          mskipped,  \* records of batches that were counted as failed
          mcount,    \* processed_records + failed_records of this run
          mbound     \* starts, crashes and cancellations so far

MVars == <<mcfg, mstatus, mrun, mprod, mqueue, mtasks, mfile, mtarget,
           mskipped, mcount, mbound>>

-----------------------------------------------------------------------------
Source == 0 .. MTotal - 1
Records == IF mcfg.source = "lines" THEN Source \ MBlank ELSE Source
Slots == 1 .. MConcurrency
Inodes == 1 .. MConcurrency + 2
Empty == -1     \* a file that was created or truncated and not yet written
Torn == -2      \* a file whose bytes are no JSON document

\* stream_migration handles a batch inline, the executor spawns tasks
Workers == IF mcfg.strategy = "stream" THEN {1} ELSE Slots

NoBatch == [recs |-> {}, next |-> 0]
FreeTask == [st |-> "free", batch |-> NoBatch, ino |-> 0, add |-> 0]
NoProducer == [st |-> "off", offset |-> 0, cursor |-> 0]

Window(from, n) == Source \cap (from .. from + n - 1)

\* fetch_batch of the clients that page by offset
milvus_fetch_batch(offset) == Window(offset, MBatch)
weaviate_fetch_batch(offset) == Window(offset, MBatch)
lancedb_fetch_batch(offset) == Window(offset, MBatch)

\* a page of lines, of which the blank ones are no records
jsonl_fetch_batch(offset) == Window(offset, MBatch) \ MBlank

\* Qdrant ignores the offset and follows its own cursor
qdrant_fetch_batch(cursor) == Window(cursor, MBatch)

\* Pinecone queries for the same page each time
pinecone_fetch_batch == Window(0, MBatch)

\* Parquet stops at the end of the row batch it had to skip into
parquet_fetch_batch(offset) ==
    LET rest == MGroup - (offset % MGroup)
    IN Window(offset, IF rest < MGroup /\ rest < MBatch THEN rest ELSE MBatch)

\* create_source_client and the fetch_batch of what it made; the clients for
\* HDF5, CSV and binary files read nothing
Fetch(offset, cursor) ==
    CASE mcfg.source = "milvus"   -> milvus_fetch_batch(offset)
      [] mcfg.source = "weaviate" -> weaviate_fetch_batch(offset)
      [] mcfg.source = "lancedb"  -> lancedb_fetch_batch(offset)
      [] mcfg.source = "lines"    -> jsonl_fetch_batch(offset)
      [] mcfg.source \in {"qdrant_text", "qdrant_number"} -> qdrant_fetch_batch(cursor)
      [] mcfg.source = "pinecone" -> pinecone_fetch_batch
      [] mcfg.source = "parquet"  -> parquet_fetch_batch(offset)
      [] mcfg.source = "unsupported" -> {}

\* next_page_offset is read as a string: a numeric one starts again
NextCursor(cursor) ==
    IF mcfg.source = "qdrant_text" /\ cursor + MBatch < MTotal
    THEN cursor + MBatch ELSE 0

NextOffset(offset) == offset + MBatch

\* Mutant: the checkpoint names the end of the batch that follows.
CheckpointOf_NextBatch(offset, recs) == offset + 2 * MBatch

\* the offset a batch's checkpoint carries
CheckpointOf(offset, recs) == offset + Cardinality(recs)

\* the content load_checkpoint reads
Checkpoint == IF mfile.json = 0 THEN 0 ELSE mfile.data[mfile.json]

-----------------------------------------------------------------------------
MInit ==
    /\ mcfg \in MConfigs
    /\ mstatus = "none"
    /\ mrun = [st |-> "idle", resume |-> FALSE]
    /\ mprod = NoProducer
    /\ mqueue = <<>>
    /\ mtasks = [w \in Slots |-> FreeTask]
    /\ mfile = [tmp |-> 0, json |-> 0, data |-> [i \in Inodes |-> Empty]]
    /\ mtarget = {} /\ mskipped = {}
    /\ mcount = 0
    /\ mbound = [starts |-> 0, crashes |-> 0, cancels |-> 0]

\* start_migration: progress Pending, the task spawned (one at a time: a bound)
start_migration(resume) ==
    /\ mrun.st = "idle" /\ mbound.starts < MMaxStarts[mcfg.strategy]
    /\ mstatus' = "Pending"
    /\ mrun' = [st |-> "load", resume |-> resume]
    /\ mcount' = 0
    /\ mbound' = [mbound EXCEPT !.starts = @ + 1]
    /\ UNCHANGED <<mcfg, mprod, mqueue, mtasks, mfile, mtarget, mskipped>>

Loaded == IF mrun.resume THEN Checkpoint ELSE 0

\* only stream_migration passes the checkpoint on to its producer
FirstOffset == IF mcfg.strategy = "stream" THEN Loaded ELSE 0

\* execute_migration up to the strategy: an unreadable checkpoint, a client
\* that cannot be created or a preparation that fails ends the run
execute_migration ==
    /\ mrun.st = "load"
    /\ \/ /\ mstatus' = "Failed"
          /\ mrun' = [mrun EXCEPT !.st = "idle"]
          /\ UNCHANGED mprod
       \/ /\ Loaded >= 0
          /\ mstatus' = "Running"
          /\ mrun' = [mrun EXCEPT !.st = "run"]
          /\ mprod' = [st |-> "on", offset |-> FirstOffset, cursor |-> 0]
    /\ UNCHANGED <<mcfg, mqueue, mtasks, mfile, mtarget, mskipped, mcount, mbound>>

\* One turn of a producer's loop; a failing fetch is only logged
ProduceTurn ==
    /\ mprod.st = "on"
    /\ LET recs == Fetch(mprod.offset, mprod.cursor)
       IN \/ /\ recs = {}
             /\ mprod' = [mprod EXCEPT !.st = "done"]
             /\ UNCHANGED mqueue
          \/ /\ mprod' = [mprod EXCEPT !.st = "failed"]
             /\ UNCHANGED mqueue
          \/ /\ recs # {} /\ Len(mqueue) < MConcurrency
             /\ mprod.offset < MMaxOffset
             /\ mqueue' = Append(mqueue, [recs |-> recs,
                                          next |-> CheckpointOf(mprod.offset, recs)])
             /\ mprod' = [mprod EXCEPT !.offset = NextOffset(@),
                                       !.cursor = NextCursor(@)]
    /\ UNCHANGED <<mcfg, mstatus, mrun, mtasks, mfile, mtarget, mskipped,
                   mcount, mbound>>

produce_batches == mcfg.strategy = "stream" /\ ProduceTurn

produce_batches_streaming == mcfg.strategy = "executor" /\ ProduceTurn

\* rx.recv: stream_migration handles the batch itself, execute_streaming gives
\* it to a task of its own
ReceiveBatch(w) ==
    /\ mrun.st = "run" /\ w \in Workers /\ mtasks[w].st = "free"
    /\ mqueue # <<>>
    /\ mtasks' = [mtasks EXCEPT ![w] = [FreeTask EXCEPT !.st = "insert",
                                                        !.batch = Head(mqueue)]]
    /\ mqueue' = Tail(mqueue)
    /\ UNCHANGED <<mcfg, mstatus, mrun, mprod, mfile, mtarget, mskipped, mcount,
                   mbound>>

\* insert_batch of the target: an error may come before or after the records
insert_batch(recs, ok) == IF ok THEN {mtarget \cup recs} ELSE {mtarget, mtarget \cup recs}

\* the batch was handled: its records count, and a checkpoint is saved or not
BatchHandled(w, next) ==
    /\ mtasks' = [mtasks EXCEPT ![w].st = next, ![w].add = Cardinality(mtasks[w].batch.recs)]
    /\ UNCHANGED mskipped

BatchFailed(w) ==
    /\ mtasks' = [mtasks EXCEPT ![w].st = "done", ![w].add = Cardinality(mtasks[w].batch.recs)]
    /\ mskipped' = mskipped \cup mtasks[w].batch.recs

\* validate_record on each record, in a dry run too
Refused(batch) == batch.recs \cap MBad # {}

process_batch(w) ==
    /\ mcfg.strategy = "stream" /\ mtasks[w].st = "insert"
    /\ LET b == mtasks[w].batch
       IN \/ Refused(b) /\ UNCHANGED mtarget /\ BatchFailed(w)
          \/ ~Refused(b) /\ mcfg.dry /\ UNCHANGED mtarget /\ BatchHandled(w, "open")
          \/ ~Refused(b) /\ ~mcfg.dry /\ mtarget' \in insert_batch(b.recs, TRUE) /\ BatchHandled(w, "open")
          \/ ~Refused(b) /\ ~mcfg.dry /\ mtarget' \in insert_batch(b.recs, FALSE) /\ BatchFailed(w)
    /\ UNCHANGED <<mcfg, mstatus, mrun, mprod, mqueue, mfile, mcount, mbound>>

\* the executor does not validate, and saves no checkpoint in a dry run
process_batch_streaming(w) ==
    /\ mcfg.strategy = "executor" /\ mtasks[w].st = "insert"
    /\ LET recs == mtasks[w].batch.recs
       IN \/ mcfg.dry /\ UNCHANGED mtarget /\ BatchHandled(w, "done")
          \/ ~mcfg.dry /\ mtarget' \in insert_batch(recs, TRUE) /\ BatchHandled(w, "open")
          \/ ~mcfg.dry /\ mtarget' \in insert_batch(recs, FALSE) /\ BatchFailed(w)
    /\ UNCHANGED <<mcfg, mstatus, mrun, mprod, mqueue, mfile, mcount, mbound>>

\* save_checkpoint: fs::write opens and truncates the temporary file ...
OpenTmp(w) ==
    /\ mtasks[w].st = "open"
    /\ LET held == {mfile.json} \cup {mtasks[v].ino : v \in Slots}
           i == IF mfile.tmp # 0 THEN mfile.tmp ELSE CHOOSE n \in Inodes : n \notin held
       IN /\ mfile' = [mfile EXCEPT !.tmp = i, !.data[i] = Empty]
          /\ mtasks' = [mtasks EXCEPT ![w].st = "write", ![w].ino = i]
    /\ UNCHANGED <<mcfg, mstatus, mrun, mprod, mqueue, mtarget, mskipped, mcount,
                   mbound>>

\* ... writes it, over what another task may have written meanwhile ...
WriteTmp(w) ==
    /\ mtasks[w].st = "write"
    /\ LET i == mtasks[w].ino
       IN \E c \in {mtasks[w].batch.next}
                   \cup (IF mfile.data[i] = Empty THEN {} ELSE {Torn}) :
             mfile' = [mfile EXCEPT !.data[i] = c]
    /\ mtasks' = [mtasks EXCEPT ![w].st = "rename", ![w].ino = 0]
    /\ UNCHANGED <<mcfg, mstatus, mrun, mprod, mqueue, mtarget, mskipped, mcount,
                   mbound>>

\* ... and renames it, which fails when another task's rename was first
RenameTmp(w) ==
    /\ mtasks[w].st = "rename" /\ mfile.tmp # 0
    /\ mfile' = [mfile EXCEPT !.json = mfile.tmp, !.tmp = 0]
    /\ mtasks' = [mtasks EXCEPT ![w].st = "done"]
    /\ UNCHANGED <<mcfg, mstatus, mrun, mprod, mqueue, mtarget, mskipped, mcount,
                   mbound>>

\* the strategy ends with an error: the receiver is dropped, the status Failed
EndRun(status) ==
    /\ mstatus' = status
    /\ mrun' = [mrun EXCEPT !.st = "idle"]
    /\ mprod' = [NoProducer EXCEPT !.st = IF mprod.st = "failed" THEN "failed" ELSE "off"]
    /\ mqueue' = <<>>
    /\ mtasks' = [w \in Slots |-> FreeTask]

\* a step of save_checkpoint fails: stream_migration gives up, the executor
\* counts one failed record
SaveFails(w) ==
    /\ mtasks[w].st \in {"open", "write", "rename"}
    /\ IF mcfg.strategy = "stream" THEN EndRun("Failed")
       ELSE /\ mtasks' = [mtasks EXCEPT ![w].st = "done", ![w].ino = 0, ![w].add = 1]
            /\ UNCHANGED <<mstatus, mrun, mprod, mqueue>>
    /\ UNCHANGED <<mcfg, mfile, mtarget, mskipped, mcount, mbound>>

\* the counters take a finished batch over: stream_migration at once, the
\* executor with select_all when all its tasks are out; update_progress
Progress(w) ==
    /\ mtasks[w].st = "done"
    /\ \A v \in Workers : mtasks[v].st # "free"
    /\ mcount' = mcount + mtasks[w].add
    /\ mtasks' = [mtasks EXCEPT ![w] = FreeTask]
    /\ UNCHANGED <<mcfg, mstatus, mrun, mprod, mqueue, mfile, mtarget, mskipped,
                   mbound>>

\* Mutant: a sender of the channel is kept, as in execute_streaming.
ChannelClosed_SenderKept == FALSE

\* recv returns None when every sender is dropped; execute_streaming keeps one
\* itself, so only stream_migration gets there
ChannelClosed ==
    mqueue = <<>> /\ mprod.st \in {"done", "failed"} /\ mcfg.strategy = "stream"

Complete ==
    /\ mrun.st = "run" /\ ChannelClosed
    /\ \A w \in Slots : mtasks[w].st = "free"
    /\ EndRun("Completed")
    /\ UNCHANGED <<mcfg, mfile, mtarget, mskipped, mcount, mbound>>

\* cancel_migration sets the status and stops nothing
cancel_migration ==
    /\ mstatus \notin {"none", "Cancelled"} /\ mbound.cancels < MMaxCancels
    /\ mstatus' = "Cancelled"
    /\ mbound' = [mbound EXCEPT !.cancels = @ + 1]
    /\ UNCHANGED <<mcfg, mrun, mprod, mqueue, mtasks, mfile, mtarget, mskipped,
                   mcount>>

\* resume_migration sets the status and starts nothing
resume_migration ==
    /\ mstatus \in {"Failed", "Cancelled"}
    /\ mstatus' = "Running"
    /\ UNCHANGED <<mcfg, mrun, mprod, mqueue, mtasks, mfile, mtarget, mskipped,
                   mcount, mbound>>

\* the process ends: files and target stay, the next one knows no migration
MCrash ==
    /\ mrun.st # "idle" /\ mbound.crashes < MMaxCrashes
    /\ EndRun("none")
    /\ mbound' = [mbound EXCEPT !.crashes = @ + 1]
    /\ UNCHANGED <<mcfg, mfile, mtarget, mskipped, mcount>>

Work(w) == ReceiveBatch(w) \/ process_batch(w) \/ process_batch_streaming(w) \/ OpenTmp(w) \/ WriteTmp(w)
           \/ RenameTmp(w) \/ Progress(w)

MNext ==
    \/ \E resume \in BOOLEAN : start_migration(resume)
    \/ execute_migration \/ produce_batches \/ produce_batches_streaming \/ Complete
    \/ \E w \in Slots : Work(w) \/ SaveFails(w)
    \/ cancel_migration \/ resume_migration \/ MCrash

MigrationSpec == MInit /\ [][MNext]_MVars

-----------------------------------------------------------------------------
\* Type correctness of the manager, the tasks and the checkpoint directory.
MigrationTypeOK ==
    /\ mstatus \in {"none", "Pending", "Running", "Completed", "Failed", "Cancelled"}
    /\ mrun.st \in {"idle", "load", "run"}
    /\ mprod.st \in {"off", "on", "done", "failed"} /\ mprod.offset \in Nat
    /\ Len(mqueue) <= MConcurrency
    /\ \A w \in Slots : mtasks[w].batch.recs \subseteq Source
    /\ mfile.tmp \in {0} \cup Inodes /\ mfile.json \in {0} \cup Inodes
    /\ mtarget \cup mskipped \subseteq Source

\* sources whose pages follow the offset without a gap
PagesWell ==
    \/ mcfg.source \in {"milvus", "weaviate", "lancedb"}
    \/ mcfg.source = "lines" /\ \A p \in Source : Window(p, MBatch) \ MBlank # {}
    \/ mcfg.source = "parquet" /\ MGroup % MBatch = 0

\* A saved checkpoint never runs ahead of the work: every record below the
\* offset that a resumed stream would start from is in the target or was
\* counted as failed, whatever crashed or failed in between (mod.rs 549-592).
CheckpointCovered ==
    (mcfg.strategy = "stream" /\ ~mcfg.dry /\ PagesWell) =>
        \A p \in Records : p < Checkpoint => p \in mtarget \cup mskipped

\* The checkpoint of a stream can be parsed after any crash: writing a
\* temporary file and renaming it never leaves half a document under the
\* checkpoint's name (checkpoint.rs 59-82).
CheckpointReadable == mcfg.strategy = "stream" => Checkpoint >= 0

\* A stream that reports Completed left no record out: each one is in the
\* target or was counted as failed, unless fetching failed (mod.rs 573-592).
CompletedWhole ==
    (/\ mstatus = "Completed" /\ mrun.st = "idle" /\ PagesWell
     /\ ~mcfg.dry /\ mcfg.strategy = "stream")
        => \/ Records \subseteq mtarget \cup mskipped
           \/ mprod.st = "failed"

\* update_processed computes total - processed on unsigned numbers: the
\* counters never pass the total that get_total_count gave (mod.rs 500-525).
\* LanceDB's count is only an estimate.
CountWithinTotal == PagesWell /\ mcfg.source # "lancedb" => mcount <= MTotal

\* A checkpoint can be read after any crash and never runs ahead of the work, a
\* migration that reports Completed left nothing out, and the counters stay
\* within the total (migration/mod.rs, checkpoint.rs).
MigrationSafe ==
    /\ MigrationTypeOK /\ CheckpointCovered /\ CheckpointReadable
    /\ CompletedWhole /\ CountWithinTotal

\* A stream that started is under way: it ends, completed or failed or crashed
\* (mod.rs 573).
StreamRuns == mrun.st = "run" /\ mcfg.strategy = "stream" /\ PagesWell

-----------------------------------------------------------------------------
(* Progress of one migration (migration/progress.rs and the counters of     *)
(* migration/mod.rs) and the directory of checkpoints of all of them        *)
(* (migration/checkpoint.rs): the task that migrates reports its counts, a  *)
(* logger task reads them until the migration is over, and checkpoints are  *)
(* saved, deleted and cleaned up by age.  Time is a counter.                *)

CONSTANTS GTotals,      \* total_records: the count of the source, or 0 for None
          GWindow,      \* window_size of the throughput samples
          GMaxSamples,  \* max_samples
          GMigrations,  \* ids of migrations with checkpoints
          GDays,        \* age at which cleanup_old_checkpoints removes
          GMaxClock,    \* bound: time
          GMaxUpdates   \* bound: calls of update_progress

ASSUME ProgressAssumption == GWindow \in Nat /\ GMaxSamples \in Nat \ {0} /\ GDays \in Nat

VARIABLES gprogress,   \* MigrationProgress: status, total, processed, failed
          gsamples,    \* ThroughputWindow.samples
          greport,     \* update_progress: counts on the way to the manager, or <<>>
          glogger,     \* the logging task: "on" or "off"
          gfiles,      \* checkpoint files: when each was modified, GNone if absent
          gclean,      \* cleanup_old_checkpoints: the file it is about to remove
          gclock, gupdates

ProgressVars == <<gprogress, gsamples, greport, glogger, gfiles, gclean, gclock, gupdates>>

GNone == -1
NotCleaning == GNone
Finished == {"Completed", "Failed", "Cancelled"}

ProgressInit ==
    /\ gprogress \in [status : {"Running"}, total : GTotals, processed : {0}, failed : {0}]
    /\ gsamples = <<>> /\ greport = <<>> /\ glogger = "on"
    /\ gfiles = [m \in GMigrations |-> GNone]
    /\ gclean = NotCleaning
    /\ gclock = 0 /\ gupdates = 0

ProgressTick ==
    /\ gclock < GMaxClock
    /\ gclock' = gclock + 1
    /\ UNCHANGED <<gprogress, gsamples, greport, glogger, gfiles, gclean, gupdates>>

\* add_sample: old samples leave the window, then the oldest of too many
Recent(samples) == SelectSeq(samples, LAMBDA s : s.at >= gclock - GWindow)

Limited(samples) == IF Len(samples) > GMaxSamples THEN Tail(samples) ELSE samples

add_sample(n) == Limited(Append(Recent(gsamples), [at |-> gclock, n |-> n]))

\* update_progress, first the window ...
update_progress(ok) ==
    /\ greport = <<>> /\ gupdates < GMaxUpdates
    /\ LET processed == gprogress.processed + (IF ok THEN 1 ELSE 0)
           failed == gprogress.failed + (IF ok THEN 0 ELSE 1)
       IN  /\ gsamples' = add_sample(processed)
           /\ greport' = <<processed, failed>>
    /\ gupdates' = gupdates + 1
    /\ UNCHANGED <<gprogress, glogger, gfiles, gclean, gclock>>

\* ... then the manager's entry
update_processed ==
    /\ greport # <<>>
    /\ gprogress' = [gprogress EXCEPT !.processed = greport[1], !.failed = greport[2]]
    /\ greport' = <<>>
    /\ UNCHANGED <<gsamples, glogger, gfiles, gclean, gclock, gupdates>>

\* The records and the time between the first and the last sample
calculate_throughput ==
    IF Len(gsamples) < 2 THEN [records |-> 0, time |-> 0]
    ELSE LET last == gsamples[Len(gsamples)]
         IN  [records |-> IF last.n < gsamples[1].n THEN 0 ELSE last.n - gsamples[1].n,
              time |-> last.at - gsamples[1].at]

\* get_eta in units of time: 0 when nothing remains, GNone when it cannot be told
get_eta ==
    LET remaining == IF gprogress.processed > gprogress.total THEN 0 ELSE gprogress.total - gprogress.processed
        rate == calculate_throughput
    IN  IF gprogress.total = 0 THEN GNone
        ELSE IF remaining = 0 THEN 0
        ELSE IF rate.time = 0 \/ rate.records = 0 THEN GNone
        ELSE (remaining * rate.time) \div rate.records

Capped(percent) == Min({100, percent})

\* get_stats: the share that is done and the share that failed, in percent
get_stats ==
    [completion |-> IF gprogress.total = 0 THEN 0
                    ELSE Capped((100 * gprogress.processed) \div gprogress.total),
     error_rate |-> IF gprogress.processed + gprogress.failed = 0 THEN 0
                    ELSE (100 * gprogress.failed) \div (gprogress.processed + gprogress.failed),
     eta |-> get_eta]

\* update_status: the task ends, cancel_migration or resume_migration
update_status(status) ==
    /\ gprogress.status # status
    /\ status = "Running" => gprogress.status \in {"Failed", "Cancelled"}
    /\ gprogress' = [gprogress EXCEPT !.status = status]
    /\ UNCHANGED <<gsamples, greport, glogger, gfiles, gclean, gclock, gupdates>>

\* start_periodic_logging: a tick after the end stops the task
LoggerEnds == gprogress.status \in Finished

LogTick ==
    /\ glogger = "on" /\ LoggerEnds
    /\ glogger' = "off"
    /\ UNCHANGED <<gprogress, gsamples, greport, gfiles, gclean, gclock, gupdates>>

-----------------------------------------------------------------------------
list_checkpoints == {m \in GMigrations : gfiles[m] # GNone}

create_checkpoint(m) ==
    /\ gfiles' = [gfiles EXCEPT ![m] = gclock]
    /\ UNCHANGED <<gprogress, gsamples, greport, glogger, gclean, gclock, gupdates>>

delete_checkpoint(m) ==
    /\ m \in list_checkpoints
    /\ gfiles' = [gfiles EXCEPT ![m] = GNone]
    /\ UNCHANGED <<gprogress, gsamples, greport, glogger, gclean, gclock, gupdates>>

OldCheckpoint(m) == gfiles[m] < gclock - GDays

\* cleanup_old_checkpoints reads the age of a file and then removes it
cleanup_old_checkpoints(m) ==
    /\ gclean = NotCleaning
    /\ m \in list_checkpoints /\ OldCheckpoint(m)
    /\ gclean' = m
    /\ UNCHANGED <<gprogress, gsamples, greport, glogger, gfiles, gclock, gupdates>>

RemoveOld ==
    /\ gclean # NotCleaning
    /\ gfiles' = [gfiles EXCEPT ![gclean] = GNone]
    /\ gclean' = NotCleaning
    /\ UNCHANGED <<gprogress, gsamples, greport, glogger, gclock, gupdates>>

get_checkpoint_stats ==
    [count |-> Cardinality(list_checkpoints),
     oldest |-> IF list_checkpoints = {} THEN GNone ELSE Min({gfiles[m] : m \in list_checkpoints}),
     newest |-> IF list_checkpoints = {} THEN GNone ELSE Max({gfiles[m] : m \in list_checkpoints})]

ProgressNext ==
    \/ ProgressTick \/ update_processed \/ LogTick \/ RemoveOld
    \/ \E ok \in BOOLEAN : update_progress(ok)
    \/ \E s \in {"Running"} \cup Finished : update_status(s)
    \/ \E m \in GMigrations : create_checkpoint(m) \/ delete_checkpoint(m) \/ cleanup_old_checkpoints(m)

-----------------------------------------------------------------------------
\* Type invariant.
ProgressTypeOK ==
    /\ gprogress.status \in {"Running"} \cup Finished
    /\ gprogress.processed \in Nat /\ gprogress.failed \in Nat
    /\ glogger \in {"on", "off"}
    /\ gfiles \in [GMigrations -> {GNone} \cup Nat]

\* The window keeps at most max_samples samples that span at most window_size,
\* in order of time and of count, so that the throughput is never cut off at
\* zero (progress.rs 218-251).
WindowBounded ==
    /\ Len(gsamples) <= GMaxSamples
    /\ calculate_throughput.time <= GWindow
    /\ \A i, j \in 1..Len(gsamples) : i < j => gsamples[i].at <= gsamples[j].at /\ gsamples[i].n <= gsamples[j].n

\* Whatever mixture of an old entry and a new window get_stats reads, its
\* percentages are percentages, and a migration that is done needs no more
\* time (progress.rs 101-140).
StatsConsistent ==
    LET s == get_stats
    IN  /\ s.completion \in 0..100 /\ s.error_rate \in 0..100
        /\ s.completion = 100 => s.eta = 0
        /\ get_checkpoint_stats.oldest <= get_checkpoint_stats.newest
        /\ s.eta >= GNone

\* The logging task outlives the migration: it ends too, unless the migration is
\* resumed (progress.rs 169-194).
LoggerLingers == gprogress.status \in Finished /\ glogger = "on"

=============================================================================
