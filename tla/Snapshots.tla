----------------------------- MODULE Snapshots ------------------------------
(* Copies of the storage: snapshots, and backups of a directory.           *)
EXTENDS Integers, FiniteSets

-----------------------------------------------------------------------------
(***************************************************************************)
(* The snapshot manager of src/src/storage/snapshot.rs: a snapshot is a    *)
(* data file and a meta file, written one after the other, and an entry of *)
(* the manager's map; the id is made of the collection, the second and the *)
(* kind. Calls run concurrently, fail at any file operation, and the       *)
(* process may stop between any two of them.                               *)
(*                                                                         *)
(* There is one collection; a checksum is the content it was computed of.  *)
(***************************************************************************)

CONSTANTS
    STasks,             \* concurrent callers
    SRetention,         \* retention_days, in ticks of the clock
    SMaxClock,          \* bound: seconds
    SMaxCalls,          \* bound: calls
    SMaxRestarts        \* bound: restarts

ASSUME SnapshotsAssumption ==
    /\ SRetention \in Nat /\ SMaxClock \in Nat /\ SMaxCalls \in Nat /\ SMaxRestarts \in Nat

VARIABLES
    sdata,       \* the .snap files: [by, whole]; by is the call that made it
    smeta,       \* the .meta files: the checksum, with the call in by
    slist,       \* the manager's map of metadata
    slock,       \* the task that holds its write lock
    sjob, sclock, scalls, srestarts,
    sup,         \* whether the manager is running
    skept,       \* history: snapshots that were acknowledged, deletion not asked for
    sgone,       \* history: snapshots whose deletion was acknowledged
    sclash,      \* history: ids two calls worked on at the same time
    scut         \* history: calls whose writer lost its last bytes unnoticed

SnapshotsVars ==
    <<sdata, smeta, slist, slock, sjob, sclock, scalls, srestarts, sup, skept, sgone, sclash, scut>>

SnapshotIds == [second : 0..SMaxClock, kind : {"full", "inc"}]
None == [by |-> 0, whole |-> FALSE]
Nobody == "nobody"
Resting == [at |-> "none"]

SnapshotsInit ==
    /\ sdata = [i \in SnapshotIds |-> None] /\ smeta = [i \in SnapshotIds |-> None]
    /\ slist = [i \in SnapshotIds |-> None] /\ slock = Nobody
    /\ sjob = [t \in STasks |-> Resting]
    /\ sclock = 0 /\ scalls = 0 /\ srestarts = 0 /\ sup = TRUE
    /\ skept = {} /\ sgone = {} /\ sclash = {} /\ scut = {}

Busy(i) == \E t \in STasks : sjob[t].at # "none" /\ i \in sjob[t].ids

StartSnapshot(t, at, why, ids) ==
    /\ sup /\ sjob[t] = Resting /\ scalls < SMaxCalls /\ scalls' = scalls + 1
    /\ sjob' = [sjob EXCEPT ![t] = [at |-> at, why |-> why, ids |-> ids, call |-> scalls', sum |-> None]]
    /\ sclash' = sclash \cup {i \in ids : Busy(i) \/ (at = "create" /\ sdata[i] # None)}
    /\ UNCHANGED <<sdata, smeta, slist, slock, sclock, srestarts, sup, scut>>

\* The id a job is at work on.
Id(t) == CHOOSE i \in sjob[t].ids : TRUE
AtStep(t, at) == sup /\ sjob[t].at = at
Move(t, at) == sjob' = [sjob EXCEPT ![t].at = at]
ReturnSnapshot(t) == sjob' = [sjob EXCEPT ![t] = Resting]

\* create_full_snapshot and create_incremental_snapshot
create_snapshot(t, kind) ==
    /\ StartSnapshot(t, "create", "asked", {[second |-> sclock, kind |-> kind]})
    /\ sgone' = sgone \ {[second |-> sclock, kind |-> kind]} /\ UNCHANGED skept

\* write_snapshot: File::create, which truncates; then the vectors and finish.
CreateFile(t) ==
    /\ AtStep(t, "create") /\ Move(t, "finish")
    /\ sdata' = [sdata EXCEPT ![Id(t)] = [by |-> sjob[t].call, whole |-> FALSE]]
    /\ UNCHANGED <<smeta, slist, slock, sclock, scalls, srestarts, sup, skept, sgone, sclash, scut>>

\* finish returns the buffered writer, which is dropped: an error of its last
\* flush is lost, and the file ends early.
FinishFile(t) ==
    /\ AtStep(t, "finish") /\ Move(t, "checksum")
    /\ \E whole \in BOOLEAN :
         /\ sdata' = [sdata EXCEPT ![Id(t)] =
                         IF @ = None THEN None ELSE [by |-> sjob[t].call, whole |-> whole]]
         /\ scut' = IF whole THEN scut ELSE scut \cup {sjob[t].call}
    /\ UNCHANGED <<smeta, slist, slock, sclock, scalls, srestarts, sup, skept, sgone, sclash>>

\* Mutant: the metadata is written before the file is finished.
Checksum_Early(t) ==
    /\ AtStep(t, "finish")
    /\ sjob' = [sjob EXCEPT ![t].at = "meta", ![t].sum = sdata[Id(t)]]
    /\ UNCHANGED <<sdata, smeta, slist, slock, sclock, scalls, srestarts, sup, skept, sgone, sclash, scut>>

\* calculate_checksum reads the file again.
Checksum(t) ==
    /\ AtStep(t, "checksum") /\ sdata[Id(t)] # None
    /\ sjob' = [sjob EXCEPT ![t].at = "meta", ![t].sum = sdata[Id(t)]]
    /\ UNCHANGED <<sdata, smeta, slist, slock, sclock, scalls, srestarts, sup, skept, sgone, sclash, scut>>

WriteMeta(t) ==
    /\ AtStep(t, "meta") /\ Move(t, "insert")
    /\ smeta' = [smeta EXCEPT ![Id(t)] = sjob[t].sum]
    /\ UNCHANGED <<sdata, slist, slock, sclock, scalls, srestarts, sup, skept, sgone, sclash, scut>>

\* The entry, and the answer to the caller.
InsertEntry(t) ==
    /\ AtStep(t, "insert") /\ slock = Nobody /\ ReturnSnapshot(t)
    /\ slist' = [slist EXCEPT ![Id(t)] = sjob[t].sum]
    /\ skept' = skept \cup sjob[t].ids
    /\ UNCHANGED <<sdata, smeta, slock, sclock, scalls, srestarts, sup, sgone, sclash, scut>>

\* Any file operation may fail; the files stay as they are.
FailSnapshot(t) ==
    /\ sup /\ sjob[t].at \in {"create", "finish", "checksum", "meta", "delete_data", "delete_meta"}
    /\ ReturnSnapshot(t) /\ slock' = IF slock = t THEN Nobody ELSE slock
    /\ UNCHANGED <<sdata, smeta, slist, sclock, scalls, srestarts, sup, skept, sgone, sclash, scut>>

\* delete_snapshot of one id.
delete_snapshot(t, i) ==
    /\ StartSnapshot(t, "delete", "asked", {i})
    /\ skept' = skept \ {i} /\ UNCHANGED sgone

\* Mutant: a snapshot is old from the first second on.
Old_Always(i) == i.second <= sclock

Old(i) == i.second + SRetention < sclock

\* cleanup_old_snapshots: delete_snapshot of every old entry of a copy of the map.
cleanup_old_snapshots(t) ==
    LET old == {i \in SnapshotIds : slist[i] # None /\ Old(i)} IN
    /\ slock = Nobody /\ old # {}
    /\ StartSnapshot(t, "delete", "old", old)
    /\ skept' = skept \ old /\ UNCHANGED sgone

\* The loop goes on to the next of the ids that are left.
WithoutId(t) == IF Cardinality(sjob[t].ids) = 1 THEN Resting
                ELSE [sjob[t] EXCEPT !.at = "delete", !.ids = sjob[t].ids \ {Id(t)}]

\* The entry goes first, under the write lock that is held to the end.
DeleteEntry(t) ==
    /\ AtStep(t, "delete") /\ slock = Nobody
    /\ IF slist[Id(t)] = None
       THEN /\ sjob' = [sjob EXCEPT ![t] = WithoutId(t)]
            /\ UNCHANGED <<slist, slock>>
       ELSE /\ slist' = [slist EXCEPT ![Id(t)] = None] /\ slock' = t /\ Move(t, "delete_data")
    /\ UNCHANGED <<sdata, smeta, sclock, scalls, srestarts, sup, skept, sgone, sclash, scut>>

RemovedFile(f, i) == [f EXCEPT ![i] = None]

DeleteData(t) ==
    /\ AtStep(t, "delete_data") /\ Move(t, "delete_meta")
    /\ sdata' = RemovedFile(sdata, Id(t))
    /\ UNCHANGED <<smeta, slist, slock, sclock, scalls, srestarts, sup, skept, sgone, sclash, scut>>

DeleteMeta(t) ==
    /\ AtStep(t, "delete_meta") /\ slock' = Nobody
    /\ smeta' = RemovedFile(smeta, Id(t)) /\ sgone' = sgone \cup {Id(t)}
    /\ sjob' = [sjob EXCEPT ![t] = WithoutId(t)]
    /\ UNCHANGED <<sdata, slist, sclock, scalls, srestarts, sup, skept, sclash, scut>>

Tick == /\ sup /\ sclock < SMaxClock /\ sclock' = sclock + 1
        /\ UNCHANGED <<sdata, smeta, slist, slock, sjob, scalls, srestarts, sup, skept, sgone, sclash, scut>>

\* load_existing_snapshots: the data files that have metadata.
Loadable == {i \in SnapshotIds : sdata[i] # None /\ smeta[i] # None}

\* The process stops and SnapshotManager::new runs. blocking_write panics when
\* it is called from a task, as api::start_all does, and there is an entry to add.
RestartSnapshots(in_task) ==
    /\ srestarts < SMaxRestarts /\ srestarts' = srestarts + 1
    /\ sup' = ~(in_task /\ Loadable # {})
    /\ slist' = [i \in SnapshotIds |-> IF i \in Loadable /\ sup' THEN smeta[i] ELSE None]
    /\ slock' = Nobody /\ sjob' = [t \in STasks |-> Resting]
    /\ UNCHANGED <<sdata, smeta, sclock, scalls, skept, sgone, sclash, scut>>

SnapshotsNext ==
    \/ \E t \in STasks :
         \/ \E kind \in {"full", "inc"} : create_snapshot(t, kind)
         \/ \E i \in SnapshotIds : slist[i] # None /\ delete_snapshot(t, i)
         \/ cleanup_old_snapshots(t)
         \/ CreateFile(t) \/ FinishFile(t) \/ Checksum(t) \/ WriteMeta(t) \/ InsertEntry(t)
         \/ FailSnapshot(t) \/ DeleteEntry(t) \/ DeleteData(t) \/ DeleteMeta(t)
    \/ Tick
    \/ \E in_task \in BOOLEAN : RestartSnapshots(in_task)

-----------------------------------------------------------------------------
\* restore_snapshot returns the data: the file is there, it has an entry, and
\* the checksum is right.
Restores(i) == sup /\ sdata[i] # None /\ slist[i] # None /\ sdata[i] = slist[i]

\* Every variable has its type.
SnapshotsTypeOK ==
    /\ sdata \in [SnapshotIds -> [by : 0..SMaxCalls, whole : BOOLEAN]]
    /\ smeta \in [SnapshotIds -> [by : 0..SMaxCalls, whole : BOOLEAN]]
    /\ slist \in [SnapshotIds -> [by : 0..SMaxCalls, whole : BOOLEAN]]
    /\ slock \in STasks \cup {Nobody} /\ scut \subseteq 1..SMaxCalls

\* What restore_snapshot accepts was written to its end, through failures and
\* restarts, unless the writer of the file itself lost the end without noticing
\* (read_snapshot_data takes an early end for the end, or fails). Two calls in one
\* second share the id and the file: the one may take the checksum of what the
\* other has half written, so these are excepted.
RestoresWhole ==
    \A i \in SnapshotIds \ sclash : Restores(i) => sdata[i].whole \/ sdata[i].by \in scut

\* The file of an acknowledged snapshot passes the checks of a restore until its
\* deletion is asked for, whatever other calls do and after every restart that
\* succeeds.
SnapshotKept == sup => \A i \in skept \ sclash : Restores(i)

\* A snapshot whose deletion was acknowledged does not come back.
DeletedStaysGone == \A i \in sgone \ sclash : slist[i] = None /\ i \notin Loadable

\* cleanup_old_snapshots works on a copy of the map, and ids are made of the
\* second: no file it removes belongs to a snapshot within the retention time.
YoungKept ==
    [][\A i \in SnapshotIds : sdata[i].whole /\ sdata'[i] = None /\ i \notin sclash =>
          \/ i.second + SRetention < sclock
          \/ \E t \in STasks : AtStep(t, "delete_data") /\ sjob[t].why = "asked" /\ Id(t) = i]_SnapshotsVars

-----------------------------------------------------------------------------
(***************************************************************************)
(* Backup and restore of a storage directory (src/src/storage/backup.rs)   *)
(* while the engine appends to it: the directory is copied file by file,   *)
(* packed, and on restore cleared and copied back. The files are log       *)
(* segments, which only grow; a record is its number.                      *)
(***************************************************************************)

CONSTANTS BSegments,    \* bound: segments 1..BSegments
          BMaxRecords,  \* bound: records
          BMaxCalls     \* bound: backups and restores

ASSUME BackupAssumption == BSegments \in Nat \ {0} /\ BMaxRecords \in Nat /\ BMaxCalls \in Nat

VARIABLES
    bfiles,    \* the directory: the records of each segment, {} if it is not there
    bnext,     \* the number of the next record
    bjob,      \* the call that runs: [at, todo, temp, before]
    barchive,  \* the archive: [whole, files, before]
    bcalls

BackupVars == <<bfiles, bnext, bjob, barchive, bcalls>>

Segments == 1..BSegments
NoFiles == [s \in Segments |-> {}]
Here(files) == {s \in Segments : files[s] # {}}
Records(files) == UNION {files[s] : s \in Segments}
Waiting == [at |-> "none", todo |-> {}, temp |-> NoFiles, before |-> {}]

BackupInit ==
    /\ bfiles = NoFiles /\ bnext = 1 /\ bjob = Waiting /\ bcalls = 0
    /\ barchive = [whole |-> FALSE, files |-> NoFiles, before |-> {}]

\* External: the engine appends to its newest segment or starts the next one.
EngineAppends(s) ==
    /\ bnext <= BMaxRecords /\ \A k \in Segments : bfiles[k] # {} => k <= s
    /\ bjob.at \in {"none", "copy", "pack"}
    /\ bfiles' = [bfiles EXCEPT ![s] = @ \cup {bnext}] /\ bnext' = bnext + 1
    /\ UNCHANGED <<bjob, barchive, bcalls>>

create_backup ==
    /\ bjob.at = "none" /\ bcalls < BMaxCalls /\ bcalls' = bcalls + 1
    /\ bjob' = [Waiting EXCEPT !.at = "copy", !.todo = Here(bfiles), !.before = Records(bfiles)]
    /\ UNCHANGED <<bfiles, bnext, barchive>>

CopiedFrom(from, s) == from[s]

\* copy_dir_all: the entries of a listing, one by one. Whether a file that was
\* made after the listing began is in it is left to the system.
CopyOut ==
    /\ bjob.at = "copy"
    /\ \/ \E s \in bjob.todo :
            bjob' = [bjob EXCEPT !.todo = @ \ {s}, !.temp[s] = CopiedFrom(bfiles, s)]
       \/ \E s \in Here(bfiles) : /\ bjob.todo # {} /\ bjob.temp[s] = {}
                                  /\ bjob' = [bjob EXCEPT !.todo = @ \cup {s}]
       \/ bjob.todo = {} /\ bjob' = [bjob EXCEPT !.at = "pack"]
    /\ UNCHANGED <<bfiles, bnext, barchive, bcalls>>

\* File::create truncates the archive of that name; then it is filled.
Pack ==
    /\ bjob.at \in {"pack", "fill"}
    /\ barchive' = [whole |-> bjob.at = "fill", files |-> bjob.temp, before |-> bjob.before]
    /\ bjob' = IF bjob.at = "pack" THEN [bjob EXCEPT !.at = "fill"] ELSE Waiting
    /\ UNCHANGED <<bfiles, bnext, bcalls>>

\* restore_backup: unpacking a truncated archive fails before anything is removed.
restore_backup ==
    /\ bjob.at = "none" /\ bcalls < BMaxCalls /\ bcalls' = bcalls + 1
    /\ barchive.whole
    /\ bjob' = [Waiting EXCEPT !.at = "clear", !.temp = barchive.files, !.todo = Here(barchive.files)]
    /\ UNCHANGED <<bfiles, bnext, barchive>>

Cleared(files) == NoFiles

Clear ==
    /\ bjob.at = "clear" /\ bjob' = [bjob EXCEPT !.at = "back"]
    /\ bfiles' = Cleared(bfiles) /\ UNCHANGED <<bnext, barchive, bcalls>>

CopyBack ==
    /\ bjob.at = "back"
    /\ \/ \E s \in bjob.todo : /\ bfiles' = [bfiles EXCEPT ![s] = bjob.temp[s]]
                               /\ bjob' = [bjob EXCEPT !.todo = @ \ {s}]
       \/ bjob.todo = {} /\ bjob' = [Waiting EXCEPT !.at = "restored"] /\ UNCHANGED bfiles
    /\ UNCHANGED <<bnext, barchive, bcalls>>

\* The engine starts on the directory again.
Resume == /\ bjob.at = "restored" /\ bjob' = Waiting
          /\ UNCHANGED <<bfiles, bnext, barchive, bcalls>>

\* The process stops, or a file operation fails; the temporary directory is gone.
CrashBackup ==
    /\ bjob.at \notin {"none", "restored"} /\ bjob' = Waiting
    /\ UNCHANGED <<bfiles, bnext, barchive, bcalls>>

BackupNext ==
    \/ \E s \in Segments : EngineAppends(s)
    \/ create_backup \/ CopyOut \/ Pack \/ restore_backup \/ Clear \/ CopyBack
    \/ Resume \/ CrashBackup

-----------------------------------------------------------------------------
\* Every variable has its type.
BackupTypeOK ==
    /\ bfiles \in [Segments -> SUBSET (1..BMaxRecords)]
    /\ barchive.files \in [Segments -> SUBSET (1..BMaxRecords)]
    /\ bjob.at \in {"none", "copy", "pack", "fill", "clear", "back", "restored"}

\* A backup taken while the engine writes has every record that was in the log
\* when it began: segments only grow, so copying them one by one loses none.
\* (It may have later records with gaps before them.)
BackupCovers == barchive.whole => barchive.before \subseteq Records(barchive.files)

\* When restore_backup returns, the directory is what was packed, and nothing of
\* what was there before is left.
RestoreExact == bjob.at = "restored" => bfiles = barchive.files
\* Either manager at work while the other rests.
FilesNext ==
    \/ SnapshotsNext /\ UNCHANGED BackupVars
    \/ BackupNext /\ UNCHANGED SnapshotsVars

FilesSpec == SnapshotsInit /\ BackupInit /\ [][FilesNext]_<<SnapshotsVars, BackupVars>>

\* Snapshots restore what was written of them, stay until they are deleted and not
\* longer (SnapshotManager); a backup holds what was there when it began and a
\* restore brings exactly it back (BackupManager).
FilesSafe ==
    /\ SnapshotsTypeOK /\ RestoresWhole /\ SnapshotKept /\ DeletedStaysGone
    /\ BackupTypeOK /\ BackupCovers /\ RestoreExact

=============================================================================
