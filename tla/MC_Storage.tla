----------------------------- MODULE MC_Storage -----------------------------
(***************************************************************************)
(* The parts of the storage that work by themselves, each with a small     *)
(* instance: write-ahead log, memtable, table file, snapshots, backups,    *)
(* mapped files and collections.  They share no state, so a behaviour is   *)
(* about one of them, the one part names, and the others rest in an        *)
(* initial state: the states are the sum of the parts' states and not      *)
(* their product.                                                          *)
(***************************************************************************)
EXTENDS WAL, MemTable, SSTable, Snapshots, MappedStore, Collections

CONSTANTS Parts, t1, t2, w1, w2

VARIABLE part

\* Small byte counts for the log: headers of 3 and 2 bytes instead of 16 and 8
\* keep every torn length distinct.
MCData == {"short", "long", "oversize"}
MCLength == [d \in MCData |-> CASE d = "short" -> 1 [] d = "long" -> 4 [] OTHER -> 5]

\* A tombstone is smaller than a vector.
MCVectorSize == [v \in Vectors |-> IF v = "small" THEN 2 ELSE 3]

\* Neighbour lists of a mapped node; node 2 may name itself and one that is not there.
MCNeighbours == {<<1>>, <<0, 2, 1>>}

\* Upserts of one point, and of two in descending order.
MCBatches == {<<1>>, <<2, 1>>}

StorageVars == <<part, vars, memVars, tableVars, SnapshotsVars, BackupVars, MappedVars,
                 CollectionsVars>>

StorageInit ==
    /\ part \in Parts
    /\ Init /\ MemInit /\ TableInit /\ SnapshotsInit /\ BackupInit /\ MappedInit
    /\ CollectionsInit

StorageNext ==
    /\ UNCHANGED part
    /\ \/ /\ part = "wal" /\ Next
          /\ UNCHANGED <<memVars, tableVars, SnapshotsVars, BackupVars, MappedVars, CollectionsVars>>
       \/ /\ part = "memtable" /\ MemNext
          /\ UNCHANGED <<vars, tableVars, SnapshotsVars, BackupVars, MappedVars, CollectionsVars>>
       \/ /\ part = "sstable" /\ TableNext
          /\ UNCHANGED <<vars, memVars, SnapshotsVars, BackupVars, MappedVars, CollectionsVars>>
       \/ /\ part = "snapshots" /\ SnapshotsNext
          /\ UNCHANGED <<vars, memVars, tableVars, BackupVars, MappedVars, CollectionsVars>>
       \/ /\ part = "backup" /\ BackupNext
          /\ UNCHANGED <<vars, memVars, tableVars, SnapshotsVars, MappedVars, CollectionsVars>>
       \/ /\ part = "mapped" /\ MappedNext
          /\ UNCHANGED <<vars, memVars, tableVars, SnapshotsVars, BackupVars, CollectionsVars>>
       \/ /\ part = "collections" /\ CollectionsNext
          /\ UNCHANGED <<vars, memVars, tableVars, SnapshotsVars, BackupVars, MappedVars>>

StorageSpec == StorageInit /\ [][StorageNext]_StorageVars

-----------------------------------------------------------------------------
(* What the runs check, besides TypeOK, LogRecovered and PositionsIncrease *)
(* of the log, FilesSafe and YoungKept of the snapshots and backups and    *)
(* CollectionsSafe of the collections.                                     *)

\* The memtable's size counts what it holds while writers interleave and the
\* entry of the last write stays (MemTable::put, delete); a table file opens only
\* when it is complete, and then finds and scans exactly what was added
\* (SSTableBuilder, SSTable::get, scan); mapped vectors read back as they were
\* appended and the beam of a search is whole (MmapVectorStorage, MmapHNSWIndex).
TablesSafe ==
    /\ MemTypeOK /\ SizeAccounting /\ EntryKept
    /\ TableTypeOK /\ OpensOnlyComplete /\ GetFindsAdded /\ ScanFindsAdded
    /\ MappedTypeOK /\ AppendsReadBack /\ BeamWhole

=============================================================================
