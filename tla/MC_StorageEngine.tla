-------------------------- MODULE MC_StorageEngine --------------------------
(* The storage engine on two or three ids.  A vector counts 2 and a        *)
(* tombstone 1, so that two writes fill a memtable of threshold 3.         *)
EXTENDS StorageEngine

\* Each id has one writer.
DisjointWrites == {<<"t1", 1>>, <<"t2", 2>>}
\* Every thread writes every id.
SharedWrites == Threads \X Ids
\* One thread writes, the others flush and compact.
OneWrites == {"t1"} \X Ids

=============================================================================
