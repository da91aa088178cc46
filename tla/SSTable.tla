------------------------------ MODULE SSTable ------------------------------
(***************************************************************************)
(* The sorted table files of src/src/storage/sstable.rs: the builder that  *)
(* cuts a sorted run of entries into blocks and writes blocks, index, meta *)
(* data, footer and trailer, and the reader that searches them.            *)
(*                                                                         *)
(* A vector is identified with the number of the add call that wrote it,   *)
(* an entry's encoded size is drawn from Sizes, a file offset is the       *)
(* number of a block.  The file is a prefix of the parts the builder       *)
(* writes: a process that dies leaves such a prefix.  compression is a     *)
(* placeholder in the code and is left out.                                *)
(***************************************************************************)
EXTENDS Integers, Sequences, SequencesExt

CONSTANTS
    TableIds,        \* vector ids
    Sizes,      \* entry sizes (Block::entry_size)
    BlockSize,  \* the builder's block_size
    NoId        \* u64::MAX, the min_id of an empty table

ASSUME SSTableAssumption ==
    /\ TableIds \subseteq Nat /\ Sizes \subseteq Nat \ {0} /\ BlockSize \in Nat
    /\ NoId \in Nat /\ \A id \in TableIds : id < NoId

VARIABLES
    added,      \* the entries of the add calls so far
    block,      \* entries of the block being filled
    block_size, \* its size
    first_key,  \* first key of that block, NoId for None
    index,      \* the index entries [key, offset]
    min_id, max_id,
    file,       \* the parts written so far
    status      \* "building", "finished", "crashed"

tableVars == <<added, block, block_size, first_key, index, min_id, max_id, file, status>>

BlockPart(b) == [part |-> "block", entries |-> b]
Trailer == [part |-> "trailer"]
Nothing == 0    \* the Ok(None) of get: no add call has number 0

TableInit ==
    /\ added = <<>> /\ block = <<>> /\ block_size = 0 /\ first_key = NoId
    /\ index = <<>> /\ min_id = NoId /\ max_id = 0
    /\ file = <<>> /\ status = "building"

\* Block::add returns false: the entry does not fit and is not the first.
BlockFull(size) == block_size + size > BlockSize /\ block # <<>>

\* SSTableBuilder::flush_block: the index entry and the block are written.
FlushedIndex == IF block = <<>> THEN index
                ELSE Append(index, [key |-> first_key, offset |-> Len(file) + 1])
FlushedFile == IF block = <<>> THEN file ELSE Append(file, BlockPart(block))

Lower(a, b) == IF a < b THEN a ELSE b
Higher(a, b) == IF a > b THEN a ELSE b

\* SSTableBuilder::add.  Both callers (flush_memtable and merge_sstables)
\* iterate an ordered map, so the ids increase.
Add(id, size) ==
    /\ status = "building"
    /\ added # <<>> => id > Last(added)
    /\ added' = Append(added, id)
    /\ IF BlockFull(size)
       THEN /\ index' = FlushedIndex /\ file' = FlushedFile
            /\ block' = <<[id |-> id, v |-> Len(added) + 1]>>
            /\ block_size' = size
            /\ first_key' = id
       ELSE /\ block' = Append(block, [id |-> id, v |-> Len(added) + 1])
            /\ block_size' = block_size + size
            /\ first_key' = IF first_key = NoId THEN id ELSE first_key
            /\ UNCHANGED <<index, file>>
    /\ min_id' = Lower(min_id, id) /\ max_id' = Higher(max_id, id)
    /\ UNCHANGED status

MetaParts == <<[part |-> "index", entries |-> FlushedIndex],
               [part |-> "meta", min_id |-> min_id, max_id |-> max_id,
                                 entry_count |-> Len(added)],
               [part |-> "footer", index |-> Len(FlushedFile) + 1,
                                   meta |-> Len(FlushedFile) + 2],
               Trailer>>

\* SSTableBuilder::finish: the last block, index, meta, footer and trailer.
Finish ==
    /\ status = "building"
    /\ file' = FlushedFile \o MetaParts
    /\ index' = FlushedIndex
    /\ block' = <<>> /\ block_size' = 0 /\ first_key' = NoId
    /\ status' = "finished"
    /\ UNCHANGED <<added, min_id, max_id>>

\* The process dies during finish, with only some of the parts on disk.
CrashBuilder ==
    /\ status = "building"
    /\ \E n \in Len(file)..(Len(FlushedFile) + Len(MetaParts)) :
         file' = SubSeq(FlushedFile \o MetaParts, 1, n)
    /\ status' = "crashed"
    /\ UNCHANGED <<added, block, block_size, first_key, index, min_id, max_id>>

TableNext ==
    \/ \E id \in TableIds, size \in Sizes : Add(id, size)
    \/ Finish
    \/ CrashBuilder

-----------------------------------------------------------------------------
(* The reader                                                              *)

\* SSTable::open: the trailer ends the file, and leads to footer, meta and
\* index.
Opens == file # <<>> /\ Last(file) = Trailer
Footer == file[Len(file) - 1]
Meta == file[Footer.meta]
Index == file[Footer.index].entries

\* Mutant: the block behind the last smaller key, without stepping back.
FindBlock_StrictlyLess(key) ==
    LET smaller == {i \in DOMAIN Index : Index[i].key < key}
    IN  IF smaller = {} THEN 0
        ELSE (CHOOSE i \in smaller : \A j \in smaller : j <= i) - 1

\* SSTable::find_block: the binary search, then low.saturating_sub(1).
FindBlock(key) ==
    LET search[low \in 0..Len(Index), high \in 0..Len(Index)] ==
            IF low >= high THEN low
            ELSE LET mid == (low + high) \div 2 IN
                 IF Index[mid + 1].key <= key
                 THEN search[mid + 1, high]
                 ELSE search[low, mid]
        low == search[0, Len(Index)]
    IN  IF low = 0 THEN 0 ELSE low - 1

LoadBlock(i) == file[Index[i + 1].offset].entries

\* SSTable::get
Get(id) ==
    IF id < Meta.min_id \/ id > Meta.max_id \/ FindBlock(id) >= Len(Index)
    THEN Nothing
    ELSE LET hits == SelectSeq(LoadBlock(FindBlock(id)), LAMBDA e : e.id = id)
         IN  IF hits = <<>> THEN Nothing ELSE Head(hits).v

\* SSTable::scan: from the start's block on, up to the first key behind end.
\* NoId as a bound stands for None.
Scan(start, end) ==
    LET from == IF start = NoId THEN Meta.min_id ELSE start
        to   == IF end = NoId THEN Meta.max_id ELSE end
        all  == FlattenSeq([i \in 1..(Len(Index) - FindBlock(from)) |->
                              LoadBlock(FindBlock(from) + i - 1)])
        upto == SelectInSeq(all, LAMBDA e : e.id > to)
        cut  == IF upto = 0 THEN all ELSE SubSeq(all, 1, upto - 1)
    IN  SelectSeq(cut, LAMBDA e : e.id >= from)

-----------------------------------------------------------------------------
(* Properties                                                              *)

\* Every variable keeps its type (struct SSTableBuilder and Block).
TableTypeOK ==
    /\ added \in Seq(TableIds)
    /\ \A i \in DOMAIN block : block[i].id \in TableIds /\ block[i].v \in DOMAIN added
    /\ block_size \in Nat
    /\ first_key \in TableIds \cup {NoId} /\ (first_key = NoId <=> block = <<>>)
    /\ min_id \in TableIds \cup {NoId} /\ max_id \in TableIds \cup {0}
    /\ status \in {"building", "finished", "crashed"}

\* The ids in the blocks of the file, in the order they were written.
IdsOnDisk ==
    LET blocks == SelectSeq(file, LAMBDA q : q.part = "block")
        entries == FlattenSeq([b \in DOMAIN blocks |-> blocks[b].entries])
    IN  [i \in DOMAIN entries |-> entries[i].id]

\* A file that opens is a whole table, whenever the process died: its blocks
\* hold every entry that was added, once and in order, and the meta data count
\* them (sstable.rs:234-323, 387-445).
OpensOnlyComplete ==
    Opens => IdsOnDisk = added /\ Meta.entry_count = Len(added)

\* get finds exactly what was added, wherever the block boundaries fall
\* (sstable.rs:448-520).
GetFindsAdded ==
    Opens => \A id \in TableIds :
        Get(id) = IF Contains(added, id) THEN CHOOSE i \in DOMAIN added : added[i] = id
                  ELSE Nothing

\* scan returns exactly the added entries within the bounds, in order, for
\* every pair of bounds, also those outside the table's range
\* (sstable.rs:474-502).
ScanFindsAdded ==
    Opens => \A start, end \in TableIds \cup {NoId} :
        [i \in DOMAIN Scan(start, end) |-> Scan(start, end)[i].id]
          = SelectSeq(added, LAMBDA id : /\ start = NoId \/ id >= start
                                         /\ end = NoId \/ id <= end)

=============================================================================
