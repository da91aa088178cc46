------------------------------ MODULE Formats -------------------------------
(* Files the migration tool reads and writes.                              *)
EXTENDS Integers, Sequences, FiniteSets, SequencesExt

-----------------------------------------------------------------------------
(* File formats of the migration tool (migration/formats.rs) and the batch  *)
(* validator (migration/validation.rs): FormatConverter::convert reads      *)
(* batches from one file and writes them to another; BatchValidator sorts   *)
(* records into valid, invalid and duplicate.  A file is a sequence of      *)
(* items: a record by its id, or a line that yields none.                   *)

CONSTANTS FInputs,      \* the files a behaviour may start from
          FReaders,     \* input formats
          FWriters,     \* output formats
          FBatch,       \* batch_size of convert
          FFlush,       \* rows a Parquet or HDF5 writer buffers
          FShape,       \* what the validator sees of the record with an id
          FConfig,      \* ValidationConfig
          FMaxIds,      \* DuplicateChecker.max_ids
          FMaxBatches   \* bound: batches given to the validator

VARIABLES fin,      \* the input file
          ffmt,     \* reader and writer format
          fpos,     \* what the reader keeps: lines, rows or bytes consumed
          fbuf,     \* records the writer buffers
          fout,     \* rows of the output file
          fcount,   \* total_converted, total_written and the header's count
          fpc,      \* convert: running, done, failed
          fval      \* BatchValidator: seen ids and the three lists

FVars == <<fin, ffmt, fpos, fbuf, fout, fcount, fpc, fval>>

-----------------------------------------------------------------------------
\* A line is the id of its record, -1 if it is blank, -2 if it is a CSV line with
\* another number of values than the header.
IsRecord(i) == i >= 0
FIds == {i \in UNION {Range(f) : f \in FInputs} : IsRecord(i)}

Piece(from, n) == SubSeq(fin, from + 1, Min({from + n, Len(fin)}))
Whole(f) == SelectSeq(f, IsRecord)

\* JsonlReader: a page of lines, blank ones are no records
JsonlRead == SelectSeq(Piece(fpos, FBatch), IsRecord)
JsonlPosition == fpos + Len(Piece(fpos, FBatch))

\* ParquetReader: the rows from current_position on
ParquetRead == Piece(fpos, FBatch)

\* BinaryReader: records from the offset where the last batch ended
BinaryRead == Piece(fpos, FBatch)

\* Hdf5Reader: a slice of its datasets
Hdf5Read == Piece(fpos, FBatch)

\* CsvReader opens the file again for every batch, skips the lines it counted
\* and leaves out lines that are blank or short; its counter is one ahead,
\* because it takes the header for a line
CsvRead == SelectSeq(Piece(fpos, FBatch), IsRecord)
CsvPosition(batch) == 1 + fpos + Len(batch)

\* create_reader and the read_batch of what it made
read_batch ==
    CASE ffmt.in = "jsonl"   -> JsonlRead
      [] ffmt.in = "parquet" -> ParquetRead
      [] ffmt.in = "binary"  -> BinaryRead
      [] ffmt.in = "hdf5"    -> Hdf5Read
      [] ffmt.in = "csv"     -> CsvRead

\* where the reader goes on
Position(batch) ==
    CASE ffmt.in = "jsonl" -> JsonlPosition
      [] ffmt.in = "csv"   -> CsvPosition(batch)
      [] OTHER             -> fpos + Len(batch)

Buffered == ffmt.out \in {"parquet", "hdf5"}

\* JsonlWriter, BinaryWriter and CsvWriter append what they are given
JsonlWrite(rows, batch) == rows \o batch
BinaryWrite(rows, batch) == rows \o batch
CsvWrite(rows, batch) == rows \o batch

\* ParquetWriter writes its buffer as a row group
ParquetFlush(rows, buf) == rows \o buf

\* Hdf5Writer creates its datasets with the first flush and extends none
Hdf5Flush(rows, buf) == IF fcount.written > 0 THEN rows ELSE rows \o buf

\* create_writer and the write of what it made
Flushed(rows, buf) ==
    CASE ffmt.out = "jsonl"   -> JsonlWrite(rows, buf)
      [] ffmt.out = "binary"  -> BinaryWrite(rows, buf)
      [] ffmt.out = "csv"     -> CsvWrite(rows, buf)
      [] ffmt.out = "parquet" -> ParquetFlush(rows, buf)
      [] ffmt.out = "hdf5"    -> Hdf5Flush(rows, buf)

Flushable(buf) == Len(buf) >= FFlush

-----------------------------------------------------------------------------
NoStats == [seen |-> {}, valid |-> <<>>, invalid |-> 0, dup |-> 0, n |-> 0]

FInit ==
    /\ fin \in FInputs
    /\ ffmt \in [in : FReaders, out : FWriters]
    /\ ffmt.in \notin {"jsonl", "csv"} => \A i \in Range(fin) : IsRecord(i)
    /\ fpos = 0 /\ fbuf = <<>> /\ fout = <<>>
    /\ fcount = [converted |-> 0, written |-> 0, header |-> 0]
    /\ fpc = "running"
    /\ fval = NoStats

\* one turn of convert: read_batch, write_batch
Convert ==
    /\ fpc = "running" /\ read_batch # <<>>
    /\ LET batch == read_batch
           buf == fbuf \o batch
       IN /\ fpos' = Position(batch)
          /\ IF Buffered /\ ~Flushable(buf)
             THEN /\ fbuf' = buf
                  /\ UNCHANGED fout
                  /\ fcount' = [fcount EXCEPT !.converted = @ + Len(batch)]
             ELSE /\ fbuf' = <<>>
                  /\ fout' = Flushed(fout, buf)
                  /\ fcount' = [fcount EXCEPT !.converted = @ + Len(batch),
                                              !.written = @ + Len(buf)]
    /\ UNCHANGED <<fin, ffmt, fpc, fval>>

LastRows == fbuf

\* the empty batch ends the loop: finalize flushes, BinaryWriter writes its
\* record count into the header
Finalize ==
    /\ fpc = "running" /\ read_batch = <<>>
    /\ fout' = Flushed(fout, LastRows)
    /\ fbuf' = <<>>
    /\ fcount' = [fcount EXCEPT !.written = @ + Len(fbuf),
                                !.header = fcount.written + Len(fbuf)]
    /\ fpc' = "done"
    /\ UNCHANGED <<fin, ffmt, fpos, fval>>

\* reading, parsing or writing fails: convert returns the error
ConvertFails ==
    /\ fpc = "running"
    /\ fpc' = "failed"
    /\ UNCHANGED <<fin, ffmt, fpos, fbuf, fout, fcount, fval>>

-----------------------------------------------------------------------------
\* validate_vector: not empty, of the dimension asked for, finite
validate_vector(r) ==
    /\ r.dim > 0
    /\ FConfig.dim = 0 \/ r.dim = FConfig.dim
    /\ r.finite

\* validate_metadata_value: limits on strings, arrays and objects
validate_metadata_value(v) ==
    /\ v.kind = "string" => v.len <= 10000
    /\ v.kind = "array"  => v.len <= 1000
    /\ v.kind = "object" => v.len <= 100

\* validate_metadata: the required fields, the names, the size and the values
validate_metadata(r) ==
    /\ FConfig.required \subseteq DOMAIN r.meta
    /\ \A f \in DOMAIN r.meta : f \in FConfig.names
    /\ r.size <= 1048576
    /\ \A f \in DOMAIN r.meta : validate_metadata_value(r.meta[f])

\* validate_id: not empty, at most 255 bytes, none of the characters refused
validate_id(r) == r.idlen \in 1 .. 255 /\ r.plain

validate_record(id) ==
    LET r == FShape[id]
    IN  /\ FConfig.vectors => validate_vector(r)
        /\ FConfig.metadata => validate_metadata(r)
        /\ validate_id(r)

\* add_id: the set stops growing at max_ids
Seen(ids, id) == IF Cardinality(ids) < FMaxIds THEN ids \cup {id} ELSE ids

\* one record of validate_batch: a duplicate of any record seen, valid or not
Validate(v, id) ==
    IF id \in v.seen THEN [v EXCEPT !.dup = @ + 1]
    ELSE IF ~validate_record(id) THEN [v EXCEPT !.invalid = @ + 1, !.seen = Seen(@, id)]
    ELSE [v EXCEPT !.valid = Append(@, id), !.seen = Seen(@, id)]

validate_batch(ids) ==
    /\ fval.n < FMaxBatches
    /\ fval' = FoldLeft(Validate, [fval EXCEPT !.n = @ + 1], ids)
    /\ UNCHANGED <<fin, ffmt, fpos, fbuf, fout, fcount, fpc>>

reset_stats ==
    /\ fval.n > 0
    /\ fval' = [NoStats EXCEPT !.n = fval.n]
    /\ UNCHANGED <<fin, ffmt, fpos, fbuf, fout, fcount, fpc>>

FNext ==
    \/ Convert \/ Finalize \/ ConvertFails
    \/ \E ids \in {<<i, j>> : i, j \in FIds} : validate_batch(ids)
    \/ reset_stats

-----------------------------------------------------------------------------
\* Type correctness of the converter and the validator.
FormatsTypeOK ==
    /\ fpos \in Nat /\ fpc \in {"running", "done", "failed"}
    /\ Range(fbuf) \cup Range(fout) \subseteq Range(fin)
    /\ fval.seen \subseteq FIds /\ fval.invalid \in Nat /\ fval.dup \in Nat

\* no page of the input consists of blank lines only
NoEmptyPage == \A k \in 0 .. Len(fin) - 1 : SelectSeq(Piece(k, FBatch), IsRecord) # <<>>

\* A conversion that reports success wrote every record of its input once and
\* in order, whatever the batch size, the reader's way of finding its place
\* again and the writer's buffer (formats.rs 1499-1529); of the CSV reader and
\* the HDF5 writer only what fits one batch.
ConvertsWhole ==
    (/\ fpc = "done" /\ NoEmptyPage
     /\ ffmt.in = "csv" => Len(fin) <= FBatch
     /\ ffmt.out = "hdf5" => Len(fin) < FFlush)
        => /\ fout = Whole(fin)
           /\ fcount.converted = Len(fout)
           /\ fcount.header = Len(fout)

\* Nothing is written twice, and records keep their order, for every pair of
\* formats and at every moment (formats.rs 1499-1529).
OutputOrdered ==
    \E keep \in SUBSET DOMAIN fin :
        fout \o fbuf = [k \in 1 .. Cardinality(keep) |->
                           fin[CHOOSE p \in keep : Cardinality({q \in keep : q <= p}) = k]]

\* As long as the duplicate checker has room, an id is accepted as valid at
\* most once between two resets (validation.rs 207-248).
ValidUnique ==
    Cardinality(fval.seen) < FMaxIds => IsInjective(fval.valid)

-----------------------------------------------------------------------------
(* Streaming Parquet files (migration/parquet_streaming.rs): a reader task   *)
(* on a blocking thread sends converted row batches over a bounded channel   *)
(* to the stream the caller polls, and a writer buffers rows until a batch   *)
(* is full.  Row batches are numbered from 1 in the order of the file.       *)

CONSTANTS PBatches,    \* row batches of the file that is read
          PCapacity,   \* buffer_size: capacity of the channel
          PFlush,      \* batch_size of the writer
          PMaxWrites   \* bound: rows given to the writer

VARIABLES pread,    \* the reader task: next batch, running, done, failed
          pchan,    \* the channel: batch numbers, 0 for the end, -1 for an error
          pstream,  \* the caller's side: batches yielded, state
          psilent,  \* the reader ended with an error that was never sent
          pwriter   \* ParquetStreamWriter: buffer, rows of the file, rows_written

PVars == <<pread, pchan, pstream, psilent, pwriter>>

PInit ==
    /\ pread = [st |-> "running", next |-> 1]
    /\ pchan = <<>>
    /\ pstream = [st |-> "open", got |-> <<>>]
    /\ psilent = FALSE
    /\ pwriter = [st |-> "open", buf |-> 0, rows |-> 0, count |-> 0, given |-> 0]

ReceiverGone == pstream.st # "open"

\* a blocking_send waits for room; it fails once the receiver is gone
Sent(m) == Len(pchan) < PCapacity /\ ~ReceiverGone /\ pchan' = Append(pchan, m)

ConsumerGone == ReceiverGone

ErrorMark == Sent(-1)

\* blocking_stream_reader: one row batch, or the consumer is gone
ReadBatch ==
    /\ pread.st = "running" /\ pread.next <= PBatches
    /\ \/ /\ Sent(pread.next)
          /\ pread' = [pread EXCEPT !.next = @ + 1]
       \/ /\ ConsumerGone
          /\ pread' = [pread EXCEPT !.st = "done"]
          /\ UNCHANGED pchan
    /\ UNCHANGED <<pstream, psilent, pwriter>>

\* a row batch that cannot be decoded: the error is sent, then the task ends
DecodeFails ==
    /\ pread.st = "running" /\ pread.next <= PBatches
    /\ ErrorMark \/ (ConsumerGone /\ UNCHANGED pchan)
    /\ pread' = [pread EXCEPT !.st = "failed"]
    /\ UNCHANGED <<pstream, psilent, pwriter>>

\* one that cannot be converted: `?` leaves the closure and nothing is sent
ConvertBatchFails ==
    /\ pread.st = "running" /\ pread.next <= PBatches
    /\ pread' = [pread EXCEPT !.st = "failed"]
    /\ psilent' = TRUE
    /\ UNCHANGED <<pchan, pstream, pwriter>>

EndMark == Sent(0)

\* end of the file: an empty batch signals the end of the stream
ReadEnd ==
    /\ pread.st = "running" /\ pread.next > PBatches
    /\ EndMark \/ (ConsumerGone /\ UNCHANGED pchan)
    /\ pread' = [pread EXCEPT !.st = "done"]
    /\ UNCHANGED <<pstream, psilent, pwriter>>

Yielded(s, m) == [s EXCEPT !.got = Append(@, m)]

\* stream_records: the caller polls; the stream ends at the mark, after an
\* error, or when the channel is closed and empty
Poll ==
    /\ pstream.st = "open"
    /\ \/ /\ pchan # <<>>
          /\ pchan' = Tail(pchan)
          /\ LET m == Head(pchan)
             IN pstream' = CASE m = 0  -> [pstream EXCEPT !.st = "ended"]
                             [] m = -1 -> [pstream EXCEPT !.st = "error"]
                             [] OTHER  -> Yielded(pstream, m)
       \/ /\ pchan = <<>> /\ pread.st \in {"done", "failed"}
          /\ pstream' = [pstream EXCEPT !.st = "ended"]
          /\ UNCHANGED pchan
    /\ UNCHANGED <<pread, psilent, pwriter>>

\* the caller drops the stream before its end
DropStream ==
    /\ pstream.st = "open"
    /\ pstream' = [pstream EXCEPT !.st = "dropped"]
    /\ pchan' = <<>>
    /\ UNCHANGED <<pread, psilent, pwriter>>

\* write_records: rows are buffered, a full buffer is flushed as a whole
write_records(n) ==
    /\ pwriter.st = "open" /\ pwriter.given + n <= PMaxWrites
    /\ LET buf == pwriter.buf + n
           w == [pwriter EXCEPT !.given = @ + n]
       IN pwriter' = IF buf >= PFlush
                     THEN [w EXCEPT !.buf = 0, !.rows = @ + buf, !.count = @ + buf]
                     ELSE [w EXCEPT !.buf = buf]
    /\ UNCHANGED <<pread, pchan, pstream, psilent>>

\* Mutant: only a full buffer is written.
Remaining_FullOnly == IF pwriter.buf >= PFlush THEN pwriter.buf ELSE 0

Remaining == pwriter.buf

\* finalize: the rest of the buffer, then the file is closed
FinalizeWriter ==
    /\ pwriter.st = "open"
    /\ pwriter' = [pwriter EXCEPT !.st = "closed", !.buf = 0,
                                  !.rows = @ + Remaining, !.count = @ + Remaining]
    /\ UNCHANGED <<pread, pchan, pstream, psilent>>

\* a write fails: the error is returned and the buffer is kept
WriteFails ==
    /\ pwriter.st = "open" /\ pwriter.buf > 0
    /\ pwriter' = [pwriter EXCEPT !.st = "failed"]
    /\ UNCHANGED <<pread, pchan, pstream, psilent>>

PNext ==
    \/ ReadBatch \/ DecodeFails \/ ConvertBatchFails \/ ReadEnd \/ Poll \/ DropStream
    \/ \E n \in 1 .. PFlush : write_records(n)
    \/ FinalizeWriter \/ WriteFails

-----------------------------------------------------------------------------
\* Type correctness of both sides of the channel and of the writer.
ParquetTypeOK ==
    /\ pread.next \in 1 .. PBatches + 1
    /\ Len(pchan) <= PCapacity
    /\ pstream.st \in {"open", "ended", "error", "dropped"}
    /\ pwriter.buf \in 0 .. PFlush + PFlush /\ pwriter.rows <= PMaxWrites

\* What the caller receives is a gapless prefix of the file, whatever the
\* reader's lead over the caller (parquet_streaming.rs 211-333).
StreamsPrefix == \A k \in DOMAIN pstream.got : pstream.got[k] = k

\* A stream that ends without an error delivered the whole file, except when a
\* row batch could not be converted: that error is only logged
\* (parquet_streaming.rs 279: the `?` inside the closure).
StreamEndsWhole ==
    (pstream.st = "ended" /\ ~psilent) => Len(pstream.got) = PBatches

\* A closed file holds every row it was given and finalize reports that number
\* (parquet_streaming.rs 458-497, 567-598).
WriterWhole ==
    /\ pwriter.st = "closed" => pwriter.rows = pwriter.given
    /\ pwriter.count = pwriter.rows

\* The reader's thread outlives its stream: it ends too once the caller has the
\* end, an error, or has dropped the stream, however full the channel was
\* (parquet_streaming.rs 281-287).
ReaderLingers == ReceiverGone /\ pread.st = "running"
=============================================================================
