-------------------------------- MODULE WAL --------------------------------
(***************************************************************************)
(* The write-ahead log of src/src/storage/wal.rs: numbered segment files,  *)
(* each a 16 byte header followed by records (8 byte entry header + data). *)
(*                                                                         *)
(* Bytes are abstracted to counts: a cell [k, d, n] stands for the n bytes *)
(* of the record of append number k (payload d) that reached its file, so  *)
(* a cell with n < RecSize(d) is a torn record.  The checksum is taken to  *)
(* be collision free.  What read_file makes of bytes that are not aligned  *)
(* with a record (the header of one record spliced with the bytes of the   *)
(* next) depends on those bytes, and is a choice between the outcomes the  *)
(* code has for them.                                                      *)
(***************************************************************************)
EXTENDS Integers, Sequences, FiniteSets, SequencesExt

CONSTANTS
    Data,             \* record payloads
    Length,           \* Length[d]: bytes of payload d
    MaxFileSize,      \* WAL::max_file_size
    HeaderSize,       \* HEADER_SIZE, 16
    EntryHeaderSize,  \* EntryHeader::encode, 8
    MagicSize,        \* the magic number at the start of the header, 4
    MaxRecordSize,    \* MAX_RECORD_SIZE, 16 MiB
    LengthModulus,    \* three length bytes are stored: 2^24
    Faults,           \* the faults the environment may inject
    MaxAppends,       \* bound: append calls
    MaxFiles          \* bound: highest segment number

AllFaults == {"crash", "torn_append", "failed_append",
              "torn_rotate", "failed_rotate"}

ASSUME ConstantsAssumption ==
    /\ Length \in [Data -> Nat]
    /\ HeaderSize \in Nat /\ EntryHeaderSize \in Nat \ {0}
    /\ MaxFileSize \in Nat /\ MaxFileSize > HeaderSize
    /\ MagicSize \in 0..HeaderSize
    /\ MaxRecordSize \in Nat /\ LengthModulus \in Nat \ {0}
    /\ Faults \subseteq AllFaults
    /\ MaxAppends \in Nat /\ MaxFiles \in Nat

VARIABLES
    files,            \* the segment files on disk, NoFile where there is none
    up,               \* a process has the WAL open
    current_file_no,
    current_file,     \* the segment the open file handle points at
    current_size,
    appends,          \* number of append calls so far: the serial of a record
    acked,            \* serials whose append returned Ok
    last_position,    \* the position the last successful append returned
    strayed           \* history: a record was acknowledged through a handle
                      \* that a failed rotation left on an older segment

vars == <<files, up, current_file_no, current_file, current_size,
          appends, acked, last_position, strayed>>

NoFile == [hdr |-> 0, body |-> <<>>, exists |-> FALSE, len |-> 0]

FileNos == 0..MaxFiles

RecSize(d) == EntryHeaderSize + Length[d]

\* A segment whose header has h of its HeaderSize bytes, and no record.
NewFile(h) == [hdr |-> h, body |-> <<>>, exists |-> TRUE, len |-> h]

\* n bytes of the record of append k reach the end of the file.
WriteBytes(f, k, d, n) ==
    [hdr |-> f.hdr, exists |-> f.exists, len |-> f.len + n,
     body |-> IF n = 0 THEN f.body ELSE Append(f.body, [k |-> k, d |-> d, n |-> n])]

Existing == {i \in FileNos : files[i].exists}

-----------------------------------------------------------------------------
(* Reading: the outcomes of read_file and of read_entries.                 *)

OkRead(s) == [ok |-> TRUE, entries |-> s]
ErrRead == [ok |-> FALSE, entries |-> <<>>]

\* The length field keeps three bytes (EntryHeader::encode and ::decode).
StoredLength(d) == Length[d] % LengthModulus

\* The record is complete and decodes to itself.
Intact(c) == c.n = RecSize(c.d) /\ StoredLength(c.d) = Length[c.d]

Serials(body) == [i \in DOMAIN body |-> body[i].k]

\* The bytes of the records of a segment from record i >= 1 on.
BytesFrom(body, i) ==
    LET sum[j \in 0..Len(body)] == IF j < i THEN 0 ELSE sum[j - 1] + body[j].n
    IN  sum[Len(body)]

\* The loop of read_file over the records of one segment.
ReadRecords(body) ==
    IF \A i \in DOMAIN body : Intact(body[i])
    THEN {OkRead(Serials(body))}
    ELSE LET t == CHOOSE i \in DOMAIN body :
                    ~Intact(body[i]) /\ \A j \in 1..(i-1) : Intact(body[j])
             good  == OkRead(Serials(SubSeq(body, 1, t - 1)))
             avail == BytesFrom(body, t)
         IN  CASE avail < EntryHeaderSize -> {good}
               [] avail >= EntryHeaderSize /\ body[t].n < EntryHeaderSize ->
                     {good, ErrRead}
               [] OTHER ->
                     IF avail < EntryHeaderSize + StoredLength(body[t].d)
                     THEN {good}      \* "Truncated entry, stop here"
                     ELSE {ErrRead}   \* CRC mismatch

ReadFile(f) ==
    CASE f.len < HeaderSize -> {OkRead(<<>>)}
      [] f.len >= HeaderSize /\ f.hdr < HeaderSize ->
            IF f.hdr < MagicSize THEN {ErrRead} ELSE {ErrRead, OkRead(<<>>)}
      [] OTHER -> ReadRecords(f.body)

\* The first failing segment ends read_entries; otherwise the segments'
\* records are concatenated in the order of the segment numbers.
ThenRead(r, s) == IF r.ok /\ s.ok THEN OkRead(r.entries \o s.entries) ELSE ErrRead

\* What there is behind the results of the segments below i once it was read.
Joined(results, i) ==
    IF ~files[i].exists THEN results
    ELSE {ThenRead(r, s) : r \in results, s \in ReadFile(files[i])}

ReadEntries ==
    LET below[i \in 0..(MaxFiles + 1)] ==
            IF i = 0 THEN {OkRead(<<>>)} ELSE Joined(below[i - 1], i - 1)
    IN  below[MaxFiles + 1]

-----------------------------------------------------------------------------

Init ==
    /\ files = [i \in FileNos |-> NoFile]
    /\ up = FALSE
    /\ current_file_no = 0 /\ current_file = 0 /\ current_size = 0
    /\ appends = 0 /\ acked = {} /\ last_position = -1 /\ strayed = FALSE

LatestFileNo == IF Existing = {} THEN 0 ELSE CHOOSE i \in Existing : \A j \in Existing : j <= i

\* Mutant: the latest segment is opened with its contents truncated.
Open_Truncates ==
    /\ ~up
    /\ files' = [files EXCEPT ![LatestFileNo] = NewFile(HeaderSize)]
    /\ current_file_no' = LatestFileNo /\ current_file' = LatestFileNo
    /\ current_size' = HeaderSize
    /\ up' = TRUE
    /\ UNCHANGED <<appends, acked, last_position, strayed>>

\* WAL::open: the highest numbered segment, at its end, or a fresh segment 0.
Open ==
    /\ ~up
    /\ LET no == LatestFileNo IN
        /\ files' = IF files[no].exists THEN files
                    ELSE [files EXCEPT ![no] = NewFile(HeaderSize)]
        /\ current_file_no' = no /\ current_file' = no
        /\ current_size' = files'[no].len
    /\ up' = TRUE
    /\ UNCHANGED <<appends, acked, last_position, strayed>>

\* The process dies in WAL::open after h bytes of the new segment's header.
OpenTorn ==
    /\ ~up /\ "torn_rotate" \in Faults
    /\ Existing = {}
    /\ \E h \in 0..HeaderSize : files' = [files EXCEPT ![0] = NewFile(h)]
    /\ UNCHANGED <<up, current_file_no, current_file, current_size,
                   appends, acked, last_position, strayed>>

Accepts(d) == up /\ appends < MaxAppends /\ Length[d] <= MaxRecordSize

NeedsRotate(d) == current_size + RecSize(d) > MaxFileSize

\* Mutant: the position does not say which segment it is in.
Position_InSegment(no, size) == size

Position(no, size) == no * MaxFileSize + size

\* Where the record d goes: segment `no` through the handle `file`, after
\* `size` bytes by the WAL's count.  WAL::rotate makes it the next segment.
Stay == [no |-> current_file_no, file |-> current_file, size |-> current_size,
         disk |-> files]

\* Mutant: the size of the new segment is counted from before its header.
Rotate_SizeUnderflow == LET no == current_file_no + 1 IN
          [no |-> no, file |-> no, size |-> HeaderSize - MaxFileSize,
           disk |-> [files EXCEPT ![no] = NewFile(HeaderSize)]]

Rotate == LET no == current_file_no + 1 IN
          [no |-> no, file |-> no, size |-> HeaderSize,
           disk |-> [files EXCEPT ![no] = NewFile(HeaderSize)]]

Target(d) == IF NeedsRotate(d) THEN Rotate ELSE Stay

HasRoom(d) == NeedsRotate(d) => current_file_no < MaxFiles

\* WAL::append, with WAL::rotate when the record does not fit: Ok(position).
AppendRecord(d) ==
    /\ Accepts(d) /\ HasRoom(d)
    /\ LET t == Target(d) IN
        /\ files' = [t.disk EXCEPT ![t.file] = WriteBytes(@, appends + 1, d, RecSize(d))]
        /\ current_file_no' = t.no /\ current_file' = t.file
        /\ current_size' = t.size + RecSize(d)
        /\ last_position' = Position(t.no, t.size)
        /\ strayed' = (strayed \/ t.file # t.no)
    /\ appends' = appends + 1
    /\ acked' = acked \cup {appends + 1}
    /\ up' = up

\* WAL::append with data larger than MAX_RECORD_SIZE: Err, nothing written.
RejectRecord(d) ==
    /\ up /\ appends < MaxAppends
    /\ Length[d] > MaxRecordSize
    /\ appends' = appends + 1
    /\ UNCHANGED <<files, up, current_file_no, current_file, current_size,
                   acked, last_position, strayed>>

\* The write of a record stops after n bytes: the process dies, or write_all
\* or sync_all returns an error and append returns before it counts the bytes.
TornAppend(d) ==
    /\ Accepts(d) /\ HasRoom(d)
    /\ LET t == Target(d) IN
        /\ \E n \in 0..RecSize(d) :
             files' = [t.disk EXCEPT ![t.file] = WriteBytes(@, appends + 1, d, n)]
        /\ current_file_no' = t.no /\ current_file' = t.file /\ current_size' = t.size
    /\ appends' = appends + 1
    /\ \/ "torn_append" \in Faults /\ up' = FALSE
       \/ "failed_append" \in Faults /\ up' = TRUE
    /\ UNCHANGED <<acked, last_position, strayed>>

\* WAL::rotate stops after h bytes of the new segment's header (or before the
\* file exists): the process dies, or rotate returns an error after it
\* incremented current_file_no and before it replaced current_file and
\* current_size.
TornRotate(d) ==
    /\ Accepts(d) /\ NeedsRotate(d) /\ current_file_no < MaxFiles
    /\ \/ files' = files
       \/ \E h \in 0..HeaderSize :
            files' = [files EXCEPT ![current_file_no + 1] = NewFile(h)]
    /\ appends' = appends + 1
    /\ \/ "torn_rotate" \in Faults /\ up' = FALSE
       \/ "failed_rotate" \in Faults /\ up' = TRUE
    /\ current_file_no' = current_file_no + 1
    /\ UNCHANGED <<current_file, current_size, acked, last_position, strayed>>

\* The process ends between two calls (WAL::close is one more sync_all).
Crash ==
    /\ up /\ "crash" \in Faults
    /\ up' = FALSE
    /\ UNCHANGED <<files, current_file_no, current_file, current_size,
                   appends, acked, last_position, strayed>>

Next ==
    \/ Open \/ OpenTorn \/ Crash
    \/ \E d \in Data : AppendRecord(d) \/ RejectRecord(d) \/ TornAppend(d) \/ TornRotate(d)

Spec == Init /\ [][Next]_vars

-----------------------------------------------------------------------------
(* Properties                                                              *)

Cell == [k : Nat, d : Data, n : Nat]
File == [hdr : Nat, body : Seq(Cell), exists : BOOLEAN, len : Nat]

\* Every variable keeps its type (the fields of struct WAL, wal.rs:104-118).
TypeOK ==
    /\ files \in [FileNos -> File]
    /\ up \in BOOLEAN
    /\ current_file_no \in FileNos /\ current_file \in FileNos
    /\ current_size \in Nat
    /\ appends \in Nat /\ acked \subseteq 1..appends
    /\ last_position \in Int /\ last_position >= -1
    /\ strayed \in BOOLEAN

\* Nothing was appended behind damage: a torn record is the last of its
\* segment, a segment with a partial header has no record, and no record is
\* so long that its length field wraps.
Undamaged ==
    \A i \in Existing :
        /\ files[i].hdr < HeaderSize => files[i].body = <<>>
        /\ \A j \in 1..(Len(files[i].body) - 1) : Intact(files[i].body[j])
        /\ \A j \in DOMAIN files[i].body :
              StoredLength(files[i].body[j].d) = Length[files[i].body[j].d]

\* Crash recovery: as long as nothing was appended behind damage, read_entries
\* succeeds and returns every acknowledged record, whatever crash, torn write
\* or rotation came before (wal.rs:268-347).
AckedRecovered ==
    Undamaged =>
        \A r \in ReadEntries : r.ok /\ acked \subseteq Range(r.entries)

\* Whatever the faults, the records read_entries returns are records that
\* were written, each at most once and in the order of the append calls: a
\* checksum failure or a truncated entry never yields a record out of order
\* (wal.rs:268-347).
EntriesInAppendOrder ==
    \A r \in ReadEntries :
        \A i, j \in DOMAIN r.entries : i < j => r.entries[i] < r.entries[j]

\* The log, through crashes, failed writes and reopening (WAL::open, append,
\* replay): what was acknowledged is replayed, and in the order it was appended.
LogRecovered == AckedRecovered /\ EntriesInAppendOrder

\* The positions append returns grow from one successful append to the next,
\* across rotations that succeed or fail, torn writes, crashes and reopening
\* (wal.rs:200), so that a position identifies its record, until one was
\* returned for a record that went to another segment than the position says.
PositionsIncrease ==
    [][~strayed /\ last_position' # last_position => last_position' > last_position]_vars

\* "Provides crash recovery through append-only logs with checksum
\* verification" (wal.rs:3): no acknowledged record is ever unreadable.
AckedAlwaysRecovered ==
    \A r \in ReadEntries : r.ok /\ acked \subseteq Range(r.entries)

=============================================================================
