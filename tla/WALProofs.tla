----------------------------- MODULE WALProofs -----------------------------
(***************************************************************************)
(* Proofs about the write-ahead log, for every segment size, header size,  *)
(* payload set and number of segments.                                     *)
(*                                                                         *)
(* TypeOK is not inductive by itself: WAL::open takes the highest segment  *)
(* number, and that there is one is a fact about the set of segments which *)
(* the invariant carries along (LatestExists).  The positions need more:   *)
(* the last position lies before the place the open handle is at, and      *)
(* before all later segments (Located, LastBefore), also while a rotation  *)
(* that failed has left the handle behind current_file_no.                 *)
(*                                                                         *)
(* Recovery rests on what the segments hold (LogInv): records sorted by    *)
(* append within and across segments, no record behind the open handle,    *)
(* every acknowledged one whole in some segment.  What read_entries makes  *)
(* of such segments follows along the segment numbers (ReadEntriesSteps,   *)
(* FromBelow, WholeBelow).                                                 *)
(***************************************************************************)
EXTENDS WAL, WellFoundedInduction, TLAPS

IsLatest(i) == i \in Existing /\ \A j \in Existing : j <= i

LatestExists == Existing # {} => \E i \in FileNos : IsLatest(i)

\* The open handle is a segment on disk, and none is numbered beyond
\* current_file_no.
HandleExists ==
    up => /\ current_file \in Existing
          /\ \A j \in Existing : j <= current_file_no

TypeInv == TypeOK /\ LatestExists /\ HandleExists

\* The positions append can still return lie behind the last one, when the
\* current segment is i and holds `size` bytes.
LastBefore(i, size) ==
    /\ last_position < Position(i, size)
    /\ last_position < Position(i + 1, 0)

Located ==
    /\ up => /\ current_file <= current_file_no
             /\ current_size <= files[current_file].len
             /\ LastBefore(current_file, current_size)
    /\ ~up => /\ Existing = {} => last_position = -1
              /\ \A i \in FileNos : IsLatest(i) => LastBefore(i, files[i].len)

-----------------------------------------------------------------------------

\* A segment number that exists and is not below any other one is the one
\* WAL::open finds (wal.rs:126-139).
LEMMA LatestIs ==
    ASSUME TypeInv
    PROVE  /\ LatestFileNo \in FileNos
           /\ Existing = {} => LatestFileNo = 0
           /\ Existing # {} => IsLatest(LatestFileNo)
<1>1. CASE Existing = {}
  BY <1>1, ConstantsAssumption DEF LatestFileNo, FileNos
<1>2. CASE Existing # {}
  <2>1. PICK i \in FileNos : IsLatest(i)
    BY <1>2 DEF TypeInv, LatestExists
  <2>2. \E k \in Existing : \A j \in Existing : j <= k
    BY <2>1 DEF IsLatest
  <2>. QED  BY <1>2, <2>2 DEF LatestFileNo, IsLatest, Existing
<1>. QED  BY <1>1, <1>2

\* Writing bytes of a record to a segment keeps the segment's type, its header
\* and its existence, and makes it n bytes longer (wal.rs:211-214).
LEMMA WriteBytesType ==
    ASSUME NEW f \in File, NEW k \in Nat, NEW d \in Data, NEW n \in Nat
    PROVE  /\ WriteBytes(f, k, d, n) \in File
           /\ f.exists => WriteBytes(f, k, d, n).exists
<1>1. [k |-> k, d |-> d, n |-> n] \in Cell
  BY DEF Cell
<1>2. (IF n = 0 THEN f.body ELSE Append(f.body, [k |-> k, d |-> d, n |-> n])) \in Seq(Cell)
  BY <1>1 DEF File
<1>. QED  BY <1>2 DEF WriteBytes, File

LEMMA NewFileType ==
    ASSUME NEW h \in Nat
    PROVE  NewFile(h) \in File /\ NewFile(h).exists /\ NewFile(h).len = h
BY DEF NewFile, File

\* The sizes are numbers.
LEMMA SizesType ==
    /\ HeaderSize \in Nat /\ MaxFileSize \in Nat /\ MaxFiles \in Nat /\ MaxFileSize > 0
    /\ \A d \in Data : RecSize(d) \in Nat /\ RecSize(d) > 0
BY ConstantsAssumption DEF RecSize

\* A segment that is created or written to leaves a latest segment: the
\* number that is added is not below the numbers there are, or is one of them.
LEMMA LatestKept ==
    ASSUME TypeInv, NEW i \in FileNos, NEW f \in File, f.exists,
           Existing = {} \/ i \in Existing \/ (\A j \in Existing : j <= i),
           files' = [files EXCEPT ![i] = f]
    PROVE  /\ files' \in [FileNos -> File]
           /\ Existing' = Existing \cup {i}
           /\ LatestExists'
<1>1. files \in [FileNos -> File]
  BY DEF TypeInv, TypeOK, File
<1>2. files' \in [FileNos -> File]
  BY <1>1
<1>3. Existing' = Existing \cup {i}
  BY <1>1 DEF Existing
<1>4. LatestExists'
  <2>1. CASE Existing = {}
    BY <2>1, <1>3, ConstantsAssumption DEF LatestExists, IsLatest, FileNos
  <2>2. CASE Existing # {}
    <3>1. PICK m \in FileNos : IsLatest(m)
      BY <2>2 DEF TypeInv, LatestExists
    <3>2. CASE i \in Existing
      BY <3>1, <3>2, <1>3 DEF LatestExists, IsLatest
    <3>3. CASE \A j \in Existing : j <= i
      BY <3>1, <3>3, <1>3, ConstantsAssumption DEF LatestExists, IsLatest, FileNos
    <3>. QED  BY <2>2, <3>2, <3>3
  <2>. QED  BY <2>1, <2>2
<1>. QED  BY <1>2, <1>3, <1>4

-----------------------------------------------------------------------------

LEMMA TypeInvInit == Init => TypeInv
<1>. SUFFICES ASSUME Init PROVE TypeInv
  OBVIOUS
<1>1. NoFile \in File /\ ~NoFile.exists
  <2>1. <<>> \in Seq(Cell)
    OBVIOUS
  <2>. QED  BY <2>1 DEF NoFile, File
<1>2. files \in [FileNos -> File]
  BY <1>1 DEF Init
<1>3. Existing = {}
  BY <1>1 DEF Init, Existing
<1>4. TypeOK
  <2>1. 0 \in FileNos
    BY ConstantsAssumption DEF FileNos
  <2>2. up \in BOOLEAN
    BY DEF Init
  <2>3. last_position \in Int /\ last_position >= -1
    BY DEF Init
  <2>4. acked \subseteq 1..appends /\ appends \in Nat /\ current_size \in Nat
        /\ strayed \in BOOLEAN
    BY DEF Init
  <2>. QED  BY <1>2, <2>1, <2>2, <2>3, <2>4 DEF Init, TypeOK
<1>. QED  BY <1>3, <1>4 DEF TypeInv, LatestExists, HandleExists, Init

\* Writing n bytes of record d where append puts it: the disk stays well
\* formed, and the handle that append used exists and is numbered within
\* bounds (wal.rs:193-215, 237-266).
LEMMA TargetWritten ==
    ASSUME TypeInv, up, NEW d \in Data, HasRoom(d), NEW n \in Nat,
           files' = [Target(d).disk EXCEPT
                       ![Target(d).file] = WriteBytes(@, appends + 1, d, n)]
    PROVE  /\ files' \in [FileNos -> File]
           /\ Target(d).no \in FileNos /\ Target(d).file \in FileNos
           /\ Target(d).size \in Nat
           /\ Target(d).file \in Existing'
           /\ Existing' = Existing \cup {Target(d).file}
           /\ \A j \in Existing' : j <= Target(d).no
           /\ files'[Target(d).file].len =
                (IF NeedsRotate(d) THEN HeaderSize ELSE files[current_file].len) + n
           /\ LatestExists'
<1>. USE SizesType
<1>1. appends + 1 \in Nat
  BY DEF TypeInv, TypeOK
<1>2. CASE NeedsRotate(d)
  <2>. DEFINE no == current_file_no + 1
              f  == WriteBytes(NewFile(HeaderSize), appends + 1, d, n)
  <2>1. Target(d).no = no /\ Target(d).file = no /\ Target(d).size = HeaderSize
        /\ Target(d).disk = [files EXCEPT ![no] = NewFile(HeaderSize)]
    BY <1>2 DEF Target, Rotate
  <2>2. no \in FileNos
    BY <1>2 DEF HasRoom, TypeInv, TypeOK, FileNos
  <2>3. f \in File /\ f.exists /\ f.len = HeaderSize + n
    <3>1. NewFile(HeaderSize) \in File /\ NewFile(HeaderSize).exists
          /\ NewFile(HeaderSize).len = HeaderSize
      BY NewFileType
    <3>2. f \in File
      BY <1>1, <3>1, WriteBytesType
    <3>3. f.exists
      BY <1>1, <3>1, WriteBytesType
    <3>4. f.len = NewFile(HeaderSize).len + n
      BY DEF WriteBytes
    <3>. QED  BY <3>1, <3>2, <3>3, <3>4
  <2>4. files' = [files EXCEPT ![no] = f]
    BY <2>1, <2>2 DEF TypeInv, TypeOK
  <2>5. \A j \in Existing : j <= current_file_no /\ j \in FileNos
    BY DEF TypeInv, HandleExists, Existing
  <2>6. \A j \in Existing : j <= no
    BY <2>5, <2>2 DEF FileNos, TypeInv, TypeOK
  <2>. HIDE DEF f
  <2>7. /\ files' \in [FileNos -> File] /\ Existing' = Existing \cup {no} /\ LatestExists'
    BY <2>2, <2>3, <2>4, <2>6, LatestKept
  <2>8. files'[no].len = HeaderSize + n
    BY <2>2, <2>3, <2>4 DEF TypeInv, TypeOK
  <2>. QED  BY <1>2, <2>1, <2>2, <2>6, <2>7, <2>8 DEF FileNos
<1>3. CASE ~NeedsRotate(d)
  <2>. DEFINE f == WriteBytes(files[current_file], appends + 1, d, n)
  <2>1. Target(d).no = current_file_no /\ Target(d).file = current_file
        /\ Target(d).size = current_size /\ Target(d).disk = files
    BY <1>3 DEF Target, Stay
  <2>2. current_file \in FileNos /\ files[current_file] \in File /\ files[current_file].exists
    BY DEF TypeInv, TypeOK, HandleExists, Existing
  <2>3. f \in File /\ f.exists /\ f.len = files[current_file].len + n
    <3>1. f \in File
      BY <1>1, <2>2, WriteBytesType
    <3>2. f.exists
      BY <1>1, <2>2, WriteBytesType
    <3>3. f.len = files[current_file].len + n
      BY DEF WriteBytes
    <3>. QED  BY <3>1, <3>2, <3>3
  <2>4. files' = [files EXCEPT ![current_file] = f]
    BY <2>1
  <2>5. current_file \in Existing
    BY DEF TypeInv, HandleExists
  <2>. HIDE DEF f
  <2>6. /\ files' \in [FileNos -> File] /\ Existing' = Existing \cup {current_file} /\ LatestExists'
    BY <2>2, <2>3, <2>4, <2>5, LatestKept
  <2>7. files'[current_file].len = files[current_file].len + n
    BY <2>2, <2>3, <2>4 DEF TypeInv, TypeOK
  <2>. QED  BY <1>3, <2>1, <2>2, <2>5, <2>6, <2>7 DEF TypeInv, TypeOK, HandleExists
<1>. QED  BY <1>2, <1>3

\* A new segment numbered beyond the current one, with any header.
LEMMA SegmentCreated ==
    ASSUME TypeInv, NEW i \in FileNos, NEW h \in Nat,
           \A j \in Existing : j <= i,
           files' = [files EXCEPT ![i] = NewFile(h)]
    PROVE  /\ files' \in [FileNos -> File] /\ LatestExists'
           /\ Existing' = Existing \cup {i}
           /\ files'[i].len = h
<1>1. NewFile(h) \in File /\ NewFile(h).exists /\ NewFile(h).len = h
  BY NewFileType
<1>2. files' \in [FileNos -> File] /\ LatestExists' /\ Existing' = Existing \cup {i}
  BY <1>1, LatestKept
<1>. QED  BY <1>1, <1>2 DEF TypeInv, TypeOK

\* Every step keeps the types and the latest segment.
LEMMA TypeInvNext == TypeInv /\ [Next]_vars => TypeInv'
<1>. SUFFICES ASSUME TypeInv, [Next]_vars PROVE TypeInv'
  OBVIOUS
<1>. USE SizesType
<1>0. ASSUME NEW S, S \subseteq 1..appends, appends \in Nat
      PROVE  S \subseteq 1..(appends + 1) /\ S \cup {appends + 1} \subseteq 1..(appends + 1)
  BY <1>0
<1>1. CASE Open
  <2>1. LatestFileNo \in FileNos
    BY LatestIs
  <2>2. CASE files[LatestFileNo].exists
    <3>1. LatestFileNo \in Existing
      BY <2>1, <2>2 DEF Existing
    <3>2. IsLatest(LatestFileNo)
      BY <3>1, LatestIs
    <3>3. files' = files /\ current_file' = LatestFileNo /\ current_file_no' = LatestFileNo
      BY <1>1, <2>2 DEF Open
    <3>4. files[LatestFileNo].len \in Nat
      BY <2>1 DEF TypeInv, TypeOK, File
    <3>. QED  BY <1>1, <2>1, <3>1, <3>2, <3>3, <3>4
         DEF Open, TypeInv, TypeOK, LatestExists, HandleExists, IsLatest, Existing
  <2>3. CASE ~files[LatestFileNo].exists
    <3>1. Existing = {}
      BY <2>1, <2>3, LatestIs DEF IsLatest, Existing
    <3>2. files' = [files EXCEPT ![LatestFileNo] = NewFile(HeaderSize)]
      BY <1>1, <2>3 DEF Open
    <3>3. \A j \in Existing : j <= LatestFileNo
      BY <3>1
    <3>4. /\ files' \in [FileNos -> File] /\ LatestExists'
          /\ Existing' = {LatestFileNo} /\ files'[LatestFileNo].len \in Nat
      BY <2>1, <3>1, <3>2, <3>3, SegmentCreated
    <3>5. current_file' = LatestFileNo /\ current_file_no' = LatestFileNo
          /\ current_size' = files'[LatestFileNo].len
      BY <1>1 DEF Open
    <3>6. LatestFileNo <= LatestFileNo
      BY <2>1 DEF FileNos
    <3>. QED  BY <1>1, <2>1, <3>4, <3>5, <3>6 DEF Open, TypeInv, TypeOK, HandleExists
  <2>. QED  BY <2>2, <2>3
<1>2. CASE OpenTorn
  <2>1. PICK h \in 0..HeaderSize : files' = [files EXCEPT ![0] = NewFile(h)]
    BY <1>2 DEF OpenTorn
  <2>2. Existing = {} /\ 0 \in FileNos /\ h \in Nat
    BY <1>2 DEF OpenTorn, FileNos
  <2>3. files' \in [FileNos -> File] /\ LatestExists'
    BY <2>1, <2>2, SegmentCreated
  <2>. QED  BY <1>2, <2>3 DEF OpenTorn, TypeInv, TypeOK, HandleExists
<1>3. CASE Crash
  BY <1>3 DEF Crash, TypeInv, TypeOK, LatestExists, HandleExists, IsLatest, Existing
<1>4. ASSUME NEW d \in Data, AppendRecord(d) PROVE TypeInv'
  <2>. DEFINE t == Target(d)
  <2>1. up /\ HasRoom(d)
    BY <1>4 DEF AppendRecord, Accepts
  <2>2. RecSize(d) \in Nat
    OBVIOUS
  <2>3. files' = [t.disk EXCEPT ![t.file] = WriteBytes(@, appends + 1, d, RecSize(d))]
        /\ current_file_no' = t.no /\ current_file' = t.file
        /\ current_size' = t.size + RecSize(d)
        /\ last_position' = Position(t.no, t.size)
    BY <1>4 DEF AppendRecord
  <2>4. /\ files' \in [FileNos -> File] /\ t.no \in FileNos /\ t.file \in FileNos
        /\ t.size \in Nat /\ t.file \in Existing' /\ \A j \in Existing' : j <= t.no
        /\ LatestExists'
    BY <2>1, <2>2, <2>3, TargetWritten
  <2>. HIDE DEF t
  <2>5. last_position' \in Int /\ last_position' >= -1
    <3>1. t.no \in Nat /\ t.no * MaxFileSize \in Nat
      BY <2>4 DEF FileNos
    <3>. QED  BY <2>3, <2>4, <3>1 DEF Position
  <2>6. appends' \in Nat /\ acked' \subseteq 1..appends'
    BY <1>0, <1>4 DEF AppendRecord, TypeInv, TypeOK
  <2>7. up' \in BOOLEAN /\ strayed' \in BOOLEAN
    BY <1>4 DEF AppendRecord, TypeInv, TypeOK
  <2>8. current_size' \in Nat
    BY <2>2, <2>3, <2>4
  <2>. QED  BY <2>3, <2>4, <2>5, <2>6, <2>7, <2>8 DEF TypeInv, TypeOK, HandleExists
<1>5. ASSUME NEW d \in Data, RejectRecord(d) PROVE TypeInv'
  <2>1. appends' \in Nat /\ acked' \subseteq 1..appends'
    BY <1>0, <1>5 DEF RejectRecord, TypeInv, TypeOK
  <2>. QED  BY <1>5, <2>1
       DEF RejectRecord, TypeInv, TypeOK, LatestExists, HandleExists, IsLatest, Existing
<1>6. ASSUME NEW d \in Data, TornAppend(d) PROVE TypeInv'
  <2>. DEFINE t == Target(d)
  <2>1. up /\ HasRoom(d)
    BY <1>6 DEF TornAppend, Accepts
  <2>2. PICK n \in 0..RecSize(d) :
            files' = [t.disk EXCEPT ![t.file] = WriteBytes(@, appends + 1, d, n)]
    BY <1>6 DEF TornAppend
  <2>3. n \in Nat
    OBVIOUS
  <2>4. /\ files' \in [FileNos -> File] /\ t.no \in FileNos /\ t.file \in FileNos
        /\ t.size \in Nat /\ t.file \in Existing' /\ \A j \in Existing' : j <= t.no
        /\ LatestExists'
    BY <2>1, <2>2, <2>3, TargetWritten
  <2>5. appends' \in Nat /\ acked' \subseteq 1..appends'
    BY <1>0, <1>6 DEF TornAppend, TypeInv, TypeOK
  <2>6. /\ current_file_no' = t.no /\ current_file' = t.file /\ current_size' = t.size
        /\ up' \in BOOLEAN /\ last_position' = last_position /\ strayed' = strayed
    BY <1>6 DEF TornAppend
  <2>. HIDE DEF t
  <2>. QED  BY <2>4, <2>5, <2>6 DEF TypeInv, TypeOK, HandleExists
<1>7. ASSUME NEW d \in Data, TornRotate(d) PROVE TypeInv'
  <2>. DEFINE no == current_file_no + 1
  <2>1. no \in FileNos /\ current_file_no \in FileNos /\ up
    BY <1>7 DEF TornRotate, Accepts, TypeInv, TypeOK, FileNos
  <2>2. \A j \in Existing : j <= no
    BY <2>1 DEF TypeInv, HandleExists, Existing, FileNos
  <2>3. /\ files' \in [FileNos -> File] /\ LatestExists'
        /\ Existing \subseteq Existing' /\ Existing' \subseteq Existing \cup {no}
    <3>1. CASE files' = files
      BY <3>1 DEF TypeInv, TypeOK, LatestExists, IsLatest, Existing
    <3>2. CASE \E h \in 0..HeaderSize : files' = [files EXCEPT ![no] = NewFile(h)]
      <4>1. PICK h \in 0..HeaderSize : files' = [files EXCEPT ![no] = NewFile(h)]
        BY <3>2
      <4>2. h \in Nat
        OBVIOUS
      <4>. QED  BY <2>1, <2>2, <4>1, <4>2, SegmentCreated
    <3>. QED  BY <1>7, <3>1, <3>2 DEF TornRotate
  <2>4. appends' \in Nat /\ acked' \subseteq 1..appends'
    BY <1>0, <1>7 DEF TornRotate, TypeInv, TypeOK
  <2>5. /\ current_file_no' = no /\ current_file' = current_file
        /\ current_size' = current_size /\ up' \in BOOLEAN /\ last_position' = last_position
        /\ strayed' = strayed
    BY <1>7 DEF TornRotate
  <2>6. no <= no
    BY <2>1 DEF FileNos
  <2>7. HandleExists'
    BY <2>1, <2>2, <2>3, <2>5, <2>6 DEF TypeInv, HandleExists
  <2>. QED  BY <2>1, <2>3, <2>4, <2>5, <2>7 DEF TypeInv, TypeOK
<1>8. CASE UNCHANGED vars
  BY <1>8 DEF vars, TypeInv, TypeOK, LatestExists, HandleExists, IsLatest, Existing
<1>. QED  BY <1>1, <1>2, <1>3, <1>4, <1>5, <1>6, <1>7, <1>8 DEF Next

\* The log keeps its types through every fault and every reopening.
THEOREM TypeCorrect == Spec => []TypeOK
<1>1. TypeInv => TypeOK
  BY DEF TypeInv
<1>. QED  BY <1>1, TypeInvInit, TypeInvNext, PTL DEF Spec
-----------------------------------------------------------------------------
(* Positions                                                               *)

PosInv == TypeInv /\ (~strayed => Located)

\* Positions are numbers, later segments lie behind earlier ones, and within
\* a segment positions grow with the size (wal.rs:200).
LEMMA PositionFacts ==
    ASSUME NEW i \in Nat, NEW j \in Nat, NEW m \in Nat, NEW n \in Nat
    PROVE  /\ Position(i, m) \in Nat
           /\ m < n => Position(i, m) < Position(i, n)
           /\ Position(i + 1, 0) = Position(i, MaxFileSize)
           /\ i < j => Position(i + 1, 0) <= Position(j, m)
<1>. USE SizesType
<1>1. \A k \in Nat : k * MaxFileSize \in Nat
  OBVIOUS
<1>2. (i + 1) * MaxFileSize = i * MaxFileSize + MaxFileSize
  OBVIOUS
<1>3. ASSUME i < j PROVE (i + 1) * MaxFileSize <= j * MaxFileSize
  <2>1. PICK k \in Nat : j = (i + 1) + k
    <3>1. j - (i + 1) \in Nat /\ j = (i + 1) + (j - (i + 1))
      BY <1>3
    <3>. QED  BY <3>1
  <2>2. j * MaxFileSize = (i + 1) * MaxFileSize + k * MaxFileSize
    BY <2>1
  <2>. QED  BY <1>1, <2>2
<1>. QED  BY <1>1, <1>2, <1>3 DEF Position

LEMMA LocatedInit == Init => Located
<1>. SUFFICES ASSUME Init PROVE Located
  OBVIOUS
<1>1. \A i \in FileNos : ~files[i].exists
  BY DEF Init, NoFile
<1>2. Existing = {}
  BY <1>1 DEF Existing
<1>. QED  BY <1>2 DEF Init, Located, IsLatest

\* A position that lies before a place in segment i, and before the segments
\* after it, lies before every place that is not before that one.
LEMMA StaysBehind ==
    ASSUME NEW last \in Int, NEW i \in Nat, NEW size \in Nat, NEW j \in Nat, NEW len \in Nat,
           i <= j, i = j => size <= len,
           last < Position(i, size), last < Position(i + 1, 0)
    PROVE  last < Position(j, len) /\ last < Position(j + 1, 0)
<1>. USE SizesType
<1>1. CASE i = j
  <2>1. Position(i, size) <= Position(i, len)
    BY <1>1 DEF Position
  <2>2. Position(i, size) \in Nat /\ Position(i, len) \in Nat
    BY PositionFacts
  <2>. QED  BY <1>1, <2>1, <2>2
<1>2. CASE i < j
  <2>1. i + 1 \in Nat /\ j + 1 \in Nat /\ i < j + 1 /\ 0 \in Nat
    BY <1>2
  <2>2. Position(i + 1, 0) <= Position(j, len) /\ Position(i + 1, 0) <= Position(j + 1, 0)
    BY <1>2, <2>1, PositionFacts
  <2>3. /\ Position(i + 1, 0) \in Nat /\ Position(j + 1, 0) \in Nat
        /\ Position(j, len) \in Nat
    BY <2>1, PositionFacts
  <2>. QED  BY <2>2, <2>3
<1>. QED  BY <1>1, <1>2

\* The place of the next record lies behind the last position, whatever
\* segment its position will name.
LEMMA TargetBehind ==
    ASSUME PosInv, ~strayed, up, NEW d \in Data, HasRoom(d)
    PROVE  /\ Target(d).file \in Nat /\ Target(d).file <= Target(d).no
           /\ LastBefore(Target(d).file, Target(d).size)
           /\ last_position < Position(Target(d).no, Target(d).size)
           /\ Target(d).size < MaxFileSize
<1>. USE SizesType
<1>0. /\ current_file_no \in Nat /\ current_file \in Nat /\ current_size \in Nat
      /\ last_position \in Int /\ current_file <= current_file_no
      /\ LastBefore(current_file, current_size)
  BY DEF PosInv, Located, TypeInv, TypeOK, FileNos
<1>1. CASE NeedsRotate(d)
  <2>. DEFINE no == current_file_no + 1
  <2>1. Target(d).no = no /\ Target(d).file = no /\ Target(d).size = HeaderSize
    BY <1>1 DEF Target, Rotate
  <2>2. no \in Nat /\ no + 1 \in Nat /\ current_file < no /\ current_file < no + 1 /\ 0 \in Nat
    BY <1>0
  <2>. HIDE DEF no
  <2>3. /\ Position(current_file + 1, 0) <= Position(no, HeaderSize)
        /\ Position(current_file + 1, 0) <= Position(no + 1, 0)
    BY <1>0, <2>2, PositionFacts
  <2>4. /\ Position(current_file + 1, 0) \in Nat /\ Position(no, HeaderSize) \in Nat
        /\ Position(no + 1, 0) \in Nat
    <3>1. current_file + 1 \in Nat
      BY <1>0
    <3>. QED  BY <2>2, <3>1, PositionFacts
  <2>5. last_position < Position(no, HeaderSize) /\ last_position < Position(no + 1, 0)
    BY <1>0, <2>3, <2>4 DEF LastBefore
  <2>6. HeaderSize < MaxFileSize /\ no <= no
    BY <2>2, ConstantsAssumption
  <2>. QED  BY <2>1, <2>2, <2>5, <2>6 DEF LastBefore
<1>2. CASE ~NeedsRotate(d)
  <2>1. Target(d).no = current_file_no /\ Target(d).file = current_file
        /\ Target(d).size = current_size
    BY <1>2 DEF Target, Stay
  <2>2. current_size < MaxFileSize
    BY <1>0, <1>2 DEF NeedsRotate
  <2>3. last_position < Position(current_file_no, current_size)
    <3>1. CASE current_file = current_file_no
      BY <1>0, <3>1 DEF LastBefore
    <3>2. CASE current_file < current_file_no
      <4>1. Position(current_file + 1, 0) <= Position(current_file_no, current_size)
        BY <1>0, <3>2, PositionFacts
      <4>2. Position(current_file + 1, 0) \in Nat /\ Position(current_file_no, current_size) \in Nat
        <5>1. current_file + 1 \in Nat /\ 0 \in Nat
          BY <1>0
        <5>. QED  BY <1>0, <5>1, PositionFacts
      <4>. QED  BY <1>0, <4>1, <4>2 DEF LastBefore
    <3>. QED  BY <1>0, <3>1, <3>2
  <2>. QED  BY <1>0, <2>1, <2>2, <2>3
<1>. QED  BY <1>1, <1>2

\* As long as no record strayed, every step keeps the last position before
\* the place of the handle, or before the end of the latest segment.
LEMMA LocatedNext ==
    ASSUME PosInv, ~strayed, [Next]_vars
    PROVE  /\ ~strayed' => Located'
           /\ last_position' # last_position => last_position' > last_position
<1>. USE SizesType
<1>0. TypeInv' /\ TypeInv /\ Located
  BY TypeInvNext DEF PosInv
<1>len. \A j \in FileNos : files'[j].len \in Nat
  <2>1. files' \in [FileNos -> File]
    BY <1>0 DEF TypeInv, TypeOK
  <2>. QED  BY <2>1 DEF File
<1>1. CASE Open
  <2>. DEFINE no == LatestFileNo
  <2>1. no \in FileNos /\ no \in Nat /\ no <= no
    BY <1>0, LatestIs DEF FileNos
  <2>2. /\ current_file' = no /\ current_file_no' = no /\ current_size' = files'[no].len
        /\ last_position' = last_position /\ up' = TRUE /\ ~up
    BY <1>1 DEF Open
  <2>3. files'[no].len <= files'[no].len
    BY <1>len, <2>1
  <2>4. CASE files[no].exists
    <3>1. files' = files /\ no \in Existing
      BY <1>1, <2>1, <2>4 DEF Open, Existing
    <3>2. IsLatest(no)
      BY <1>0, <3>1, LatestIs
    <3>3. LastBefore(no, files[no].len)
      BY <1>0, <2>1, <2>2, <3>2 DEF Located
    <3>. HIDE DEF no
    <3>. QED  BY <2>1, <2>2, <2>3, <3>1, <3>3 DEF Located, LastBefore
  <2>5. CASE ~files[no].exists
    <3>1. Existing = {} /\ files' = [files EXCEPT ![no] = NewFile(HeaderSize)]
      BY <1>0, <1>1, <2>1, <2>5, LatestIs DEF Open, IsLatest, Existing
    <3>2. files'[no].len = HeaderSize
      <4>1. \A j \in Existing : j <= no
        BY <3>1
      <4>. QED  BY <1>0, <2>1, <3>1, <4>1, SegmentCreated
    <3>3. last_position = -1
      BY <1>0, <2>2, <3>1 DEF Located
    <3>4. Position(no, HeaderSize) \in Nat /\ Position(no + 1, 0) \in Nat
      BY <2>1, PositionFacts
    <3>. HIDE DEF no
    <3>. QED  BY <2>1, <2>2, <2>3, <3>2, <3>3, <3>4 DEF Located, LastBefore
  <2>. QED  BY <2>4, <2>5
<1>2. CASE OpenTorn
  <2>1. PICK h \in 0..HeaderSize : files' = [files EXCEPT ![0] = NewFile(h)]
    BY <1>2 DEF OpenTorn
  <2>2. Existing = {} /\ 0 \in FileNos /\ h \in Nat /\ ~up
    BY <1>2 DEF OpenTorn, FileNos
  <2>3. Existing' = {0} /\ files'[0].len = h
    BY <1>0, <2>1, <2>2, SegmentCreated
  <2>4. last_position' = -1 /\ last_position = -1 /\ ~up'
    BY <1>0, <1>2, <2>2 DEF OpenTorn, Located
  <2>5. Position(0, h) \in Nat /\ Position(0 + 1, 0) \in Nat
    BY <2>2, PositionFacts
  <2>. QED  BY <2>3, <2>4, <2>5 DEF Located, LastBefore, IsLatest
\* A step that leaves the last position alone keeps Located when the handle
\* of the step before it, or of its new segment, is still behind it.
<1>3. ASSUME NEW i \in Existing', NEW size \in Nat,
             size <= files'[i].len, LastBefore(i, size),
             last_position' = last_position,
             up' => i = current_file' /\ size = current_size' /\ current_file' <= current_file_no'
      PROVE  Located'
  <2>1. LastBefore(i, size)'
    BY <1>3 DEF LastBefore
  <2>2. ASSUME NEW j \in FileNos, IsLatest(j)' PROVE LastBefore(j, files[j].len)'
    <3>1. i \in Nat /\ j \in Nat /\ i <= j
      BY <1>3, <2>2 DEF FileNos, Existing, IsLatest
    <3>2. last_position \in Int /\ files'[j].len \in Nat
      BY <1>0, <1>len, <2>2 DEF TypeInv, TypeOK
    <3>. DEFINE len == files'[j].len
    <3>3. last_position < Position(j, len) /\ last_position < Position(j + 1, 0)
      <4>1. i = j => size <= len
        BY <1>3
      <4>2. last_position < Position(i, size) /\ last_position < Position(i + 1, 0) /\ size \in Nat
        BY <1>3 DEF LastBefore
      <4>. HIDE DEF len
      <4>. QED  BY <3>1, <3>2, <4>1, <4>2, StaysBehind, Zenon DEF len
    <3>. QED  BY <1>3, <3>3 DEF LastBefore
  <2>3. Existing' # {}
    BY <1>3
  <2>. QED  BY <1>3, <2>1, <2>2, <2>3 DEF Located
<1>4. CASE Crash
  <2>1. up /\ ~up' /\ files' = files /\ last_position' = last_position
    BY <1>4 DEF Crash
  <2>2. /\ current_file \in Existing' /\ current_size \in Nat
        /\ current_size <= files'[current_file].len /\ LastBefore(current_file, current_size)
    BY <1>0, <2>1 DEF TypeInv, TypeOK, HandleExists, Existing, Located
  <2>. QED  BY <1>3, <2>1, <2>2
<1>5. ASSUME NEW d \in Data, AppendRecord(d)
      PROVE  (~strayed' => Located') /\ last_position' > last_position
  <2>. DEFINE t == Target(d)
              m == RecSize(d)
  <2>1. up /\ HasRoom(d) /\ m \in Nat /\ m > 0
    BY <1>5 DEF AppendRecord, Accepts
  <2>2. files' = [t.disk EXCEPT ![t.file] = WriteBytes(@, appends + 1, d, m)]
        /\ current_file_no' = t.no /\ current_file' = t.file
        /\ current_size' = t.size + m /\ up'
        /\ last_position' = Position(t.no, t.size)
        /\ (~strayed' => t.file = t.no)
    BY <1>5, <2>1 DEF AppendRecord
  <2>3. /\ t.file \in Nat /\ LastBefore(t.file, t.size) /\ t.size < MaxFileSize
        /\ last_position < Position(t.no, t.size)
    BY <2>1, TargetBehind
  <2>4. /\ t.no \in Nat /\ t.size \in Nat
        /\ files'[t.file].len = (IF NeedsRotate(d) THEN HeaderSize ELSE files[current_file].len) + m
    BY <1>0, <2>1, <2>2, TargetWritten DEF FileNos
  <2>5. t.size <= IF NeedsRotate(d) THEN HeaderSize ELSE files[current_file].len
    BY <1>0, <2>1 DEF Target, Rotate, Stay, Located
  <2>6. files[current_file].len \in Nat
    BY <1>0 DEF TypeInv, TypeOK, File
  <2>. HIDE DEF t, m
  <2>7. t.size + m <= files'[t.file].len
    BY <2>1, <2>4, <2>5, <2>6
  <2>8. ASSUME t.file = t.no PROVE Located'
    <3>1. t.size < t.size + m /\ t.size + m \in Nat /\ t.no <= t.no
      BY <2>1, <2>4
    <3>2. /\ Position(t.no, t.size) < Position(t.no, t.size + m)
          /\ Position(t.no, t.size) < Position(t.no + 1, 0)
      BY <2>3, <2>4, <3>1, PositionFacts
    <3>. QED  BY <2>2, <2>7, <2>8, <3>1, <3>2 DEF Located, LastBefore
  <2>9. last_position' > last_position
    <3>1. Position(t.no, t.size) \in Nat /\ last_position \in Int
      BY <1>0, <2>4, PositionFacts DEF TypeInv, TypeOK
    <3>. QED  BY <2>2, <2>3, <3>1
  <2>. QED  BY <2>2, <2>8, <2>9
<1>6. ASSUME NEW d \in Data, RejectRecord(d)
      PROVE  Located' /\ last_position' = last_position
  BY <1>0, <1>6 DEF RejectRecord, Located, LastBefore
<1>7. ASSUME NEW d \in Data, TornAppend(d)
      PROVE  Located' /\ last_position' = last_position
  <2>. DEFINE t == Target(d)
  <2>1. up /\ HasRoom(d)
    BY <1>7 DEF TornAppend, Accepts
  <2>2. PICK n \in 0..RecSize(d) :
            files' = [t.disk EXCEPT ![t.file] = WriteBytes(@, appends + 1, d, n)]
    BY <1>7 DEF TornAppend
  <2>3. n \in Nat
    OBVIOUS
  <2>4. /\ t.size \in Nat /\ t.file \in Existing'
        /\ files'[t.file].len = (IF NeedsRotate(d) THEN HeaderSize ELSE files[current_file].len) + n
    BY <1>0, <2>1, <2>2, <2>3, TargetWritten
  <2>5. t.size <= IF NeedsRotate(d) THEN HeaderSize ELSE files[current_file].len
    BY <1>0, <2>1 DEF Target, Rotate, Stay, Located
  <2>6. files[current_file].len \in Nat
    BY <1>0 DEF TypeInv, TypeOK, File
  <2>7. t.file <= t.no /\ LastBefore(t.file, t.size)
    BY <2>1, TargetBehind
  <2>8. /\ current_file_no' = t.no /\ current_file' = t.file /\ current_size' = t.size
        /\ last_position' = last_position
    BY <1>7 DEF TornAppend
  <2>. HIDE DEF t
  <2>9. t.size <= files'[t.file].len
    BY <2>3, <2>4, <2>5, <2>6
  <2>. QED  BY <1>3, <2>4, <2>7, <2>8, <2>9
<1>8. ASSUME NEW d \in Data, TornRotate(d)
      PROVE  Located' /\ last_position' = last_position
  <2>. DEFINE no == current_file_no + 1
  <2>1. /\ up /\ current_file_no' = no /\ current_file' = current_file
        /\ current_size' = current_size /\ last_position' = last_position
        /\ no \in FileNos
    BY <1>0, <1>8 DEF TornRotate, Accepts, TypeInv, TypeOK, FileNos
  <2>2. /\ current_file \in Nat /\ current_file <= current_file_no /\ current_file_no \in Nat
        /\ current_file \in Existing /\ current_size \in Nat
        /\ current_size <= files[current_file].len /\ LastBefore(current_file, current_size)
    BY <1>0, <2>1 DEF TypeInv, TypeOK, FileNos, HandleExists, Located
  <2>3. current_file # no /\ current_file <= no
    BY <2>2
  <2>4. files'[current_file] = files[current_file] /\ current_file \in Existing'
    <3>1. files' = files \/ \E h \in 0..HeaderSize : files' = [files EXCEPT ![no] = NewFile(h)]
      BY <1>8 DEF TornRotate
    <3>2. files'[current_file] = files[current_file]
      BY <1>0, <2>1, <2>2, <2>3, <3>1 DEF TypeInv, TypeOK, Existing
    <3>. QED  BY <2>2, <3>2 DEF Existing
  <2>. QED  BY <1>3, <2>1, <2>2, <2>3, <2>4
<1>9. CASE UNCHANGED vars
  BY <1>0, <1>9 DEF vars, Located, LastBefore, IsLatest, Existing
<1>10. ASSUME Open \/ OpenTorn \/ Crash PROVE last_position' = last_position
  BY <1>10 DEF Open, OpenTorn, Crash
<1>. QED  BY <1>1, <1>2, <1>4, <1>5, <1>6, <1>7, <1>8, <1>9, <1>10 DEF Next, vars

\* strayed is never taken back.
LEMMA StrayedStays == strayed /\ [Next]_vars => strayed'
BY DEF Next, Open, OpenTorn, Crash, AppendRecord, RejectRecord, TornAppend, TornRotate, vars

\* Until a record strayed to an older segment, each append returns a larger
\* position than any before, across rotations that succeed or fail, torn
\* writes, crashes and reopening (wal.rs:200).
THEOREM PositionsGrow == Spec => PositionsIncrease
<1>1. Init => PosInv
  BY TypeInvInit, LocatedInit DEF PosInv
<1>2. PosInv /\ [Next]_vars => PosInv'
  <2>1. PosInv /\ [Next]_vars => TypeInv'
    BY TypeInvNext DEF PosInv
  <2>. QED  BY <2>1, LocatedNext, StrayedStays DEF PosInv
<1>3. PosInv /\ [Next]_vars
        => [~strayed /\ last_position' # last_position => last_position' > last_position]_vars
  BY LocatedNext
<1>. QED  BY <1>1, <1>2, <1>3, PTL DEF Spec, PositionsIncrease
-----------------------------------------------------------------------------
(* Recovery                                                                *)

\* The records of the segments F carry the serials of appends up to m, in the
\* order of the appends within a segment and from one segment to the next.
Sorted(F, m) ==
    /\ \A i \in FileNos : \A a \in DOMAIN F[i].body : F[i].body[a].k \in 1..m
    /\ \A i \in FileNos : \A a, b \in DOMAIN F[i].body :
            a < b => F[i].body[a].k < F[i].body[b].k
    /\ \A i, j \in FileNos : i < j =>
            \A a \in DOMAIN F[i].body, b \in DOMAIN F[j].body :
                F[i].body[a].k < F[j].body[b].k

\* The lengths of the segments F: no more of a record or a header than there
\* is of it, and nothing where there is no segment.
Measured(F) ==
    \A i \in FileNos :
        /\ F[i].hdr <= HeaderSize /\ F[i].hdr <= F[i].len
        /\ F[i].body = <<>> => F[i].len = F[i].hdr
        /\ ~F[i].exists => F[i].body = <<>>
        /\ \A a \in DOMAIN F[i].body : F[i].body[a].n <= RecSize(F[i].body[a].d)

\* The whole record of append k is in segment i.
HasWhole(F, i, k) ==
    /\ F[i].exists
    /\ \E a \in DOMAIN F[i].body :
            F[i].body[a].k = k /\ F[i].body[a].n = RecSize(F[i].body[a].d)

Holds(F, S) == \A k \in S : \E i \in FileNos : HasWhole(F, i, k)

\* No record lies in a segment after c.
EmptyAbove(F, c) == \A j \in FileNos : j > c => F[j].body = <<>>

\* G is F with segment i made anew, or with n bytes of record k written to it.
Made(F, G, i, h) == G = [F EXCEPT ![i] = NewFile(h)]
Wrote(F, G, i, k, d, n) == G = [F EXCEPT ![i] = WriteBytes(@, k, d, n)]

LogInv ==
    /\ TypeInv
    /\ Sorted(files, appends) /\ Measured(files) /\ Holds(files, acked)
    /\ up => EmptyAbove(files, current_file)

\* The segment g is f with one more record c, or without it if n is 0.
Longer(f, g, c, n) ==
    /\ g.hdr = f.hdr /\ g.len = f.len + n /\ g.exists = f.exists
    /\ n = 0 => g.body = f.body
    /\ n # 0 => g.body # <<>>
    /\ DOMAIN f.body \subseteq DOMAIN g.body
    /\ \A a \in DOMAIN f.body : g.body[a] = f.body[a]
    /\ \A a \in DOMAIN g.body \ DOMAIN f.body :
          n # 0 /\ g.body[a] = c /\ \A b \in DOMAIN f.body : b < a
    /\ \A a, b \in DOMAIN g.body \ DOMAIN f.body : a = b
    /\ n # 0 => \E a \in DOMAIN g.body : g.body[a] = c

\* What the records of a segment are after bytes of one more were written to it.
LEMMA CellsOf ==
    ASSUME NEW f \in File, NEW k \in Nat, NEW d \in Data, NEW n \in Nat
    PROVE  Longer(f, WriteBytes(f, k, d, n), [k |-> k, d |-> d, n |-> n], n)
<1>. DEFINE c == [k |-> k, d |-> d, n |-> n]
            g == WriteBytes(f, k, d, n)
<1>1. f.body \in Seq(Cell) /\ c \in Cell
  BY DEF File, Cell
<1>2. g.hdr = f.hdr /\ g.len = f.len + n /\ g.exists = f.exists
      /\ g.body = IF n = 0 THEN f.body ELSE Append(f.body, c)
  BY DEF WriteBytes
<1>. HIDE DEF c, g
<1>3. ASSUME n = 0 PROVE Longer(f, g, c, n)
  BY <1>2, <1>3 DEF Longer
<1>4. ASSUME n # 0 PROVE Longer(f, g, c, n)
  <2>1. g.body = Append(f.body, c)
    BY <1>2, <1>4
  <2>2. /\ DOMAIN f.body = 1..Len(f.body) /\ DOMAIN g.body = 1..(Len(f.body) + 1)
        /\ Len(f.body) \in Nat /\ \A a \in 1..Len(f.body) : g.body[a] = f.body[a]
        /\ g.body[Len(f.body) + 1] = c /\ g.body # <<>>
    BY <1>1, <2>1
  <2>3. \A a \in DOMAIN g.body \ DOMAIN f.body : a = Len(f.body) + 1
    BY <2>2
  <2>4. Len(f.body) + 1 \in DOMAIN g.body
    BY <2>2
  <2>. QED  BY <1>2, <1>4, <2>2, <2>3, <2>4 DEF Longer
<1>5. Longer(f, g, c, n)
  BY <1>3, <1>4
<1>. QED  BY <1>5 DEF c, g

\* A header written to a segment without records changes no record.
LEMMA SegmentMade ==
    ASSUME NEW F \in [FileNos -> File], NEW m \in Nat, NEW S, NEW i \in FileNos,
           NEW h \in 0..HeaderSize,
           Sorted(F, m), Measured(F), Holds(F, S), F[i].body = <<>>,
           NEW G, Made(F, G, i, h)
    PROVE  /\ G \in [FileNos -> File] /\ G[i].exists
           /\ Sorted(G, m) /\ Measured(G) /\ Holds(G, S)
           /\ \A c \in Nat : EmptyAbove(F, c) => EmptyAbove(G, c)
<1>1. h \in Nat /\ NewFile(h) \in File
  <2>1. h \in Nat
    BY SizesType
  <2>. QED  BY <2>1, NewFileType
<1>2. G \in [FileNos -> File] /\ G[i] = NewFile(h) /\ \A j \in FileNos : j # i => G[j] = F[j]
  BY <1>1 DEF Made
<1>3. \A j \in FileNos : G[j].body = F[j].body
  <2>1. NewFile(h).body = <<>>
    BY DEF NewFile
  <2>. QED  BY <1>2, <2>1
<1>4. Sorted(G, m)
  BY <1>3 DEF Sorted
<1>5. Measured(G)
  <2>1. NewFile(h).hdr = h /\ NewFile(h).len = h /\ NewFile(h).exists
        /\ NewFile(h).body = <<>> /\ DOMAIN NewFile(h).body = {}
    BY DEF NewFile
  <2>2. h <= HeaderSize /\ h <= h
    BY SizesType
  <2>. QED  BY <1>2, <2>1, <2>2 DEF Measured
<1>6. Holds(G, S)
  <2>1. ASSUME NEW k \in S PROVE \E j \in FileNos : HasWhole(G, j, k)
    <3>1. PICK j \in FileNos : HasWhole(F, j, k)
      BY DEF Holds
    <3>2. j # i
      BY <3>1 DEF HasWhole
    <3>. QED  BY <1>2, <3>1, <3>2 DEF HasWhole
  <2>. QED  BY <2>1 DEF Holds
<1>7. \A c \in Nat : EmptyAbove(F, c) => EmptyAbove(G, c)
  BY <1>3 DEF EmptyAbove
<1>8. G[i].exists
  BY <1>2 DEF NewFile
<1>. QED  BY <1>2, <1>4, <1>5, <1>6, <1>7, <1>8

\* n bytes of the record of the next append, written to a segment behind which
\* there is no record: the record is the last one of all.
LEMMA RecordWritten ==
    ASSUME NEW F \in [FileNos -> File], NEW m \in Nat, NEW S, NEW i \in FileNos,
           NEW d \in Data, NEW n \in 0..RecSize(d),
           Sorted(F, m), Measured(F), Holds(F, S), F[i].exists, EmptyAbove(F, i),
           NEW G, Wrote(F, G, i, m + 1, d, n)
    PROVE  /\ G \in [FileNos -> File]
           /\ Sorted(G, m + 1) /\ Measured(G) /\ EmptyAbove(G, i)
           /\ Holds(G, S) /\ (n = RecSize(d) => Holds(G, S \cup {m + 1}))
<1>. DEFINE g == WriteBytes(F[i], m + 1, d, n)
            c == [k |-> m + 1, d |-> d, n |-> n]
<1>1. n \in Nat /\ m + 1 \in Nat /\ F[i] \in File /\ RecSize(d) \in Nat /\ RecSize(d) > 0
  BY SizesType
<1>2. g \in File
  BY <1>1, WriteBytesType
<1>3. /\ g.hdr = F[i].hdr /\ g.len = F[i].len + n /\ g.exists
      /\ n = 0 => g.body = F[i].body
      /\ n # 0 => g.body # <<>>
      /\ DOMAIN F[i].body \subseteq DOMAIN g.body
      /\ \A a \in DOMAIN F[i].body : g.body[a] = F[i].body[a]
      /\ \A a \in DOMAIN g.body \ DOMAIN F[i].body :
            /\ n # 0 /\ g.body[a] = c
            /\ \A b \in DOMAIN F[i].body : b < a
      /\ \A a, b \in DOMAIN g.body \ DOMAIN F[i].body : a = b
      /\ n # 0 => \E a \in DOMAIN g.body : g.body[a] = c
  <2>1. Longer(F[i], g, c, n)
    BY <1>1, CellsOf
  <2>. HIDE DEF g, c
  <2>. QED  BY <2>1 DEF Longer
<1>4. G = [F EXCEPT ![i] = g]
  BY DEF Wrote
<1>. HIDE DEF g
<1>5a. G \in [FileNos -> File] /\ G[i] = g /\ \A j \in FileNos : j # i => G[j] = F[j]
  BY <1>2, <1>4
<1>5. \A a \in DOMAIN g.body : a \in Nat
  BY <1>2 DEF File
<1>6. \A a \in DOMAIN g.body :
          \/ a \in DOMAIN F[i].body /\ g.body[a] = F[i].body[a]
          \/ g.body[a].k = m + 1 /\ g.body[a].n = n /\ g.body[a].d = d
  BY <1>3
<1>7. Sorted(G, m + 1)
  <2>1. ASSUME NEW j \in FileNos, NEW a \in DOMAIN G[j].body
        PROVE  G[j].body[a].k \in 1..(m + 1)
    BY <1>5a, <1>6 DEF Sorted
  <2>2. ASSUME NEW j \in FileNos, NEW a \in DOMAIN G[j].body, NEW b \in DOMAIN G[j].body, a < b
        PROVE  G[j].body[a].k < G[j].body[b].k
    <3>1. CASE j # i
      BY <1>5a, <2>2, <3>1 DEF Sorted
    <3>2. CASE j = i /\ b \in DOMAIN F[i].body
      <4>1. a \in DOMAIN F[i].body
        <5>1. ~(b < a)
          BY <1>5a, <1>5, <2>2, <3>2
        <5>. QED  BY <1>3, <1>5a, <3>2, <5>1
      <4>. QED  BY <1>3, <1>5a, <2>2, <3>2, <4>1 DEF Sorted
    <3>3. CASE j = i /\ b \notin DOMAIN F[i].body
      <4>1. g.body[b].k = m + 1
        BY <1>3, <1>5a, <3>3
      <4>2. a \in DOMAIN F[i].body
        <5>1. a # b
          BY <1>5a, <1>5, <2>2, <3>3
        <5>. QED  BY <1>3, <1>5a, <3>3, <5>1
      <4>3. g.body[a].k \in 1..m
        BY <1>3, <4>2 DEF Sorted
      <4>. QED  BY <1>5a, <3>3, <4>1, <4>3
    <3>. QED  BY <3>1, <3>2, <3>3
  <2>3. ASSUME NEW j \in FileNos, NEW l \in FileNos, j < l,
               NEW a \in DOMAIN G[j].body, NEW b \in DOMAIN G[l].body
        PROVE  G[j].body[a].k < G[l].body[b].k
    <3>1. l <= i
      <4>1. l > i => F[l].body = <<>> /\ l # i
        BY <1>1 DEF EmptyAbove, FileNos
      <4>2. ~(l > i)
        BY <1>5a, <2>3, <4>1
      <4>. QED  BY <4>2 DEF FileNos
    <3>2. j # i /\ G[j] = F[j]
      BY <1>5a, <2>3, <3>1 DEF FileNos
    <3>3. F[j].body[a].k \in 1..m
      BY <2>3, <3>2 DEF Sorted
    <3>4. CASE l # i \/ b \in DOMAIN F[i].body
      BY <1>3, <1>5a, <2>3, <3>2, <3>4 DEF Sorted
    <3>5. CASE l = i /\ b \notin DOMAIN F[i].body
      <4>1. g.body[b].k = m + 1
        BY <1>3, <1>5a, <2>3, <3>5
      <4>. QED  BY <1>5a, <3>2, <3>3, <3>5, <4>1
    <3>. QED  BY <3>4, <3>5
  <2>. QED  BY <2>1, <2>2, <2>3 DEF Sorted
<1>8. Measured(G)
  <2>1. ASSUME NEW j \in FileNos, j # i
        PROVE  /\ G[j].hdr <= HeaderSize /\ G[j].hdr <= G[j].len
               /\ G[j].body = <<>> => G[j].len = G[j].hdr
               /\ ~G[j].exists => G[j].body = <<>>
               /\ \A a \in DOMAIN G[j].body : G[j].body[a].n <= RecSize(G[j].body[a].d)
    BY <1>5a, <2>1 DEF Measured
  <2>2. /\ g.hdr <= HeaderSize /\ g.hdr <= g.len
        /\ g.body = <<>> => g.len = g.hdr
    <3>1. /\ F[i].hdr <= HeaderSize /\ F[i].hdr <= F[i].len
          /\ F[i].body = <<>> => F[i].len = F[i].hdr
      BY DEF Measured
    <3>2. F[i].hdr \in Nat /\ F[i].len \in Nat
      BY <1>1 DEF File
    <3>. QED  BY <1>1, <1>3, <3>1, <3>2
  <2>3. \A a \in DOMAIN g.body : g.body[a].n <= RecSize(g.body[a].d)
    <3>1. n <= RecSize(d)
      BY <1>1
    <3>. QED  BY <1>6, <3>1 DEF Measured
  <2>. QED  BY <1>3, <1>5a, <2>1, <2>2, <2>3 DEF Measured
<1>9. EmptyAbove(G, i)
  <2>1. \A j \in FileNos : j > i => j # i
    BY DEF FileNos
  <2>. QED  BY <1>5a, <2>1 DEF EmptyAbove
<1>10. Holds(G, S)
  <2>1. ASSUME NEW k \in S PROVE \E j \in FileNos : HasWhole(G, j, k)
    <3>1. PICK j \in FileNos : HasWhole(F, j, k)
      BY DEF Holds
    <3>2. CASE j # i
      BY <1>5a, <3>1, <3>2 DEF HasWhole
    <3>3. CASE j = i
      BY <1>3, <1>5a, <3>1, <3>3 DEF HasWhole
    <3>. QED  BY <3>2, <3>3
  <2>. QED  BY <2>1 DEF Holds
<1>11. ASSUME n = RecSize(d) PROVE Holds(G, S \cup {m + 1})
  <2>1. HasWhole(G, i, m + 1)
    <3>1. n # 0
      BY <1>1, <1>11
    <3>2. PICK a \in DOMAIN g.body : g.body[a] = [k |-> m + 1, d |-> d, n |-> n]
      BY <1>3, <3>1
    <3>. QED  BY <1>3, <1>5a, <1>11, <3>2 DEF HasWhole
  <2>. QED  BY <1>10, <2>1 DEF Holds
<1>. QED  BY <1>5a, <1>7, <1>8, <1>9, <1>10, <1>11

LEMMA LogInvInit == Init => LogInv
<1>. SUFFICES ASSUME Init PROVE LogInv
  OBVIOUS
<1>1. \A i \in FileNos : files[i] = NoFile
  BY DEF Init
<1>2. /\ NoFile.hdr = 0 /\ NoFile.len = 0 /\ NoFile.body = <<>>
      /\ DOMAIN NoFile.body = {}
  BY DEF NoFile
<1>3. Sorted(files, appends)
  BY <1>1, <1>2 DEF Sorted
<1>4. Measured(files)
  BY <1>1, <1>2, SizesType DEF Measured
<1>5. Holds(files, acked) /\ ~up
  BY DEF Holds, Init
<1>. QED  BY <1>3, <1>4, <1>5, TypeInvInit DEF LogInv

\* A segment numbered beyond the ones there are holds no record.
LEMMA BeyondEmpty ==
    ASSUME TypeInv, Measured(files), NEW c \in Nat, \A j \in Existing : j <= c
    PROVE  EmptyAbove(files, c)
<1>1. ASSUME NEW j \in FileNos, j > c PROVE files[j].body = <<>>
  <2>1. j \notin Existing
    BY <1>1 DEF FileNos
  <2>. QED  BY <2>1 DEF Measured, Existing
<1>. QED  BY <1>1 DEF EmptyAbove

\* The segments a record is written to: sound before the write, and with no
\* record behind the handle (wal.rs:193-215, 237-266).
LEMMA TargetSound ==
    ASSUME LogInv, up, NEW d \in Data, HasRoom(d)
    PROVE  LET t == Target(d) IN
           /\ t.disk \in [FileNos -> File] /\ t.file \in FileNos /\ t.disk[t.file].exists
           /\ Sorted(t.disk, appends) /\ Measured(t.disk) /\ Holds(t.disk, acked)
           /\ EmptyAbove(t.disk, t.file)
<1>. USE SizesType
<1>1. /\ files \in [FileNos -> File] /\ current_file \in FileNos /\ files[current_file].exists
      /\ current_file_no \in Nat /\ appends \in Nat /\ \A j \in Existing : j <= current_file_no
      /\ Sorted(files, appends) /\ Measured(files) /\ Holds(files, acked)
      /\ EmptyAbove(files, current_file)
  BY DEF LogInv, TypeInv, TypeOK, HandleExists, Existing, FileNos
<1>2. CASE NeedsRotate(d)
  <2>. DEFINE no == current_file_no + 1
              disk == Target(d).disk
  <2>1. Target(d).file = no /\ disk = [files EXCEPT ![no] = NewFile(HeaderSize)]
    BY <1>2 DEF Target, Rotate
  <2>2. no \in FileNos /\ no \in Nat
    BY <1>1, <1>2 DEF HasRoom, FileNos
  <2>3. EmptyAbove(files, current_file_no)
    BY <1>1, BeyondEmpty DEF LogInv
  <2>4. files[no].body = <<>> /\ EmptyAbove(files, no)
    BY <1>1, <2>2, <2>3 DEF EmptyAbove, FileNos
  <2>5. HeaderSize \in 0..HeaderSize
    OBVIOUS
  <2>. HIDE DEF no, disk
  <2>6. Made(files, disk, no, HeaderSize)
    BY <2>1 DEF Made
  <2>7. /\ disk \in [FileNos -> File] /\ disk[no].exists
        /\ Sorted(disk, appends) /\ Measured(disk) /\ Holds(disk, acked)
        /\ EmptyAbove(disk, no)
    BY <1>1, <2>2, <2>4, <2>5, <2>6, SegmentMade
  <2>. QED  BY <2>1, <2>2, <2>7 DEF disk
<1>3. CASE ~NeedsRotate(d)
  BY <1>1, <1>3 DEF Target, Stay
<1>. QED  BY <1>2, <1>3

\* Every step keeps the records sorted and the acknowledged ones whole.
LEMMA LogInvNext == LogInv /\ [Next]_vars => LogInv'
<1>. SUFFICES ASSUME LogInv, [Next]_vars PROVE LogInv'
  OBVIOUS
<1>. USE SizesType
<1>0. TypeInv' /\ TypeInv
  BY TypeInvNext DEF LogInv
<1>a. /\ files \in [FileNos -> File] /\ appends \in Nat
      /\ Sorted(files, appends) /\ Measured(files) /\ Holds(files, acked)
  BY DEF LogInv, TypeInv, TypeOK
\* A step that changes no segment, or makes one without records.
<1>b. Sorted(files, appends + 1)
  BY <1>a DEF Sorted
<1>c. ASSUME NEW m \in Nat, Sorted(files, m), appends' = m, acked' = acked,
             NEW i \in FileNos, NEW h \in 0..HeaderSize, files[i].body = <<>>,
             files' = [files EXCEPT ![i] = NewFile(h)],
             up' => current_file' \in Nat /\ EmptyAbove(files, current_file')
      PROVE  LogInv'
  <2>1. Made(files, files', i, h)
    BY <1>c DEF Made
  <2>2. /\ Sorted(files', m) /\ Measured(files') /\ Holds(files', acked)
        /\ \A c \in Nat : EmptyAbove(files, c) => EmptyAbove(files', c)
    BY <1>a, <1>c, <2>1, SegmentMade
  <2>3. Sorted(files', appends') /\ Measured(files') /\ Holds(files', acked')
        /\ (up' => EmptyAbove(files', current_file'))
    BY <1>c, <2>2
  <2>. QED  BY <1>0, <2>3 DEF LogInv
<1>d. ASSUME files' = files, Sorted(files, appends'), acked' = acked,
             up' => EmptyAbove(files, current_file')
      PROVE  LogInv'
  BY <1>0, <1>a, <1>d DEF LogInv
<1>1. CASE Open
  <2>. DEFINE no == LatestFileNo
  <2>1. /\ no \in FileNos /\ no \in Nat /\ current_file' = no
        /\ appends' = appends /\ acked' = acked
    BY <1>0, <1>1, LatestIs DEF Open, FileNos
  <2>2. \A j \in Existing : j <= no
    BY <1>0, LatestIs DEF IsLatest
  <2>3. EmptyAbove(files, no)
    BY <1>0, <1>a, <2>1, <2>2, BeyondEmpty
  <2>4. CASE files[no].exists
    BY <1>1, <1>a, <1>d, <2>1, <2>3, <2>4 DEF Open
  <2>5. CASE ~files[no].exists
    <3>1. files' = [files EXCEPT ![no] = NewFile(HeaderSize)]
      BY <1>1, <2>5 DEF Open
    <3>2. files[no].body = <<>>
      BY <1>a, <2>1, <2>5 DEF Measured
    <3>3. HeaderSize \in 0..HeaderSize
      OBVIOUS
    <3>. HIDE DEF no
    <3>. QED  BY <1>a, <1>c, <2>1, <2>3, <3>1, <3>2, <3>3
  <2>. QED  BY <2>4, <2>5
<1>2. CASE OpenTorn
  <2>1. PICK h \in 0..HeaderSize : files' = [files EXCEPT ![0] = NewFile(h)]
    BY <1>2 DEF OpenTorn
  <2>2. /\ 0 \in FileNos /\ Existing = {} /\ ~up' /\ appends' = appends /\ acked' = acked
    BY <1>2 DEF OpenTorn, FileNos, LogInv
  <2>3. files[0].body = <<>>
    BY <1>a, <2>2 DEF Measured, Existing
  <2>. QED  BY <1>a, <1>c, <2>1, <2>2, <2>3
<1>3. CASE Crash
  BY <1>3, <1>a, <1>d DEF Crash
<1>4. ASSUME NEW d \in Data, AppendRecord(d) PROVE LogInv'
  <2>. DEFINE t == Target(d)
  <2>1. up /\ HasRoom(d)
    BY <1>4 DEF AppendRecord, Accepts
  <2>2. files' = [t.disk EXCEPT ![t.file] = WriteBytes(@, appends + 1, d, RecSize(d))]
        /\ current_file' = t.file /\ appends' = appends + 1
        /\ acked' = acked \cup {appends + 1}
    BY <1>4 DEF AppendRecord
  <2>3. /\ t.disk \in [FileNos -> File] /\ t.file \in FileNos /\ t.disk[t.file].exists
        /\ Sorted(t.disk, appends) /\ Measured(t.disk) /\ Holds(t.disk, acked)
        /\ EmptyAbove(t.disk, t.file)
    BY <2>1, TargetSound
  <2>4. RecSize(d) \in 0..RecSize(d)
    OBVIOUS
  <2>. HIDE DEF t
  <2>5. Sorted(files', appends + 1) /\ Measured(files') /\ EmptyAbove(files', t.file)
        /\ Holds(files', acked \cup {appends + 1})
    <3>1. Wrote(t.disk, files', t.file, appends + 1, d, RecSize(d))
      BY <2>2 DEF Wrote
    <3>. QED  BY <1>a, <2>3, <2>4, <3>1, RecordWritten
  <2>. QED  BY <1>0, <2>2, <2>5 DEF LogInv
<1>5. ASSUME NEW d \in Data, RejectRecord(d) PROVE LogInv'
  <2>1. /\ files' = files /\ acked' = acked /\ up' = up /\ current_file' = current_file
        /\ appends' = appends + 1
    BY <1>5 DEF RejectRecord
  <2>. QED  BY <1>b, <1>d, <2>1 DEF LogInv
<1>6. ASSUME NEW d \in Data, TornAppend(d) PROVE LogInv'
  <2>. DEFINE t == Target(d)
  <2>1. up /\ HasRoom(d)
    BY <1>6 DEF TornAppend, Accepts
  <2>2. PICK n \in 0..RecSize(d) :
            files' = [t.disk EXCEPT ![t.file] = WriteBytes(@, appends + 1, d, n)]
    BY <1>6 DEF TornAppend
  <2>3. current_file' = t.file /\ appends' = appends + 1 /\ acked' = acked
    BY <1>6 DEF TornAppend
  <2>4. /\ t.disk \in [FileNos -> File] /\ t.file \in FileNos /\ t.disk[t.file].exists
        /\ Sorted(t.disk, appends) /\ Measured(t.disk) /\ Holds(t.disk, acked)
        /\ EmptyAbove(t.disk, t.file)
    BY <2>1, TargetSound
  <2>. HIDE DEF t
  <2>5. /\ Sorted(files', appends + 1) /\ Measured(files') /\ EmptyAbove(files', t.file)
        /\ Holds(files', acked)
    <3>1. Wrote(t.disk, files', t.file, appends + 1, d, n)
      BY <2>2 DEF Wrote
    <3>. QED  BY <1>a, <2>4, <3>1, RecordWritten
  <2>. QED  BY <1>0, <2>3, <2>5 DEF LogInv
<1>7. ASSUME NEW d \in Data, TornRotate(d) PROVE LogInv'
  <2>. DEFINE no == current_file_no + 1
  <2>1. /\ up /\ no \in FileNos /\ no > current_file_no /\ current_file_no \in Nat
        /\ current_file' = current_file /\ current_file \in Nat
        /\ appends' = appends + 1 /\ appends + 1 \in Nat /\ acked' = acked
    BY <1>0, <1>7 DEF TornRotate, Accepts, TypeInv, TypeOK, FileNos
  <2>2. EmptyAbove(files, current_file)
    BY <2>1 DEF LogInv
  <2>3. CASE files' = files
    BY <1>b, <1>d, <2>1, <2>2, <2>3
  <2>4. CASE \E h \in 0..HeaderSize : files' = [files EXCEPT ![no] = NewFile(h)]
    <3>1. PICK h \in 0..HeaderSize : files' = [files EXCEPT ![no] = NewFile(h)]
      BY <2>4
    <3>2. files[no].body = <<>>
      <4>1. \A j \in Existing : j <= current_file_no
        BY <1>0, <2>1 DEF TypeInv, HandleExists
      <4>2. EmptyAbove(files, current_file_no)
        BY <1>0, <1>a, <2>1, <4>1, BeyondEmpty
      <4>. QED  BY <2>1, <4>2 DEF EmptyAbove
    <3>. HIDE DEF no
    <3>. QED  BY <1>b, <1>c, <2>1, <2>2, <3>1, <3>2
  <2>. QED  BY <1>7, <2>3, <2>4 DEF TornRotate
<1>8. CASE UNCHANGED vars
  BY <1>8, <1>a, <1>d DEF vars, LogInv
<1>. QED  BY <1>1, <1>2, <1>3, <1>4, <1>5, <1>6, <1>7, <1>8 DEF Next

-----------------------------------------------------------------------------
(* Reading                                                                 *)

\* What fails for some number fails for a least one.
LEMMA LeastNumber ==
    ASSUME NEW S \in SUBSET Nat, S # {}
    PROVE  \E x \in S : \A y \in S : x <= y
<1>1. PICK x \in S : \A y \in S : <<y, x>> \notin OpToRel(<, Nat)
  BY NatLessThanWellFounded, WFMin, Zenon
<1>2. ASSUME NEW y \in S PROVE x <= y
  <2>1. <<y, x>> \notin {q \in Nat \X Nat : q[1] < q[2]}
    BY <1>1, Zenon DEF OpToRel
  <2>. QED  BY <2>1
<1>. QED  BY <1>2

\* f starts at z and goes from one member of S to the next by the steps g.
Runs(f, n, S, z, g) ==
    f \in [0..n -> S] /\ f[0] = z /\ \A i \in 1..n : f[i] = g[i][f[i - 1]]

\* A recursion over 0..M has a solution.
LEMMA Iterates ==
    ASSUME NEW M \in Nat, NEW S, NEW z \in S, NEW g \in [1..M -> [S -> S]]
    PROVE  \E f : Runs(f, M, S, z, g)
<1>. DEFINE Solves(f, n) == Runs(f, n, S, z, g)
            Bad == {n \in 0..M : ~ \E f : Solves(f, n)}
<1>. USE DEF Runs
<1>1. Bad = {}
  <2>. SUFFICES ASSUME Bad # {} PROVE FALSE
    OBVIOUS
  <2>1. Bad \in SUBSET Nat
    OBVIOUS
  <2>2. PICK n \in Bad : \A m \in Bad : n <= m
    BY <2>1, LeastNumber
  <2>3. n # 0
    <3>1. Solves([i \in 0..0 |-> z], 0)
      OBVIOUS
    <3>. QED  BY <3>1
  <2>4. n \in 1..M /\ n - 1 \in 0..M /\ ~(n <= n - 1)
    BY <2>3
  <2>5. PICK f : Solves(f, n - 1)
    BY <2>2, <2>4
  <2>. DEFINE h == [i \in 0..n |-> IF i = n THEN g[n][f[n - 1]] ELSE f[i]]
  <2>6. Solves(h, n)
    <3>1. n - 1 \in 0..(n - 1) /\ f[n - 1] \in S
      BY <2>4, <2>5
    <3>2. g[n][f[n - 1]] \in S
      BY <2>4, <3>1
    <3>3. \A i \in 0..n : i # n => i \in 0..(n - 1)
      BY <2>4
    <3>4. h \in [0..n -> S]
      BY <2>5, <3>2, <3>3
    <3>5. h[0] = z
      BY <2>3, <2>4, <2>5
    <3>6. ASSUME NEW i \in 1..n PROVE h[i] = g[i][h[i - 1]]
      <4>1. i \in 0..n /\ i - 1 \in 0..n /\ i - 1 # n /\ (i # n => i \in 1..(n - 1))
        BY <2>4
      <4>2. h[i - 1] = f[i - 1]
        BY <4>1
      <4>3. h[i] = IF i = n THEN g[n][f[n - 1]] ELSE f[i]
        BY <4>1
      <4>. HIDE DEF h
      <4>. QED  BY <2>5, <4>1, <4>2, <4>3
    <3>. QED  BY <3>4, <3>5, <3>6
  <2>7. \E k : Solves(k, n)
    BY <2>6
  <2>. HIDE DEF Solves
  <2>. QED  BY <2>2, <2>7
<1>2. M \in 0..M
  OBVIOUS
<1>. HIDE DEF Solves
<1>3. \E f : Solves(f, M)
  BY <1>1, <1>2
<1>. QED  BY <1>3 DEF Solves

ReadResult == [ok : BOOLEAN, entries : Seq(Nat)]

\* The records of a segment that read_file returns are the first ones it has.
FirstOnes(r, body) ==
    \A a \in DOMAIN r.entries : a \in DOMAIN body /\ r.entries[a] = body[a].k

LEMMA ResultsOf ==
    /\ ErrRead \in ReadResult /\ ~ErrRead.ok /\ DOMAIN ErrRead.entries = {}
    /\ OkRead(<<>>) \in ReadResult /\ OkRead(<<>>).ok /\ DOMAIN OkRead(<<>>).entries = {}
    /\ \A s \in Seq(Nat) : OkRead(s) \in ReadResult /\ OkRead(s).ok /\ OkRead(s).entries = s
BY DEF ReadResult, ErrRead, OkRead

LEMMA SerialsOf ==
    ASSUME NEW body \in Seq(Cell)
    PROVE  /\ OkRead(Serials(body)) \in ReadResult
           /\ OkRead(Serials(body)).entries = Serials(body)
           /\ DOMAIN Serials(body) = DOMAIN body
           /\ \A a \in DOMAIN body : Serials(body)[a] = body[a].k
<1>1. Serials(body) \in Seq(Nat)
  <2>1. \A a \in DOMAIN body : body[a] \in Cell
    OBVIOUS
  <2>2. \A a \in DOMAIN body : body[a].k \in Nat
    BY <2>1 DEF Cell
  <2>. QED  BY <2>2 DEF Serials
<1>. QED  BY <1>1, ResultsOf DEF Serials

\* The first record that does not decode, if there is one (wal.rs:319-340).
LEMMA FirstDamaged ==
    ASSUME NEW body \in Seq(Cell), NEW x \in DOMAIN body, ~Intact(body[x])
    PROVE  LET t == CHOOSE i \in DOMAIN body :
                        ~Intact(body[i]) /\ \A j \in 1..(i-1) : Intact(body[j])
           IN  t \in DOMAIN body /\ ~Intact(body[t]) /\ \A j \in 1..(t-1) : Intact(body[j])
<1>. DEFINE S == {i \in DOMAIN body : ~Intact(body[i])}
<1>1. S \in SUBSET Nat /\ S # {}
  OBVIOUS
<1>2. PICK i \in S : \A y \in S : i <= y
  BY <1>1, LeastNumber
<1>3. \A j \in 1..(i - 1) : j \in DOMAIN body /\ ~(i <= j)
  BY <1>1, <1>2
<1>4. i \in DOMAIN body /\ ~Intact(body[i]) /\ \A j \in 1..(i-1) : Intact(body[j])
  BY <1>2, <1>3
<1>. QED  BY <1>4

\* The bytes from the last record on are that record's.
LEMMA LastBytes ==
    ASSUME NEW body \in Seq(Cell), body # <<>>
    PROVE  BytesFrom(body, Len(body)) = body[Len(body)].n
<1>. DEFINE L == Len(body)
            g == [j \in 1..L |-> [x \in Nat |-> IF j < L THEN 0 ELSE x + body[j].n]]
            sum[j \in 0..L] == IF j < L THEN 0 ELSE sum[j - 1] + body[j].n
<1>1. L \in Nat /\ L # 0 /\ \A j \in 1..L : body[j].n \in Nat
  <2>1. L \in Nat /\ L # 0 /\ \A j \in 1..L : body[j] \in Cell
    OBVIOUS
  <2>. QED  BY <2>1 DEF Cell
<1>2. g \in [1..L -> [Nat -> Nat]]
  BY <1>1
<1>. HIDE DEF L, g
<1>3. PICK f : Runs(f, L, Nat, 0, g)
  <2>1. 0 \in Nat
    OBVIOUS
  <2>. QED  BY <1>1, <1>2, <2>1, Iterates
<1>4. \A i \in 1..L : f[i] = IF i < L THEN 0 ELSE f[i - 1] + body[i].n
  <2>1. ASSUME NEW i \in 1..L PROVE f[i] = IF i < L THEN 0 ELSE f[i - 1] + body[i].n
    <3>1. f[i - 1] \in Nat /\ i - 1 \in 0..L
      BY <1>1, <1>3 DEF Runs
    <3>. QED  BY <1>3, <3>1 DEF g, Runs
  <2>. QED  BY <2>1
<1>5. f = [j \in 0..L |-> IF j < L THEN 0 ELSE f[j - 1] + body[j].n]
  <2>1. \A j \in 0..L : f[j] = IF j < L THEN 0 ELSE f[j - 1] + body[j].n
    BY <1>1, <1>3, <1>4 DEF Runs
  <2>. QED  BY <1>3, <2>1 DEF Runs
<1>6. sum = [j \in 0..L |-> IF j < L THEN 0 ELSE sum[j - 1] + body[j].n]
  BY <1>5, Zenon
<1>7. BytesFrom(body, L) = sum[L]
  BY DEF BytesFrom, L
<1>8. sum[L] = sum[L - 1] + body[L].n /\ sum[L - 1] = 0
  <2>1. L \in 0..L /\ ~(L < L) /\ L - 1 \in 0..L /\ L - 1 < L
    BY <1>1
  <2>. HIDE DEF sum
  <2>. QED  BY <1>6, <2>1
<1>. HIDE DEF sum
<1>9. sum[L] = body[L].n
  BY <1>1, <1>8
<1>. QED  BY <1>7, <1>9 DEF L

\* Whatever is on disk, read_file returns the first records of the segment.
LEMMA ReadFileReads ==
    ASSUME NEW f \in File, NEW r \in ReadFile(f)
    PROVE  r \in ReadResult /\ FirstOnes(r, f.body)
<1>1. f.body \in Seq(Cell)
  BY DEF File
<1>2. CASE r = ErrRead \/ r = OkRead(<<>>)
  BY <1>2, ResultsOf DEF FirstOnes
<1>3. CASE r \in ReadRecords(f.body)
  <2>1. CASE \A i \in DOMAIN f.body : Intact(f.body[i])
    <3>1. r = OkRead(Serials(f.body))
      BY <1>3, <2>1 DEF ReadRecords
    <3>. QED  BY <1>1, <3>1, SerialsOf DEF FirstOnes
  <2>2. CASE \E i \in DOMAIN f.body : ~Intact(f.body[i])
    <3>. DEFINE t == CHOOSE i \in DOMAIN f.body :
                        ~Intact(f.body[i]) /\ \A j \in 1..(i-1) : Intact(f.body[j])
                part == SubSeq(f.body, 1, t - 1)
    <3>1. t \in DOMAIN f.body
      BY <1>1, <2>2, FirstDamaged
    <3>2. r = OkRead(Serials(part)) \/ r = ErrRead
      BY <1>3, <2>2 DEF ReadRecords
    <3>. HIDE DEF t
    <3>3. part \in Seq(Cell) /\ \A a \in DOMAIN part : a \in DOMAIN f.body /\ part[a] = f.body[a]
      BY <1>1, <3>1
    <3>. HIDE DEF part
    <3>4. CASE r = OkRead(Serials(part))
      BY <3>3, <3>4, SerialsOf DEF FirstOnes
    <3>. QED  BY <1>2, <3>2, <3>4
  <2>. QED  BY <2>1, <2>2
<1>. QED  BY <1>2, <1>3 DEF ReadFile

\* A segment that was not appended to behind damage is read without an error,
\* and every whole record of it is returned (wal.rs:299-347).
LEMMA ReadFileWhole ==
    ASSUME NEW f \in File, NEW r \in ReadFile(f),
           f.hdr <= HeaderSize, f.hdr <= f.len, f.body = <<>> => f.len = f.hdr,
           f.hdr < HeaderSize => f.body = <<>>,
           \A a \in DOMAIN f.body : /\ f.body[a].n <= RecSize(f.body[a].d)
                                    /\ StoredLength(f.body[a].d) = Length[f.body[a].d],
           \A a \in 1..(Len(f.body) - 1) : Intact(f.body[a])
    PROVE  /\ r.ok
           /\ \A a \in DOMAIN f.body : f.body[a].n = RecSize(f.body[a].d) =>
                  a \in DOMAIN r.entries /\ r.entries[a] = f.body[a].k
<1>. USE SizesType
<1>1. f.body \in Seq(Cell) /\ f.hdr \in Nat /\ f.len \in Nat
  BY DEF File
<1>2. CASE f.hdr < HeaderSize
  <2>1. f.len < HeaderSize /\ f.body = <<>>
    BY <1>2
  <2>2. r = OkRead(<<>>)
    <3>1. ReadFile(f) = {OkRead(<<>>)}
      BY <1>1, <2>1 DEF ReadFile
    <3>. QED  BY <3>1
  <2>. QED  BY <2>1, <2>2, ResultsOf
<1>3. CASE ~(f.hdr < HeaderSize)
  <2>1. r \in ReadRecords(f.body)
    <3>1. ~(f.len < HeaderSize)
      BY <1>1, <1>3
    <3>. QED  BY <1>3, <3>1 DEF ReadFile
  <2>2. CASE \A i \in DOMAIN f.body : Intact(f.body[i])
    <3>1. r = OkRead(Serials(f.body))
      BY <2>1, <2>2 DEF ReadRecords
    <3>. QED  BY <1>1, <3>1, SerialsOf, ResultsOf DEF OkRead
  <2>3. CASE \E i \in DOMAIN f.body : ~Intact(f.body[i])
    <3>. DEFINE t == CHOOSE i \in DOMAIN f.body :
                        ~Intact(f.body[i]) /\ \A j \in 1..(i-1) : Intact(f.body[j])
                good == OkRead(Serials(SubSeq(f.body, 1, t - 1)))
                avail == BytesFrom(f.body, t)
    <3>1. t \in DOMAIN f.body /\ ~Intact(f.body[t])
      BY <1>1, <2>3, FirstDamaged
    <3>2. r \in CASE avail < EntryHeaderSize -> {good}
                  [] avail >= EntryHeaderSize /\ f.body[t].n < EntryHeaderSize -> {good, ErrRead}
                  [] OTHER -> IF avail < EntryHeaderSize + StoredLength(f.body[t].d)
                              THEN {good} ELSE {ErrRead}
      BY <2>1, <2>3 DEF ReadRecords
    <3>. HIDE DEF t, avail, good
    <3>3. t = Len(f.body)
      BY <1>1, <3>1
    <3>4. avail = f.body[t].n
      <4>1. f.body # <<>>
        BY <3>1
      <4>. QED  BY <1>1, <3>3, <4>1, LastBytes DEF avail
    <3>5. f.body[t].n \in Nat /\ f.body[t].d \in Data /\ f.body[t].n # RecSize(f.body[t].d)
          /\ f.body[t].n <= RecSize(f.body[t].d)
          /\ StoredLength(f.body[t].d) = Length[f.body[t].d]
      <4>1. f.body[t] \in Cell
        BY <1>1, <3>1
      <4>. QED  BY <3>1, <4>1 DEF Cell, Intact
    <3>6. f.body[t].n < EntryHeaderSize + StoredLength(f.body[t].d)
      <4>1. RecSize(f.body[t].d) = EntryHeaderSize + StoredLength(f.body[t].d)
        BY <3>5 DEF RecSize
      <4>2. RecSize(f.body[t].d) \in Nat
        BY <3>5
      <4>. QED  BY <3>5, <4>1, <4>2
    <3>7. EntryHeaderSize \in Nat
      BY ConstantsAssumption
    <3>8. r = good
      BY <3>2, <3>4, <3>5, <3>6, <3>7
    <3>. DEFINE part == SubSeq(f.body, 1, t - 1)
    <3>9. /\ part \in Seq(Cell) /\ DOMAIN part = 1..(t - 1)
          /\ \A a \in 1..(t - 1) : part[a] = f.body[a]
      BY <1>1, <3>1
    <3>10. r = OkRead(Serials(part))
      BY <3>8 DEF good
    <3>. HIDE DEF part
    <3>11. r.ok /\ r.entries = Serials(part) /\ DOMAIN r.entries = DOMAIN part
           /\ \A a \in DOMAIN part : r.entries[a] = part[a].k
      BY <3>9, <3>10, SerialsOf DEF OkRead
    <3>12. ASSUME NEW a \in DOMAIN f.body, f.body[a].n = RecSize(f.body[a].d)
           PROVE  a \in 1..(t - 1)
      <4>1. a # t
        BY <3>5, <3>12
      <4>. QED  BY <1>1, <3>3, <4>1
    <3>. QED  BY <3>9, <3>11, <3>12
  <2>. QED  BY <2>2, <2>3
<1>. QED  BY <1>2, <1>3

LEMMA ThenReadType ==
    ASSUME NEW r \in ReadResult, NEW s \in ReadResult
    PROVE  ThenRead(r, s) \in ReadResult
<1>1. r.entries \o s.entries \in Seq(Nat)
  BY DEF ReadResult
<1>. QED  BY <1>1, ResultsOf DEF ThenRead

LEMMA JoinedType ==
    ASSUME files \in [FileNos -> File], NEW i \in FileNos, NEW X \in SUBSET ReadResult
    PROVE  Joined(X, i) \in SUBSET ReadResult
<1>1. \A s \in ReadFile(files[i]) : s \in ReadResult
  BY ReadFileReads
<1>2. ASSUME NEW r \in X, NEW s \in ReadFile(files[i])
      PROVE  ThenRead(r, s) \in ReadResult
  BY <1>1, ThenReadType
<1>. QED  BY <1>2 DEF Joined

\* read_entries goes through the segments in the order of their numbers, and
\* joins what it reads (wal.rs:269-296).
LEMMA ReadEntriesSteps ==
    ASSUME files \in [FileNos -> File]
    PROVE  \E f \in [0..(MaxFiles + 1) -> SUBSET ReadResult] :
               /\ f[0] = {OkRead(<<>>)}
               /\ \A i \in 1..(MaxFiles + 1) : f[i] = Joined(f[i - 1], i - 1)
               /\ ReadEntries = f[MaxFiles + 1]
<1>. DEFINE M == MaxFiles + 1
            g == [i \in 1..M |-> [X \in SUBSET ReadResult |-> Joined(X, i - 1)]]
            Solves(f) == f = [i \in 0..M |-> IF i = 0 THEN {OkRead(<<>>)}
                                             ELSE Joined(f[i - 1], i - 1)]
            below[i \in 0..M] == IF i = 0 THEN {OkRead(<<>>)} ELSE Joined(below[i - 1], i - 1)
<1>1. M \in Nat /\ \A i \in 1..M : i - 1 \in FileNos /\ i - 1 \in 0..M /\ i \in 0..M /\ i # 0
  BY SizesType DEF FileNos
<1>2. \A i \in 1..M : \A X \in SUBSET ReadResult : Joined(X, i - 1) \in SUBSET ReadResult
  BY <1>1, JoinedType
<1>0. ReadEntries = below[M]
  BY DEF ReadEntries
<1>. HIDE DEF M
<1>3. g \in [1..M -> [SUBSET ReadResult -> SUBSET ReadResult]]
  BY <1>2
<1>4. {OkRead(<<>>)} \in SUBSET ReadResult
  BY ResultsOf
<1>5. \E f : Solves(f)
  <2>. HIDE DEF g
  <2>1. PICK f : Runs(f, M, SUBSET ReadResult, {OkRead(<<>>)}, g)
    BY <1>1, <1>3, <1>4, Iterates
  <2>2. ASSUME NEW i \in 1..M PROVE f[i] = Joined(f[i - 1], i - 1)
    <3>1. f[i - 1] \in SUBSET ReadResult
      BY <1>1, <2>1 DEF Runs
    <3>. QED  BY <2>1, <3>1 DEF g, Runs
  <2>3. \A i \in 0..M : i # 0 => i \in 1..M
    BY <1>1
  <2>4. \A i \in 0..M : f[i] = IF i = 0 THEN {OkRead(<<>>)} ELSE Joined(f[i - 1], i - 1)
    BY <2>1, <2>2, <2>3 DEF Runs
  <2>. QED  BY <2>1, <2>4 DEF Runs
<1>6. Solves(below)
  BY <1>5
<1>. HIDE DEF below
<1>7. below[0] = {OkRead(<<>>)} /\ \A i \in 1..M : below[i] = Joined(below[i - 1], i - 1)
  <2>1. 0 \in 0..M
    BY <1>1
  <2>. QED  BY <1>1, <1>6, <2>1
<1>8. \A i \in 0..M : below[i] \in SUBSET ReadResult
  <2>. DEFINE Bad == {i \in 0..M : below[i] \notin SUBSET ReadResult}
  <2>1. Bad = {}
    <3>. SUFFICES ASSUME Bad # {} PROVE FALSE
      OBVIOUS
    <3>1. Bad \in SUBSET Nat
      BY <1>1
    <3>2. PICK i \in Bad : \A j \in Bad : i <= j
      BY <3>1, LeastNumber
    <3>3. i \in 1..M
      BY <1>1, <1>4, <1>7
    <3>4. i - 1 \in 0..M /\ ~(i <= i - 1)
      BY <1>1, <3>3
    <3>5. below[i - 1] \in SUBSET ReadResult
      BY <3>2, <3>4
    <3>. QED  BY <1>2, <1>7, <3>2, <3>3, <3>5
  <2>. QED  BY <2>1
<1>9. below \in [0..M -> SUBSET ReadResult]
  BY <1>6, <1>8
<1>. QED  BY <1>0, <1>7, <1>9 DEF M

\* What two segments return, one behind the other.
LEMMA JoinedEntries ==
    ASSUME NEW r \in ReadResult, NEW s \in ReadResult
    PROVE  LET e == ThenRead(r, s).entries IN
           /\ ~(r.ok /\ s.ok) => DOMAIN e = {}
           /\ r.ok /\ s.ok =>
                /\ ThenRead(r, s).ok
                /\ DOMAIN r.entries = 1..Len(r.entries) /\ Len(r.entries) \in Nat
                /\ DOMAIN s.entries = 1..Len(s.entries) /\ Len(s.entries) \in Nat
                /\ DOMAIN e = 1..(Len(r.entries) + Len(s.entries))
                /\ \A a \in 1..(Len(r.entries) + Len(s.entries)) :
                      e[a] = IF a <= Len(r.entries) THEN r.entries[a]
                             ELSE s.entries[a - Len(r.entries)]
<1>1. r.entries \in Seq(Nat) /\ s.entries \in Seq(Nat)
  BY DEF ReadResult
<1>2. CASE r.ok /\ s.ok
  <2>1. ThenRead(r, s).entries = r.entries \o s.entries /\ ThenRead(r, s).ok
    BY <1>2 DEF ThenRead, OkRead
  <2>2. /\ DOMAIN r.entries = 1..Len(r.entries) /\ Len(r.entries) \in Nat
        /\ DOMAIN s.entries = 1..Len(s.entries) /\ Len(s.entries) \in Nat
    BY <1>1
  <2>3. ASSUME NEW x \in Seq(Nat), NEW y \in Seq(Nat)
        PROVE  /\ DOMAIN (x \o y) = 1..(Len(x) + Len(y))
               /\ \A a \in 1..(Len(x) + Len(y)) :
                     (x \o y)[a] = IF a <= Len(x) THEN x[a] ELSE y[a - Len(x)]
    OBVIOUS
  <2>4. /\ DOMAIN (r.entries \o s.entries) = 1..(Len(r.entries) + Len(s.entries))
        /\ \A a \in 1..(Len(r.entries) + Len(s.entries)) :
              (r.entries \o s.entries)[a] = IF a <= Len(r.entries) THEN r.entries[a]
                                             ELSE s.entries[a - Len(r.entries)]
    BY <1>1, <2>3, Zenon
  <2>. QED  BY <1>2, <2>1, <2>2, <2>4
<1>3. CASE ~(r.ok /\ s.ok)
  BY <1>3, ResultsOf DEF ThenRead
<1>. QED  BY <1>2, <1>3

\* The entries e were read from segments below i, in the order of appends.
FromBelow(e, i) ==
    /\ \A a \in DOMAIN e : \E j \in FileNos : j < i /\
            \E c \in DOMAIN files[j].body : e[a] = files[j].body[c].k
    /\ \A a, b \in DOMAIN e : a < b => e[a] < e[b]

LEMMA OrderJoined ==
    ASSUME LogInv, NEW i \in FileNos, NEW r \in ReadResult, FromBelow(r.entries, i),
           NEW s \in ReadFile(files[i])
    PROVE  FromBelow(ThenRead(r, s).entries, i + 1)
<1>1. files[i] \in File /\ i \in Nat
  BY DEF LogInv, TypeInv, TypeOK, FileNos
<1>2. s \in ReadResult /\ FirstOnes(s, files[i].body)
  BY <1>1, ReadFileReads
<1>. DEFINE e == ThenRead(r, s).entries
            R == Len(r.entries)
            L == Len(s.entries)
<1>3. CASE ~(r.ok /\ s.ok)
  <2>1. DOMAIN e = {}
    BY <1>2, <1>3, JoinedEntries
  <2>. QED  BY <2>1 DEF FromBelow
<1>4. CASE r.ok /\ s.ok
  <2>1. /\ DOMAIN r.entries = 1..R /\ R \in Nat /\ DOMAIN s.entries = 1..L /\ L \in Nat
        /\ DOMAIN e = 1..(R + L)
        /\ \A a \in 1..(R + L) :
              e[a] = IF a <= R THEN r.entries[a] ELSE s.entries[a - R]
    BY <1>2, <1>4, JoinedEntries
  <2>. HIDE DEF e, R, L
  <2>2. ASSUME NEW a \in DOMAIN e
        PROVE  \/ a \in DOMAIN r.entries /\ e[a] = r.entries[a]
               \/ a - R \in DOMAIN s.entries /\ e[a] = s.entries[a - R] /\ ~(a <= R)
    BY <2>1, <2>2
  <2>3. ASSUME NEW a \in DOMAIN e
        PROVE  \E j \in FileNos : j < i + 1 /\
                  \E c \in DOMAIN files[j].body : e[a] = files[j].body[c].k
    <3>1. CASE a \in DOMAIN r.entries /\ e[a] = r.entries[a]
      <4>1. PICK j \in FileNos : j < i /\ \E c \in DOMAIN files[j].body : e[a] = files[j].body[c].k
        BY <3>1 DEF FromBelow
      <4>2. j < i + 1
        BY <1>1, <4>1 DEF FileNos
      <4>. QED  BY <4>1, <4>2
    <3>2. CASE a - R \in DOMAIN s.entries /\ e[a] = s.entries[a - R]
      <4>1. a - R \in DOMAIN files[i].body /\ e[a] = files[i].body[a - R].k
        BY <1>2, <3>2 DEF FirstOnes
      <4>2. i < i + 1
        BY <1>1
      <4>. QED  BY <4>1, <4>2
    <3>. QED  BY <2>2, <3>1, <3>2
  <2>4. ASSUME NEW a \in DOMAIN e, NEW b \in DOMAIN e, a < b
        PROVE  e[a] < e[b]
    <3>1. CASE b <= R
      <4>1. a \in DOMAIN r.entries /\ b \in DOMAIN r.entries
            /\ e[a] = r.entries[a] /\ e[b] = r.entries[b]
        BY <2>1, <2>4, <3>1
      <4>. QED  BY <2>4, <4>1 DEF FromBelow
    <3>2. CASE ~(b <= R) /\ a <= R
      <4>1. a \in DOMAIN r.entries /\ e[a] = r.entries[a]
            /\ b - R \in DOMAIN s.entries /\ e[b] = s.entries[b - R]
        BY <2>1, <2>4, <3>2
      <4>2. PICK j \in FileNos : j < i /\ \E c \in DOMAIN files[j].body : e[a] = files[j].body[c].k
        BY <4>1 DEF FromBelow
      <4>3. b - R \in DOMAIN files[i].body /\ e[b] = files[i].body[b - R].k
        BY <1>2, <4>1 DEF FirstOnes
      <4>. QED  BY <4>2, <4>3 DEF LogInv, Sorted
    <3>3. CASE ~(a <= R)
      <4>1. /\ a - R \in DOMAIN s.entries /\ e[a] = s.entries[a - R]
            /\ b - R \in DOMAIN s.entries /\ e[b] = s.entries[b - R]
            /\ a - R < b - R
        BY <2>1, <2>4, <3>3
      <4>2. /\ a - R \in DOMAIN files[i].body /\ e[a] = files[i].body[a - R].k
            /\ b - R \in DOMAIN files[i].body /\ e[b] = files[i].body[b - R].k
        BY <1>2, <4>1 DEF FirstOnes
      <4>. QED  BY <4>1, <4>2 DEF LogInv, Sorted
    <3>. QED  BY <3>1, <3>2, <3>3
  <2>. QED  BY <2>3, <2>4 DEF FromBelow, e
<1>. QED  BY <1>3, <1>4

LEMMA OrderRecovered == LogInv => EntriesInAppendOrder
<1>. SUFFICES ASSUME LogInv PROVE EntriesInAppendOrder
  OBVIOUS
<1>0. files \in [FileNos -> File] /\ MaxFiles \in Nat
  BY SizesType DEF LogInv, TypeInv, TypeOK
<1>1. PICK f \in [0..(MaxFiles + 1) -> SUBSET ReadResult] :
          /\ f[0] = {OkRead(<<>>)}
          /\ \A i \in 1..(MaxFiles + 1) : f[i] = Joined(f[i - 1], i - 1)
          /\ ReadEntries = f[MaxFiles + 1]
  BY <1>0, ReadEntriesSteps
<1>. DEFINE Bad == {i \in 0..(MaxFiles + 1) : \E r \in f[i] : ~FromBelow(r.entries, i)}
<1>2. Bad = {}
  <2>. SUFFICES ASSUME Bad # {} PROVE FALSE
    OBVIOUS
  <2>1. Bad \in SUBSET Nat
    BY <1>0
  <2>2. PICK i \in Bad : \A j \in Bad : i <= j
    BY <2>1, LeastNumber
  <2>3. PICK r \in f[i] : ~FromBelow(r.entries, i)
    OBVIOUS
  <2>4. i # 0
    <3>1. ASSUME i = 0 PROVE FALSE
      <4>1. r = OkRead(<<>>)
        BY <1>1, <2>3, <3>1
      <4>. QED  BY <2>3, <4>1, ResultsOf DEF FromBelow
    <3>. QED  BY <3>1
  <2>5. /\ i \in 1..(MaxFiles + 1) /\ i - 1 \in 0..(MaxFiles + 1) /\ i - 1 \in FileNos
        /\ ~(i <= i - 1) /\ (i - 1) + 1 = i
    BY <1>0, <2>4 DEF FileNos
  <2>6. \A q \in f[i - 1] : FromBelow(q.entries, i - 1)
    BY <2>2, <2>5
  <2>7. r \in Joined(f[i - 1], i - 1)
    BY <1>1, <2>3, <2>5
  <2>8. CASE files[i - 1].exists
    <3>1. PICK q \in f[i - 1], s \in ReadFile(files[i - 1]) : r = ThenRead(q, s)
      BY <2>7, <2>8 DEF Joined
    <3>2. q \in ReadResult /\ FromBelow(q.entries, i - 1)
      BY <1>1, <2>5, <2>6
    <3>3. FromBelow(r.entries, (i - 1) + 1)
      BY <2>5, <3>1, <3>2, OrderJoined
    <3>. QED  BY <2>3, <2>5, <3>3
  <2>9. CASE ~files[i - 1].exists
    <3>1. FromBelow(r.entries, i - 1)
      BY <2>6, <2>7, <2>9 DEF Joined
    <3>2. \A j \in FileNos : j < i - 1 => j < i
      BY <2>5 DEF FileNos
    <3>3. FromBelow(r.entries, i)
      BY <3>1, <3>2 DEF FromBelow
    <3>. QED  BY <2>3, <3>3
  <2>. QED  BY <2>8, <2>9
<1>3. \A r \in ReadEntries : FromBelow(r.entries, MaxFiles + 1)
  BY <1>0, <1>1, <1>2
<1>. QED  BY <1>3 DEF FromBelow, EntriesInAppendOrder

\* Reading the segments below i succeeded with r, and r has the whole records.
WholeBelow(r, i) ==
    /\ r.ok
    /\ \A j \in FileNos : \A k \in Nat : j < i /\ HasWhole(files, j, k) =>
            \E a \in DOMAIN r.entries : r.entries[a] = k

LEMMA WholeJoined ==
    ASSUME LogInv, Undamaged, NEW i \in FileNos, files[i].exists,
           NEW r \in ReadResult, WholeBelow(r, i), NEW s \in ReadFile(files[i])
    PROVE  WholeBelow(ThenRead(r, s), i + 1)
<1>1. files[i] \in File /\ i \in Nat
  BY DEF LogInv, TypeInv, TypeOK, FileNos
<1>2. s \in ReadResult
  BY <1>1, ReadFileReads
<1>3. /\ s.ok
      /\ \A a \in DOMAIN files[i].body :
            files[i].body[a].n = RecSize(files[i].body[a].d) =>
                a \in DOMAIN s.entries /\ s.entries[a] = files[i].body[a].k
  <2>1. /\ files[i].hdr <= HeaderSize /\ files[i].hdr <= files[i].len
        /\ files[i].body = <<>> => files[i].len = files[i].hdr
        /\ \A a \in DOMAIN files[i].body : files[i].body[a].n <= RecSize(files[i].body[a].d)
    BY DEF LogInv, Measured
  <2>2. /\ files[i].hdr < HeaderSize => files[i].body = <<>>
        /\ \A a \in 1..(Len(files[i].body) - 1) : Intact(files[i].body[a])
        /\ \A a \in DOMAIN files[i].body :
              StoredLength(files[i].body[a].d) = Length[files[i].body[a].d]
    BY DEF Undamaged, Existing
  <2>. QED  BY <1>1, <2>1, <2>2, ReadFileWhole
<1>. DEFINE e == ThenRead(r, s).entries
            R == Len(r.entries)
            L == Len(s.entries)
<1>4. /\ DOMAIN r.entries = 1..R /\ R \in Nat /\ DOMAIN s.entries = 1..L /\ L \in Nat
      /\ DOMAIN e = 1..(R + L) /\ ThenRead(r, s).ok
      /\ \A a \in 1..(R + L) : e[a] = IF a <= R THEN r.entries[a] ELSE s.entries[a - R]
  <2>1. r.ok /\ s.ok
    BY <1>3 DEF WholeBelow
  <2>2. LET t == ThenRead(r, s).entries IN
           r.ok /\ s.ok =>
             /\ ThenRead(r, s).ok
             /\ DOMAIN r.entries = 1..Len(r.entries) /\ Len(r.entries) \in Nat
             /\ DOMAIN s.entries = 1..Len(s.entries) /\ Len(s.entries) \in Nat
             /\ DOMAIN t = 1..(Len(r.entries) + Len(s.entries))
             /\ \A a \in 1..(Len(r.entries) + Len(s.entries)) :
                   t[a] = IF a <= Len(r.entries) THEN r.entries[a]
                          ELSE s.entries[a - Len(r.entries)]
    BY <1>2, JoinedEntries, Zenon
  <2>. QED  BY <2>1, <2>2
<1>. HIDE DEF e, R, L
<1>5. ASSUME NEW j \in FileNos, NEW k \in Nat, j < i + 1, HasWhole(files, j, k)
      PROVE  \E a \in DOMAIN e : e[a] = k
  <2>1. CASE j < i
    <3>1. PICK a \in DOMAIN r.entries : r.entries[a] = k
      BY <1>5, <2>1 DEF WholeBelow
    <3>2. a \in DOMAIN e /\ e[a] = r.entries[a]
      BY <1>4
    <3>. QED  BY <3>1, <3>2
  <2>2. CASE j = i
    <3>1. PICK c \in DOMAIN files[i].body :
              files[i].body[c].k = k /\ files[i].body[c].n = RecSize(files[i].body[c].d)
      BY <1>5, <2>2 DEF HasWhole
    <3>2. c \in DOMAIN s.entries /\ s.entries[c] = k
      BY <1>3, <3>1
    <3>3. R + c \in DOMAIN e /\ e[R + c] = s.entries[c]
      <4>1. c \in 1..L /\ R + c \in 1..(R + L) /\ ~(R + c <= R) /\ (R + c) - R = c
        BY <1>4, <3>2
      <4>. QED  BY <1>4, <4>1
    <3>. QED  BY <3>2, <3>3
  <2>3. j < i \/ j = i
    BY <1>1, <1>5 DEF FileNos
  <2>. QED  BY <2>1, <2>2, <2>3
<1>. QED  BY <1>4, <1>5 DEF WholeBelow, e

LEMMA AllRecovered == LogInv => AckedRecovered
<1>. SUFFICES ASSUME LogInv, Undamaged,
                     NEW r \in ReadEntries
              PROVE  r.ok /\ acked \subseteq Range(r.entries)
  BY DEF AckedRecovered
<1>0. files \in [FileNos -> File] /\ MaxFiles \in Nat
  BY SizesType DEF LogInv, TypeInv, TypeOK
<1>1. PICK f \in [0..(MaxFiles + 1) -> SUBSET ReadResult] :
          /\ f[0] = {OkRead(<<>>)}
          /\ \A i \in 1..(MaxFiles + 1) : f[i] = Joined(f[i - 1], i - 1)
          /\ ReadEntries = f[MaxFiles + 1]
  BY <1>0, ReadEntriesSteps
<1>. DEFINE Bad == {i \in 0..(MaxFiles + 1) : \E q \in f[i] : ~WholeBelow(q, i)}
<1>2. Bad = {}
  <2>. SUFFICES ASSUME Bad # {} PROVE FALSE
    OBVIOUS
  <2>1. Bad \in SUBSET Nat
    BY <1>0
  <2>2. PICK i \in Bad : \A j \in Bad : i <= j
    BY <2>1, LeastNumber
  <2>3. PICK q \in f[i] : ~WholeBelow(q, i)
    OBVIOUS
  <2>4. i # 0
    <3>1. ASSUME i = 0 PROVE FALSE
      <4>1. q = OkRead(<<>>)
        BY <1>1, <2>3, <3>1
      <4>2. \A j \in FileNos : ~(j < i)
        BY <3>1 DEF FileNos
      <4>. QED  BY <2>3, <4>1, <4>2, ResultsOf DEF WholeBelow
    <3>. QED  BY <3>1
  <2>5. /\ i \in 1..(MaxFiles + 1) /\ i - 1 \in 0..(MaxFiles + 1) /\ i - 1 \in FileNos
        /\ ~(i <= i - 1) /\ (i - 1) + 1 = i
    BY <1>0, <2>4 DEF FileNos
  <2>6. \A x \in f[i - 1] : WholeBelow(x, i - 1)
    BY <2>2, <2>5
  <2>7. q \in Joined(f[i - 1], i - 1)
    BY <1>1, <2>3, <2>5
  <2>8. CASE files[i - 1].exists
    <3>1. PICK x \in f[i - 1], s \in ReadFile(files[i - 1]) : q = ThenRead(x, s)
      BY <2>7, <2>8 DEF Joined
    <3>2. x \in ReadResult /\ WholeBelow(x, i - 1)
      BY <1>1, <2>5, <2>6
    <3>3. WholeBelow(q, (i - 1) + 1)
      BY <2>5, <2>8, <3>1, <3>2, WholeJoined
    <3>. QED  BY <2>3, <2>5, <3>3
  <2>9. CASE ~files[i - 1].exists
    <3>1. WholeBelow(q, i - 1)
      BY <2>6, <2>7, <2>9 DEF Joined
    <3>2. \A j \in FileNos : j < i => j < i - 1 \/ j = i - 1
      BY <2>5 DEF FileNos
    <3>3. WholeBelow(q, i)
      BY <2>9, <3>1, <3>2 DEF WholeBelow, HasWhole
    <3>. QED  BY <2>3, <3>3
  <2>. QED  BY <2>8, <2>9
<1>3. WholeBelow(r, MaxFiles + 1)
  BY <1>0, <1>1, <1>2
<1>4. ASSUME NEW k \in acked PROVE k \in Range(r.entries)
  <2>1. k \in Nat
    BY DEF LogInv, TypeInv, TypeOK
  <2>2. PICK j \in FileNos : HasWhole(files, j, k)
    BY DEF LogInv, Holds
  <2>3. j < MaxFiles + 1
    BY <1>0 DEF FileNos
  <2>4. PICK a \in DOMAIN r.entries : r.entries[a] = k
    BY <1>3, <2>1, <2>2, <2>3 DEF WholeBelow
  <2>. QED  BY <2>4 DEF Range
<1>. QED  BY <1>3, <1>4 DEF WholeBelow

\* Whatever crashes, torn writes and failed rotations came before, and for any
\* number and size of the segments: read_entries returns records in the order
\* they were appended and each at most once, and, as long as nothing was
\* appended behind damage, without an error every record that was acknowledged
\* (wal.rs:268-347).
THEOREM RecoveryCorrect == Spec => []LogRecovered
<1>1. LogInv => LogRecovered
  BY AllRecovered, OrderRecovered DEF LogRecovered
<1>. QED  BY <1>1, LogInvInit, LogInvNext, PTL DEF Spec
=============================================================================
