---------------------------- MODULE ReaderProofs ----------------------------
(***************************************************************************)
(* A reader that takes no lock, beside a writer that appends, rotates,     *)
(* fails and crashes: it decodes what it read as scan_all does, returns    *)
(* every record that was there when it opened, in order, and does not fail *)
(* because of the writer.                                                  *)
(***************************************************************************)
EXTENDS Reader, LogOrderProofs

------------------------------------------------------------------------------
(* The inductive invariants behind the properties *)

\* The records of each segment read that the iteration has come past.
Taken == [id \in DOMAIN read |-> IF loaded /\ id = Cur THEN 1 .. pos ELSE Replayed(read[id])]

\* The record of yielded[n].
YieldedRecord(n) == read[yielded[n][1]][yielded[n][2]]

\* Where the iteration is: below left everything is read, above it nothing.
PlaceInv ==
    /\ snapshot \subseteq DOMAIN files
    /\ \A id \in snapshot : id <= MaxListedId
    /\ \A id \in left, below \in snapshot \ left : below < id
    /\ loaded => left # {}
    /\ rpc \in {"none", "open"} =>
          /\ left = {} /\ ~loaded /\ read = <<>> /\ yielded = <<>>
          /\ iterReport = NoRecords /\ ~damage
    /\ rpc \in {"iterating", "done", "failed"} =>
          DOMAIN read = (snapshot \ left) \cup IF loaded THEN {Cur} ELSE {}
    /\ rpc = "done" => left = {}

\* What was read, and what became of it.
TakenInv ==
    /\ read \in [DOMAIN read -> Seq(Chunk)]
    /\ \A id \in DOMAIN read : Laid(read[id])
    /\ yielded \in Seq(Ids \X Ids)
    /\ loaded => buf = read[Cur] /\ AllWhole(buf, pos)
    /\ \A n \in DOMAIN yielded :
          /\ yielded[n][1] \in DOMAIN read
          /\ yielded[n][2] \in Taken[yielded[n][1]]
    /\ \A id \in DOMAIN read : \A i \in Taken[id] : <<id, i>> \in Yielded
    /\ \A m, n \in DOMAIN yielded : m < n =>
          Earlier(yielded[m][1], yielded[m][2], yielded[n][1], yielded[n][2])
    /\ \A id \in DOMAIN read :
          (loaded /\ id = Cur) \/ ScanSegmentOk(read[id], id = Max(snapshot))
    /\ damage => \E id \in DOMAIN read : ~ScanSegmentOk(read[id], id = Max(snapshot))

\* The report so far.
CountInv ==
    /\ iterReport.files_scanned = Cardinality(DOMAIN read)
    /\ iterReport.records_replayed = Len(yielded)
    /\ \A n \in DOMAIN yielded : YieldedRecord(n).txid <= iterReport.last_txid_seen
    /\ \/ iterReport.last_txid_seen = 0
       \/ \E n \in DOMAIN yielded : YieldedRecord(n).txid = iterReport.last_txid_seen
    /\ IF left = {} /\ DOMAIN read # {}
       THEN LET s == read[Max(snapshot)]
            IN  /\ iterReport.tail_bytes_discarded = FileSize(s) - LogicalEnd(s)
                /\ iterReport.tail_truncated = IF LogicalEnd(s) = FileSize(s) THEN 0 ELSE 1
       ELSE iterReport.tail_bytes_discarded = 0 /\ iterReport.tail_truncated = 0

\* What the iterator has of the bytes it read, whatever the writer does.
IterInv == ReaderTypeOK /\ PlaceInv /\ TakenInv /\ CountInv

(***************************************************************************)
(* Why a reader misses nothing and does not fail: the records of the files *)
(* it listed stay there, and a directory that open refuses is refused for  *)
(* as long as the system runs.                                             *)
(***************************************************************************)
BesideInv ==
    /\ \A p \in atOpen :
          /\ p = <<p[1], p[2]>>
          /\ p[1] \in snapshot
          /\ p[2] \in Replayed(files[p[1]])
          /\ p[1] \in DOMAIN read => p[2] \in Replayed(read[p[1]])
    /\ \A id \in DOMAIN read :
          ScanSegmentOk(read[id], id = Max(snapshot)) \/ ~ScanOk(files)

(***************************************************************************)
(* Why the records come in order: the listed files are the first ones, and *)
(* all but the last of them were complete when the reader listed them.     *)
(***************************************************************************)
SnapshotInv ==
    /\ \A id \in DOMAIN files, listed \in snapshot : id <= listed => id \in snapshot
    /\ \A id \in DOMAIN read :
          /\ id # Max(snapshot) => read[id] = files[id]
          /\ \A i \in Replayed(read[id]) : i \in Replayed(files[id])
                                           /\ files[id][i] = read[id][i]

------------------------------------------------------------------------------
(* The log beside a reader *)

\* A reader's I/O error is a fault of the system, and none of the log's.
FaultOnly == Fault /\ UNCHANGED <<disk, pc, handle, history, appends>>

\* A step of the reader or of the writer, as the log sees it.
LEMMA ReaderLogStep ==
  ASSUME [ReaderNext]_rvars
  PROVE  [Next]_vars \/ FaultOnly
<1>1. CASE LoadFails \/ ReaderOpenFails
  BY <1>1 DEF LoadFails, ReaderOpenFails, FaultOnly
<1>2. CASE PowerLoss \/ Running
  BY <1>2 DEF Next
<1>3. CASE UNCHANGED vars
  BY <1>3
<1> QED
  BY <1>1, <1>2, <1>3 DEF ReaderNext, rvars, ReaderOpen, ScanIter, Load, Yield, SegmentEnd,
     TailEnd, Advance, DecodeFails, Exhausted, ReaderDrop

LEMMA FaultKeepsShape ==
  ASSUME ShapeInv, FaultOnly
  PROVE  ShapeInv'
<1>1. faults' \in 0 .. MaxFaults
  BY FaultBound DEF FaultOnly, ShapeInv
<1> QED
  BY <1>1 DEF FaultOnly, ShapeInv, TypeOK, disk, handle, history, Opened, ActiveFile, Laid

LEMMA FaultKeepsLog ==
  ASSUME LogInv, FaultOnly
  PROVE  LogInv'
<1>1. ShapeInv'
  BY FaultKeepsShape DEF LogInv
<1>2. CleanHandleInv' /\ RotationInv' /\ WritingInv' /\ DamageInv' /\ SyncedInv'
  BY DEF LogInv, FaultOnly, disk, handle, history, Opened, ActiveFile, AllWhole,
     CleanHandleInv, RotationInv, WritingInv, DamageInv, SyncedInv
<1>3. PendingInv' /\ DurableInv'
  BY DEF LogInv, FaultOnly, disk, handle, history, PendingInv, DurableInv, Intact,
     AllWhole, RefersToItsFrame
<1>4. dropped' = {}
  BY DEF LogInv, FaultOnly, disk
<1> QED BY <1>1, <1>2, <1>3, <1>4 DEF LogInv

LEMMA FaultKeepsTxids ==
  ASSUME SealedInv, TxidInv, FaultOnly
  PROVE  SealedInv' /\ TxidInv'
<1>1. SealedInv'
  BY DEF SealedInv, FaultOnly, disk, handle, history, AllWhole
<1>2. TxidsOrdered' /\ TxidsDense'
  BY DEF TxidInv, TxidsOrdered, TxidsDense, FaultOnly, disk, Earlier
<1>3. NextTxidFollows' /\ PendingLast'
  BY DEF TxidInv, NextTxidFollows, PendingLast, FaultOnly, disk, handle, history, Opened,
     ActiveFile
<1> QED BY <1>1, <1>2, <1>3 DEF TxidInv

\* A reader does not disturb the log.
LEMMA ReaderShape == ReaderSpec => []ShapeInv
<1>1. ReaderInit => ShapeInv
  BY ShapeInit DEF ReaderInit
<1>2. ShapeInv /\ [ReaderNext]_rvars => ShapeInv'
  BY ReaderLogStep, ShapeStep, FaultKeepsShape
<1> QED BY <1>1, <1>2, PTL DEF ReaderSpec

LEMMA ReaderLog == ASSUME Platform PROVE ReaderSpec => []LogInv
<1>1. ReaderInit => LogInv
  BY LogInvInit DEF ReaderInit
<1>2. LogInv /\ [ReaderNext]_rvars => LogInv'
  BY ReaderLogStep, LogInvStep, FaultKeepsLog
<1> QED BY <1>1, <1>2, PTL DEF ReaderSpec

LEMMA ReaderTxids ==
  ASSUME Disciplined PROVE ReaderSpec => [](LogInv /\ SealedInv /\ TxidInv)
<1>1. ReaderInit => LogInv /\ SealedInv /\ TxidInv
  BY LogInvInit, SealedInit
     DEF ReaderInit, Init, TxidInv, TxidsOrdered, TxidsDense, NextTxidFollows, PendingLast, Opened
<1>2. LogInv /\ SealedInv /\ TxidInv /\ [ReaderNext]_rvars => (LogInv /\ SealedInv /\ TxidInv)'
  <2> SUFFICES ASSUME LogInv, SealedInv, TxidInv, [ReaderNext]_rvars
               PROVE  (LogInv /\ SealedInv /\ TxidInv)'
    OBVIOUS
  <2>1. CASE FaultOnly
    BY <2>1, FaultKeepsLog, FaultKeepsTxids
  <2>2. CASE [Next]_vars
    <3>1. LogInv' /\ SealedInv'
      BY <2>2, LogInvStep, SealedStep DEF Disciplined
    <3>2. TxidsOrdered' /\ TxidsDense' /\ NextTxidFollows' /\ PendingLast'
      BY <2>2, <3>1, TxidOrderStep, PendingLastStep
    <3> QED BY <3>1, <3>2 DEF TxidInv
  <2> QED BY <2>1, <2>2, ReaderLogStep
<1> QED BY <1>1, <1>2, PTL DEF ReaderSpec

------------------------------------------------------------------------------
(* Decoding a segment *)

\* A file that is whole up to its end.
LEMMA DecodedToTheEnd ==
  ASSUME NEW s \in Seq(Chunk), AllWhole(s, Len(s))
  PROVE  /\ Replayed(s) = 1 .. Len(s)
         /\ LogicalEnd(s) = FileSize(s)
         /\ \A isLast \in BOOLEAN : ScanSegmentOk(s, isLast)
<1>1. \A i \in 1 .. Len(s) : DecodeNext(s, i) = "Ok"
  BY DecodeOk DEF AllWhole
<1> QED BY <1>1, WholeReplayed DEF LogicalEnd, ScanSegmentOk

\* A file that is whole up to frame n, which is not.
LEMMA DecodedUpTo ==
  ASSUME NEW s \in Seq(Chunk), Laid(s), NEW n \in 1 .. Len(s),
         AllWhole(s, n - 1), DecodeNext(s, n) # "Ok"
  PROVE  /\ Replayed(s) = 1 .. n - 1
         /\ LogicalEnd(s) = s[n].at
         /\ s[n].at \in Nat
         /\ s[n].at < FileSize(s)
         /\ \A isLast \in BOOLEAN :
               ScanSegmentOk(s, isLast)
                 <=> isLast /\ DecodeNext(s, n) \in {"Truncated", "CrcMismatch"}
<1>0. Len(s) \in Nat /\ n \in Nat
  OBVIOUS
<1>1. \A j \in 1 .. n - 1 : DecodeNext(s, j) = "Ok"
  BY <1>0, DecodeOk DEF AllWhole
<1>2. Replayed(s) = 1 .. n - 1
  <2>1. ASSUME NEW i \in 1 .. Len(s), \A j \in 1 .. i : DecodeNext(s, j) = "Ok"
        PROVE  i \in 1 .. n - 1
    <3>1. ~(n \in 1 .. i) BY <2>1
    <3> QED BY <1>0, <3>1
  <2>2. ASSUME NEW i \in 1 .. n - 1
        PROVE  i \in 1 .. Len(s) /\ \A j \in 1 .. i : DecodeNext(s, j) = "Ok"
    BY <1>0, <1>1
  <2> QED BY <2>1, <2>2 DEF Replayed
<1>3. LogicalEnd(s) = s[n].at
  <2> DEFINE Stop(i) == DecodeNext(s, i) # "Ok" /\ \A j \in 1 .. (i - 1) : DecodeNext(s, j) = "Ok"
  <2>1. Stop(n) BY <1>1
  <2>2. ASSUME NEW i \in 1 .. Len(s), Stop(i) PROVE i = n
    <3>1. ~(n \in 1 .. i - 1) BY <2>2
    <3>2. ~(i \in 1 .. n - 1) BY <1>1, <2>2
    <3> QED BY <1>0, <3>1, <3>2
  <2> HIDE DEF Stop
  <2>3. (CHOOSE i \in 1 .. Len(s) : Stop(i)) = n
    BY <2>1, <2>2
  <2> QED BY <2>3 DEF LogicalEnd, Stop
<1>4. s[n].at \in Nat /\ s[n].at < FileSize(s)
  <2>1. s[n].at \in Nat /\ s[n].len \in Nat /\ s[n].len > 0
    BY ChunkFields DEF Laid
  <2>2. s[n].at + s[n].len <= FileSize(s) /\ FileSize(s) \in Nat
    BY FrameInFile, FileSizeType
  <2> QED BY <2>1, <2>2
<1>5. ASSUME NEW isLast \in BOOLEAN
      PROVE  ScanSegmentOk(s, isLast)
               <=> isLast /\ DecodeNext(s, n) \in {"Truncated", "CrcMismatch"}
  <2>1. ASSUME ScanSegmentOk(s, isLast)
        PROVE  isLast /\ DecodeNext(s, n) \in {"Truncated", "CrcMismatch"}
    BY <1>1, <2>1 DEF ScanSegmentOk
  <2>2. ASSUME isLast /\ DecodeNext(s, n) \in {"Truncated", "CrcMismatch"}
        PROVE  ScanSegmentOk(s, isLast)
    <3>1. ASSUME NEW i \in 1 .. Len(s), \A j \in 1 .. (i - 1) : DecodeNext(s, j) = "Ok"
          PROVE  i \in 1 .. n - 1 \/ i = n
      <4>1. ~(n \in 1 .. i - 1) BY <3>1
      <4> QED BY <1>0, <4>1
    <3> QED BY <1>1, <2>2, <3>1 DEF ScanSegmentOk
  <2> QED BY <2>1, <2>2
<1> QED BY <1>2, <1>3, <1>4, <1>5

------------------------------------------------------------------------------
(* The place of the iteration *)

LEMMA SnapshotMax ==
  ASSUME ReaderTypeOK, PlaceInv, snapshot # {}
  PROVE  Max(snapshot) \in snapshot /\ \A id \in snapshot : id <= Max(snapshot)
<1>1. snapshot \in SUBSET Nat /\ MaxListedId \in Nat
  BY SegmentsAssumption DEF ReaderTypeOK, Ids
<1> QED BY <1>1, NatMax DEF PlaceInv

LEMMA CurIs ==
  ASSUME ReaderTypeOK, left # {}
  PROVE  Cur \in left /\ Cur \in Ids /\ \A id \in left : Cur <= id
<1>1. left \in SUBSET Nat
  BY DEF ReaderTypeOK, Ids
<1>2. \E x \in left : \A y \in left : x <= y
  BY <1>1, NatMin
<1>3. Cur \in left /\ \A y \in left : Cur <= y
  BY <1>2 DEF Cur, Min
<1> QED BY <1>3 DEF ReaderTypeOK

\* The last id from cur_idx on is the last of the snapshot.
LEMMA LastIsMax ==
  ASSUME ReaderTypeOK, PlaceInv, left # {}
  PROVE  IsLast <=> Cur = Max(snapshot)
<1>1. Cur \in left /\ \A id \in left : Cur <= id
  BY CurIs
<1>2. snapshot \in SUBSET Nat /\ left \subseteq snapshot /\ snapshot # {}
  BY DEF ReaderTypeOK, Ids
<1>3. Max(snapshot) \in snapshot /\ \A id \in snapshot : id <= Max(snapshot)
  BY <1>2, SnapshotMax
<1> DEFINE m == Max(snapshot)
           c == Cur
<1>4. /\ m \in snapshot /\ \A id \in snapshot : id <= m
      /\ c \in left /\ \A id \in left : c <= id
      /\ \A id \in left, below \in snapshot \ left : below < id
  BY <1>1, <1>3 DEF PlaceInv
<1> HIDE DEF m, c
<1>5. m \in Nat /\ c \in Nat /\ c <= m
  BY <1>2, <1>4
<1>6. m \in left
  <2> SUFFICES ASSUME m \notin left PROVE FALSE
    OBVIOUS
  <2>1. m < c BY <1>4
  <2> QED BY <1>5, <2>1
<1>7. ASSUME c = m PROVE left = {c}
  <2>1. ASSUME NEW id \in left PROVE id = c
    <3>1. id <= c /\ c <= id /\ id \in Nat BY <1>2, <1>4, <1>7
    <3> QED BY <1>5, <3>1
  <2> QED BY <1>4, <2>1
<1> QED BY <1>6, <1>7 DEF IsLast, m, c

------------------------------------------------------------------------------
(* The iterator, step by step *)

\* Files go away in a power loss only, which ends the reader too.
LEMMA FilesStay ==
  ASSUME ShapeInv, Running \/ FaultOnly \/ UNCHANGED vars
  PROVE  DOMAIN files \subseteq DOMAIN files'
<1>1. CASE UNCHANGED files
  BY <1>1
<1>2. CASE OpenCreate
  BY <1>2 DEF OpenCreate
<1>3. CASE RotateCreate
  BY <1>3 DEF RotateCreate
<1>4. CASE AppendFinish \/ \E d \in Data, cut \in Cuts : AppendBegin(d, cut)
  BY <1>4 DEF AppendFinish, AppendBegin
<1> QED
  BY <1>1, <1>2, <1>3, <1>4 DEF Running, Progress, OpenCreated, OpenExisting, OpenRefused,
     OpenFails, AppendError, FsyncBegin, FsyncFinish, SyncAll, SyncAllError, RotateBegin,
     RotateSyncDir, RotateFinish, DirectoryError, RotateListError, Scan, Close, Crash,
     FaultOnly, vars, disk

\* A new iterator, or none.
LEMMA IterFresh ==
  ASSUME snapshot' \in SUBSET Ids, \A id \in snapshot' : id <= MaxListedId,
         snapshot' \subseteq DOMAIN files',
         ~loaded', loaded' \in BOOLEAN, buf' \in Seq(Chunk), pos' \in Nat, yielded' = <<>>,
         iterReport' = NoRecords, damage' = FALSE, read' = <<>>,
         \/ (rpc' \in {"none", "open"} /\ left' = {})
         \/ (rpc' = "iterating" /\ left' = snapshot')
  PROVE  IterInv'
<1>1. DOMAIN read' = {} /\ DOMAIN yielded' = {} /\ Len(yielded') = 0
  OBVIOUS
<1>2. Cardinality(DOMAIN read') = 0
  BY <1>1, FS_EmptySet
<1>3. ReaderTypeOK'
  BY <1>1 DEF ReaderTypeOK, NoRecords, IterReport
<1>4. PlaceInv'
  BY <1>1 DEF PlaceInv
<1>5. TakenInv'
  BY <1>1 DEF TakenInv
<1>6. CountInv'
  BY <1>1, <1>2 DEF CountInv, NoRecords
<1> QED BY <1>3, <1>4, <1>5, <1>6 DEF IterInv

\* The iterator goes on, ends or fails where it is.
LEMMA IterSame ==
  ASSUME IterInv, DOMAIN files \subseteq DOMAIN files',
         UNCHANGED <<snapshot, left, loaded, buf, pos, yielded, iterReport, read>>,
         \/ (rpc' = rpc /\ damage' = damage)
         \/ (rpc = "iterating" /\ rpc' = "failed" /\ damage' = damage)
         \/ (rpc = "iterating" /\ rpc' = "done" /\ damage' = damage /\ left = {})
         \/ /\ rpc = "iterating" /\ rpc' = "failed" /\ damage' = TRUE
            /\ \E id \in DOMAIN read : ~ScanSegmentOk(read[id], id = Max(snapshot))
  PROVE  IterInv'
<1>1. ReaderTypeOK'
  BY DEF IterInv, ReaderTypeOK
<1>2. PlaceInv'
  BY DEF IterInv, PlaceInv, Cur
<1>3. TakenInv'
  <2>1. Taken' = Taken /\ Yielded' = Yielded /\ Cur' = Cur
    BY DEF Taken, Yielded, Cur
  <2>2. AllWhole(buf, pos)' <=> AllWhole(buf, pos)
    BY DEF AllWhole
  <2> QED BY <2>1, <2>2 DEF IterInv, TakenInv
<1>4. CountInv'
  BY DEF IterInv, CountInv, YieldedRecord
<1> QED BY <1>1, <1>2, <1>3, <1>4 DEF IterInv

LEMMA IterDecodeFails ==
  ASSUME IterInv, DecodeFails
  PROVE  IterInv'
<1>1. /\ ReaderTypeOK /\ PlaceInv /\ TakenInv
      /\ loaded /\ left # {} /\ pos \in Nat /\ pos < Len(buf)
      /\ buf = read[Cur] /\ Cur \in DOMAIN read /\ AllWhole(buf, pos)
      /\ buf \in Seq(Chunk) /\ Laid(buf)
  BY DEF IterInv, ReaderTypeOK, PlaceInv, TakenInv, DecodeFails, Decoding
<1> DEFINE n == pos + 1
<1>2. n \in 1 .. Len(buf) /\ n - 1 = pos
  BY <1>1
<1>3. DecodeNext(buf, n) # "Ok" /\ ~(IsLast /\ DecodeNext(buf, n) \in {"Truncated", "CrcMismatch"})
  BY DEF DecodeFails, Tolerated
<1> HIDE DEF n
<1>4. ~ScanSegmentOk(buf, Cur = Max(snapshot))
  BY <1>1, <1>2, <1>3, LastIsMax, DecodedUpTo
<1>5. \E id \in DOMAIN read : ~ScanSegmentOk(read[id], id = Max(snapshot))
  BY <1>1, <1>4
<1> QED
  BY <1>5, IterSame DEF DecodeFails, Decoding, vars, disk

LEMMA MaxOfTwo ==
  ASSUME NEW a \in Nat, NEW b \in Nat
  PROVE  Max({a, b}) \in {a, b} /\ a <= Max({a, b}) /\ b <= Max({a, b})
<1>1. {a, b} \in SUBSET Nat /\ {a, b} # {} /\ a + b \in Nat /\ \A x \in {a, b} : x <= a + b
  OBVIOUS
<1> QED BY <1>1, NatMax

LEMMA ReadFinite ==
  ASSUME IterInv
  PROVE  IsFiniteSet(DOMAIN read) /\ IsFiniteSet(snapshot)
<1>1. IsFiniteSet(1 .. MaxListedId)
  BY FS_Interval, SegmentsAssumption
<1>2. snapshot \subseteq 1 .. MaxListedId /\ DOMAIN read \subseteq snapshot
  BY SegmentsAssumption DEF IterInv, ReaderTypeOK, PlaceInv, Ids
<1> QED BY <1>1, <1>2, FS_Subset

\* What an iteration that has a segment before it knows.
LEMMA AtSegment ==
  ASSUME IterInv, rpc = "iterating", left # {}
  PROVE  /\ Cur \in left /\ Cur \in Ids /\ Cur \in snapshot /\ Cur \in DOMAIN files
         /\ \A id \in left : Cur <= id
         /\ \A id \in DOMAIN read : id \in Ids /\ id # Cur => id \in snapshot \ left /\ id < Cur
         /\ DOMAIN read = (snapshot \ left) \cup IF loaded THEN {Cur} ELSE {}
         /\ DOMAIN read \subseteq Ids
<1>1. Cur \in left /\ Cur \in Ids /\ \A id \in left : Cur <= id
  BY CurIs DEF IterInv
<1> QED BY <1>1 DEF IterInv, PlaceInv, ReaderTypeOK

LEMMA IterLoad ==
  ASSUME ShapeInv, IterInv, Load
  PROVE  IterInv'
<1> DEFINE c == Cur
<1>1. /\ ReaderTypeOK /\ PlaceInv /\ TakenInv /\ CountInv
      /\ rpc = "iterating" /\ left # {} /\ ~loaded
  BY DEF IterInv, Load
<1>2. /\ c \in left /\ c \in Ids /\ c \in snapshot /\ c \in DOMAIN files
      /\ DOMAIN read = snapshot \ left /\ c \notin DOMAIN read
      /\ \A id \in DOMAIN read : id # c
  BY <1>1, AtSegment
<1>3. /\ rpc' = rpc /\ snapshot' = snapshot /\ left' = left /\ loaded' = TRUE
      /\ buf' = files[c] /\ pos' = 0 /\ yielded' = yielded /\ damage' = damage
      /\ iterReport' = [iterReport EXCEPT !.files_scanned = @ + 1]
      /\ read' = [id \in DOMAIN read \cup {c} |-> IF id = c THEN files[c] ELSE read[id]]
      /\ Cur' = c /\ files' = files
  BY DEF Load, Cur, vars, disk
<1>4. files[c] \in Seq(Chunk) /\ Laid(files[c])
  BY <1>2 DEF ShapeInv, TypeOK
<1> HIDE DEF c
<1>5. /\ DOMAIN read' = DOMAIN read \cup {c}
      /\ read'[c] = files[c]
      /\ \A id \in DOMAIN read : read'[id] = read[id]
  BY <1>2, <1>3
<1>6. /\ \A id \in DOMAIN read : Taken[id] = Replayed(read[id]) /\ Taken'[id] = Taken[id]
      /\ Taken'[c] = {}
  BY <1>1, <1>2, <1>3, <1>5 DEF Taken
<1>7. ReaderTypeOK'
  <2>1. iterReport' \in IterReport
    BY <1>1, <1>3 DEF ReaderTypeOK, IterReport
  <2> QED BY <1>1, <1>2, <1>3, <1>4, <1>5, <2>1 DEF ReaderTypeOK
<1>8. PlaceInv'
  BY <1>1, <1>2, <1>3, <1>5 DEF PlaceInv
<1>9. TakenInv'
  <2>1. read' \in [DOMAIN read' -> Seq(Chunk)] /\ \A id \in DOMAIN read' : Laid(read'[id])
    BY <1>1, <1>3, <1>4, <1>5 DEF TakenInv
  <2>2. buf' = read'[Cur'] /\ AllWhole(buf', pos')
    BY <1>3, <1>5 DEF AllWhole
  <2>3. \A n \in DOMAIN yielded' : /\ yielded'[n][1] \in DOMAIN read'
                                   /\ yielded'[n][2] \in Taken'[yielded'[n][1]]
    BY <1>1, <1>3, <1>5, <1>6 DEF TakenInv
  <2>4. \A id \in DOMAIN read' : \A i \in Taken'[id] : <<id, i>> \in Yielded'
    <3>1. Yielded' = Yielded
      BY <1>3 DEF Yielded
    <3> QED BY <1>1, <1>5, <1>6, <3>1 DEF TakenInv
  <2>5. \A id \in DOMAIN read' :
           (loaded' /\ id = Cur') \/ ScanSegmentOk(read'[id], id = Max(snapshot'))
    BY <1>1, <1>3, <1>5 DEF TakenInv
  <2>6. damage' => \E id \in DOMAIN read' : ~ScanSegmentOk(read'[id], id = Max(snapshot'))
    BY <1>1, <1>3, <1>5 DEF TakenInv
  <2>7. /\ yielded' \in Seq(Ids \X Ids)
        /\ \A m, n \in DOMAIN yielded' : m < n =>
              Earlier(yielded'[m][1], yielded'[m][2], yielded'[n][1], yielded'[n][2])
    BY <1>1, <1>3 DEF TakenInv
  <2> QED BY <2>1, <2>2, <2>3, <2>4, <2>5, <2>6, <2>7 DEF TakenInv
<1>10. CountInv'
  <2>1. Cardinality(DOMAIN read') = Cardinality(DOMAIN read) + 1
    BY <1>2, <1>5, ReadFinite, FS_AddElement
  <2>2. /\ iterReport'.files_scanned = iterReport.files_scanned + 1
        /\ iterReport'.records_replayed = iterReport.records_replayed
        /\ iterReport'.last_txid_seen = iterReport.last_txid_seen
        /\ iterReport'.tail_truncated = iterReport.tail_truncated
        /\ iterReport'.tail_bytes_discarded = iterReport.tail_bytes_discarded
    BY <1>1, <1>3 DEF ReaderTypeOK, IterReport
  <2>3. \A n \in DOMAIN yielded : YieldedRecord(n)' = YieldedRecord(n)
    BY <1>1, <1>3, <1>5 DEF YieldedRecord, ReaderTypeOK
  <2> QED BY <1>1, <1>3, <2>1, <2>2, <2>3 DEF CountInv
<1> QED BY <1>7, <1>8, <1>9, <1>10 DEF IterInv

LEMMA IterYield ==
  ASSUME IterInv, Yield
  PROVE  IterInv'
<1>0. \E c, n : c = Cur /\ n = Len(yielded)
  OBVIOUS
<1> PICK c, n : c = Cur /\ n = Len(yielded)
  BY <1>0
<1>1. /\ ReaderTypeOK /\ PlaceInv /\ TakenInv /\ CountInv
      /\ rpc = "iterating" /\ left # {} /\ loaded
  BY DEF IterInv, Yield, Decoding, PlaceInv
<1>2. /\ c \in left /\ c \in Ids /\ c \in snapshot /\ c \in DOMAIN read
      /\ \A id \in DOMAIN read : id # c => id < c
      /\ DOMAIN read \subseteq Ids
  BY <1>1, AtSegment
<1>3. /\ rpc' = rpc /\ snapshot' = snapshot /\ left' = left /\ loaded' = loaded
      /\ buf' = buf /\ pos' = pos + 1 /\ yielded' = Append(yielded, <<c, pos + 1>>)
      /\ damage' = damage /\ read' = read /\ Cur' = c /\ files' = files
      /\ iterReport' = [iterReport EXCEPT
                           !.records_replayed = @ + 1,
                           !.last_txid_seen = Max({@, buf[pos + 1].txid})]
  BY DEF Yield, Cur, vars, disk
<1>4. /\ buf = read[c] /\ buf \in Seq(Chunk) /\ AllWhole(buf, pos)
      /\ pos \in Nat /\ pos < Len(buf) /\ pos + 1 \in 1 .. Len(buf)
      /\ buf[pos + 1].state = "whole"
      /\ buf[pos + 1].txid \in Nat
  <2>1. /\ buf = read[c] /\ buf \in Seq(Chunk) /\ AllWhole(buf, pos)
        /\ pos \in Nat /\ pos < Len(buf) /\ DecodeNext(buf, pos + 1) = "Ok"
    BY <1>1 DEF Yield, ReaderTypeOK, TakenInv
  <2>2. pos + 1 \in 1 .. Len(buf)
    BY <2>1
  <2> QED BY <2>1, <2>2, DecodeOk, ChunkFields, WireAssumption
<1>5. /\ Taken[c] = 1 .. pos /\ Taken'[c] = 1 .. pos + 1
      /\ \A id \in DOMAIN read : id # c => Taken'[id] = Taken[id]
  <2>1. Taken' = [id \in DOMAIN read |-> IF id = c THEN 1 .. pos + 1 ELSE Replayed(read[id])]
    BY <1>1, <1>3 DEF Taken
  <2>2. Taken = [id \in DOMAIN read |-> IF id = c THEN 1 .. pos ELSE Replayed(read[id])]
    BY <1>1 DEF Taken
  <2> QED BY <1>2, <2>1, <2>2
<1>6. /\ yielded \in Seq(Ids \X Ids) /\ n \in Nat /\ DOMAIN yielded = 1 .. n
      /\ <<c, pos + 1>> \in Ids \X Ids
      /\ yielded' \in Seq(Ids \X Ids) /\ Len(yielded') = n + 1 /\ DOMAIN yielded' = 1 .. n + 1
      /\ yielded'[n + 1] = <<c, pos + 1>>
      /\ \A k \in 1 .. n : yielded'[k] = yielded[k]
  BY <1>1, <1>2, <1>3, <1>4 DEF TakenInv, Ids
<1>7. ASSUME NEW k \in 1 .. n
      PROVE  /\ yielded[k][1] \in DOMAIN read /\ yielded[k][2] \in Taken[yielded[k][1]]
             /\ yielded[k] = <<yielded[k][1], yielded[k][2]>>
             /\ Earlier(yielded[k][1], yielded[k][2], c, pos + 1)
  <2>1. yielded[k][1] \in DOMAIN read /\ yielded[k][2] \in Taken[yielded[k][1]]
    BY <1>1, <1>6 DEF TakenInv
  <2>2. yielded[k] = <<yielded[k][1], yielded[k][2]>>
    BY <1>6
  <2>3. Earlier(yielded[k][1], yielded[k][2], c, pos + 1)
    <3>1. CASE yielded[k][1] = c
      <4>1. yielded[k][2] \in 1 .. pos
        BY <1>5, <2>1, <3>1
      <4>2. yielded[k][2] < pos + 1
        BY <1>4, <4>1
      <4> QED BY <3>1, <4>2 DEF Earlier
    <3>2. CASE yielded[k][1] # c
      <4>1. yielded[k][1] < c
        BY <1>2, <2>1, <3>2
      <4> QED BY <4>1 DEF Earlier
    <3> QED BY <3>1, <3>2
  <2> QED BY <2>1, <2>2, <2>3
<1>8. ReaderTypeOK'
  <2>1. Max({iterReport.last_txid_seen, buf[pos + 1].txid}) \in Nat
    BY <1>1, <1>4, MaxOfTwo DEF ReaderTypeOK, IterReport
  <2>2. iterReport' \in IterReport
    <3> DEFINE t == Max({iterReport.last_txid_seen, buf[pos + 1].txid})
    <3>1. iterReport' = [[iterReport EXCEPT !.records_replayed = @ + 1] EXCEPT !.last_txid_seen = t]
      BY <1>1, <1>3 DEF ReaderTypeOK, IterReport
    <3>2. t \in Nat /\ iterReport \in IterReport
      BY <1>1, <2>1 DEF ReaderTypeOK
    <3> DEFINE r == [iterReport EXCEPT !.records_replayed = @ + 1]
    <3>3. r \in IterReport
      BY <3>2 DEF IterReport
    <3> HIDE DEF t, r
    <3>4. [r EXCEPT !.last_txid_seen = t] \in IterReport
      BY <3>2, <3>3 DEF IterReport
    <3> QED BY <3>1, <3>4 DEF r
  <2>3. \A k \in DOMAIN yielded' : yielded'[k][1] \in DOMAIN read'
    <3>1. \A k \in 1 .. n + 1 : k \in 1 .. n \/ k = n + 1
      BY <1>6
    <3> QED BY <1>2, <1>3, <1>6, <1>7, <3>1
  <2> QED BY <1>1, <1>3, <1>4, <2>2, <2>3 DEF ReaderTypeOK
<1>9. PlaceInv'
  BY <1>1, <1>3 DEF PlaceInv
<1>10. TakenInv'
  <2>0. \A k \in 1 .. n + 1 : k \in 1 .. n \/ k = n + 1
    BY <1>6
  <2>1. buf' = read'[Cur'] /\ AllWhole(buf', pos')
    <3>1. ASSUME NEW i \in 1 .. pos + 1 PROVE buf[i].state = "whole"
      <4>1. i \in 1 .. pos \/ i = pos + 1 BY <1>4
      <4> QED BY <1>4, <4>1 DEF AllWhole
    <3> QED BY <1>3, <1>4, <3>1 DEF AllWhole
  <2>2. \A k \in DOMAIN yielded' : /\ yielded'[k][1] \in DOMAIN read'
                                   /\ yielded'[k][2] \in Taken'[yielded'[k][1]]
    <3>1. pos + 1 \in 1 .. pos + 1 /\ \A i \in 1 .. pos : i \in 1 .. pos + 1
      BY <1>4
    <3>2. ASSUME NEW k \in 1 .. n PROVE yielded[k][2] \in Taken'[yielded[k][1]]
      BY <1>5, <1>7, <3>1
    <3> QED BY <1>2, <1>3, <1>5, <1>6, <1>7, <2>0, <3>1, <3>2
  <2>3. \A id \in DOMAIN read' : \A i \in Taken'[id] : <<id, i>> \in Yielded'
    <3> SUFFICES ASSUME NEW id \in DOMAIN read, NEW i \in Taken'[id]
                 PROVE  \E k \in 1 .. n + 1 : yielded'[k] = <<id, i>>
      <4>1. DOMAIN yielded' = 1 .. n + 1 /\ DOMAIN read' = DOMAIN read
        BY <1>3, <1>6
      <4>2. Yielded' = {yielded'[k] : k \in 1 .. n + 1}
        BY <4>1 DEF Yielded
      <4> QED BY <4>1, <4>2
    <3>1. CASE id = c /\ i = pos + 1
      BY <1>6, <3>1
    <3>2. CASE i \in Taken[id]
      <4>0. <<id, i>> \in Yielded
        BY <1>1, <3>2 DEF TakenInv
      <4>1. PICK k \in 1 .. n : yielded[k] = <<id, i>>
        BY <1>6, <4>0 DEF Yielded
      <4>2. k \in 1 .. n + 1 /\ yielded'[k] = <<id, i>>
        BY <1>6, <4>1
      <4> QED BY <4>2
    <3>3. CASE id = c
      <4>1. i \in 1 .. pos \/ i = pos + 1 BY <1>4, <1>5, <3>3
      <4> QED BY <1>5, <3>1, <3>2, <3>3, <4>1
    <3> QED BY <1>5, <3>2, <3>3
  <2>4. ASSUME NEW k \in DOMAIN yielded', NEW m \in DOMAIN yielded', k < m
        PROVE  Earlier(yielded'[k][1], yielded'[k][2], yielded'[m][1], yielded'[m][2])
    <3>1. k \in 1 .. n
      BY <1>6, <2>4
    <3>2. CASE m = n + 1
      BY <1>6, <1>7, <3>1, <3>2
    <3>3. CASE m \in 1 .. n
      BY <1>1, <1>6, <2>4, <3>1, <3>3 DEF TakenInv
    <3> QED BY <1>6, <2>0, <3>2, <3>3
  <2>5. /\ read' \in [DOMAIN read' -> Seq(Chunk)] /\ \A id \in DOMAIN read' : Laid(read'[id])
        /\ \A id \in DOMAIN read' :
              (loaded' /\ id = Cur') \/ ScanSegmentOk(read'[id], id = Max(snapshot'))
        /\ damage' => \E id \in DOMAIN read' : ~ScanSegmentOk(read'[id], id = Max(snapshot'))
    BY <1>1, <1>3 DEF TakenInv
  <2> QED BY <1>6, <2>1, <2>2, <2>3, <2>4, <2>5 DEF TakenInv
<1>11. CountInv'
  <2> DEFINE t == iterReport.last_txid_seen
             u == buf[pos + 1].txid
  <2>1. t \in Nat /\ u \in Nat
    BY <1>1, <1>4 DEF ReaderTypeOK, IterReport
  <2>2. /\ iterReport'.files_scanned = iterReport.files_scanned
        /\ iterReport'.records_replayed = iterReport.records_replayed + 1
        /\ iterReport'.last_txid_seen = Max({t, u})
        /\ iterReport'.tail_truncated = iterReport.tail_truncated
        /\ iterReport'.tail_bytes_discarded = iterReport.tail_bytes_discarded
    BY <1>1, <1>3 DEF ReaderTypeOK, IterReport
  <2>3. Max({t, u}) \in {t, u} /\ t <= Max({t, u}) /\ u <= Max({t, u})
    BY <2>1, MaxOfTwo
  <2>4. /\ \A k \in 1 .. n : YieldedRecord(k)' = YieldedRecord(k)
        /\ YieldedRecord(n + 1)' = buf[pos + 1]
    BY <1>3, <1>4, <1>6 DEF YieldedRecord
  <2>5. \A k \in 1 .. n : YieldedRecord(k).txid \in Nat /\ YieldedRecord(k).txid <= t
    <3>1. ASSUME NEW k \in 1 .. n PROVE YieldedRecord(k).txid \in Nat
      <4>1. yielded[k][1] \in DOMAIN read /\ read[yielded[k][1]] \in Seq(Chunk)
        BY <1>1, <1>7 DEF TakenInv
      <4>2. yielded[k][2] \in 1 .. Len(read[yielded[k][1]])
        <5>1. CASE yielded[k][1] = c
          BY <1>4, <1>5, <1>7, <5>1
        <5>2. CASE yielded[k][1] # c
          BY <1>7, <5>2 DEF Taken, Replayed
        <5> QED BY <5>1, <5>2
      <4> QED BY <4>1, <4>2, ChunkFields DEF YieldedRecord
    <3> QED BY <1>1, <1>6, <3>1 DEF CountInv
  <2> HIDE DEF t, u
  <2>6. \A k \in 1 .. n + 1 : YieldedRecord(k)'.txid <= Max({t, u})
    <3>1. \A k \in 1 .. n + 1 : k \in 1 .. n \/ k = n + 1
      BY <1>6
    <3>2. Max({t, u}) \in Nat
      BY <2>1, <2>3
    <3>3. ASSUME NEW k \in 1 .. n PROVE YieldedRecord(k).txid <= Max({t, u})
      BY <2>1, <2>3, <2>5, <3>2
    <3> QED BY <2>3, <2>4, <3>1, <3>3 DEF u
  <2>7. Max({t, u}) = 0 \/ \E k \in 1 .. n + 1 : YieldedRecord(k)'.txid = Max({t, u})
    <3>1. CASE Max({t, u}) = u
      <4>1. n + 1 \in 1 .. n + 1 BY <1>6
      <4> QED BY <2>4, <3>1, <4>1 DEF u
    <3>2. CASE Max({t, u}) = t /\ t # 0
      <4>1. PICK k \in 1 .. n : YieldedRecord(k).txid = t
        BY <1>1, <1>6, <3>2 DEF CountInv, t
      <4>2. k \in 1 .. n + 1
        BY <1>6
      <4> QED BY <2>4, <3>2, <4>1, <4>2
    <3> QED BY <2>3, <3>1, <3>2
  <2> QED BY <1>1, <1>3, <1>6, <2>2, <2>6, <2>7 DEF CountInv
<1> QED BY <1>8, <1>9, <1>10, <1>11 DEF IterInv

\* The iteration leaves a segment, all of whose records it has returned.
LEMMA IterAdvance ==
  ASSUME IterInv, Decoding, Advance,
         Replayed(buf) = 1 .. pos, ScanSegmentOk(buf, Cur = Max(snapshot)),
         iterReport' \in IterReport,
         iterReport'.files_scanned = iterReport.files_scanned,
         iterReport'.records_replayed = iterReport.records_replayed,
         iterReport'.last_txid_seen = iterReport.last_txid_seen,
         IF IsLast
         THEN /\ iterReport'.tail_bytes_discarded = FileSize(buf) - LogicalEnd(buf)
              /\ iterReport'.tail_truncated = IF LogicalEnd(buf) = FileSize(buf) THEN 0 ELSE 1
         ELSE iterReport'.tail_bytes_discarded = 0 /\ iterReport'.tail_truncated = 0
  PROVE  IterInv'
<1>0. \E c : c = Cur
  OBVIOUS
<1> PICK c : c = Cur
  BY <1>0
<1>1. /\ ReaderTypeOK /\ PlaceInv /\ TakenInv /\ CountInv
      /\ rpc = "iterating" /\ left # {} /\ loaded /\ buf = read[c]
  BY DEF IterInv, Decoding, PlaceInv, TakenInv
<1>2. /\ c \in left /\ c \in Nat /\ c \in snapshot /\ c \in DOMAIN read
      /\ \A id \in left : c <= id
      /\ DOMAIN read = (snapshot \ left) \cup {c}
      /\ left \subseteq Nat /\ left \subseteq snapshot
  BY <1>1, AtSegment DEF ReaderTypeOK, Ids
<1>3. /\ rpc' = rpc /\ snapshot' = snapshot /\ left' = left \ {c} /\ loaded' = FALSE
      /\ buf' = <<>> /\ pos' = pos /\ yielded' = yielded
      /\ damage' = damage /\ read' = read /\ files' = files
  BY DEF Advance, vars, disk
<1>4. Taken' = Taken
  <2>1. Taken' = [id \in DOMAIN read |-> Replayed(read[id])]
    BY <1>3 DEF Taken
  <2>2. Taken = [id \in DOMAIN read |-> IF id = c THEN 1 .. pos ELSE Replayed(read[id])]
    BY <1>1 DEF Taken
  <2> QED BY <1>1, <2>1, <2>2
<1>5. ReaderTypeOK'
  <2>1. <<>> \in Seq(Chunk) OBVIOUS
  <2> QED BY <1>1, <1>3, <2>1 DEF ReaderTypeOK
<1>6. PlaceInv'
  <2>1. \A id \in left', below \in snapshot' \ left' : below < id
    <3> SUFFICES ASSUME NEW id \in left, id # c, NEW below \in snapshot, below \notin left \/ below = c
                 PROVE  below < id
      BY <1>3
    <3>1. CASE below = c
      <4>1. c <= id /\ id \in Nat BY <1>2
      <4> QED BY <1>2, <3>1, <4>1
    <3>2. CASE below \notin left
      BY <1>1, <3>2 DEF PlaceInv
    <3> QED BY <3>1, <3>2
  <2>2. DOMAIN read = snapshot \ left'
    BY <1>2, <1>3
  <2> QED BY <1>1, <1>3, <2>1, <2>2 DEF PlaceInv
<1>7. TakenInv'
  <2>1. Yielded' = Yielded
    BY <1>3 DEF Yielded
  <2>2. \A id \in DOMAIN read : ScanSegmentOk(read[id], id = Max(snapshot))
    BY <1>1 DEF TakenInv
  <2> QED BY <1>1, <1>3, <1>4, <2>1, <2>2 DEF TakenInv
<1>8. CountInv'
  <2>1. IsLast <=> left' = {}
    BY <1>2, <1>3 DEF IsLast
  <2>2. IsLast => c = Max(snapshot)
    BY <1>1, LastIsMax
  <2>3. \A n \in DOMAIN yielded : YieldedRecord(n)' = YieldedRecord(n)
    BY <1>3 DEF YieldedRecord
  <2>4. IF left' = {} /\ DOMAIN read' # {}
        THEN LET s == read'[Max(snapshot')]
             IN  /\ iterReport'.tail_bytes_discarded = FileSize(s) - LogicalEnd(s)
                 /\ iterReport'.tail_truncated = IF LogicalEnd(s) = FileSize(s) THEN 0 ELSE 1
        ELSE iterReport'.tail_bytes_discarded = 0 /\ iterReport'.tail_truncated = 0
    BY <1>1, <1>2, <1>3, <2>1, <2>2
  <2> QED BY <1>1, <1>3, <2>3, <2>4 DEF CountInv
<1> QED BY <1>5, <1>6, <1>7, <1>8 DEF IterInv

LEMMA IterSegmentEnd ==
  ASSUME IterInv, SegmentEnd
  PROVE  IterInv'
<1>1. /\ loaded /\ left # {} /\ buf \in Seq(Chunk) /\ AllWhole(buf, Len(buf)) /\ pos = Len(buf)
      /\ Decoding /\ Advance /\ iterReport' = iterReport /\ iterReport \in IterReport
      /\ iterReport.tail_bytes_discarded = 0 /\ iterReport.tail_truncated = 0
  BY DEF IterInv, ReaderTypeOK, PlaceInv, TakenInv, CountInv, SegmentEnd, Decoding
<1>2. /\ Replayed(buf) = 1 .. pos /\ LogicalEnd(buf) = FileSize(buf)
      /\ ScanSegmentOk(buf, Cur = Max(snapshot))
  BY <1>1, DecodedToTheEnd
<1>3. FileSize(buf) - LogicalEnd(buf) = 0
  BY <1>1, <1>2, FileSizeType
<1> QED BY <1>1, <1>2, <1>3, IterAdvance

LEMMA IterTailEnd ==
  ASSUME IterInv, TailEnd
  PROVE  IterInv'
<1> DEFINE n == pos + 1
           b == FileSize(buf) - buf[n].at
<1>1. /\ ReaderTypeOK /\ PlaceInv /\ loaded /\ left # {} /\ buf \in Seq(Chunk) /\ Laid(buf)
      /\ AllWhole(buf, pos) /\ pos \in Nat /\ pos < Len(buf)
      /\ Decoding /\ Advance /\ iterReport \in IterReport
      /\ IsLast /\ DecodeNext(buf, n) \in {"Truncated", "CrcMismatch"}
      /\ iterReport.tail_bytes_discarded = 0 /\ iterReport.tail_truncated = 0
      /\ iterReport' = [iterReport EXCEPT !.tail_truncated = @ + 1,
                                          !.tail_bytes_discarded = @ + FileSize(buf) - buf[n].at]
  BY DEF IterInv, ReaderTypeOK, PlaceInv, TakenInv, CountInv, TailEnd, Decoding, Tolerated
<1>2. n \in 1 .. Len(buf) /\ n - 1 = pos
  BY <1>1
<1> HIDE DEF n
<1>3. /\ Replayed(buf) = 1 .. pos /\ LogicalEnd(buf) = buf[n].at
      /\ buf[n].at \in Nat /\ buf[n].at < FileSize(buf)
      /\ ScanSegmentOk(buf, TRUE)
  BY <1>1, <1>2, DecodedUpTo
<1>4. Cur = Max(snapshot)
  BY <1>1, LastIsMax
<1>5. b \in Nat /\ 0 + FileSize(buf) - buf[n].at = b /\ FileSize(buf) \in Nat
  BY <1>1, <1>3, FileSizeType
<1>6. iterReport' = [[iterReport EXCEPT !.tail_truncated = 1] EXCEPT !.tail_bytes_discarded = b]
  <2>1. iterReport' = [iterReport EXCEPT
           !.tail_truncated = iterReport.tail_truncated + 1,
           !.tail_bytes_discarded = iterReport.tail_bytes_discarded + FileSize(buf) - buf[n].at]
    BY <1>1 DEF IterReport
  <2>2. /\ iterReport.tail_truncated + 1 = 1
        /\ iterReport.tail_bytes_discarded + FileSize(buf) - buf[n].at = b
    BY <1>1, <1>5
  <2> QED BY <2>1, <2>2
<1> DEFINE r == [iterReport EXCEPT !.tail_truncated = 1]
<1>7. r \in IterReport /\ r.tail_truncated = 1 /\ r.files_scanned = iterReport.files_scanned
      /\ r.records_replayed = iterReport.records_replayed
      /\ r.last_txid_seen = iterReport.last_txid_seen
  BY <1>1 DEF IterReport
<1> HIDE DEF b, r
<1>8. /\ iterReport' \in IterReport
      /\ iterReport'.files_scanned = iterReport.files_scanned
      /\ iterReport'.records_replayed = iterReport.records_replayed
      /\ iterReport'.last_txid_seen = iterReport.last_txid_seen
      /\ iterReport'.tail_truncated = 1 /\ iterReport'.tail_bytes_discarded = b
  <2>1. iterReport' = [r EXCEPT !.tail_bytes_discarded = b]
    BY <1>6 DEF r
  <2> QED BY <1>5, <1>7, <2>1 DEF IterReport
<1>9. LogicalEnd(buf) # FileSize(buf) /\ b = FileSize(buf) - LogicalEnd(buf)
  BY <1>3, <1>5 DEF b
<1> QED BY <1>1, <1>3, <1>4, <1>8, <1>9, IterAdvance

LEMMA IterInvInit == ReaderInit => IterInv
<1> SUFFICES ASSUME ReaderInit PROVE IterInv
  OBVIOUS
<1>1. DOMAIN read = {} /\ DOMAIN yielded = {} /\ Len(yielded) = 0
  BY DEF ReaderInit
<1>2. Cardinality(DOMAIN read) = 0
  BY <1>1, FS_EmptySet
<1>3. ReaderTypeOK
  <2>1. <<>> \in Seq(Chunk) OBVIOUS
  <2> QED BY <1>1, <2>1 DEF ReaderInit, ReaderTypeOK, NoRecords, IterReport
<1>4. PlaceInv
  BY <1>1 DEF ReaderInit, PlaceInv
<1>5. TakenInv
  BY <1>1 DEF ReaderInit, TakenInv
<1>6. CountInv
  BY <1>1, <1>2 DEF ReaderInit, CountInv, NoRecords
<1> QED BY <1>3, <1>4, <1>5, <1>6 DEF IterInv

LEMMA IterInvStep ==
  ASSUME ShapeInv, IterInv, [ReaderNext]_rvars
  PROVE  IterInv'
<1>1. CASE ReaderOpen
  <2>1. /\ rpc = "none" /\ rpc' = "open" /\ snapshot' = ListSegmentIds(files)
        /\ UNCHANGED <<vars, iterator>>
    BY <1>1 DEF ReaderOpen
  <2>2. /\ left = {} /\ ~loaded /\ read = <<>> /\ yielded = <<>>
        /\ iterReport = NoRecords /\ ~damage
        /\ buf \in Seq(Chunk) /\ pos \in Nat /\ loaded \in BOOLEAN /\ damage \in BOOLEAN
    BY <2>1 DEF IterInv, PlaceInv, ReaderTypeOK
  <2>3. /\ snapshot' \in SUBSET Ids /\ \A id \in snapshot' : id <= MaxListedId
        /\ snapshot' \subseteq DOMAIN files'
    BY <2>1 DEF ShapeInv, TypeOK, ListSegmentIds, vars, disk
  <2> QED BY <2>1, <2>2, <2>3, IterFresh DEF iterator
<1>2. CASE ScanIter
  <2>1. /\ snapshot' \in SUBSET Ids /\ \A id \in snapshot' : id <= MaxListedId
        /\ snapshot' \subseteq DOMAIN files'
    BY <1>2 DEF ScanIter, IterInv, PlaceInv, ReaderTypeOK, vars, disk
  <2>2. <<>> \in Seq(Chunk) OBVIOUS
  <2>3. /\ ~loaded' /\ loaded' \in BOOLEAN /\ buf' \in Seq(Chunk) /\ pos' \in Nat
        /\ yielded' = <<>> /\ iterReport' = NoRecords /\ damage' = FALSE /\ read' = <<>>
        /\ rpc' = "iterating" /\ left' = snapshot'
    BY <1>2, <2>2 DEF ScanIter, FreshIterator
  <2> QED BY <2>1, <2>3, IterFresh
<1>3. CASE NoReader
  <2>1. /\ snapshot' \in SUBSET Ids /\ \A id \in snapshot' : id <= MaxListedId
        /\ snapshot' \subseteq DOMAIN files'
    BY <1>3 DEF NoReader
  <2>2. <<>> \in Seq(Chunk) OBVIOUS
  <2>3. /\ ~loaded' /\ loaded' \in BOOLEAN /\ buf' \in Seq(Chunk) /\ pos' \in Nat
        /\ yielded' = <<>> /\ iterReport' = NoRecords /\ damage' = FALSE /\ read' = <<>>
        /\ rpc' = "none" /\ left' = {}
    BY <1>3, <2>2 DEF NoReader, FreshIterator
  <2> QED BY <2>1, <2>3, IterFresh
<1>4. CASE Load
  BY <1>4, IterLoad
<1>5. CASE Yield
  BY <1>5, IterYield
<1>6. CASE SegmentEnd
  BY <1>6, IterSegmentEnd
<1>7. CASE TailEnd
  BY <1>7, IterTailEnd
<1>8. CASE DecodeFails
  BY <1>8, IterDecodeFails
<1>9. CASE LoadFails \/ ReaderOpenFails
  BY <1>9, IterSame DEF LoadFails, ReaderOpenFails, reader, iterator, disk
<1>10. CASE Exhausted
  BY <1>10, IterSame DEF Exhausted, iterator, vars, disk
<1>11. CASE Running /\ UNCHANGED reader
  <2>1. DOMAIN files \subseteq DOMAIN files'
    BY <1>11, FilesStay
  <2> QED BY <1>11, <2>1, IterSame DEF reader, iterator
<1>12. CASE UNCHANGED rvars
  BY <1>12, IterSame DEF rvars, reader, iterator, vars, disk
<1> QED
  BY <1>1, <1>2, <1>3, <1>4, <1>5, <1>6, <1>7, <1>8, <1>9, <1>10, <1>11, <1>12
     DEF ReaderNext, ReaderDrop

LEMMA IterInvariant == ReaderSpec => [](ShapeInv /\ IterInv)
<1>1. ShapeInv /\ IterInv /\ ShapeInv' /\ [ReaderNext]_rvars => IterInv'
  BY IterInvStep
<1> QED BY <1>1, IterInvInit, ReaderShape, PTL DEF ReaderSpec

\* The reader's variables keep to their types.
THEOREM ReaderTypeCorrect == ReaderSpec => []ReaderTypeOK
<1>1. IterInv => ReaderTypeOK
  BY DEF IterInv
<1> QED BY <1>1, IterInvariant, PTL

\* The records returned so far are records of what was read.
LEMMA YieldedFacts ==
  ASSUME IterInv, NEW n \in DOMAIN yielded
  PROVE  /\ yielded[n] = <<yielded[n][1], yielded[n][2]>>
         /\ yielded[n][1] \in DOMAIN read
         /\ yielded[n][2] \in Replayed(read[yielded[n][1]])
         /\ yielded[n][2] \in 1 .. Len(read[yielded[n][1]])
         /\ read[yielded[n][1]] \in Seq(Chunk)
<1>1. /\ yielded[n] \in Ids \X Ids
      /\ yielded[n][1] \in DOMAIN read /\ yielded[n][2] \in Taken[yielded[n][1]]
      /\ read[yielded[n][1]] \in Seq(Chunk)
  BY DEF IterInv, TakenInv
<1>2. CASE loaded /\ yielded[n][1] = Cur
  <2>1. /\ yielded[n][2] \in 1 .. pos /\ buf = read[Cur] /\ AllWhole(buf, pos)
        /\ pos \in Nat /\ pos <= Len(buf) /\ buf \in Seq(Chunk)
    BY <1>1, <1>2 DEF IterInv, TakenInv, ReaderTypeOK, Taken
  <2> DEFINE i == yielded[n][2]
  <2>2. i \in 1 .. Len(buf) /\ AllWhole(buf, i)
    BY <2>1 DEF AllWhole
  <2> HIDE DEF i
  <2>3. i \in Replayed(buf)
    BY <2>1, <2>2, ReplayedWhole
  <2> QED BY <1>1, <1>2, <2>1, <2>2, <2>3 DEF i
<1>3. CASE ~(loaded /\ yielded[n][1] = Cur)
  BY <1>1, <1>3 DEF Taken, Replayed
<1> QED BY <1>2, <1>3

\* An iteration that has ended has read the whole snapshot.
LEMMA AllRead ==
  ASSUME IterInv, rpc = "done"
  PROVE  /\ DOMAIN read = snapshot /\ ListSegmentIds(read) = snapshot /\ left = {}
         /\ ActiveSegmentId(read) = Max(snapshot)
         /\ read \in [DOMAIN read -> Seq(Chunk)]
         /\ Taken = [id \in snapshot |-> Replayed(read[id])]
         /\ ~loaded
<1>1. DOMAIN read = snapshot /\ left = {} /\ ~loaded
  BY DEF IterInv, PlaceInv
<1>2. ListSegmentIds(read) = snapshot
  BY <1>1 DEF IterInv, PlaceInv, ListSegmentIds
<1> QED BY <1>1, <1>2 DEF ActiveSegmentId, IterInv, TakenInv, Taken

\* What the iterator counted as the last txid is what scan_all would report.
LEMMA SameLastTxid ==
  ASSUME IterInv, rpc = "done"
  PROVE  iterReport.last_txid_seen = LastTxidSeen(read)
<1> DEFINE t == iterReport.last_txid_seen
           u == LastTxidSeen(read)
<1>1. t \in Nat /\ u \in Nat
  BY AllRead, LastTxidType, WireAssumption DEF IterInv, ReaderTypeOK, IterReport
<1>2. t <= u
  <2>1. CASE t = 0
    BY <1>1, <2>1
  <2>2. CASE t # 0
    <3>1. PICK n \in DOMAIN yielded : YieldedRecord(n).txid = t
      BY <2>2 DEF IterInv, CountInv
    <3>2. yielded[n][1] \in ListSegmentIds(read) /\ yielded[n][2] \in Replayed(read[yielded[n][1]])
      BY AllRead, YieldedFacts
    <3>3. read[yielded[n][1]][yielded[n][2]].txid <= u
      BY <3>2, AllRead, LastTxidIs
    <3> QED BY <3>1, <3>3 DEF YieldedRecord
  <2> QED BY <2>1, <2>2
<1>3. u <= t
  <2>1. CASE u = 0
    BY <1>1, <2>1
  <2>2. CASE u # 0
    <3>1. PICK id \in snapshot : \E i \in Replayed(read[id]) : read[id][i].txid = u
      BY <2>2, AllRead, LastTxidIs
    <3>2. PICK i \in Replayed(read[id]) : read[id][i].txid = u
      BY <3>1
    <3>3. <<id, i>> \in Yielded
      BY <3>1, <3>2, AllRead DEF IterInv, TakenInv
    <3>4. PICK n \in DOMAIN yielded : yielded[n] = <<id, i>>
      BY <3>3 DEF Yielded
    <3>5. YieldedRecord(n).txid = u
      BY <3>2, <3>4 DEF YieldedRecord
    <3> QED BY <3>5 DEF IterInv, CountInv
  <2> QED BY <2>1, <2>2
<1> QED BY <1>1, <1>2, <1>3

(***************************************************************************)
(* RecordIter and scan_all are two implementations of one recovery: on the *)
(* bytes it read, an iteration that ends has returned the records scan_all *)
(* would, in its order and with its report, and one that finds damage has  *)
(* met a segment that scan_all refuses.  Nothing is assumed of the writer, *)
(* its callers or the platform.                                            *)
(***************************************************************************)
THEOREM IterIsScan == ReaderSpec => []IterMatchesScan
<1>1. ShapeInv /\ IterInv => IterMatchesScan
  <2> SUFFICES ASSUME ShapeInv, IterInv PROVE IterMatchesScan
    OBVIOUS
  <2>1. damage => \E id \in DOMAIN read : ~ScanSegmentOk(read[id], id = Max(snapshot))
    BY DEF IterInv, TakenInv
  <2>2. ASSUME rpc = "done"
        PROVE  ScanOk(read)
    BY <2>2, AllRead DEF ScanOk, IterInv, TakenInv
  <2>3. ASSUME rpc = "done"
        PROVE  Yielded = UNION {{id} \X Replayed(read[id]) : id \in snapshot}
    <3>1. ASSUME NEW p \in Yielded
          PROVE  p \in UNION {{id} \X Replayed(read[id]) : id \in snapshot}
      <4>1. PICK n \in DOMAIN yielded : yielded[n] = p
        BY DEF Yielded
      <4>2. p = <<p[1], p[2]>> /\ p[1] \in snapshot /\ p[2] \in Replayed(read[p[1]])
        BY <2>3, <4>1, AllRead, YieldedFacts
      <4>3. p \in {p[1]} \X Replayed(read[p[1]])
        BY <4>2
      <4> QED BY <4>2, <4>3
    <3>2. ASSUME NEW id \in snapshot, NEW p \in {id} \X Replayed(read[id])
          PROVE  p \in Yielded
      <4>1. p = <<id, p[2]>> /\ p[2] \in Replayed(read[id])
        BY <3>2
      <4> QED BY <2>3, <3>2, <4>1, AllRead DEF IterInv, TakenInv
    <3> QED BY <3>1, <3>2
  <2>4. \A m, n \in DOMAIN yielded : m < n =>
           \/ yielded[m][1] < yielded[n][1]
           \/ yielded[m][1] = yielded[n][1] /\ yielded[m][2] < yielded[n][2]
    BY DEF IterInv, TakenInv, Earlier
  <2>5. ASSUME rpc = "done"
        PROVE  iterReport = [files_scanned |-> Cardinality(snapshot),
                             records_replayed |-> Len(yielded),
                             last_txid_seen |-> TailReport(read).last_txid_seen,
                             tail_truncated |-> TailReport(read).tail_truncated,
                             tail_bytes_discarded |-> TailReport(read).tail_bytes_discarded]
    <3>1. /\ iterReport.files_scanned = Cardinality(snapshot)
          /\ iterReport.records_replayed = Len(yielded)
      BY <2>5, AllRead DEF IterInv, CountInv
    <3>2. /\ iterReport.last_txid_seen = TailReport(read).last_txid_seen
          /\ iterReport.tail_truncated = TailReport(read).tail_truncated
          /\ iterReport.tail_bytes_discarded = TailReport(read).tail_bytes_discarded
      <4>1. CASE snapshot = {}
        <5>1. TailReport(read) = NoReport
          BY <2>5, <4>1, AllRead DEF TailReport
        <5>2. iterReport.last_txid_seen = 0
          <6>1. DOMAIN yielded = {}
            BY <2>5, <4>1, AllRead, YieldedFacts
          <6> QED BY <6>1 DEF IterInv, CountInv
        <5>3. iterReport.tail_truncated = 0 /\ iterReport.tail_bytes_discarded = 0
          BY <2>5, <4>1, AllRead DEF IterInv, CountInv
        <5> QED BY <5>1, <5>2, <5>3 DEF NoReport
      <4>2. CASE snapshot # {}
        <5> DEFINE s == read[Max(snapshot)]
        <5>1. TailReport(read) =
                [tail_truncated |-> IF LogicalEnd(s) = FileSize(s) THEN 0 ELSE 1,
                 tail_bytes_discarded |-> FileSize(s) - LogicalEnd(s),
                 last_txid_seen |-> LastTxidSeen(read)]
          BY <2>5, <4>2, AllRead DEF TailReport
        <5>2. /\ iterReport.tail_bytes_discarded = FileSize(s) - LogicalEnd(s)
              /\ iterReport.tail_truncated = IF LogicalEnd(s) = FileSize(s) THEN 0 ELSE 1
          BY <2>5, <4>2, AllRead DEF IterInv, CountInv
        <5> HIDE DEF s
        <5> QED BY <2>5, <5>1, <5>2, SameLastTxid
      <4> QED BY <4>1, <4>2
    <3>3. iterReport \in IterReport
      BY DEF IterInv, ReaderTypeOK
    <3> QED BY <3>1, <3>2, <3>3 DEF IterReport
  <2> QED BY <2>1, <2>2, <2>3, <2>4, <2>5 DEF IterMatchesScan
<1> QED BY <1>1, IterInvariant, PTL

------------------------------------------------------------------------------
(* The files beside the reader *)

\* The two ways in which a running system changes the files: a new segment
\* after all others, or a frame of the last one.
NewLast ==
    \E new \in Ids :
        /\ \A id \in DOMAIN files : id < new
        /\ files' = [i \in DOMAIN files \cup {new} |-> IF i = new THEN <<>> ELSE files[i]]

InLast ==
    /\ AppendFinish \/ \E d \in Data, cut \in Cuts : AppendBegin(d, cut)
    /\ active \in DOMAIN files /\ \A id \in DOMAIN files : id <= active
    /\ DOMAIN files' = DOMAIN files
    /\ \A id \in DOMAIN files : id # active => files'[id] = files[id]

LEMMA FilesChange ==
  ASSUME LogInv, Platform, Running
  PROVE  files' = files \/ NewLast \/ InLast
<1>0. ShapeInv /\ RotationInv
  BY DEF LogInv
<1>1. CASE OpenCreate
  <2>1. DOMAIN files = {}
    BY <1>0, <1>1, AllListed DEF OpenCreate
  <2> QED BY <1>1, <2>1 DEF OpenCreate, NewLast, Ids
<1>2. CASE RotateCreate
  <2>1. /\ NextSegmentId(ListSegmentIds(files)) = active + 1 /\ active \in Nat
    BY <1>0, <1>2, NewSegment DEF RotateCreate
  <2>2. active = Max(DOMAIN files) /\ DOMAIN files # {} /\ DOMAIN files \subseteq Nat
    BY <1>0, <1>2 DEF RotateCreate, RotationInv, ShapeInv, TypeOK, Opened, Ids
  <2>3. \A id \in DOMAIN files : id <= active
    BY <1>0, <2>2, AllListed
  <2>4. active + 1 \in Ids /\ \A id \in DOMAIN files : id < active + 1
    BY <2>1, <2>2, <2>3 DEF Ids
  <2>5. files' = [i \in DOMAIN files \cup {active + 1} |->
                     IF i = active + 1 THEN <<>> ELSE files[i]]
    BY <1>2, <2>1 DEF RotateCreate
  <2> QED BY <2>4, <2>5 DEF NewLast
<1>3. CASE AppendFinish \/ \E d \in Data, cut \in Cuts : AppendBegin(d, cut)
  <2>1. /\ Opened /\ ~poisoned /\ pc \in {"idle", "writing"}
    BY <1>0, <1>3 DEF AppendFinish, AppendBegin, MayWrite, Ready, Opened, RotationInv
  <2>2. active \in DOMAIN files /\ active = Max(DOMAIN files)
    BY <1>0, <2>1 DEF ShapeInv, RotationInv
  <2>3. \A id \in DOMAIN files : id <= active
    BY <1>0, <2>2, AllListed
  <2>4. DOMAIN files' = DOMAIN files /\ \A id \in DOMAIN files : id # active => files'[id] = files[id]
    BY <1>3 DEF AppendFinish, AppendBegin
  <2> QED BY <1>3, <2>2, <2>3, <2>4 DEF InLast
<1> QED
  BY <1>1, <1>2, <1>3
  DEF Running, Progress, OpenCreated, OpenExisting, OpenRefused, OpenFails, AppendError,
      FsyncBegin, RotateBegin, SyncAll, SyncAllError, FsyncFinish, DirectoryError,
      RotateListError, RotateSyncDir, RotateFinish, Scan, Close, Crash, disk, vars

\* A file that is not the last one does not change.
LEMMA EarlierFilesStay ==
  ASSUME LogInv, Platform, Running, NEW id \in DOMAIN files, NEW jd \in DOMAIN files, id < jd
  PROVE  files'[id] = files[id]
<1>1. CASE NewLast
  <2>1. PICK new \in Ids :
           /\ \A x \in DOMAIN files : x < new
           /\ files' = [i \in DOMAIN files \cup {new} |-> IF i = new THEN <<>> ELSE files[i]]
    BY <1>1 DEF NewLast
  <2>2. id # new
    BY <2>1 DEF LogInv, ShapeInv, TypeOK, Ids
  <2> QED BY <2>1, <2>2
<1>2. CASE InLast
  <2>1. id # active
    BY <1>2 DEF InLast, LogInv, ShapeInv, TypeOK, Ids
  <2> QED BY <1>2, <2>1 DEF InLast
<1> QED BY <1>1, <1>2, FilesChange

\* New files come after those that are there.
LEMMA NewFilesLast ==
  ASSUME LogInv, Platform, Running, NEW id \in DOMAIN files', id \notin DOMAIN files
  PROVE  \A jd \in DOMAIN files : jd < id
<1>1. CASE NewLast
  <2>1. PICK new \in Ids :
           /\ \A x \in DOMAIN files : x < new
           /\ files' = [i \in DOMAIN files \cup {new} |-> IF i = new THEN <<>> ELSE files[i]]
    BY <1>1 DEF NewLast
  <2> QED BY <2>1
<1> QED BY <1>1, FilesChange DEF InLast

\* What scans return stays while the system runs.
LEMMA RunningReplays ==
  ASSUME LogInv, LogInv', Platform, Running
  PROVE  ReplayedIn(files, files')
<1>0. files \in [DOMAIN files -> Seq(Chunk)] /\ files' \in [DOMAIN files' -> Seq(Chunk)]
  BY DEF LogInv, ShapeInv, TypeOK
<1>1. ASSUME NEW id \in DOMAIN files, NEW i \in 1 .. Len(files[id]), AllWhole(files[id], i)
      PROVE  /\ id \in DOMAIN files' /\ i \in 1 .. Len(files'[id])
             /\ \A j \in 1 .. i : files'[id][j] = files[id][j]
  <2>1. files[id] \in Seq(Chunk) /\ Len(files[id]) \in Nat
    BY <1>0
  <2>2. (pc = "writing" /\ id = active) => i < Len(files[id])
    <3> SUFFICES ASSUME pc = "writing", id = active, i = Len(files[id]) PROVE FALSE
      BY <2>1
    <3>1. files[id][i].state = "torn"
      BY DEF LogInv, WritingInv, ActiveFile
    <3> QED BY <1>1, <2>1, <3>1 DEF AllWhole
  <2>3. Keeps(id, i)
    BY <2>1, <2>2, RunningKeeps
  <2>4. id \in DOMAIN files' => Len(files'[id]) \in Nat
    BY <1>0
  <2> QED BY <2>1, <2>3, <2>4 DEF Keeps
<1> QED BY <1>0, <1>1, WholeFramesReplayed

\* A frame that decode_next takes for no frame at all, with others behind it
\* or not, as long as the bytes behind it do not go away.
LEMMA StructuralStays ==
  ASSUME NEW s \in Seq(Chunk), NEW t \in Seq(Chunk), Laid(s), Laid(t), NEW i \in 1 .. Len(s),
         DecodeNext(s, i) = "Structural",
         i \in 1 .. Len(t), t[i] = s[i],
         i < Len(s) => FileSize(t) >= FileSize(s) \/ FileSize(t) - t[i].at >= HeaderLen
  PROVE  DecodeNext(t, i) = "Structural"
<1>1. /\ s[i].at \in Nat /\ s[i].len \in Nat /\ s[i].state \in {"whole", "torn", "crc", "zeros"}
      /\ FileSize(s) \in Nat /\ FileSize(t) \in Nat /\ HeaderLen \in Nat /\ Len(s) \in Nat
  BY ChunkFields, FileSizeType, WireAssumption
<1>2. CASE s[i].state = "zeros"
  BY <1>2 DEF DecodeNext
<1>3. CASE s[i].state = "torn"
  <2>1. ~(FileSize(s) - s[i].at < HeaderLen) /\ s[i].len \in StructuralCuts
    BY <1>3 DEF DecodeNext
  <2>2. s[i].len < HeaderLen
    BY <1>1, <2>1, WireAssumption
  <2>3. i # Len(s)
    <3> SUFFICES ASSUME i = Len(s) PROVE FALSE
      OBVIOUS
    <3>1. s # <<>> /\ FileSize(s) = s[i].at + s[i].len
      BY <1>1 DEF FileSize
    <3> QED BY <1>1, <2>1, <2>2, <3>1
  <2>4. i < Len(s)
    BY <1>1, <2>3
  <2>5. ~(FileSize(t) - t[i].at < HeaderLen)
    BY <1>1, <2>1, <2>4
  <2> QED BY <1>3, <2>1, <2>5 DEF DecodeNext
<1>4. s[i].state \notin {"whole", "crc"}
  BY DEF DecodeNext
<1> QED BY <1>1, <1>2, <1>3, <1>4

\* The outcomes of decode_next.
LEMMA DecodeOutcomes ==
  ASSUME NEW s \in Seq(Chunk), NEW i \in 1 .. Len(s)
  PROVE  DecodeNext(s, i) \in {"Ok", "Truncated", "CrcMismatch", "Structural"}
BY ChunkFields DEF DecodeNext

\* A segment that the last one's tolerance does not save.
LEMMA NotOkStops ==
  ASSUME NEW s \in Seq(Chunk), NEW isLast \in BOOLEAN, ~ScanSegmentOk(s, isLast)
  PROVE  \E i \in 1 .. Len(s) :
            /\ AllWhole(s, i - 1)
            /\ DecodeNext(s, i) # "Ok"
            /\ isLast => DecodeNext(s, i) = "Structural"
<1>1. PICK i \in 1 .. Len(s) :
         /\ \A j \in 1 .. (i - 1) : DecodeNext(s, j) = "Ok"
         /\ DecodeNext(s, i) # "Ok"
         /\ ~(isLast /\ DecodeNext(s, i) \in {"Truncated", "CrcMismatch"})
  BY DEF ScanSegmentOk
<1>2. AllWhole(s, i - 1)
  BY <1>1, DecodeOk DEF AllWhole
<1> QED BY <1>1, <1>2, DecodeOutcomes

LEMMA SegmentsListed ==
  ASSUME Platform, NEW F, F \in [DOMAIN F -> Seq(Chunk)], DOMAIN F \in SUBSET Ids,
         \A id \in DOMAIN F : id <= MaxSegs
  PROVE  Listed(F)
<1>1. \A id \in DOMAIN F : id <= MaxListedId
  BY RecordLogAssumption, SegmentsAssumption DEF Platform, Ids
<1> QED BY <1>1 DEF Listed, ListSegmentIds, Ids

(***************************************************************************)
(* A directory that open refuses is refused until power loss: nothing that *)
(* a running system does repairs it.                                       *)
(***************************************************************************)
LEMMA BrokenStays ==
  ASSUME LogInv, LogInv', Platform, Running, ~ScanOk(files)
  PROVE  ~ScanOk(files')
<1>0. /\ ShapeInv /\ RotationInv /\ ShapeInv' /\ RotationInv'
      /\ files \in [DOMAIN files -> Seq(Chunk)] /\ files' \in [DOMAIN files' -> Seq(Chunk)]
      /\ DOMAIN files \subseteq Ids /\ DOMAIN files' \subseteq Ids
      /\ \A id \in DOMAIN files : Laid(files[id])
      /\ \A id \in DOMAIN files' : Laid(files'[id])
  BY DEF LogInv, ShapeInv, TypeOK
<1>1. /\ ListSegmentIds(files) = DOMAIN files /\ ActiveSegmentId(files) = Max(DOMAIN files)
      /\ DOMAIN files # {} => \A id \in DOMAIN files : id <= Max(DOMAIN files)
      /\ DOMAIN files # {} => Max(DOMAIN files) \in DOMAIN files
  BY <1>0, AllListed
<1>2. PICK id \in DOMAIN files : ~ScanSegmentOk(files[id], id = Max(DOMAIN files))
  BY <1>1 DEF ScanOk
<1> DEFINE s == files[id]
<1>3. PICK i \in 1 .. Len(s) : /\ AllWhole(s, i - 1)
                               /\ DecodeNext(s, i) # "Ok"
                               /\ id = Max(DOMAIN files) => DecodeNext(s, i) = "Structural"
  BY <1>0, <1>2, NotOkStops
<1>4. s \in Seq(Chunk) /\ Len(s) \in Nat /\ Laid(s) /\ i \in Nat
  BY <1>0
<1>5. (pc = "writing" /\ id = active) => i < Len(s)
  <2> SUFFICES ASSUME pc = "writing", id = active, i = Len(s) PROVE FALSE
    BY <1>4
  <2>1. active = Max(DOMAIN files) /\ s[i].state = "torn"
    BY <1>0 DEF LogInv, WritingInv, RotationInv, Opened, ActiveFile
  <2>2. DecodeNext(s, i) = "Structural"
    BY <1>3, <2>1
  <2> QED BY <1>4, <2>1, <2>2, LastDecode
<1>6. Keeps(id, i)
  BY <1>4, <1>5, RunningKeeps
<1> DEFINE t == files'[id]
<1>7. /\ id \in DOMAIN files' /\ t \in Seq(Chunk) /\ Laid(t) /\ i \in 1 .. Len(t)
      /\ \A j \in 1 .. i : t[j] = s[j]
  BY <1>0, <1>4, <1>6 DEF Keeps
<1>8. AllWhole(t, i - 1) /\ t[i] = s[i]
  BY <1>3, <1>4, <1>7 DEF AllWhole
<1>9. DecodeNext(t, i) # "Ok"
  BY <1>3, <1>4, <1>7, <1>8, DecodeOk
<1>10. /\ ListSegmentIds(files') = DOMAIN files' /\ ActiveSegmentId(files') = Max(DOMAIN files')
       /\ \A x \in DOMAIN files' : x <= Max(DOMAIN files')
  <2>1. (ListSegmentIds(files) = DOMAIN files /\ ActiveSegmentId(files) = Max(DOMAIN files)
           /\ (DOMAIN files # {} => \A x \in DOMAIN files : x <= Max(DOMAIN files)))'
    <3>1. files' \in [DOMAIN files' -> Seq(Chunk)] /\ DOMAIN files' \in SUBSET Ids
          /\ \A x \in DOMAIN files' : x <= MaxSegs
      BY <1>0 DEF RotationInv
    <3>2. Listed(files')
      BY <3>1, SegmentsListed
    <3>3. DOMAIN files' \in SUBSET Nat /\ MaxSegs \in Nat
      BY <3>1, RecordLogAssumption DEF Ids
    <3>4. DOMAIN files' # {} => \A x \in DOMAIN files' : x <= Max(DOMAIN files')
      BY <3>1, <3>3, NatMax
    <3> QED BY <3>2, <3>4 DEF Listed, ActiveSegmentId
  <2> QED BY <1>7, <2>1
<1>11. ~ScanSegmentOk(t, id = Max(DOMAIN files'))
  <2>1. CASE id # Max(DOMAIN files')
    BY <1>7, <1>8, <1>9, <2>1, DecodedUpTo
  <2>2. CASE id = Max(DOMAIN files')
    <3>1. id = Max(DOMAIN files)
      <4>1. DOMAIN files \subseteq DOMAIN files'
        BY <1>0, FilesStay
      <4>2. id \in Nat /\ Max(DOMAIN files) \in DOMAIN files /\ Max(DOMAIN files) \in Nat
        BY <1>0, <1>1 DEF Ids
      <4>3. Max(DOMAIN files) <= id /\ id <= Max(DOMAIN files)
        BY <1>1, <1>10, <2>2, <4>1, <4>2
      <4> QED BY <4>2, <4>3
    <3>2. DecodeNext(s, i) = "Structural"
      BY <1>3, <3>1
    <3>3. i < Len(s) => FileSize(t) >= FileSize(s) \/ FileSize(t) - t[i].at >= HeaderLen
      <4> SUFFICES ASSUME i < Len(s)
                   PROVE  FileSize(t) >= FileSize(s) \/ FileSize(t) - t[i].at >= HeaderLen
        OBVIOUS
      <4>1. CASE Keeps(id, Len(s))
        <5>1. Len(s) \in 1 .. Len(t) /\ t[Len(s)] = s[Len(s)] /\ Len(s) \in 1 .. Len(s)
          BY <1>4, <1>7, <4>1 DEF Keeps
        <5>2. FileSize(s) = s[Len(s)].at + s[Len(s)].len
          BY <1>4, <5>1 DEF FileSize
        <5>3. t[Len(s)].at + t[Len(s)].len <= FileSize(t)
          BY <1>7, <5>1, FrameInFile
        <5>4. FileSize(s) <= FileSize(t)
          BY <5>1, <5>2, <5>3
        <5>5. FileSize(s) \in Nat /\ FileSize(t) \in Nat
          BY <1>4, <1>7, FileSizeType
        <5> QED BY <5>4, <5>5
      <4>2. CASE AppendFinish /\ id = active
        <5> DEFINE n == Len(s)
                   e == EncodeRecord(s[n].txid, s[n].data, s[n].at)
        <5>1. n \in 1 .. n /\ Len(t) = n /\ t[n] = e
          BY <1>0, <1>4, <4>2, CompletedTxids
        <5>2. e.at = s[n].at /\ e.len = HeaderLen + DataSize[s[n].data] + CrcLen
          BY DEF EncodeRecord, FrameLen
        <5>3. s[n].data \in Data /\ s[n].at \in Nat /\ s[i].at \in Nat /\ s[i].len \in Nat
          BY <1>4, <5>1, ChunkFields
        <5>4. DataSize[s[n].data] \in Nat /\ HeaderLen \in Nat /\ CrcLen \in Nat
          BY <5>3, WireAssumption
        <5>5. s[i].at + s[i].len <= s[n].at
          BY <1>4, <5>1 DEF Laid
        <5> HIDE DEF e, n
        <5>6. t[n].at + t[n].len <= FileSize(t) /\ FileSize(t) \in Nat
          BY <1>7, <5>1, FrameInFile, FileSizeType
        <5>7. t[n].at = s[n].at /\ t[n].len = HeaderLen + DataSize[s[n].data] + CrcLen
          BY <5>1, <5>2
        <5>8. t[i].at = s[i].at
          BY <1>8
        <5> HIDE DEF s, t
        <5>9. s[i].at + HeaderLen <= FileSize(t)
          <6> DEFINE a == s[i].at
                     l == s[i].len
                     b == s[n].at
                     d == DataSize[s[n].data]
                     z == FileSize(t)
          <6>1. /\ a \in Nat /\ l \in Nat /\ b \in Nat /\ d \in Nat /\ z \in Nat
                /\ HeaderLen \in Nat /\ CrcLen \in Nat
                /\ a + l <= b /\ b + (HeaderLen + d + CrcLen) <= z
            BY <5>3, <5>4, <5>5, <5>6, <5>7
          <6> HIDE DEF a, l, b, d, z
          <6>2. a + HeaderLen <= z
            BY <6>1
          <6> QED BY <6>2 DEF a, z
        <5> QED BY <5>3, <5>4, <5>6, <5>8, <5>9
      <4>3. CASE files' = files
        BY <1>0, <1>4, <4>3, KeepsSame, <4>1
      <4>4. CASE pc # "writing" \/ id # active
        BY <1>4, <4>1, <4>4, RunningKeeps
      <4>5. pc = "writing" => AppendFinish \/ files' = files
        BY DEF Running, Progress, OpenCreate, OpenCreated, OpenExisting, OpenRefused, OpenFails,
           AppendBegin, MayWrite, Ready, AppendError, FsyncBegin, SyncAllError, FsyncFinish,
           RotateBegin, RotateCreate, DirectoryError, RotateListError, RotateSyncDir,
           RotateFinish, Scan, Close, Crash, disk, vars
      <4> QED BY <4>2, <4>3, <4>4, <4>5
    <3>4. DecodeNext(t, i) = "Structural"
      BY <1>4, <1>7, <1>8, <3>2, <3>3, StructuralStays
    <3> QED BY <1>7, <1>8, <3>4, DecodedUpTo
  <2> QED BY <2>1, <2>2
<1> QED BY <1>7, <1>10, <1>11 DEF ScanOk

------------------------------------------------------------------------------
(* The reader beside the writer *)

\* The steps that leave alone what the invariants of this section are about.
LEMMA BesideSame ==
  ASSUME BesideInv, SnapshotInv, UNCHANGED <<files, snapshot, atOpen, read>>
  PROVE  BesideInv' /\ SnapshotInv'
BY DEF BesideInv, SnapshotInv

\* A reader that has read nothing yet.
LEMMA BesideUnread ==
  ASSUME read' = <<>>,
         \A p \in atOpen' : p = <<p[1], p[2]>> /\ p[1] \in snapshot' /\ p[2] \in Replayed(files'[p[1]]),
         \A id \in DOMAIN files', listed \in snapshot' : id <= listed => id \in snapshot'
  PROVE  BesideInv' /\ SnapshotInv'
<1>1. DOMAIN read' = {}
  OBVIOUS
<1> QED BY <1>1 DEF BesideInv, SnapshotInv

LEMMA BesideOpen ==
  ASSUME LogInv, Platform, IterInv, ReaderOpen
  PROVE  BesideInv' /\ SnapshotInv'
<1>1. /\ rpc = "none" /\ snapshot' = ListSegmentIds(files) /\ read' = read /\ files' = files
      /\ atOpen' = UNION {{id} \X Replayed(files[id]) : id \in ListSegmentIds(files)}
  BY DEF ReaderOpen, vars, disk, iterator
<1>2. read = <<>>
  BY <1>1 DEF IterInv, PlaceInv
<1>3. ListSegmentIds(files) = DOMAIN files
  BY AllListed DEF LogInv
<1>4. ASSUME NEW p \in atOpen'
      PROVE  p = <<p[1], p[2]>> /\ p[1] \in snapshot' /\ p[2] \in Replayed(files'[p[1]])
  <2>1. PICK id \in ListSegmentIds(files) : p \in {id} \X Replayed(files[id])
    BY <1>1, <1>4
  <2> QED BY <1>1, <2>1
<1>5. \A id \in DOMAIN files', listed \in snapshot' : id <= listed => id \in snapshot'
  BY <1>1, <1>3
<1> QED BY <1>1, <1>2, <1>4, <1>5, BesideUnread

LEMMA BesideLoad ==
  ASSUME LogInv, Platform, IterInv, BesideInv, SnapshotInv, Load
  PROVE  BesideInv' /\ SnapshotInv'
<1> DEFINE c == Cur
           m == Max(snapshot)
<1>1. /\ ReaderTypeOK /\ PlaceInv /\ rpc = "iterating" /\ left # {} /\ ~loaded
  BY DEF IterInv, Load
<1>2. /\ c \in snapshot /\ c \in DOMAIN files /\ c \notin DOMAIN read /\ c \in Ids
      /\ snapshot \subseteq DOMAIN files /\ snapshot # {} /\ snapshot \subseteq Ids
  BY <1>1, AtSegment DEF PlaceInv, ReaderTypeOK
<1>3. /\ snapshot' = snapshot /\ atOpen' = atOpen /\ files' = files
      /\ read' = [id \in DOMAIN read \cup {c} |-> IF id = c THEN files[c] ELSE read[id]]
  BY DEF Load, vars, disk
<1>4. m \in snapshot /\ \A id \in snapshot : id <= m
  BY <1>1, <1>2, SnapshotMax
<1> HIDE DEF c, m
<1>5. /\ DOMAIN read' = DOMAIN read \cup {c} /\ read'[c] = files[c]
      /\ \A id \in DOMAIN read : read'[id] = read[id]
  BY <1>2, <1>3
<1>6. ScanSegmentOk(files[c], c = m) \/ ~ScanOk(files)
  <2> SUFFICES ASSUME ~ScanSegmentOk(files[c], c = m), ScanOk(files) PROVE FALSE
    OBVIOUS
  <2>1. ListSegmentIds(files) = DOMAIN files /\ ActiveSegmentId(files) = Max(DOMAIN files)
        /\ \A id \in DOMAIN files : id <= Max(DOMAIN files)
    BY <1>2, AllListed DEF LogInv
  <2>2. ScanSegmentOk(files[c], c = Max(DOMAIN files))
    BY <1>2, <2>1 DEF ScanOk
  <2>3. c # m /\ c = Max(DOMAIN files)
    BY <2>2 DEF ScanSegmentOk
  <2>4. m <= c /\ c <= m /\ m \in Nat /\ c \in Nat
    BY <1>2, <1>4, <2>1, <2>3 DEF Ids
  <2> QED BY <2>3, <2>4
<1>7. BesideInv'
  <2>1. ASSUME NEW p \in atOpen'
        PROVE  /\ p = <<p[1], p[2]>> /\ p[1] \in snapshot' /\ p[2] \in Replayed(files'[p[1]])
               /\ p[1] \in DOMAIN read' => p[2] \in Replayed(read'[p[1]])
    <3>1. /\ p = <<p[1], p[2]>> /\ p[1] \in snapshot /\ p[2] \in Replayed(files[p[1]])
          /\ p[1] \in DOMAIN read => p[2] \in Replayed(read[p[1]])
      BY <1>3, <2>1 DEF BesideInv
    <3> QED BY <1>3, <1>5, <3>1
  <2>2. \A id \in DOMAIN read' : ScanSegmentOk(read'[id], id = Max(snapshot')) \/ ~ScanOk(files')
    BY <1>3, <1>5, <1>6 DEF BesideInv, m
  <2> QED BY <2>1, <2>2 DEF BesideInv
<1>8. SnapshotInv'
  BY <1>3, <1>5 DEF SnapshotInv
<1> QED BY <1>7, <1>8

LEMMA BesideRunning ==
  ASSUME LogInv, LogInv', Platform, IterInv, BesideInv, SnapshotInv, Running, UNCHANGED reader
  PROVE  BesideInv' /\ SnapshotInv'
<1>1. /\ snapshot' = snapshot /\ atOpen' = atOpen /\ read' = read
      /\ snapshot \subseteq DOMAIN files /\ DOMAIN read \subseteq snapshot
      /\ snapshot \subseteq Ids /\ DOMAIN files \subseteq Ids /\ DOMAIN files' \subseteq Ids
  BY DEF reader, iterator, IterInv, PlaceInv, ReaderTypeOK, LogInv, ShapeInv, TypeOK
<1>2. ReplayedIn(files, files')
  BY RunningReplays
<1>3. BesideInv'
  <2>1. ScanOk(files') => ScanOk(files)
    BY BrokenStays
  <2>2. ASSUME NEW p \in atOpen
        PROVE  p[2] \in Replayed(files'[p[1]])
    <3>1. p[1] \in DOMAIN files /\ p[2] \in Replayed(files[p[1]])
      BY <1>1 DEF BesideInv
    <3> QED BY <1>2, <3>1 DEF ReplayedIn
  <2> QED BY <1>1, <2>1, <2>2 DEF BesideInv
<1>4. SnapshotInv'
  <2>1. ASSUME NEW id \in DOMAIN files', NEW listed \in snapshot, id <= listed
        PROVE  id \in snapshot
    <3>1. id \in DOMAIN files
      <4> SUFFICES ASSUME id \notin DOMAIN files PROVE FALSE
        OBVIOUS
      <4>1. listed < id /\ listed \in Nat /\ id \in Nat
        BY <1>1, NewFilesLast DEF Ids
      <4> QED BY <2>1, <4>1
    <3> QED BY <2>1, <3>1 DEF SnapshotInv
  <2>2. ASSUME NEW id \in DOMAIN read, id # Max(snapshot)
        PROVE  read[id] = files'[id]
    <3>1. Max(snapshot) \in snapshot /\ id <= Max(snapshot)
      BY <1>1, SnapshotMax DEF IterInv
    <3>2. id < Max(snapshot) /\ id \in DOMAIN files /\ Max(snapshot) \in DOMAIN files
      BY <1>1, <2>2, <3>1 DEF Ids
    <3>3. files'[id] = files[id]
      BY <3>2, EarlierFilesStay
    <3> QED BY <2>2, <3>3 DEF SnapshotInv
  <2>3. ASSUME NEW id \in DOMAIN read, NEW i \in Replayed(read[id])
        PROVE  i \in Replayed(files'[id]) /\ files'[id][i] = read[id][i]
    <3>1. id \in DOMAIN files /\ i \in Replayed(files[id]) /\ files[id][i] = read[id][i]
      BY <1>1 DEF SnapshotInv
    <3> QED BY <1>2, <3>1 DEF ReplayedIn
  <2> QED BY <1>1, <2>1, <2>2, <2>3 DEF SnapshotInv
<1> QED BY <1>3, <1>4

LEMMA BesideStep ==
  ASSUME LogInv, LogInv', Platform, IterInv, BesideInv, SnapshotInv, [ReaderNext]_rvars
  PROVE  BesideInv' /\ SnapshotInv'
<1>1. CASE ReaderOpen
  BY <1>1, BesideOpen
<1>2. CASE ScanIter
  <2>1. /\ read' = <<>> /\ snapshot' = snapshot /\ atOpen' = atOpen /\ files' = files
    BY <1>2 DEF ScanIter, FreshIterator, vars, disk
  <2> QED BY <2>1, BesideUnread DEF BesideInv, SnapshotInv
<1>3. CASE NoReader
  <2>1. read' = <<>> /\ snapshot' = {} /\ atOpen' = {}
    BY <1>3 DEF NoReader, FreshIterator
  <2> QED BY <2>1, BesideUnread
<1>4. CASE Load
  BY <1>4, BesideLoad
<1>5. CASE Running /\ UNCHANGED reader
  BY <1>5, BesideRunning
<1>6. CASE UNCHANGED <<files, snapshot, atOpen, read>>
  BY <1>6, BesideSame
<1> QED
  BY <1>1, <1>2, <1>3, <1>4, <1>5, <1>6
     DEF ReaderNext, ReaderOpenFails, ReaderDrop, LoadFails, Yield, SegmentEnd, TailEnd, Advance,
         DecodeFails, Exhausted, iterator, reader, rvars, vars, disk

LEMMA BesideInvariant ==
  ASSUME Platform PROVE ReaderSpec => [](LogInv /\ IterInv /\ BesideInv /\ SnapshotInv)
<1>1. ReaderInit => BesideInv /\ SnapshotInv
  BY DEF ReaderInit, BesideInv, SnapshotInv
<1>2. LogInv /\ LogInv' /\ IterInv /\ BesideInv /\ SnapshotInv /\ [ReaderNext]_rvars
        => BesideInv' /\ SnapshotInv'
  BY BesideStep
<1> QED BY <1>1, <1>2, IterInvariant, ReaderLog, PTL DEF ReaderSpec

(***************************************************************************)
(* A writer at work never makes a reader fail: the iterator meets damage   *)
(* only in a directory that RecordLog::open refuses as well, now and until *)
(* power is lost.                                                          *)
(***************************************************************************)
THEOREM ReaderFailsOnlyIfRefused ==
  ASSUME Platform PROVE ReaderSpec => []ReaderNeverFails
<1>1. IterInv /\ BesideInv => ReaderNeverFails
  BY DEF IterInv, TakenInv, BesideInv, ReaderNeverFails
<1> QED BY <1>1, BesideInvariant, PTL

(***************************************************************************)
(* An iteration that ends has returned every record that a scan would have *)
(* returned when the reader opened, whatever the writer did meanwhile.     *)
(***************************************************************************)
THEOREM ReaderMissesNothing ==
  ASSUME Platform PROVE ReaderSpec => []ReaderCoversOpening
<1>1. IterInv /\ BesideInv => ReaderCoversOpening
  <2> SUFFICES ASSUME IterInv, BesideInv, rpc = "done", NEW p \in atOpen PROVE p \in Yielded
    BY DEF ReaderCoversOpening
  <2>1. p = <<p[1], p[2]>> /\ p[1] \in snapshot /\ p[1] \in DOMAIN read
        /\ p[2] \in Replayed(read[p[1]])
    BY AllRead DEF BesideInv
  <2>2. p[2] \in Taken[p[1]]
    BY <2>1, AllRead
  <2> QED BY <2>1, <2>2 DEF IterInv, TakenInv
<1> QED BY <1>1, BesideInvariant, PTL

------------------------------------------------------------------------------
(* The order of what the reader returns *)

\* The record that next() is about to return, in the log as it is now.
LEMMA NextRecord ==
  ASSUME LogInv, IterInv, SnapshotInv, Yield
  PROVE  /\ Cur \in DOMAIN read /\ Cur \in DOMAIN files /\ Cur \in snapshot /\ buf = read[Cur]
         /\ pos + 1 \in Replayed(files[Cur]) /\ files[Cur][pos + 1] = buf[pos + 1]
         /\ pos + 1 \in 1 .. Len(files[Cur]) /\ pos \in Nat
         /\ Taken[Cur] = 1 .. pos
<1>1. /\ rpc = "iterating" /\ loaded /\ left # {} /\ buf = read[Cur] /\ buf \in Seq(Chunk)
      /\ pos \in Nat /\ pos < Len(buf) /\ AllWhole(buf, pos) /\ DecodeNext(buf, pos + 1) = "Ok"
  BY DEF Yield, Decoding, IterInv, PlaceInv, TakenInv, ReaderTypeOK
<1>2. Cur \in DOMAIN read /\ Cur \in DOMAIN files /\ Cur \in snapshot
  BY <1>1, AtSegment
<1> DEFINE i == pos + 1
<1>3. i \in 1 .. Len(buf)
  BY <1>1
<1>4. AllWhole(buf, i)
  <2>1. buf[i].state = "whole"
    BY <1>1, <1>3, DecodeOk
  <2>2. \A k \in 1 .. i : k \in 1 .. pos \/ k = i
    BY <1>1
  <2> HIDE DEF i
  <2> QED BY <1>1, <2>1, <2>2 DEF AllWhole
<1>5. i \in Replayed(buf)
  <2> HIDE DEF i
  <2> QED BY <1>1, <1>3, <1>4, ReplayedWhole
<1>6. i \in Replayed(files[Cur]) /\ files[Cur][i] = buf[i]
  BY <1>1, <1>2, <1>5 DEF SnapshotInv
<1>7. Taken[Cur] = 1 .. pos
  BY <1>1, <1>2 DEF Taken
<1> QED BY <1>1, <1>2, <1>6, <1>7 DEF Replayed

\* All records before it have been returned.
LEMMA EarlierYielded ==
  ASSUME LogInv, IterInv, SnapshotInv, Yield,
         NEW jd \in DOMAIN files, NEW j \in Replayed(files[jd]), Earlier(jd, j, Cur, pos + 1)
  PROVE  <<jd, j>> \in Yielded
<1>0. \E c : c = Cur
  OBVIOUS
<1> PICK c : c = Cur
  BY <1>0
<1>1. /\ c \in DOMAIN read /\ c \in snapshot /\ pos \in Nat /\ Taken[c] = 1 .. pos
      /\ Earlier(jd, j, c, pos + 1) /\ rpc = "iterating" /\ loaded /\ left # {}
  BY NextRecord DEF Yield, Decoding, IterInv, PlaceInv
<1>2. /\ c \in Nat /\ jd \in Nat /\ \A id \in left : c <= id
      /\ DOMAIN read = (snapshot \ left) \cup {c}
  BY <1>1, AtSegment DEF Ids, LogInv, ShapeInv, TypeOK
<1>3. CASE jd = c /\ j < pos + 1
  <2>1. j \in 1 .. pos
    BY <1>1, <1>3 DEF Replayed
  <2> QED BY <1>1, <1>3, <2>1 DEF IterInv, TakenInv
<1>4. CASE jd < c
  <2>1. jd \in snapshot
    BY <1>1, <1>2, <1>4 DEF SnapshotInv
  <2>2. jd \notin left
    BY <1>2, <1>4
  <2>3. jd \in DOMAIN read /\ jd # c
    BY <1>2, <1>4, <2>1, <2>2
  <2>4. jd # Max(snapshot)
    <3>1. c <= Max(snapshot)
      BY <1>1, SnapshotMax DEF IterInv
    <3> QED BY <1>2, <1>4, <3>1
  <2>5. read[jd] = files[jd]
    BY <2>3, <2>4 DEF SnapshotInv
  <2>6. Taken[jd] = Replayed(read[jd])
    BY <2>3 DEF Taken
  <2> QED BY <2>3, <2>5, <2>6 DEF IterInv, TakenInv
<1> QED BY <1>1, <1>3, <1>4 DEF Earlier

LEMMA InOrderYield ==
  ASSUME Disciplined, LogInv, SealedInv, TxidInv, IterInv, SnapshotInv, ReaderInOrder, Yield
  PROVE  buf[pos + 1].txid = Len(yielded) + 1
<1> DEFINE n == Len(yielded)
           c == Cur
           i == pos + 1
           t == buf[i].txid
<1>1. /\ c \in DOMAIN read /\ c \in DOMAIN files /\ c \in snapshot /\ buf = read[c]
      /\ i \in Replayed(files[c]) /\ files[c][i] = buf[i]
      /\ i \in 1 .. Len(files[c]) /\ pos \in Nat /\ Taken[c] = 1 .. pos
  BY NextRecord
<1>2. files[c] \in Seq(Chunk) /\ DOMAIN files \subseteq Nat /\ DOMAIN files \subseteq Ids
  BY <1>1 DEF LogInv, ShapeInv, TypeOK, Ids
<1>3. t \in Nat /\ t >= 1
  BY <1>1, TxidType DEF LogInv
<1>4. yielded \in Seq(Ids \X Ids) /\ n \in Nat /\ DOMAIN yielded = 1 .. n
  BY DEF IterInv, TakenInv
<1>5. n < t
  <2>1. CASE n = 0
    BY <1>3, <2>1
  <2>2. CASE n # 0
    <3>1. n \in DOMAIN yielded
      BY <1>4, <2>2
    <3> DEFINE y == yielded[n][1]
               k == yielded[n][2]
    <3>2. /\ y \in DOMAIN read /\ k \in Replayed(read[y]) /\ k \in Taken[y]
      BY <3>1, YieldedFacts DEF IterInv, TakenInv
    <3>3. /\ y \in DOMAIN files /\ k \in Replayed(files[y]) /\ files[y][k] = read[y][k]
      BY <3>2 DEF SnapshotInv, IterInv, PlaceInv, ReaderTypeOK
    <3>4. files[y][k].txid = n
      BY <3>1, <3>3 DEF ReaderInOrder
    <3>5. Earlier(y, k, c, i)
      <4> HIDE DEF y, k, i
      <4>1. CASE y = c
        <5>1. k \in 1 .. pos BY <1>1, <3>2, <4>1
        <5>2. k < i BY <1>1, <5>1 DEF i
        <5> QED BY <4>1, <5>2 DEF Earlier
      <4>2. CASE y # c
        <5>1. rpc = "iterating" /\ left # {}
          BY DEF Yield, Decoding, IterInv, PlaceInv
        <5>2. y < c
          BY <1>2, <3>2, <3>3, <4>2, <5>1, AtSegment
        <5> QED BY <5>2 DEF Earlier
      <4> QED BY <4>1, <4>2
    <3> HIDE DEF y, k, c, i
    <3>6. k \in 1 .. Len(files[y])
      BY <3>3 DEF Replayed
    <3>7. files[y][k].txid < files[c][i].txid
      BY <1>1, <3>3, <3>5, <3>6 DEF TxidInv, TxidsOrdered
    <3> QED BY <1>1, <3>4, <3>7 DEF i
  <2> QED BY <2>1, <2>2
<1>6. t <= n + 1
  <2>1. CASE t = 1
    BY <1>4, <2>1
  <2>2. CASE t # 1
    <3> HIDE DEF c, i, n
    <3>0. t - 1 \in 1 .. t
      BY <1>3, <2>2
    <3> PICK jd \in DOMAIN files : \E j \in 1 .. Len(files[jd]) : files[jd][j].txid = t - 1
      <4>1. files[c][i].txid = t
        BY <1>1
      <4> HIDE DEF t
      <4> QED BY <1>1, <3>0, <4>1 DEF TxidInv, TxidsDense
    <3>1. PICK j \in 1 .. Len(files[jd]) : files[jd][j].txid = t - 1
      OBVIOUS
    <3>2. Earlier(jd, j, c, i)
      <4>1. jd \in Int /\ c \in Int /\ j \in Int /\ i \in Int
        BY <1>1, <1>2
      <4>2. ~Earlier(c, i, jd, j)
        <5> SUFFICES ASSUME Earlier(c, i, jd, j) PROVE FALSE
          OBVIOUS
        <5>1. files[c][i].txid < files[jd][j].txid
          BY <1>1 DEF TxidInv, TxidsOrdered
        <5>2. t < t - 1
          BY <1>1, <3>1, <5>1
        <5> QED BY <1>3, <5>2
      <4>3. ~(jd = c /\ j = i)
        BY <1>1, <1>3, <3>1
      <4> QED BY <4>1, <4>2, <4>3, EarlierTotal
    <3>3. j \in Replayed(files[jd])
      <4>1. files[jd][j].txid <= files[c][i].txid
        BY <1>1, <1>3, <3>1
      <4> QED BY <1>1, <4>1, BeforeReplayed DEF Disciplined, TxidInv
    <3>4. <<jd, j>> \in Yielded
      BY <3>2, <3>3, EarlierYielded DEF c, i
    <3>5. PICK k \in 1 .. n : yielded[k] = <<jd, j>>
      BY <1>4, <3>4 DEF Yielded
    <3>6. k = t - 1
      <4>1. jd \in DOMAIN read /\ j \in Replayed(read[jd])
        BY <1>4, <3>5, YieldedFacts
      <4>2. read[jd][j] = files[jd][j]
        BY <4>1 DEF SnapshotInv
      <4>3. read[jd][j].txid = k
        BY <1>4, <3>5 DEF ReaderInOrder
      <4> QED BY <3>1, <4>2, <4>3
    <3> QED BY <1>3, <1>4, <3>6
  <2> QED BY <2>1, <2>2
<1> HIDE DEF n, t
<1>7. t = n + 1
  BY <1>3, <1>4, <1>5, <1>6
<1> QED BY <1>7 DEF t, n

LEMMA InOrderStep ==
  ASSUME Disciplined, LogInv, SealedInv, TxidInv, IterInv, SnapshotInv, ReaderInOrder,
         [ReaderNext]_rvars
  PROVE  ReaderInOrder'
<1>1. CASE UNCHANGED <<yielded, read>>
  BY <1>1 DEF ReaderInOrder
<1>2. CASE yielded' = <<>>
  BY <1>2 DEF ReaderInOrder
<1>3. CASE Load
  <2>1. /\ yielded' = yielded
        /\ \A id \in DOMAIN read : id # Cur => read'[id] = read[id]
    BY <1>3 DEF Load
  <2>2. Cur \notin DOMAIN read
    BY <1>3, AtSegment DEF Load
  <2>3. \A n \in DOMAIN yielded : yielded[n][1] \in DOMAIN read
    BY YieldedFacts
  <2> QED BY <2>1, <2>2, <2>3 DEF ReaderInOrder
<1>4. CASE Yield
  <2>1. buf[pos + 1].txid = Len(yielded) + 1
    BY <1>4, InOrderYield
  <2>2. \E n, p : n = Len(yielded) /\ p = <<Cur, pos + 1>>
    OBVIOUS
  <2> PICK n, p : n = Len(yielded) /\ p = <<Cur, pos + 1>>
    BY <2>2
  <2>3. yielded' = Append(yielded, p) /\ read' = read /\ read[p[1]][p[2]].txid = n + 1
    BY <1>4, <2>1, NextRecord DEF Yield
  <2>4. yielded \in Seq(Ids \X Ids) /\ n \in Nat /\ DOMAIN yielded = 1 .. n
    BY DEF IterInv, TakenInv
  <2>5. /\ DOMAIN yielded' = 1 .. n + 1 /\ yielded'[n + 1] = p
        /\ \A k \in 1 .. n : yielded'[k] = yielded[k]
    BY <2>3, <2>4
  <2>6. \A k \in 1 .. n + 1 : k \in 1 .. n \/ k = n + 1
    BY <2>4
  <2> QED BY <2>3, <2>4, <2>5, <2>6 DEF ReaderInOrder
<1> QED
  BY <1>1, <1>2, <1>3, <1>4
     DEF ReaderNext, ReaderOpen, ReaderOpenFails, ScanIter, ReaderDrop, NoReader, FreshIterator,
         LoadFails, SegmentEnd, TailEnd, Advance, DecodeFails, Exhausted, iterator, reader, rvars

(***************************************************************************)
(* What next() returns is a prefix of the log, txids 1, 2, 3 ..., though   *)
(* each segment was read at a different time and the writer went on        *)
(* between them.                                                           *)
(***************************************************************************)
THEOREM ReaderReturnsPrefix ==
  ASSUME Disciplined PROVE ReaderSpec => []ReaderInOrder
<1>0. Platform
  BY DEF Disciplined
<1>1. ReaderInit => ReaderInOrder
  BY DEF ReaderInit, ReaderInOrder
<1>2. LogInv /\ SealedInv /\ TxidInv /\ IterInv /\ SnapshotInv /\ ReaderInOrder
        /\ [ReaderNext]_rvars => ReaderInOrder'
  BY InOrderStep
<1>3. ReaderSpec => [](LogInv /\ IterInv /\ BesideInv /\ SnapshotInv)
  BY <1>0, BesideInvariant
<1> QED BY <1>1, <1>2, <1>3, ReaderTxids, PTL DEF ReaderSpec
=============================================================================
