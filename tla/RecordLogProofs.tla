--------------------------- MODULE RecordLogProofs ---------------------------
(***************************************************************************)
(* Machine-checked proofs about RecordLog, for every value of its          *)
(* constants.                                                              *)
(***************************************************************************)
EXTENDS RecordLog, WellFoundedInduction, FiniteSetTheorems, TLAPS

------------------------------------------------------------------------------
(* The parts of the inductive invariant that need more than LogInv *)

(***************************************************************************)
(* Why the log can always be opened if callers heed the report: a segment  *)
(* is sealed only when it is whole and synced, and the last segment is     *)
(* whole up to its last frame.                                             *)
(***************************************************************************)
SealedInv ==
    /\ \A id \in DOMAIN files :
          /\ AllWhole(files[id], Len(files[id]) - 1)
          /\ id # Max(DOMAIN files) => /\ AllWhole(files[id], Len(files[id]))
                                       /\ synced[id] = Len(files[id])
    /\ pc \in {"writing", "rotating", "created", "opening"} => report.tail_truncated = 0
    /\ \A r \in pending \cup durable : r.clean

\* Frame i of segment id is in the log before frame j of segment jd.
Earlier(id, i, jd, j) == id < jd \/ (id = jd /\ i < j)

\* Txids grow along the log, damaged and unfinished frames included.
TxidsOrdered ==
    \A id, jd \in DOMAIN files :
        \A i \in 1 .. Len(files[id]), j \in 1 .. Len(files[jd]) :
            Earlier(id, i, jd, j) => files[id][i].txid < files[jd][j].txid

\* No txid is left out before one that is there, and there are no more of
\* them than frames were written.
TxidsDense ==
    \A id \in DOMAIN files : \A i \in 1 .. Len(files[id]) :
        /\ files[id][i].txid <= appends
        /\ \A t \in 1 .. files[id][i].txid :
              \E jd \in DOMAIN files : \E j \in 1 .. Len(files[jd]) : files[jd][j].txid = t

\* A handle that may write goes on from the last txid in the log.
NextTxidFollows ==
    (Opened /\ ~poisoned /\ report.tail_truncated = 0) =>
        /\ \A id \in DOMAIN files : \A i \in 1 .. Len(files[id]) :
              \/ files[id][i].txid < nextTxid
              \/ pc = "writing" /\ id = active /\ i = Len(ActiveFile)
        /\ nextTxid > 1 => \E id \in DOMAIN files : \E i \in 1 .. Len(files[id]) :
                              files[id][i].txid = nextTxid - 1

\* The last record that a handle has acknowledged is the last of the log.
PendingLast ==
    (Opened /\ ~poisoned /\ pending # {}) =>
        /\ report.tail_truncated = 0
        /\ \E r \in pending : r.txid = nextTxid - 1

(***************************************************************************)
(* Why txids are 1, 2, 3 ... if callers heed the report and do not run out *)
(* of txids: every frame gets the txid after those before it, and frames   *)
(* are lost from the end of the log only.                                  *)
(***************************************************************************)
TxidInv == TxidsOrdered /\ TxidsDense /\ NextTxidFollows /\ PendingLast

\* The bytes that a frame can have, and need when it is complete.
FrameMax == HeaderLen + MaxDataLen + CrcLen

(***************************************************************************)
(* Why active_size does not overflow: no frame ends, or would end once it  *)
(* is complete, further in its file than all the frames ever written could *)
(* reach.                                                                  *)
(***************************************************************************)
SizeInv ==
    \A id \in DOMAIN files : \A i \in 1 .. Len(files[id]) :
        LET c == files[id][i]
        IN  c.len <= FrameLen(c.data) /\ c.at + FrameLen(c.data) <= appends * FrameMax

------------------------------------------------------------------------------
(* Naturals *)

\* A set of naturals that is not empty has a least element.
LEMMA NatMin ==
  ASSUME NEW T \in SUBSET Nat, T # {}
  PROVE  \E x \in T : \A y \in T : x <= y
<1>1. PICK x \in T : \A y \in T : ~(<<y, x>> \in OpToRel(<, Nat))
  BY NatLessThanWellFounded, WFMin
<1>2. \A y \in T : x <= y
  <2> TAKE y \in T
  <2>1. ~(<<y, x>> \in {ss \in Nat \X Nat : ss[1] < ss[2]})
    BY <1>1 DEF OpToRel
  <2> QED BY <2>1
<1> QED BY <1>2

\* One that is bounded too has a greatest element, and Max returns it.
LEMMA NatMax ==
  ASSUME NEW T \in SUBSET Nat, T # {},
         NEW b \in Nat, \A x \in T : x <= b
  PROVE  Max(T) \in T /\ \A y \in T : y <= Max(T)
<1> DEFINE U == {n \in Nat : \A x \in T : x <= n}
<1>1. PICK m \in U : \A y \in U : m <= y
  <2>1. U \in SUBSET Nat /\ U # {}
    OBVIOUS
  <2> HIDE DEF U
  <2> QED BY <2>1, NatMin
<1>2. m \in T
  <2> SUFFICES ASSUME m \notin T PROVE FALSE
    OBVIOUS
  <2>1. PICK z \in T : TRUE
    OBVIOUS
  <2>2. m - 1 \in Nat /\ \A x \in T : x <= m - 1
    BY <2>1
  <2> QED BY <2>2, <1>1
<1>3. \E x \in T : \A y \in T : x >= y
  BY <1>2
<1>4. Max(T) \in T /\ \A y \in T : Max(T) >= y
  BY <1>3 DEF Max
<1> QED BY <1>4

\* Min of a set of numbers.
LEMMA MinIs ==
  ASSUME NEW S \in SUBSET Nat, S # {}
  PROVE  Min(S) \in S /\ \A y \in S : Min(S) <= y
<1>1. PICK x \in S : \A y \in S : x <= y
  BY NatMin
<1> QED BY <1>1 DEF Min

------------------------------------------------------------------------------
(* Frames and scans *)

\* The fields of a chunk have their types.
LEMMA ChunkFields ==
  ASSUME NEW s \in Seq(Chunk), NEW i \in 1 .. Len(s)
  PROVE  /\ s[i] \in Chunk
         /\ s[i].txid \in 1 .. MaxTxid
         /\ s[i].data \in Data
         /\ s[i].at \in Nat
         /\ s[i].len \in Nat
         /\ s[i].state \in {"whole", "torn", "crc", "zeros"}
<1>1. s[i] \in Chunk
  OBVIOUS
<1>2. \A c \in Chunk : /\ c.txid \in 1 .. MaxTxid
                       /\ c.data \in Data
                       /\ c.at \in Nat
                       /\ c.len \in Nat
                       /\ c.state \in {"whole", "torn", "crc", "zeros"}
  BY DEF Chunk, ChunkState
<1> QED BY <1>1, <1>2

\* Only an intact frame decodes.
LEMMA DecodeOk ==
  ASSUME NEW s \in Seq(Chunk), NEW i \in 1 .. Len(s)
  PROVE  DecodeNext(s, i) = "Ok" <=> s[i].state = "whole"
<1>1. s[i].state \in {"whole", "torn", "crc", "zeros"}
  BY ChunkFields
<1>2. CASE s[i].state = "whole"
  BY <1>2 DEF DecodeNext
<1>3. CASE s[i].state \in {"crc", "zeros"}
  BY <1>3 DEF DecodeNext
<1>4. CASE s[i].state = "torn"
  BY <1>4 DEF DecodeNext
<1> QED BY <1>1, <1>2, <1>3, <1>4

\* What a scan of one segment replays is its longest prefix of whole frames.
LEMMA ReplayedWhole ==
  ASSUME NEW s \in Seq(Chunk), NEW i \in 1 .. Len(s)
  PROVE  i \in Replayed(s) <=> AllWhole(s, i)
<1>1. \A j \in 1 .. i : DecodeNext(s, j) = "Ok" <=> s[j].state = "whole"
  BY DecodeOk
<1> QED BY <1>1 DEF Replayed, AllWhole

\* A file has a size.
LEMMA FileSizeType ==
  ASSUME NEW s \in Seq(Chunk)
  PROVE  FileSize(s) \in Nat
<1>1. CASE s = <<>>
  BY <1>1 DEF FileSize
<1>2. CASE s # <<>>
  <2>1. Len(s) \in 1 .. Len(s) /\ s[Len(s)] \in Chunk
    BY <1>2
  <2> QED BY <1>2, <2>1 DEF FileSize, Chunk
<1> QED BY <1>1, <1>2

\* No frame of a file ends after the file does.
LEMMA FrameInFile ==
  ASSUME NEW s \in Seq(Chunk), Laid(s), NEW i \in 1 .. Len(s)
  PROVE  s[i].at + s[i].len <= FileSize(s)
<1>1. s # <<>> /\ Len(s) \in 1 .. Len(s)
  OBVIOUS
<1>2. s[i] \in Chunk /\ s[Len(s)] \in Chunk
  BY <1>1
<1>3. CASE i = Len(s)
  BY <1>1, <1>2, <1>3 DEF FileSize, Chunk
<1>4. CASE i < Len(s)
  <2>1. s[i].at + s[i].len <= s[Len(s)].at
    BY <1>1, <1>4 DEF Laid
  <2> QED BY <1>1, <1>2, <2>1 DEF FileSize, Chunk
<1> QED BY <1>3, <1>4

(***************************************************************************)
(* The logical end of a segment is within the file, and it is the end of   *)
(* the file only if every frame is whole.                                  *)
(***************************************************************************)
LEMMA LogicalEndFacts ==
  ASSUME NEW s \in Seq(Chunk), Laid(s)
  PROVE  /\ LogicalEnd(s) \in Nat
         /\ LogicalEnd(s) <= FileSize(s)
         /\ LogicalEnd(s) = FileSize(s) => AllWhole(s, Len(s))
<1>1. FileSize(s) \in Nat
  BY FileSizeType
<1>2. CASE \A i \in 1 .. Len(s) : DecodeNext(s, i) = "Ok"
  <2>1. LogicalEnd(s) = FileSize(s)
    BY <1>2 DEF LogicalEnd
  <2>2. AllWhole(s, Len(s))
    BY <1>2, DecodeOk DEF AllWhole
  <2> QED BY <1>1, <2>1, <2>2
<1>3. CASE ~ \A i \in 1 .. Len(s) : DecodeNext(s, i) = "Ok"
  <2> DEFINE Bad == {i \in 1 .. Len(s) : DecodeNext(s, i) # "Ok"}
  <2>1. PICK k \in Bad : \A j \in Bad : k <= j
    <3>1. Bad \in SUBSET Nat /\ Bad # {}
      BY <1>3
    <3> HIDE DEF Bad
    <3> QED BY <3>1, NatMin
  <2>2. \E i \in 1 .. Len(s) : /\ DecodeNext(s, i) # "Ok"
                               /\ \A j \in 1 .. (i - 1) : DecodeNext(s, j) = "Ok"
    <3>1. \A j \in 1 .. (k - 1) : j \in 1 .. Len(s) /\ ~(k <= j)
      OBVIOUS
    <3> QED BY <2>1, <3>1
  <2>3. PICK i \in 1 .. Len(s) : LogicalEnd(s) = s[i].at
    BY <1>3, <2>2 DEF LogicalEnd
  <2>4. s[i].at \in Nat /\ s[i].len \in Nat /\ s[i].len > 0
    BY ChunkFields DEF Laid
  <2>5. s[i].at + s[i].len <= FileSize(s)
    BY FrameInFile
  <2> QED BY <1>1, <2>3, <2>4, <2>5
<1> QED BY <1>2, <1>3

\* The segment open picks is listed, and none that is listed comes after it.
LEMMA ActiveSegmentFacts ==
  ASSUME NEW F, DOMAIN F \in SUBSET Ids, ListSegmentIds(F) # {}
  PROVE  /\ ActiveSegmentId(F) \in ListSegmentIds(F)
         /\ \A id \in ListSegmentIds(F) : id <= ActiveSegmentId(F)
<1>1. /\ ListSegmentIds(F) \in SUBSET Nat
      /\ MaxListedId \in Nat
      /\ \A id \in ListSegmentIds(F) : id <= MaxListedId
  BY SegmentsAssumption DEF ListSegmentIds, Ids
<1> QED BY <1>1, NatMax DEF ActiveSegmentId

\* last_txid_seen is 0 or a txid, so that next_txid is one.
LEMMA LastTxidType ==
  ASSUME NEW F, F \in [DOMAIN F -> Seq(Chunk)]
  PROVE  /\ LastTxidSeen(F) \in 0 .. MaxTxid
         /\ NextTxid(LastTxidSeen(F)) \in 1 .. MaxTxid
<1> DEFINE T == {0} \cup UNION {{F[id][i].txid : i \in Replayed(F[id])} :
                                  id \in ListSegmentIds(F)}
<1>1. \A id \in ListSegmentIds(F) : \A i \in Replayed(F[id]) :
         F[id][i].txid \in 1 .. MaxTxid
  <2> TAKE id \in ListSegmentIds(F)
  <2> TAKE i \in Replayed(F[id])
  <2>1. F[id] \in Seq(Chunk)
    BY DEF ListSegmentIds
  <2>2. i \in 1 .. Len(F[id])
    BY DEF Replayed
  <2> QED BY <2>1, <2>2, ChunkFields
<1>2. MaxTxid \in Nat \ {0}
  BY WireAssumption
<1>3. T \in SUBSET Nat /\ T # {} /\ \A x \in T : x <= MaxTxid
  BY <1>1, <1>2
<1>4. LastTxidSeen(F) = Max(T)
  BY DEF LastTxidSeen
<1>5. Max(T) \in T
  <2> HIDE DEF T
  <2> QED BY <1>2, <1>3, NatMax
<1>6. LastTxidSeen(F) \in 0 .. MaxTxid
  <2> HIDE DEF T
  <2> QED BY <1>2, <1>3, <1>4, <1>5
<1> QED BY <1>2, <1>6 DEF NextTxid

(***************************************************************************)
(* The recovery report has its type, and reports no discarded tail only if *)
(* every frame of the active segment is whole.                             *)
(***************************************************************************)
LEMMA TailReportFacts ==
  ASSUME NEW F, F \in [DOMAIN F -> Seq(Chunk)], DOMAIN F \in SUBSET Ids,
         ListSegmentIds(F) # {},
         \A id \in DOMAIN F : Laid(F[id])
  PROVE  /\ TailReport(F) \in Report
         /\ LogicalEnd(F[ActiveSegmentId(F)]) \in Nat
         /\ TailReport(F).tail_truncated = 0
              => /\ AllWhole(F[ActiveSegmentId(F)], Len(F[ActiveSegmentId(F)]))
                 /\ LogicalEnd(F[ActiveSegmentId(F)]) = FileSize(F[ActiveSegmentId(F)])
<1> DEFINE s == F[ActiveSegmentId(F)]
<1>1. s \in Seq(Chunk) /\ Laid(s)
  BY ActiveSegmentFacts DEF ListSegmentIds
<1>2. /\ LogicalEnd(s) \in Nat
      /\ LogicalEnd(s) <= FileSize(s)
      /\ LogicalEnd(s) = FileSize(s) => AllWhole(s, Len(s))
      /\ FileSize(s) \in Nat
  <2> HIDE DEF s
  <2> QED BY <1>1, LogicalEndFacts, FileSizeType
<1>3. LastTxidSeen(F) \in Nat
  BY LastTxidType, WireAssumption
<1>4. TailReport(F) = [tail_truncated |-> IF LogicalEnd(s) = FileSize(s) THEN 0 ELSE 1,
                       tail_bytes_discarded |-> FileSize(s) - LogicalEnd(s),
                       last_txid_seen |-> LastTxidSeen(F)]
  BY DEF TailReport
<1> HIDE DEF s
<1>5. TailReport(F) \in Report
  BY <1>2, <1>3, <1>4 DEF Report
<1>6. TailReport(F).tail_truncated = 0 => LogicalEnd(s) = FileSize(s)
  BY <1>4
<1> QED BY <1>2, <1>5, <1>6 DEF s

------------------------------------------------------------------------------
(* What the steps of write_all, and power loss, do to a file *)

\* A chunk at the end of the file keeps the file well laid out.
LEMMA LaidAppend ==
  ASSUME NEW s \in Seq(Chunk), Laid(s),
         NEW c \in Chunk, c.len > 0, c.at = FileSize(s)
  PROVE  Append(s, c) \in Seq(Chunk) /\ Laid(Append(s, c))
<1> DEFINE t == Append(s, c)
<1>1. /\ t \in Seq(Chunk)
      /\ Len(t) = Len(s) + 1
      /\ \A i \in 1 .. Len(s) : t[i] = s[i]
      /\ t[Len(s) + 1] = c
  OBVIOUS
<1> HIDE DEF t
<1>2. \A i \in 1 .. Len(t) : t[i].len > 0
  BY <1>1 DEF Laid
<1>3. \A i, j \in 1 .. Len(t) : i < j => t[i].at + t[i].len <= t[j].at
  <2> SUFFICES ASSUME NEW i \in 1 .. Len(t), NEW j \in 1 .. Len(t), i < j
               PROVE  t[i].at + t[i].len <= t[j].at
    OBVIOUS
  <2>1. i \in 1 .. Len(s) /\ t[i] = s[i]
    BY <1>1
  <2>2. CASE j = Len(s) + 1
    BY <1>1, <2>1, <2>2, FrameInFile
  <2>3. CASE j # Len(s) + 1
    <3>1. j \in 1 .. Len(s) /\ t[j] = s[j]
      BY <1>1, <2>3
    <3> QED BY <2>1, <3>1 DEF Laid
  <2> QED BY <2>2, <2>3
<1>4. Laid(t)
  BY <1>2, <1>3 DEF Laid
<1> QED BY <1>1, <1>4 DEF t

\* Cutting a frame short changes its length and its state only.
LEMMA CutToFacts ==
  ASSUME NEW c \in Chunk, NEW n \in Nat
  PROVE  /\ CutTo(c, n) \in Chunk
         /\ CutTo(c, n).len = n
         /\ CutTo(c, n).at = c.at
         /\ CutTo(c, n).txid = c.txid
         /\ CutTo(c, n).data = c.data
BY DEF CutTo, Chunk, ChunkState

\* What encode_record makes is a chunk, intact and not empty.
LEMMA WholeFrame ==
  ASSUME NEW txid \in 1 .. MaxTxid, NEW d \in Data, NEW at \in Nat
  PROVE  /\ EncodeRecord(txid, d, at) \in Chunk
         /\ EncodeRecord(txid, d, at).len \in Nat
         /\ EncodeRecord(txid, d, at).len > 0
         /\ EncodeRecord(txid, d, at).at = at
         /\ EncodeRecord(txid, d, at).txid = txid
         /\ EncodeRecord(txid, d, at).data = d
         /\ EncodeRecord(txid, d, at).state = "whole"
<1>1. FrameLen(d) \in Nat /\ FrameLen(d) > 0
  BY WireAssumption DEF FrameLen
<1> QED BY <1>1 DEF EncodeRecord, Chunk, ChunkState

\* A part of a frame, written at the end of a file by write_all.
LEMMA CutFrame ==
  ASSUME NEW txid \in 1 .. MaxTxid, NEW d \in Data, NEW at \in Nat, NEW cut \in Cuts
  PROVE  /\ CutTo(EncodeRecord(txid, d, at), cut) \in Chunk
         /\ CutTo(EncodeRecord(txid, d, at), cut).len > 0
         /\ CutTo(EncodeRecord(txid, d, at), cut).at = at
<1> DEFINE c == EncodeRecord(txid, d, at)
<1>1. cut \in Nat /\ cut > 0
  BY RecordLogAssumption
<1>2. c \in Chunk /\ c.at = at
  BY WholeFrame
<1> HIDE DEF c
<1>3. CutTo(c, cut) \in Chunk /\ CutTo(c, cut).len = cut /\ CutTo(c, cut).at = c.at
  BY <1>1, <1>2, CutToFacts
<1> QED BY <1>1, <1>2, <1>3 DEF c

\* Completing the last frame of a file changes that frame only.
LEMMA CompletedFacts ==
  ASSUME NEW s \in Seq(Chunk), Laid(s), Len(s) > 0
  PROVE  /\ Completed(s) \in Seq(Chunk)
         /\ Laid(Completed(s))
         /\ Len(Completed(s)) = Len(s)
         /\ \A i \in 1 .. (Len(s) - 1) : Completed(s)[i] = s[i]
         /\ Completed(s)[Len(s)] =
              EncodeRecord(s[Len(s)].txid, s[Len(s)].data, s[Len(s)].at)
<1> DEFINE n == Len(s)
           c == EncodeRecord(s[n].txid, s[n].data, s[n].at)
           t == Completed(s)
<1>1. n \in 1 .. n /\ n \in Nat
  OBVIOUS
<1>2. c \in Chunk /\ c.len > 0 /\ c.at = s[n].at
  BY <1>1, ChunkFields, WholeFrame
<1>3. t = [s EXCEPT ![n] = c]
  BY DEF Completed
<1> HIDE DEF c, t
<1>4. /\ t \in Seq(Chunk)
      /\ Len(t) = n
      /\ \A i \in 1 .. n : t[i] = IF i = n THEN c ELSE s[i]
  BY <1>1, <1>2, <1>3
<1>5. \A i \in 1 .. n : t[i].len > 0
  BY <1>2, <1>4 DEF Laid
<1>6. \A i, j \in 1 .. n : i < j => t[i].at + t[i].len <= t[j].at
  <2> SUFFICES ASSUME NEW i \in 1 .. n, NEW j \in 1 .. n, i < j
               PROVE  t[i].at + t[i].len <= t[j].at
    OBVIOUS
  <2>1. t[i] = s[i] /\ t[j].at = s[j].at
    BY <1>2, <1>4
  <2> QED BY <2>1 DEF Laid
<1>7. Laid(t)
  BY <1>4, <1>5, <1>6 DEF Laid
<1> QED BY <1>1, <1>4, <1>7 DEF t, c

\* A prefix of a file is a file whose frames follow one another.
LEMMA PrefixFacts ==
  ASSUME NEW s \in Seq(Chunk), Laid(s), NEW m \in 0 .. Len(s)
  PROVE  /\ SubSeq(s, 1, m) \in Seq(Chunk)
         /\ Len(SubSeq(s, 1, m)) = m
         /\ \A i \in 1 .. m : SubSeq(s, 1, m)[i] = s[i]
         /\ Laid(SubSeq(s, 1, m))
<1> DEFINE t == SubSeq(s, 1, m)
<1>1. /\ t \in Seq(Chunk)
      /\ Len(t) = m
      /\ \A i \in 1 .. m : t[i] = s[i]
  OBVIOUS
<1> HIDE DEF t
<1>2. \A i \in 1 .. m : i \in 1 .. Len(s)
  OBVIOUS
<1>3. Laid(t)
  BY <1>1, <1>2 DEF Laid
<1> QED BY <1>1, <1>3 DEF t

\* Chunk e is what is left of the frame c: of the same record, and whole only
\* if nothing is missing.
Remains(c, e) ==
    /\ e.txid = c.txid
    /\ e.data = c.data
    /\ e.at = c.at
    /\ e.len <= c.len
    /\ e.state = "whole" => e = c

\* A frame that nothing happened to remains.
LEMMA RemainsItself == ASSUME NEW c \in Chunk PROVE Remains(c, c)
BY DEF Remains, Chunk

\* Damage to a chunk leaves a part of it, at the same place.
LEMMA DamagedFacts ==
  ASSUME NEW c \in Chunk, c.len > 0, NEW e \in Damaged(c)
  PROVE  e \in Chunk /\ e.len > 0 /\ e.at = c.at /\ Remains(c, e)
<1> USE DEF Remains
<1>1. CASE \E n \in Cuts : n < c.len /\ e = CutTo(c, n)
  <2>1. PICK n \in Cuts : n < c.len /\ e = CutTo(c, n)
    BY <1>1
  <2>2. n \in Nat /\ n > 0 /\ c.len \in Nat
    BY RecordLogAssumption DEF Chunk
  <2>3. CutTo(c, n).state = "torn"
    BY DEF CutTo, Chunk
  <2>4. /\ e \in Chunk /\ e.len = n /\ e.at = c.at /\ e.txid = c.txid /\ e.data = c.data
    BY <2>1, <2>2, CutToFacts
  <2> QED BY <2>1, <2>2, <2>3, <2>4
<1>2. CASE e = IF c.state = "torn" THEN c ELSE [c EXCEPT !.state = "crc"]
  <2>1. CASE c.state = "torn"
    BY <1>2, <2>1, RemainsItself
  <2>2. CASE c.state # "torn"
    BY <1>2, <2>2 DEF Chunk, ChunkState
  <2> QED BY <2>1, <2>2
<1>3. CASE ZeroTails /\ e = [c EXCEPT !.state = "zeros"]
  BY <1>3 DEF Chunk, ChunkState
<1> QED BY <1>1, <1>2, <1>3 DEF Damaged

(***************************************************************************)
(* Power loss leaves the synced chunks of a file as they were, and what it *)
(* leaves of the file is well laid out.                                    *)
(***************************************************************************)
LEMMA AfterPowerLossFacts ==
  ASSUME NEW s \in Seq(Chunk), Laid(s), NEW n \in 0 .. Len(s),
         NEW image \in AfterPowerLoss(s, n)
  PROVE  /\ image \in Seq(Chunk)
         /\ Laid(image)
         /\ n <= Len(image)
         /\ Len(image) <= Len(s)
         /\ \A i \in 1 .. n : image[i] = s[i]
         /\ \A i \in 1 .. (Len(image) - 1) : image[i] = s[i]
         /\ \A i \in 1 .. Len(image) : Remains(s[i], image[i])
<1>1. CASE \E m \in n .. Len(s) : image = SubSeq(s, 1, m)
  <2>1. PICK m \in n .. Len(s) : image = SubSeq(s, 1, m)
    BY <1>1
  <2>2. m \in 0 .. Len(s) /\ n <= m /\ m <= Len(s)
    OBVIOUS
  <2>3. /\ image \in Seq(Chunk) /\ Laid(image) /\ Len(image) = m
        /\ \A i \in 1 .. m : image[i] = s[i]
    BY <2>1, <2>2, PrefixFacts
  <2>4. \A i \in 1 .. Len(image) : Remains(s[i], image[i])
    BY <2>2, <2>3, RemainsItself
  <2> QED BY <2>2, <2>3, <2>4
<1>2. CASE \E m \in n .. (Len(s) - 1) : \E c \in Damaged(s[m + 1]) :
                image = Append(SubSeq(s, 1, m), c)
  <2>0. PICK m \in n .. (Len(s) - 1) : \E c \in Damaged(s[m + 1]) :
                image = Append(SubSeq(s, 1, m), c)
    BY <1>2
  <2>1. PICK c \in Damaged(s[m + 1]) : image = Append(SubSeq(s, 1, m), c)
    BY <2>0
  <2> DEFINE t == SubSeq(s, 1, m)
  <2>2. m \in 0 .. Len(s) /\ n <= m /\ m \in Nat /\ m + 1 \in 1 .. Len(s)
    OBVIOUS
  <2>3. /\ t \in Seq(Chunk)
        /\ Len(t) = m
        /\ \A i \in 1 .. m : t[i] = s[i]
        /\ Laid(t)
    BY <2>2, PrefixFacts
  <2>4. s[m + 1] \in Chunk /\ s[m + 1].len > 0
    BY <2>2 DEF Laid
  <2>5. c \in Chunk /\ c.len > 0 /\ c.at = s[m + 1].at /\ Remains(s[m + 1], c)
    BY <2>4, DamagedFacts
  <2>6. \A i \in 1 .. m : t[i].at + t[i].len <= c.at
    <3> SUFFICES ASSUME NEW i \in 1 .. m
                 PROVE  t[i].at + t[i].len <= c.at
      OBVIOUS
    <3>1. t[i] = s[i] /\ i \in 1 .. Len(s) /\ i < m + 1
      BY <2>2, <2>3
    <3> QED BY <2>2, <2>5, <3>1 DEF Laid
  <2> HIDE DEF t
  <2>7. /\ image \in Seq(Chunk)
        /\ Len(image) = m + 1
        /\ \A i \in 1 .. m : image[i] = t[i]
        /\ image[m + 1] = c
    BY <2>1, <2>2, <2>3, <2>5 DEF t
  <2>8. \A i \in 1 .. (m + 1) : i \in 1 .. m \/ i = m + 1
    BY <2>2
  <2>9. \A i \in 1 .. (m + 1) : image[i].len > 0
    BY <2>3, <2>5, <2>7, <2>8 DEF Laid
  <2>10. \A i, j \in 1 .. (m + 1) : i < j => image[i].at + image[i].len <= image[j].at
    <3> SUFFICES ASSUME NEW i \in 1 .. (m + 1), NEW j \in 1 .. (m + 1), i < j
                 PROVE  image[i].at + image[i].len <= image[j].at
      OBVIOUS
    <3>1. i \in 1 .. m
      BY <2>2
    <3>2. CASE j = m + 1
      BY <2>6, <2>7, <3>1, <3>2
    <3>3. CASE j \in 1 .. m
      BY <2>3, <2>7, <3>1, <3>3 DEF Laid
    <3> QED BY <2>8, <3>2, <3>3
  <2>11. Laid(image)
    BY <2>7, <2>9, <2>10 DEF Laid
  <2>12. /\ n <= Len(image) /\ Len(image) <= Len(s)
         /\ \A i \in 1 .. n : image[i] = s[i]
         /\ \A i \in 1 .. (Len(image) - 1) : image[i] = s[i]
    BY <2>2, <2>3, <2>7
  <2>13. \A i \in 1 .. Len(image) : Remains(s[i], image[i])
    <3>1. \A i \in 1 .. m : s[i] \in Chunk /\ image[i] = s[i]
      BY <2>2, <2>3, <2>7
    <3> QED BY <2>5, <2>7, <2>8, <3>1, RemainsItself
  <2> QED BY <2>7, <2>11, <2>12, <2>13
<1> QED BY <1>1, <1>2 DEF AfterPowerLoss

\* What the disk has of a file is as long as the file, and laid out like it.
LEMMA OnDiskFacts ==
  ASSUME NEW id \in DOMAIN files, files[id] \in Seq(Chunk), Laid(files[id])
  PROVE  /\ OnDisk(id) \in Seq(Chunk)
         /\ Len(OnDisk(id)) = Len(files[id])
         /\ Laid(OnDisk(id))
         /\ dropped = {} => OnDisk(id) = files[id]
<1> DEFINE s == files[id]
           D(i) == IF <<id, i>> \in dropped /\ s[i].state = "whole"
                   THEN [s[i] EXCEPT !.state = "crc"] ELSE s[i]
<1>1. \A i \in 1 .. Len(s) : /\ D(i) \in Chunk
                             /\ D(i).at = s[i].at
                             /\ D(i).len = s[i].len
  <2> TAKE i \in 1 .. Len(s)
  <2>1. s[i] \in Chunk
    OBVIOUS
  <2>2. \A c \in Chunk : /\ [c EXCEPT !.state = "crc"] \in Chunk
                         /\ [c EXCEPT !.state = "crc"].at = c.at
                         /\ [c EXCEPT !.state = "crc"].len = c.len
    BY DEF Chunk, ChunkState
  <2> QED BY <2>1, <2>2
<1>2. OnDisk(id) = [i \in 1 .. Len(s) |-> D(i)]
  BY DEF OnDisk
<1> HIDE DEF D
<1>3. /\ OnDisk(id) \in Seq(Chunk)
      /\ Len(OnDisk(id)) = Len(s)
      /\ \A i \in 1 .. Len(s) : OnDisk(id)[i] = D(i)
  BY <1>1, <1>2
<1>4. Laid(OnDisk(id))
  BY <1>1, <1>3 DEF Laid
<1>5. ASSUME dropped = {} PROVE OnDisk(id) = s
  <2>1. \A i \in 1 .. Len(s) : OnDisk(id)[i] = s[i]
    BY <1>3, <1>5 DEF D
  <2> QED BY <1>3, <2>1
<1> QED BY <1>3, <1>4, <1>5

------------------------------------------------------------------------------
(* The shape of the state, whatever the constants *)

\* An empty directory without a handle is in shape.
LEMMA ShapeInit == Init => ShapeInv
<1> SUFFICES ASSUME Init PROVE ShapeInv
  OBVIOUS
<1>1. DOMAIN files = {} /\ files \in [{} -> Seq(Chunk)] /\ synced \in [{} -> Nat]
  BY DEF Init
<1>2. /\ 0 \in 0 .. MaxAppends /\ 0 \in 0 .. MaxFaults
      /\ 1 \in 1 .. MaxTxid
  BY RecordLogAssumption, WireAssumption
<1>3. report \in Report
  BY DEF Init, NoReport, Report
<1>4. TypeOK
  BY <1>1, <1>2, <1>3 DEF Init, TypeOK, PC, Ids
<1> QED BY <1>1, <1>4 DEF Init, ShapeInv, Opened

\* A call that ends without a handle, and leaves the disk alone.
LEMMA ShapeNoHandle ==
  ASSUME ShapeInv, NoHandle, UNCHANGED <<disk, durable, appends>>,
         faults' \in 0 .. MaxFaults
  PROVE  ShapeInv'
<1>1. 1 \in 1 .. MaxTxid
  BY WireAssumption
<1>2. NoReport \in Report
  BY DEF NoReport, Report
<1>3. TypeOK'
  BY <1>1, <1>2 DEF ShapeInv, TypeOK, NoHandle, disk, PC
<1> QED BY <1>3 DEF ShapeInv, NoHandle, disk, Opened

\* A successful open: the handle it builds has its type.
LEMMA ShapeOpen ==
  ASSUME ShapeInv, OpenScanned, ListSegmentIds(files) # {},
         UNCHANGED <<files, synced, dropped, durable, appends, faults>>,
         entries' \in {entries, DOMAIN files}
  PROVE  ShapeInv'
<1>1. /\ files \in [DOMAIN files -> Seq(Chunk)]
      /\ DOMAIN files \in SUBSET Ids
      /\ \A id \in DOMAIN files : Laid(files[id])
  BY DEF ShapeInv, TypeOK
<1>2. active' \in DOMAIN files /\ active' \in Nat
  BY <1>1, ActiveSegmentFacts DEF OpenScanned, ListSegmentIds, Ids
<1>3. report' \in Report /\ activeSize' \in Nat
  BY <1>1, TailReportFacts DEF OpenScanned
<1>4. nextTxid' \in 1 .. MaxTxid
  BY <1>1, LastTxidType DEF OpenScanned
<1>5. TypeOK'
  BY <1>1, <1>2, <1>3, <1>4 DEF ShapeInv, TypeOK, OpenScanned, PC
<1> QED BY <1>2, <1>5 DEF ShapeInv, OpenScanned, Opened

\* Poisoning the handle with an error leaves everything in shape.
LEMMA ShapePoison ==
  ASSUME ShapeInv, Opened, Poison,
         UNCHANGED <<files, entries, active, activeSize, nextTxid, report, history, appends>>,
         faults' \in 0 .. MaxFaults,
         synced' \in [DOMAIN files -> Nat],
         \A id \in DOMAIN files : synced'[id] <= Len(files[id]),
         dropped' \in SUBSET (Ids \X Nat)
  PROVE  ShapeInv'
<1>1. TypeOK'
  BY DEF ShapeInv, TypeOK, Poison, history, PC
<1> QED BY <1>1 DEF ShapeInv, Poison, Opened

\* The fault counter stays within its bound.
LEMMA FaultBound ==
  ASSUME TypeOK, Fault
  PROVE  faults' \in 0 .. MaxFaults
BY RecordLogAssumption DEF TypeOK, Fault

\* append_record: writing part of a frame keeps the shape.
LEMMA ShapeAppendBegin ==
  ASSUME ShapeInv, NEW d \in Data, NEW cut \in Cuts, AppendBegin(d, cut)
  PROVE  ShapeInv'
<1> DEFINE s == files[active]
           c == CutTo(EncodeRecord(nextTxid, d, FileSize(s)), cut)
           t == Append(s, c)
<1>1. active \in DOMAIN files /\ s \in Seq(Chunk) /\ Laid(s)
  BY DEF ShapeInv, TypeOK, AppendBegin, MayWrite, Ready, Opened
<1>2. FileSize(s) \in Nat /\ nextTxid \in 1 .. MaxTxid
  BY <1>1, FileSizeType DEF ShapeInv, TypeOK
<1>3. c \in Chunk /\ c.len > 0 /\ c.at = FileSize(s)
  <2> HIDE DEF s
  <2> QED BY <1>2, CutFrame
<1>4. t \in Seq(Chunk) /\ Laid(t) /\ Len(t) = Len(s) + 1
  <2> HIDE DEF s, c
  <2> QED BY <1>1, <1>3, LaidAppend
<1>5. files' = [files EXCEPT ![active] = t]
  BY DEF AppendBegin
<1> HIDE DEF s, t, c
<1>6. /\ DOMAIN files' = DOMAIN files
      /\ files' \in [DOMAIN files -> Seq(Chunk)]
      /\ \A id \in DOMAIN files : files'[id] = IF id = active THEN t ELSE files[id]
  BY <1>1, <1>4, <1>5 DEF ShapeInv, TypeOK
<1>7. appends' \in 0 .. MaxAppends
  BY RecordLogAssumption DEF ShapeInv, TypeOK, AppendBegin
<1>8. TypeOK'
  BY <1>6, <1>7 DEF ShapeInv, TypeOK, AppendBegin, handle, history, PC
<1>9. \A id \in DOMAIN files' : Laid(files'[id]) /\ synced'[id] <= Len(files'[id])
  <2> SUFFICES ASSUME NEW id \in DOMAIN files
               PROVE  Laid(files'[id]) /\ synced[id] <= Len(files'[id])
    BY <1>6 DEF AppendBegin
  <2>1. synced[id] \in Nat /\ synced[id] <= Len(files[id]) /\ Laid(files[id])
    BY DEF ShapeInv, TypeOK
  <2>2. CASE id = active
    <3>1. Len(s) \in Nat
      BY <1>1
    <3> QED BY <1>4, <1>6, <2>1, <2>2, <3>1 DEF s
  <2>3. CASE id # active
    BY <1>6, <2>1, <2>3
  <2> QED BY <2>2, <2>3
<1>10. Len(files'[active']) > 0 /\ active' = active /\ active \in DOMAIN files'
  <2>1. Len(s) \in Nat
    BY <1>1
  <2> QED BY <1>1, <1>4, <1>6, <2>1 DEF AppendBegin, handle
<1> QED
  BY <1>6, <1>8, <1>9, <1>10 DEF ShapeInv, AppendBegin, Opened, ActiveFile

\* append_record: each of its three ends keeps the shape.
LEMMA ShapeAppendFinish ==
  ASSUME ShapeInv, AppendFinish
  PROVE  ShapeInv'
<1> DEFINE s == files[active]
           t == Completed(s)
           frame == t[Len(s)]
<1>1. active \in DOMAIN files /\ s \in Seq(Chunk) /\ Laid(s) /\ Len(s) > 0
  BY DEF ShapeInv, TypeOK, AppendFinish, Opened, ActiveFile
<1>2. t \in Seq(Chunk) /\ Laid(t) /\ Len(t) = Len(s)
  <2> HIDE DEF s
  <2> QED BY <1>1, CompletedFacts
<1>3. frame \in Chunk /\ frame.len \in Nat /\ frame.data \in Data
  <2>1. Len(s) \in 1 .. Len(t)
    BY <1>1, <1>2
  <2> HIDE DEF s, t
  <2> QED BY <1>2, <2>1, ChunkFields
<1>4. files' = [files EXCEPT ![active] = t]
  BY DEF AppendFinish
<1> HIDE DEF s, t
<1>5. /\ DOMAIN files' = DOMAIN files
      /\ files' \in [DOMAIN files -> Seq(Chunk)]
      /\ \A id \in DOMAIN files : files'[id] = IF id = active THEN t ELSE files[id]
  BY <1>1, <1>2, <1>4 DEF ShapeInv, TypeOK
<1> HIDE DEF frame
<1>6. /\ activeSize' \in Nat
      /\ nextTxid' \in 1 .. MaxTxid
      /\ pc' = "idle"
      /\ poisoned' \in BOOLEAN
      /\ newId' \in Nat
      /\ pending' \in SUBSET Ref
  <2>1. /\ activeSize \in Nat /\ nextTxid \in 1 .. MaxTxid /\ newId \in Nat
        /\ pending \in SUBSET Ref /\ active \in Ids /\ MaxTxid \in Nat
        /\ poisoned \in BOOLEAN
    BY <1>1, WireAssumption DEF ShapeInv, TypeOK
  <2>2. frame = Completed(ActiveFile)[Len(ActiveFile)]
    BY DEF frame, t, s, ActiveFile
  <2>3. CASE activeSize + frame.len > MaxSize /\ Poison /\ UNCHANGED <<activeSize, nextTxid, pending>>
    BY <2>1, <2>3 DEF Poison
  <2>4. CASE activeSize' = activeSize + frame.len /\ Poison /\ UNCHANGED <<nextTxid, pending>>
    BY <1>3, <2>1, <2>4 DEF Poison
  <2>5. CASE /\ activeSize' = activeSize + frame.len
             /\ nextTxid < MaxTxid
             /\ nextTxid' = nextTxid + 1
             /\ pending' = pending \cup
                    {[segment |-> active, offset |-> activeSize, len |-> frame.len,
                      txid |-> nextTxid, data |-> frame.data,
                      idx |-> Len(ActiveFile),
                      clean |-> report.tail_truncated = 0]}
             /\ pc' = "idle"
             /\ UNCHANGED <<newId, poisoned>>
    <3>1. Len(ActiveFile) \in Nat
      BY <1>1 DEF ActiveFile, s
    <3>2. (report.tail_truncated = 0) \in BOOLEAN
      OBVIOUS
    <3>3. [segment |-> active, offset |-> activeSize, len |-> frame.len,
           txid |-> nextTxid, data |-> frame.data, idx |-> Len(ActiveFile),
           clean |-> report.tail_truncated = 0] \in Ref
      BY <1>3, <2>1, <3>1, <3>2 DEF Ref
    <3>4. activeSize' \in Nat /\ nextTxid' \in 1 .. MaxTxid
      BY <1>3, <2>1, <2>5
    <3> QED BY <2>1, <2>5, <3>3, <3>4
  <2> QED BY <2>2, <2>3, <2>4, <2>5 DEF AppendFinish
<1>7. TypeOK'
  BY <1>5, <1>6 DEF ShapeInv, TypeOK, AppendFinish, PC
<1>8. \A id \in DOMAIN files' : Laid(files'[id]) /\ synced'[id] <= Len(files'[id])
  BY <1>2, <1>5 DEF ShapeInv, AppendFinish, s
<1> QED
  BY <1>1, <1>5, <1>6, <1>7, <1>8 DEF ShapeInv, AppendFinish, Opened, ActiveFile

(***************************************************************************)
(* What is left after power loss: kept files only, with the synced chunks  *)
(* of each as the disk had them.                                           *)
(***************************************************************************)
LEMMA PowerLossFacts ==
  ASSUME ShapeInv, PowerLoss
  PROVE  /\ entries \subseteq DOMAIN files'
         /\ entries' = DOMAIN files'
         /\ DOMAIN files' \subseteq DOMAIN files
         /\ files' \in [DOMAIN files' -> Seq(Chunk)]
         /\ synced' \in [DOMAIN files' -> Nat]
         /\ \A id \in DOMAIN files' :
               /\ Laid(files'[id])
               /\ synced[id] <= synced'[id]
               /\ synced'[id] = Len(files'[id])
               /\ Len(files'[id]) <= Len(files[id])
               /\ \A i \in 1 .. synced[id] : files'[id][i] = OnDisk(id)[i]
               /\ \A i \in 1 .. (Len(files'[id]) - 1) : files'[id][i] = OnDisk(id)[i]
               /\ \A i \in 1 .. Len(files'[id]) : Remains(OnDisk(id)[i], files'[id][i])
               /\ \A lower \in DOMAIN files : lower < id => lower \in DOMAIN files'
<1>1. PICK kept \in SUBSET DOMAIN files, lucky \in DOMAIN files :
          /\ entries \subseteq kept
          /\ \A id \in kept : \A lower \in DOMAIN files : lower < id => lower \in kept
          /\ \E image \in AfterPowerLoss(OnDisk(lucky), synced[lucky]) :
                /\ files' = [id \in kept |->
                      IF id = lucky THEN image ELSE SubSeq(OnDisk(id), 1, synced[id])]
                /\ synced' = [id \in kept |->
                      IF id = lucky THEN Len(image) ELSE synced[id]]
          /\ entries' = kept
  BY DEF PowerLoss
<1>2. PICK image \in AfterPowerLoss(OnDisk(lucky), synced[lucky]) :
                /\ files' = [id \in kept |->
                      IF id = lucky THEN image ELSE SubSeq(OnDisk(id), 1, synced[id])]
                /\ synced' = [id \in kept |->
                      IF id = lucky THEN Len(image) ELSE synced[id]]
  BY <1>1
<1>3. \A id \in DOMAIN files :
         /\ OnDisk(id) \in Seq(Chunk)
         /\ Len(OnDisk(id)) = Len(files[id])
         /\ Laid(OnDisk(id))
         /\ synced[id] \in 0 .. Len(OnDisk(id))
  <2> TAKE id \in DOMAIN files
  <2>1. /\ files[id] \in Seq(Chunk) /\ Laid(files[id])
        /\ synced[id] \in Nat /\ synced[id] <= Len(files[id])
    BY DEF ShapeInv, TypeOK
  <2>2. Len(OnDisk(id)) = Len(files[id])
    BY <2>1, OnDiskFacts
  <2>3. OnDisk(id) \in Seq(Chunk) /\ Laid(OnDisk(id))
    BY <2>1, OnDiskFacts
  <2> QED BY <2>1, <2>2, <2>3
<1>4. /\ image \in Seq(Chunk)
      /\ Laid(image)
      /\ synced[lucky] <= Len(image)
      /\ Len(image) <= Len(OnDisk(lucky))
      /\ \A i \in 1 .. (Len(image) - 1) : image[i] = OnDisk(lucky)[i]
      /\ \A i \in 1 .. synced[lucky] : image[i] = OnDisk(lucky)[i]
      /\ \A i \in 1 .. Len(image) : Remains(OnDisk(lucky)[i], image[i])
  BY <1>2, <1>3, AfterPowerLossFacts
<1>5. \A id \in kept : LET t == SubSeq(OnDisk(id), 1, synced[id])
                       IN  /\ t \in Seq(Chunk)
                           /\ Laid(t)
                           /\ Len(t) = synced[id]
                           /\ \A i \in 1 .. synced[id] : t[i] = OnDisk(id)[i]
  BY <1>3, PrefixFacts
<1>6. DOMAIN files' = kept /\ DOMAIN synced' = kept
  BY <1>2
<1>7. \A id \in kept :
         /\ files'[id] \in Seq(Chunk)
         /\ synced'[id] \in Nat
         /\ Laid(files'[id])
         /\ synced[id] <= synced'[id]
         /\ synced'[id] = Len(files'[id])
         /\ Len(files'[id]) <= Len(files[id])
         /\ \A i \in 1 .. synced[id] : files'[id][i] = OnDisk(id)[i]
         /\ \A i \in 1 .. (Len(files'[id]) - 1) : files'[id][i] = OnDisk(id)[i]
         /\ \A i \in 1 .. Len(files'[id]) : Remains(OnDisk(id)[i], files'[id][i])
  <2> TAKE id \in kept
  <2>1. synced[id] \in Nat /\ synced[id] <= Len(files[id])
    BY <1>3
  <2>2. CASE id = lucky
    <3>1. files'[id] = image /\ synced'[id] = Len(image)
      BY <1>2, <2>2
    <3>2. Len(image) \in Nat
      BY <1>4
    <3> QED BY <1>3, <1>4, <2>2, <3>1, <3>2
  <2>3. CASE id # lucky
    <3>1. files'[id] = SubSeq(OnDisk(id), 1, synced[id]) /\ synced'[id] = synced[id]
      BY <1>2, <2>3
    <3>2. /\ files'[id] \in Seq(Chunk) /\ Laid(files'[id]) /\ Len(files'[id]) = synced[id]
          /\ \A i \in 1 .. synced[id] : files'[id][i] = OnDisk(id)[i]
      BY <1>5, <3>1
    <3>3. \A i \in 1 .. synced[id] : files'[id][i] \in Chunk
      BY <3>2
    <3>4. \A i \in 1 .. synced[id] : Remains(OnDisk(id)[i], files'[id][i])
      BY <3>2, <3>3, RemainsItself
    <3> QED BY <2>1, <3>1, <3>2, <3>4
  <2> QED BY <2>2, <2>3
<1>8. files' \in [kept -> Seq(Chunk)] /\ synced' \in [kept -> Nat]
  BY <1>2, <1>7
<1> QED BY <1>1, <1>6, <1>7, <1>8

\* Power loss keeps the shape.
LEMMA ShapePowerLoss ==
  ASSUME ShapeInv, PowerLoss
  PROVE  ShapeInv'
<1>1. 1 \in 1 .. MaxTxid
  BY WireAssumption
<1>2. NoReport \in Report
  BY DEF NoReport, Report
<1>3. faults' \in 0 .. MaxFaults
  BY FaultBound DEF ShapeInv, PowerLoss
<1>4. TypeOK'
  BY <1>1, <1>2, <1>3, PowerLossFacts DEF ShapeInv, TypeOK, PowerLoss, NoHandle, PC
<1>5. \A id \in DOMAIN files' : Laid(files'[id]) /\ synced'[id] <= Len(files'[id])
  <2> TAKE id \in DOMAIN files'
  <2>1. synced'[id] \in Nat
    BY PowerLossFacts
  <2> QED BY <2>1, PowerLossFacts
<1> QED BY <1>4, <1>5, PowerLossFacts DEF ShapeInv, PowerLoss, NoHandle, Opened

\* A new empty file, next to those that are there.
LEMMA ShapeNewFile ==
  ASSUME ShapeInv, NEW id \in Ids,
         files' = [i \in DOMAIN files \cup {id} |-> IF i = id THEN <<>> ELSE files[i]],
         synced' = [i \in DOMAIN files \cup {id} |-> IF i = id THEN 0 ELSE synced[i]]
  PROVE  /\ DOMAIN files' = DOMAIN files \cup {id}
         /\ DOMAIN files' \in SUBSET Ids
         /\ files' \in [DOMAIN files' -> Seq(Chunk)]
         /\ synced' \in [DOMAIN files' -> Nat]
         /\ \A i \in DOMAIN files' : Laid(files'[i]) /\ synced'[i] <= Len(files'[i])
<1>1. <<>> \in Seq(Chunk) /\ Len(<<>>) = 0
  OBVIOUS
<1>2. Laid(<<>>)
  BY <1>1 DEF Laid
<1> QED BY <1>1, <1>2 DEF ShapeInv, TypeOK

\* next_segment_id gives an id, and one that no listed segment has.
LEMMA NextSegmentIdFacts ==
  ASSUME ShapeInv
  PROVE  /\ NextSegmentId(ListSegmentIds(files)) \in Ids
         /\ \A id \in ListSegmentIds(files) : id < NextSegmentId(ListSegmentIds(files))
<1> DEFINE ids == ListSegmentIds(files)
<1>1. ids \in SUBSET Nat /\ MaxListedId \in Nat /\ \A id \in ids : id <= MaxListedId
  BY SegmentsAssumption DEF ListSegmentIds, Ids, ShapeInv, TypeOK
<1> HIDE DEF ids
<1>2. CASE ids = {}
  <2>1. NextSegmentId(ids) = 1
    BY <1>2 DEF NextSegmentId
  <2> QED BY <1>2, <2>1 DEF Ids, ids
<1>3. CASE ids # {}
  <2>1. Max(ids) \in ids /\ \A id \in ids : id <= Max(ids)
    BY <1>1, <1>3, NatMax
  <2>2. NextSegmentId(ids) = Max(ids) + 1
    BY <1>3 DEF NextSegmentId
  <2>3. Max(ids) \in Nat
    BY <1>1, <2>1
  <2>4. NextSegmentId(ids) \in Ids
    BY <2>2, <2>3 DEF Ids
  <2>5. \A id \in ids : id < NextSegmentId(ids)
    BY <1>1, <2>1, <2>2, <2>3
  <2> QED BY <2>4, <2>5 DEF ids
<1> QED BY <1>2, <1>3

\* Every step keeps the shape.
LEMMA ShapeStep == ShapeInv /\ [Next]_vars => ShapeInv'
<1> SUFFICES ASSUME ShapeInv, [Next]_vars PROVE ShapeInv'
  OBVIOUS
<1>0. TypeOK
  BY DEF ShapeInv
<1>1. CASE OpenCreate
  <2>1. 1 \in Ids
    BY DEF Ids
  <2>2. /\ DOMAIN files' = DOMAIN files \cup {1}
        /\ DOMAIN files' \in SUBSET Ids
        /\ files' \in [DOMAIN files' -> Seq(Chunk)]
        /\ synced' \in [DOMAIN files' -> Nat]
        /\ \A i \in DOMAIN files' : Laid(files'[i]) /\ synced'[i] <= Len(files'[i])
    BY <1>1, <2>1, ShapeNewFile DEF OpenCreate
  <2>3. TypeOK'
    BY <1>1, <2>2 DEF OpenCreate, ShapeInv, TypeOK, PC, handle, history
  <2> QED BY <1>1, <2>2, <2>3 DEF OpenCreate, ShapeInv, Opened, handle, history
<1>2. CASE OpenCreated
  <2>1. ListSegmentIds(files) # {}
    BY <1>2, SegmentsAssumption DEF OpenCreated, ShapeInv, ListSegmentIds
  <2> QED BY <1>2, <2>1, ShapeOpen DEF OpenCreated
<1>3. CASE OpenExisting
  BY <1>3, ShapeOpen DEF OpenExisting, disk
<1>4. CASE OpenRefused \/ UNCHANGED vars
  BY <1>4 DEF OpenRefused, vars, disk, handle, history, ShapeInv, TypeOK, Opened, ActiveFile
<1>5. CASE OpenFails
  BY <1>0, <1>5, FaultBound, ShapeNoHandle DEF OpenFails
<1>6. CASE \E d \in Data, cut \in Cuts : AppendBegin(d, cut)
  BY <1>6, ShapeAppendBegin
<1>7. CASE AppendFinish
  BY <1>7, ShapeAppendFinish
<1>8. CASE AppendError
  <2>1. Opened
    BY <1>8 DEF AppendError, MayWrite, Ready, Opened
  <2> QED
    BY <1>0, <1>8, <2>1, FaultBound, ShapePoison DEF AppendError, ShapeInv, TypeOK, disk
<1>9. ASSUME NEW next \in {"syncing", "rotating"}, Ready, SyncAll(next)
      PROVE  ShapeInv'
  <2>1. active \in DOMAIN files /\ Len(ActiveFile) \in Nat
    BY <1>9 DEF Ready, ShapeInv, TypeOK, Opened, ActiveFile
  <2>2. /\ synced' \in [DOMAIN files -> Nat]
        /\ \A id \in DOMAIN files : synced'[id] <= Len(files[id])
    BY <1>9, <2>1 DEF SyncAll, ShapeInv, TypeOK, ActiveFile
  <2>3. TypeOK'
    BY <1>9, <2>2 DEF SyncAll, ShapeInv, TypeOK, PC, handle, history
  <2> QED BY <1>9, <2>1, <2>2, <2>3 DEF SyncAll, ShapeInv, Opened, handle, ActiveFile
<1>10. CASE FsyncBegin
  BY <1>9, <1>10 DEF FsyncBegin
<1>11. CASE RotateBegin
  BY <1>9, <1>11 DEF RotateBegin, MayWrite
<1>12. CASE SyncAllError
  <2>1. /\ active \in DOMAIN files /\ Len(ActiveFile) \in Nat /\ Opened
        /\ active \in Ids
    BY <1>12 DEF SyncAllError, Ready, ShapeInv, TypeOK, Opened, ActiveFile
  <2>2. PICK n \in synced[active] .. Len(ActiveFile) :
          /\ synced' = [synced EXCEPT ![active] = n]
          /\ dropped' \in {dropped} \cup
                IF DropsDirtyPages
                THEN {dropped \cup ({active} \X ((n + 1) .. Len(ActiveFile)))}
                ELSE {}
    BY <1>12 DEF SyncAllError
  <2>3. n \in Nat /\ n <= Len(ActiveFile)
    BY <2>1 DEF ShapeInv, TypeOK
  <2>4. /\ synced' \in [DOMAIN files -> Nat]
        /\ \A id \in DOMAIN files : synced'[id] <= Len(files[id])
    BY <2>1, <2>2, <2>3 DEF ShapeInv, TypeOK, ActiveFile
  <2>5. dropped' \in SUBSET (Ids \X Nat)
    <3>1. {active} \X ((n + 1) .. Len(ActiveFile)) \in SUBSET (Ids \X Nat)
      BY <2>1, <2>3
    <3> QED BY <2>2, <3>1 DEF ShapeInv, TypeOK
  <2> QED
    BY <1>0, <1>12, <2>1, <2>4, <2>5, FaultBound, ShapePoison DEF SyncAllError
<1>13. CASE FsyncFinish
  <2>1. TypeOK'
    BY <1>13 DEF FsyncFinish, Acknowledge, ShapeInv, TypeOK, PC, handle
  <2> QED BY <1>13, <2>1 DEF FsyncFinish, ShapeInv, Opened, handle
<1>14. CASE DirectoryError
  <2>1. Opened
    BY <1>14 DEF DirectoryError, Opened
  <2> QED
    BY <1>0, <1>14, <2>1, FaultBound, ShapePoison DEF DirectoryError, ShapeInv, TypeOK, disk
<1>15. CASE RotateListError
  <2>1. faults' \in 0 .. MaxFaults
    BY <1>0, <1>15, FaultBound DEF RotateListError
  <2>2. TypeOK'
    BY <1>15, <2>1 DEF RotateListError, ShapeInv, TypeOK, PC, disk, handle, history
  <2> QED BY <1>15, <2>2 DEF RotateListError, ShapeInv, Opened, disk, handle
<1>16. CASE RotateCreate
  <2> DEFINE id == NextSegmentId(ListSegmentIds(files))
  <2>1. id \in Ids /\ active \in DOMAIN files /\ Opened
    BY <1>16, NextSegmentIdFacts DEF RotateCreate, ShapeInv, Opened
  <2> HIDE DEF id
  <2>2. CASE Poison /\ UNCHANGED <<files, synced, dropped>>
    BY <1>0, <1>16, <2>1, <2>2, ShapePoison DEF RotateCreate, ShapeInv, TypeOK
  <2>3. CASE /\ files' = [i \in DOMAIN files \cup {id} |->
                              IF i = id THEN <<>> ELSE files[i]]
             /\ synced' = [i \in DOMAIN files \cup {id} |->
                              IF i = id THEN 0 ELSE synced[i]]
             /\ newId' = id
             /\ dropped' = {p \in dropped : p[1] # id}
             /\ pc' = "created"
             /\ UNCHANGED poisoned
    <3>1. /\ DOMAIN files' = DOMAIN files \cup {id}
          /\ DOMAIN files' \in SUBSET Ids
          /\ files' \in [DOMAIN files' -> Seq(Chunk)]
          /\ synced' \in [DOMAIN files' -> Nat]
          /\ \A i \in DOMAIN files' : Laid(files'[i]) /\ synced'[i] <= Len(files'[i])
      BY <2>1, <2>3, ShapeNewFile
    <3>2. dropped' \in SUBSET (Ids \X Nat)
      BY <2>3 DEF ShapeInv, TypeOK
    <3>3. TypeOK'
      BY <1>16, <2>1, <2>3, <3>1, <3>2 DEF RotateCreate, ShapeInv, TypeOK, PC, history, Ids
    <3> QED BY <1>16, <2>1, <2>3, <3>1, <3>3 DEF RotateCreate, ShapeInv, Opened
  <2> QED BY <1>16, <2>2, <2>3 DEF RotateCreate, id
<1>17. CASE RotateSyncDir
  <2>1. TypeOK'
    BY <1>17 DEF RotateSyncDir, ShapeInv, TypeOK, PC, handle, history
  <2> QED BY <1>17, <2>1 DEF RotateSyncDir, ShapeInv, Opened, handle
<1>18. CASE RotateFinish
  <2>1. TypeOK'
    BY <1>18 DEF RotateFinish, Acknowledge, ShapeInv, TypeOK, PC, disk
  <2> QED BY <1>18, <2>1 DEF RotateFinish, ShapeInv, Opened, disk
<1>19. CASE Scan
  <2>1. /\ files \in [DOMAIN files -> Seq(Chunk)]
        /\ DOMAIN files \in SUBSET Ids
        /\ \A id \in DOMAIN files : Laid(files[id])
    BY DEF ShapeInv, TypeOK
  <2>2. TailReport(files) \in Report
    <3>1. CASE ListSegmentIds(files) = {}
      BY <3>1 DEF TailReport, NoReport, Report
    <3>2. CASE ListSegmentIds(files) # {}
      BY <2>1, <3>2, TailReportFacts
    <3> QED BY <3>1, <3>2
  <2>3. report' \in Report /\ nextTxid' \in 1 .. MaxTxid
    BY <1>19, <2>1, <2>2, LastTxidType DEF Scan
  <2>4. TypeOK'
    BY <1>19, <2>3 DEF Scan, ShapeInv, TypeOK, PC, disk, history
  <2> QED BY <1>19, <2>4 DEF Scan, ShapeInv, Opened, disk, ActiveFile
<1>20. CASE Close
  BY <1>0, <1>20, ShapeNoHandle DEF Close, TypeOK
<1>21. CASE Crash
  BY <1>0, <1>21, FaultBound, ShapeNoHandle DEF Crash
<1>22. CASE PowerLoss
  BY <1>22, ShapePowerLoss
<1> QED
  BY <1>1, <1>2, <1>3, <1>4, <1>5, <1>6, <1>7, <1>8, <1>10, <1>11, <1>12, <1>13,
     <1>14, <1>15, <1>16, <1>17, <1>18, <1>19, <1>20, <1>21, <1>22
  DEF Next, Running, Progress

\* The shape is an invariant of the log.
LEMMA ShapeCorrect == Spec => []ShapeInv
<1> QED BY ShapeInit, ShapeStep, PTL DEF Spec

(***************************************************************************)
(* The variables of the log always have their types: in particular the     *)
(* active segment's size and the discarded byte count of every report are  *)
(* naturals (the u64 subtraction file_len - offset of scan_segment never   *)
(* wraps), and every txid is in 1 .. u64::MAX.                             *)
(***************************************************************************)
THEOREM TypeCorrect == Spec => []TypeOK
<1>1. ShapeInv => TypeOK
  BY DEF ShapeInv
<1> QED BY <1>1, ShapeCorrect, PTL

------------------------------------------------------------------------------
(* Poisoning *)

\* Only a handle between two calls is poisoned: the error ended its call.
LEMMA PoisonedStep ==
  ASSUME poisoned => pc = "idle", [Next]_vars
  PROVE  poisoned' => pc' = "idle"
<1> SUFFICES ASSUME poisoned' PROVE pc' = "idle"
  OBVIOUS
<1>1. CASE OpenFails \/ Close \/ Crash \/ PowerLoss
  BY <1>1 DEF OpenFails, Close, Crash, PowerLoss, NoHandle
<1>2. CASE AppendFinish \/ AppendError \/ SyncAllError \/ DirectoryError \/ RotateCreate
  BY <1>2 DEF AppendFinish, AppendError, SyncAllError, DirectoryError, RotateCreate, Poison
<1>3. CASE OpenCreate \/ OpenCreated \/ OpenExisting \/ OpenRefused \/ RotateListError
           \/ FsyncFinish \/ RotateSyncDir \/ RotateFinish \/ Scan \/ UNCHANGED vars
  BY <1>3 DEF OpenCreate, OpenCreated, OpenExisting, OpenScanned, OpenRefused,
     RotateListError, FsyncFinish, RotateSyncDir, RotateFinish, Scan, vars, handle
<1>4. CASE FsyncBegin \/ RotateBegin \/ \E d \in Data, cut \in Cuts : AppendBegin(d, cut)
  BY <1>4 DEF FsyncBegin, RotateBegin, SyncAll, AppendBegin, MayWrite, Ready, handle
<1> QED BY <1>1, <1>2, <1>3, <1>4 DEF Next, Running, Progress

LEMMA PoisonedIsIdle == Spec => [](poisoned => pc = "idle")
<1>1. Init => (poisoned => pc = "idle")
  BY DEF Init
<1>2. (poisoned => pc = "idle") /\ [Next]_vars => (poisoned => pc = "idle")'
  BY PoisonedStep
<1> QED BY <1>1, <1>2, PTL DEF Spec

(***************************************************************************)
(* Whatever the caller goes on to do with a poisoned handle, no step that  *)
(* leaves it poisoned touches a file, what is on disk of it, or a          *)
(* directory entry: check_poisoned stops every call that would.  No        *)
(* assumption is made about callers, the platform or the number of ids.    *)
(***************************************************************************)
THEOREM PoisonedStops == Spec => PoisonedWritesNothing
<1>1. (poisoned => pc = "idle") /\ [Next]_vars
        => [poisoned /\ poisoned' => UNCHANGED disk]_vars
  <2> SUFFICES ASSUME pc = "idle", poisoned, Next, poisoned'
               PROVE  UNCHANGED disk
    OBVIOUS
  <2>1. ~Ready /\ ~MayWrite
    BY DEF Ready, MayWrite
  <2>2. Scan \/ Close \/ Crash \/ PowerLoss
    BY <2>1 DEF Next, Running, Progress, OpenCreate, OpenCreated, OpenExisting, OpenRefused,
       OpenFails, AppendBegin, AppendFinish, AppendError, FsyncBegin, FsyncFinish,
       SyncAllError, RotateBegin, RotateCreate, RotateSyncDir, RotateFinish,
       RotateListError, DirectoryError
  <2> QED BY <2>2 DEF Scan, Close, Crash, PowerLoss, NoHandle
<1> QED BY <1>1, PoisonedIsIdle, PTL DEF Spec, PoisonedWritesNothing

------------------------------------------------------------------------------
(***************************************************************************)
(* What fsync promises, and a reopen, on a platform that keeps its side:   *)
(*   - a failed fsync leaves the dirty pages dirty, and                    *)
(*   - the log never rotates past the ids that list_segment_ids lists.     *)
(***************************************************************************)
Platform == ~DropsDirtyPages /\ MaxSegs <= MaxListedId

------------------------------------------------------------------------------
(* The directory *)

\* Max of a set, recognised by its two properties.
LEMMA MaxIs ==
  ASSUME NEW S \in SUBSET Nat, NEW m \in S, \A y \in S : y <= m
  PROVE  Max(S) = m
<1>1. Max(S) \in S /\ \A y \in S : y <= Max(S)
  BY NatMax
<1>2. Max(S) \in Nat /\ m \in Nat /\ m <= Max(S) /\ Max(S) <= m
  BY <1>1
<1> QED BY <1>2

\* On this platform every segment is listed.
LEMMA AllListed ==
  ASSUME ShapeInv, RotationInv, Platform
  PROVE  /\ ListSegmentIds(files) = DOMAIN files
         /\ DOMAIN files # {} => /\ Max(DOMAIN files) \in DOMAIN files
                                 /\ \A id \in DOMAIN files : id <= Max(DOMAIN files)
         /\ ActiveSegmentId(files) = Max(DOMAIN files)
<1>1. DOMAIN files \in SUBSET Nat /\ MaxSegs \in Nat /\ MaxListedId \in Nat
  BY RecordLogAssumption, SegmentsAssumption DEF ShapeInv, TypeOK, Ids
<1>2. \A id \in DOMAIN files : id <= MaxSegs
  BY DEF RotationInv
<1>3. ListSegmentIds(files) = DOMAIN files
  BY <1>1, <1>2 DEF Platform, ListSegmentIds
<1>4. DOMAIN files # {} => /\ Max(DOMAIN files) \in DOMAIN files
                           /\ \A id \in DOMAIN files : id <= Max(DOMAIN files)
  BY <1>1, <1>2, NatMax
<1> QED BY <1>3, <1>4 DEF ActiveSegmentId

\* The id of the segment that rotate creates.
LEMMA NewSegment ==
  ASSUME ShapeInv, RotationInv, Platform, pc = "rotating"
  PROVE  /\ NextSegmentId(ListSegmentIds(files)) = active + 1
         /\ active + 1 \notin DOMAIN files
         /\ active + 1 <= MaxSegs
         /\ active \in Nat
<1>1. active \in DOMAIN files /\ active = Max(DOMAIN files) /\ active < MaxSegs
  BY DEF ShapeInv, RotationInv, Opened
<1>2. active \in Nat /\ MaxSegs \in Nat /\ DOMAIN files \in SUBSET Nat
  BY <1>1, RecordLogAssumption DEF ShapeInv, TypeOK, Ids
<1>3. NextSegmentId(ListSegmentIds(files)) = active + 1
  BY <1>1, AllListed DEF NextSegmentId
<1>4. active + 1 \notin DOMAIN files
  <2>1. \A id \in DOMAIN files : id <= active
    BY <1>1, AllListed
  <2> QED BY <1>2, <2>1
<1> QED BY <1>1, <1>2, <1>3, <1>4

------------------------------------------------------------------------------
(* What every step keeps *)

\* A step that leaves the files alone keeps all of them.
LEMMA KeepsSame ==
  ASSUME ShapeInv, files' = files, NEW id \in DOMAIN files,
         NEW n \in Nat, n <= Len(files[id])
  PROVE  Keeps(id, n)
BY DEF Keeps

\* Creating a segment whose id is new keeps the others.
LEMMA KeepsNew ==
  ASSUME ShapeInv, NEW new, new \notin DOMAIN files,
         files' = [i \in DOMAIN files \cup {new} |-> IF i = new THEN <<>> ELSE files[i]],
         NEW id \in DOMAIN files, NEW n \in Nat, n <= Len(files[id])
  PROVE  Keeps(id, n)
BY DEF Keeps

\* Writing the first bytes of a frame keeps every frame before it.
LEMMA KeepsAppendBegin ==
  ASSUME ShapeInv, NEW d \in Data, NEW cut \in Cuts, AppendBegin(d, cut),
         NEW id \in DOMAIN files, NEW n \in Nat, n <= Len(files[id])
  PROVE  Keeps(id, n)
<1> DEFINE s == files[active]
           c == CutTo(EncodeRecord(nextTxid, d, FileSize(s)), cut)
<1>1. active \in DOMAIN files /\ s \in Seq(Chunk) /\ nextTxid \in 1 .. MaxTxid
  BY DEF AppendBegin, MayWrite, Ready, ShapeInv, TypeOK, Opened
<1>2. FileSize(s) \in Nat
  BY <1>1, FileSizeType
<1>3. c \in Chunk
  <2> HIDE DEF s
  <2> QED BY <1>1, <1>2, CutFrame
<1>4. files' = [files EXCEPT ![active] = Append(s, c)]
  BY DEF AppendBegin
<1> HIDE DEF c
<1>5. CASE id = active
  <2>1. files'[id] = Append(s, c) /\ id \in DOMAIN files' /\ n <= Len(s)
    BY <1>1, <1>4, <1>5
  <2> HIDE DEF s
  <2>2. Len(Append(s, c)) = Len(s) + 1 /\ \A i \in 1 .. Len(s) : Append(s, c)[i] = s[i]
    BY <1>1, <1>3
  <2>3. n <= Len(files'[id]) /\ \A i \in 1 .. n : files'[id][i] = s[i]
    BY <1>1, <2>1, <2>2
  <2> QED BY <1>5, <2>1, <2>3 DEF Keeps, s
<1>6. CASE id # active
  BY <1>1, <1>4, <1>6 DEF Keeps
<1> QED BY <1>5, <1>6

\* Completing a frame keeps all the others.
LEMMA KeepsAppendFinish ==
  ASSUME ShapeInv, AppendFinish,
         NEW id \in DOMAIN files, NEW n \in Nat, n <= Len(files[id]),
         id = active => n < Len(files[id])
  PROVE  Keeps(id, n)
<1>1. active \in DOMAIN files /\ ActiveFile \in Seq(Chunk) /\ Laid(ActiveFile)
      /\ Len(ActiveFile) > 0 /\ ActiveFile = files[active]
  BY DEF AppendFinish, ShapeInv, TypeOK, Opened, ActiveFile
<1>2. files' = [files EXCEPT ![active] = Completed(ActiveFile)]
  BY DEF AppendFinish, ActiveFile
<1>3. /\ Len(Completed(ActiveFile)) = Len(ActiveFile)
      /\ \A i \in 1 .. (Len(ActiveFile) - 1) : Completed(ActiveFile)[i] = ActiveFile[i]
  BY <1>1, CompletedFacts
<1>4. CASE id = active
  <2>1. n < Len(ActiveFile) /\ Len(ActiveFile) \in Nat
    BY <1>1, <1>4
  <2>2. files'[id] = Completed(ActiveFile) /\ id \in DOMAIN files'
    BY <1>1, <1>2, <1>4
  <2> QED BY <1>1, <1>3, <1>4, <2>1, <2>2 DEF Keeps
<1>5. CASE id # active
  BY <1>1, <1>2, <1>5 DEF Keeps
<1> QED BY <1>4, <1>5

(***************************************************************************)
(* No step, power loss included, takes back what is on disk.               *)
(***************************************************************************)
LEMMA SyncedKept ==
  ASSUME LogInv, Platform, [Next]_vars
  PROVE  \A id \in entries : /\ id \in entries'
                             /\ Keeps(id, synced[id])
                             /\ synced[id] <= synced'[id]
<1> SUFFICES ASSUME NEW id \in entries
             PROVE  /\ id \in entries'
                    /\ Keeps(id, synced[id])
                    /\ synced[id] <= synced'[id]
  OBVIOUS
<1>0. /\ ShapeInv /\ RotationInv /\ WritingInv /\ dropped = {}
      /\ id \in DOMAIN files /\ synced[id] \in Nat /\ synced[id] <= Len(files[id])
      /\ entries \subseteq DOMAIN files
      /\ files[id] \in Seq(Chunk) /\ Laid(files[id])
  BY DEF LogInv, ShapeInv, TypeOK
<1>1. CASE UNCHANGED <<files, synced>> /\ entries' \in {entries, DOMAIN files}
  BY <1>0, <1>1, KeepsSame
<1>2. ASSUME NEW new, new \notin DOMAIN files, entries' = entries,
             files' = [i \in DOMAIN files \cup {new} |-> IF i = new THEN <<>> ELSE files[i]],
             synced' = [i \in DOMAIN files \cup {new} |-> IF i = new THEN 0 ELSE synced[i]]
      PROVE  id \in entries' /\ Keeps(id, synced[id]) /\ synced[id] <= synced'[id]
  <2>1. synced'[id] = synced[id]
    BY <1>0, <1>2
  <2> QED BY <1>0, <1>2, <2>1, KeepsNew
<1>3. CASE OpenCreate
  <2>1. 1 \notin DOMAIN files
    BY <1>0, <1>3, AllListed DEF OpenCreate
  <2> QED BY <1>2, <1>3, <2>1 DEF OpenCreate
<1>4. CASE \E d \in Data, cut \in Cuts : AppendBegin(d, cut)
  <2>1. entries' = entries /\ synced' = synced
    BY <1>4 DEF AppendBegin
  <2> QED BY <1>0, <1>4, <2>1, KeepsAppendBegin
<1>5. CASE AppendFinish
  <2>1. id = active => synced[id] < Len(files[id])
    BY <1>0, <1>5 DEF AppendFinish, WritingInv, ActiveFile
  <2>2. entries' = entries /\ synced' = synced
    BY <1>5 DEF AppendFinish
  <2> QED BY <1>0, <1>5, <2>1, <2>2, KeepsAppendFinish
<1>6. CASE files' = files /\ entries' = entries
           /\ \E n \in synced[active] .. Len(ActiveFile) :
                 synced' = [synced EXCEPT ![active] = n]
  <2>1. synced[id] <= synced'[id]
    BY <1>0, <1>6 DEF ShapeInv, TypeOK
  <2> QED BY <1>0, <1>6, <2>1, KeepsSame
<1>7. CASE Ready /\ (SyncAll("syncing") \/ SyncAll("rotating"))
  <2>1. active \in DOMAIN files /\ synced[active] \in Nat /\ Len(ActiveFile) \in Nat
        /\ synced[active] <= Len(ActiveFile)
    BY <1>0, <1>7 DEF Ready, ShapeInv, TypeOK, Opened, ActiveFile
  <2>2. Len(ActiveFile) \in synced[active] .. Len(ActiveFile)
    BY <2>1
  <2>3. files' = files /\ entries' = entries
        /\ synced' = [synced EXCEPT ![active] = Len(ActiveFile)]
    BY <1>7 DEF SyncAll
  <2> QED BY <1>6, <2>2, <2>3
<1>8. CASE SyncAllError
  BY <1>6, <1>8 DEF SyncAllError
<1>9. CASE RotateCreate
  <2>1. NextSegmentId(ListSegmentIds(files)) = active + 1 /\ active + 1 \notin DOMAIN files
    BY <1>0, <1>9, NewSegment DEF RotateCreate
  <2> QED BY <1>1, <1>2, <1>9, <2>1 DEF RotateCreate
<1>10. CASE PowerLoss
  <2>1. id \in DOMAIN files' /\ id \in entries'
    BY <1>0, <1>10, PowerLossFacts
  <2>2. /\ synced[id] <= synced'[id]
        /\ synced'[id] = Len(files'[id])
        /\ \A i \in 1 .. synced[id] : files'[id][i] = OnDisk(id)[i]
    BY <1>0, <1>10, <2>1, PowerLossFacts
  <2>3. OnDisk(id) = files[id]
    BY <1>0, OnDiskFacts
  <2> QED BY <2>1, <2>2, <2>3 DEF Keeps
<1>11. CASE UNCHANGED vars \/ OpenCreated \/ OpenExisting \/ OpenRefused \/ OpenFails
            \/ AppendError \/ FsyncFinish \/ DirectoryError \/ RotateListError
            \/ RotateSyncDir \/ RotateFinish \/ Scan \/ Close \/ Crash
  BY <1>1, <1>11
  DEF vars, disk, OpenCreated, OpenExisting, OpenRefused, OpenFails, AppendError,
      FsyncFinish, DirectoryError, RotateListError, RotateSyncDir, RotateFinish,
      Scan, Close, Crash
<1> QED
  BY <1>3, <1>4, <1>5, <1>7, <1>8, <1>9, <1>10, <1>11
  DEF Next, Running, Progress, FsyncBegin, RotateBegin, MayWrite

\* What a reference stands for stays intact as long as its file keeps it.
LEMMA IntactKept ==
  ASSUME NEW r \in Ref, Intact(r), Keeps(r.segment, r.idx), ShapeInv, ShapeInv'
  PROVE  /\ Intact(r)'
         /\ RefersToItsFrame(r) => RefersToItsFrame(r)'
<1>1. /\ r.segment \in DOMAIN files'
      /\ r.idx <= Len(files'[r.segment])
      /\ \A i \in 1 .. r.idx : files'[r.segment][i] = files[r.segment][i]
  BY DEF Keeps
<1>2. r.idx \in Nat /\ r.idx >= 1 /\ r.idx \in 1 .. r.idx
  <2>1. r.idx \in 1 .. Len(files[r.segment]) /\ Len(files[r.segment]) \in Nat
    BY DEF Intact, ShapeInv, TypeOK
  <2> QED BY <2>1
<1>3. Len(files'[r.segment]) \in Nat
  BY <1>1 DEF ShapeInv, TypeOK
<1>4. files'[r.segment][r.idx] = files[r.segment][r.idx]
  BY <1>1, <1>2
<1>5. AllWhole(files'[r.segment], r.idx)
  BY <1>1 DEF Intact, AllWhole
<1> QED BY <1>1, <1>2, <1>3, <1>4, <1>5 DEF Intact, RefersToItsFrame

\* A step that keeps what is synced keeps the durable records intact.
LEMMA DurableKept ==
  ASSUME LogInv, Platform, [Next]_vars, ShapeInv', NEW r \in durable, r.clean
  PROVE  /\ Intact(r)'
         /\ r.segment \in entries'
         /\ r.idx <= synced'[r.segment]
<1>1. /\ r \in Ref /\ Intact(r) /\ r.segment \in entries /\ r.idx <= synced[r.segment]
      /\ ShapeInv
  BY DEF LogInv, DurableInv, ShapeInv, TypeOK
<1>2. /\ r.segment \in entries'
      /\ Keeps(r.segment, synced[r.segment])
      /\ synced[r.segment] <= synced'[r.segment]
  BY <1>1, SyncedKept
<1>3. r.idx \in Nat /\ synced[r.segment] \in Nat /\ synced'[r.segment] \in Nat
  BY <1>1, <1>2 DEF Ref, ShapeInv, TypeOK
<1>4. Len(files'[r.segment]) \in Nat
  BY <1>2 DEF Keeps, ShapeInv, TypeOK
<1>5. Keeps(r.segment, r.idx)
  BY <1>1, <1>2, <1>3, <1>4 DEF Keeps
<1> QED BY <1>1, <1>2, <1>3, <1>5, IntactKept

------------------------------------------------------------------------------
(* The inductive step, one conjunct at a time *)

\* Steps after which there is no handle.
Ends == OpenFails \/ Close \/ Crash \/ PowerLoss

\* Steps after which the handle is poisoned, over the files as they were.
Fails == AppendError \/ SyncAllError \/ DirectoryError

\* The steps that end a handle leave none.
LEMMA EndsFacts ==
  ASSUME ShapeInv, Ends
  PROVE  pc' = "closed" /\ pending' = {} /\ durable' = durable
         /\ DOMAIN files' \subseteq DOMAIN files
<1>1. CASE PowerLoss
  BY <1>1, PowerLossFacts DEF PowerLoss, NoHandle
<1>2. CASE OpenFails \/ Close \/ Crash
  BY <1>2 DEF OpenFails, Close, Crash, NoHandle, disk
<1> QED BY <1>1, <1>2 DEF Ends

\* The steps that poison a handle change nothing else of it.
LEMMA FailsFacts ==
  ASSUME Fails
  PROVE  /\ pc' = "idle" /\ poisoned'
         /\ UNCHANGED <<files, entries, active, activeSize, nextTxid, report, history>>
         /\ Opened
BY DEF Fails, AppendError, SyncAllError, DirectoryError, Poison, MayWrite, Ready,
       Opened, disk, history

\* Every step keeps RotationInv: the handle writes to the last segment.
LEMMA RotationStep ==
  ASSUME LogInv, Platform, [Next]_vars, ShapeInv'
  PROVE  RotationInv'
<1>0. ShapeInv /\ RotationInv
  BY DEF LogInv
<1>1. CASE Ends
  BY <1>0, <1>1, EndsFacts DEF RotationInv, Opened
<1>2. CASE Fails
  BY <1>0, <1>2, FailsFacts DEF RotationInv, Opened
<1>3. CASE OpenCreate
  <2>1. \A id \in DOMAIN files' : id = 1
    BY <1>0, <1>3, AllListed DEF OpenCreate
  <2>2. 1 <= MaxSegs
    BY RecordLogAssumption
  <2> QED BY <1>3, <2>1, <2>2 DEF OpenCreate, RotationInv, Opened
<1>4. CASE OpenCreated \/ OpenExisting
  <2>1. active' = ActiveSegmentId(files) /\ files' = files /\ pc' = "idle"
    BY <1>4 DEF OpenCreated, OpenExisting, OpenScanned, disk
  <2> QED BY <1>0, <2>1, AllListed DEF RotationInv
<1>5. CASE \E d \in Data, cut \in Cuts : AppendBegin(d, cut)
  <2>1. DOMAIN files' = DOMAIN files /\ pc = "idle" /\ ~poisoned
    BY <1>5 DEF AppendBegin, MayWrite, Ready
  <2> QED BY <1>0, <1>5, <2>1 DEF AppendBegin, RotationInv, Opened, handle
<1>6. CASE AppendFinish
  <2>1. DOMAIN files' = DOMAIN files /\ pc' = "idle" /\ pc = "writing" /\ active' = active
    BY <1>6 DEF AppendFinish, Poison
  <2> QED BY <1>0, <2>1 DEF RotationInv, Opened
<1>7. CASE FsyncBegin \/ RotateBegin
  BY <1>0, <1>7 DEF FsyncBegin, RotateBegin, SyncAll, MayWrite, Ready, RotationInv, Opened, handle
<1>8. CASE FsyncFinish
  BY <1>0, <1>8 DEF FsyncFinish, RotationInv, Opened, handle
<1>9. CASE RotateListError
  BY <1>0, <1>9 DEF RotateListError, RotationInv, Opened, handle, disk
<1>10. CASE RotateCreate
  <2>1. /\ NextSegmentId(ListSegmentIds(files)) = active + 1
        /\ active + 1 \notin DOMAIN files /\ active + 1 <= MaxSegs /\ active \in Nat
    BY <1>0, <1>10, NewSegment DEF RotateCreate
  <2>2. /\ files' = [i \in DOMAIN files \cup {active + 1} |->
                        IF i = active + 1 THEN <<>> ELSE files[i]]
        /\ newId' = active + 1 /\ pc' = "created" /\ UNCHANGED <<active, poisoned>>
        /\ pc = "rotating"
    BY <1>10, <2>1 DEF RotateCreate
  <2>3. /\ DOMAIN files' = DOMAIN files \cup {active + 1}
        /\ files'[active + 1] = <<>>
    BY <2>2
  <2>4. Max(DOMAIN files') = active + 1
    <3>1. DOMAIN files' \in SUBSET Nat
      BY DEF ShapeInv, TypeOK, Ids
    <3>2. active = Max(DOMAIN files) /\ active \in DOMAIN files
      BY <1>0, <2>2 DEF RotationInv, Opened, ShapeInv
    <3>3. \A id \in DOMAIN files : id <= active /\ id \in Nat
      BY <1>0, <2>3, <3>1, <3>2, AllListed
    <3>4. \A id \in DOMAIN files' : id <= active + 1
      BY <2>1, <2>3, <3>3
    <3> QED BY <2>3, <3>1, <3>4, MaxIs
  <2> QED BY <1>0, <2>1, <2>2, <2>3, <2>4 DEF RotationInv, Opened
<1>11. CASE RotateSyncDir
  BY <1>0, <1>11 DEF RotateSyncDir, RotationInv, Opened, handle
<1>12. CASE RotateFinish
  BY <1>0, <1>12 DEF RotateFinish, RotationInv, Opened, disk
<1>13. CASE Scan
  BY <1>0, <1>13 DEF Scan, RotationInv, Opened, disk
<1>14. CASE UNCHANGED vars \/ OpenRefused
  BY <1>0, <1>14 DEF OpenRefused, vars, handle, disk, RotationInv, Opened
<1> QED
  BY <1>1, <1>2, <1>3, <1>4, <1>5, <1>6, <1>7, <1>8, <1>9, <1>10, <1>11, <1>12, <1>13, <1>14
  DEF Next, Running, Progress, Ends, Fails

\* Every step keeps SyncedInv: what fsync and rotate build on stays synced.
LEMMA SyncedStep ==
  ASSUME LogInv, Platform, [Next]_vars, ShapeInv'
  PROVE  SyncedInv'
<1>0. ShapeInv /\ RotationInv /\ SyncedInv
  BY DEF LogInv
<1>1. CASE Ends
  BY <1>0, <1>1, EndsFacts DEF SyncedInv
<1>2. CASE Fails
  BY <1>2, FailsFacts DEF SyncedInv
<1>3. CASE OpenCreate \/ OpenCreated \/ OpenExisting \/ AppendFinish \/ FsyncFinish
           \/ RotateListError \/ RotateFinish \/ Scan
           \/ \E d \in Data, cut \in Cuts : AppendBegin(d, cut)
  <2>1. pc' \in {"creating", "idle", "writing"}
    BY <1>3 DEF OpenCreate, OpenCreated, OpenExisting, OpenScanned, AppendFinish, Poison,
       FsyncFinish, RotateListError, RotateFinish, Scan, AppendBegin
  <2> QED BY <2>1 DEF SyncedInv
<1>4. CASE FsyncBegin \/ RotateBegin
  <2>1. active \in DOMAIN files /\ active \in DOMAIN synced
    BY <1>0, <1>4 DEF FsyncBegin, RotateBegin, MayWrite, Ready, ShapeInv, TypeOK, Opened
  <2> QED BY <1>4, <2>1 DEF FsyncBegin, RotateBegin, SyncAll, SyncedInv, handle, ActiveFile
<1>5. CASE RotateCreate
  <2>1. active \in DOMAIN files /\ active + 1 \notin DOMAIN files /\ active \in Nat
        /\ NextSegmentId(ListSegmentIds(files)) = active + 1
    BY <1>0, <1>5, NewSegment DEF RotateCreate, ShapeInv, Opened
  <2>2. /\ files'[active] = files[active] /\ synced'[active] = synced[active]
        /\ active' = active /\ pc' = "created" /\ pc = "rotating"
    BY <1>5, <2>1 DEF RotateCreate
  <2> QED BY <1>0, <2>2 DEF SyncedInv, ActiveFile
<1>6. CASE RotateSyncDir
  BY <1>0, <1>6 DEF RotateSyncDir, SyncedInv, ActiveFile, handle
<1>7. CASE UNCHANGED vars \/ OpenRefused
  BY <1>0, <1>7 DEF OpenRefused, vars, handle, disk, SyncedInv, ActiveFile
<1> QED
  BY <1>1, <1>2, <1>3, <1>4, <1>5, <1>6, <1>7
  DEF Next, Running, Progress, Ends, Fails

\* A report of damage is true: some frame of the last segment is not whole.
LEMMA DamageSeen ==
  ASSUME NEW F, F \in [DOMAIN F -> Seq(Chunk)], DOMAIN F \in SUBSET Ids,
         TailReport(F).tail_truncated = 1
  PROVE  \E id \in DOMAIN F : \E i \in 1 .. Len(F[id]) : F[id][i].state # "whole"
<1> DEFINE s == F[ActiveSegmentId(F)]
<1>1. ListSegmentIds(F) # {} /\ LogicalEnd(s) # FileSize(s)
  BY DEF TailReport, NoReport
<1>2. ActiveSegmentId(F) \in DOMAIN F /\ s \in Seq(Chunk)
  BY <1>1, ActiveSegmentFacts DEF ListSegmentIds
<1>3. \E i \in 1 .. Len(s) : DecodeNext(s, i) # "Ok"
  BY <1>1 DEF LogicalEnd
<1>4. \E i \in 1 .. Len(s) : s[i].state # "whole"
  <2> HIDE DEF s
  <2> QED BY <1>2, <1>3, DecodeOk
<1> QED BY <1>2, <1>4

\* In a segment other than the last, a scan tolerates nothing.
LEMMA StrictScan ==
  ASSUME NEW s \in Seq(Chunk), ScanSegmentOk(s, FALSE)
  PROVE  AllWhole(s, Len(s))
<1>1. \A i \in 1 .. Len(s) : (\A j \in 1 .. (i - 1) : DecodeNext(s, j) = "Ok")
                                => DecodeNext(s, i) = "Ok"
  BY DEF ScanSegmentOk
<1>2. \A i \in 1 .. Len(s) : DecodeNext(s, i) = "Ok"
  <2> SUFFICES ASSUME NEW k \in 1 .. Len(s), DecodeNext(s, k) # "Ok" PROVE FALSE
    OBVIOUS
  <2> DEFINE Bad == {i \in 1 .. Len(s) : DecodeNext(s, i) # "Ok"}
  <2>1. Bad \in SUBSET Nat /\ Bad # {}
    OBVIOUS
  <2>2. PICK m \in Bad : \A j \in Bad : m <= j
    <3> HIDE DEF Bad
    <3> QED BY <2>1, NatMin
  <2>3. \A j \in 1 .. (m - 1) : j \in 1 .. Len(s) /\ ~(m <= j)
    OBVIOUS
  <2> QED BY <1>1, <2>2, <2>3
<1> QED BY <1>2, DecodeOk DEF AllWhole

\* A scan that succeeds and reports no damage has seen every frame whole.
LEMMA NoDamageSeen ==
  ASSUME ShapeInv, RotationInv, Platform, DOMAIN files # {}, ScanOk(files),
         TailReport(files).tail_truncated = 0
  PROVE  /\ \A id \in DOMAIN files : AllWhole(files[id], Len(files[id]))
         /\ LogicalEnd(files[Max(DOMAIN files)]) = FileSize(files[Max(DOMAIN files)])
<1> DEFINE last == Max(DOMAIN files)
<1>1. /\ ListSegmentIds(files) = DOMAIN files /\ ActiveSegmentId(files) = last
      /\ last \in DOMAIN files
  BY AllListed
<1>2. /\ files \in [DOMAIN files -> Seq(Chunk)] /\ DOMAIN files \in SUBSET Ids
      /\ \A id \in DOMAIN files : Laid(files[id])
  BY DEF ShapeInv, TypeOK
<1>3. AllWhole(files[last], Len(files[last])) /\ LogicalEnd(files[last]) = FileSize(files[last])
  BY <1>1, <1>2, TailReportFacts
<1>4. ASSUME NEW id \in DOMAIN files, id # last PROVE AllWhole(files[id], Len(files[id]))
  <2> DEFINE s == files[id]
  <2>1. ScanSegmentOk(s, FALSE) /\ s \in Seq(Chunk)
    BY <1>1, <1>2, <1>4 DEF ScanOk
  <2> HIDE DEF s
  <2>2. AllWhole(s, Len(s))
    BY <2>1, StrictScan
  <2> QED BY <2>2 DEF s
<1> QED BY <1>3, <1>4

\* Every step keeps WritingInv: an unfinished frame is torn and not synced.
LEMMA WritingStep ==
  ASSUME LogInv, Platform, [Next]_vars, ShapeInv'
  PROVE  WritingInv'
<1>0. ShapeInv /\ WritingInv
  BY DEF LogInv
<1>1. CASE \E d \in Data, cut \in Cuts : AppendBegin(d, cut)
  <2>1. PICK d \in Data, cut \in Cuts : AppendBegin(d, cut)
    BY <1>1
  <2> DEFINE s == files[active]
             c == CutTo(EncodeRecord(nextTxid, d, FileSize(s)), cut)
  <2>2. /\ active \in DOMAIN files /\ s \in Seq(Chunk) /\ nextTxid \in 1 .. MaxTxid
        /\ synced[active] \in Nat /\ synced[active] <= Len(s)
    BY <1>0, <2>1 DEF AppendBegin, MayWrite, Ready, ShapeInv, TypeOK, Opened
  <2>3. FileSize(s) \in Nat
    BY <2>2, FileSizeType
  <2>4. c \in Chunk
    <3> HIDE DEF s
    <3> QED BY <2>2, <2>3, CutFrame
  <2>5. c.state = "torn" /\ c.txid = nextTxid
    BY DEF CutTo, EncodeRecord
  <2>6. files'[active] = Append(s, c) /\ UNCHANGED <<active, nextTxid, synced>>
    BY <2>1, <2>2 DEF AppendBegin, handle
  <2> HIDE DEF s, c
  <2>7. Len(Append(s, c)) = Len(s) + 1 /\ Append(s, c)[Len(s) + 1] = c /\ Len(s) \in Nat
    BY <2>2, <2>4
  <2> QED BY <2>2, <2>5, <2>6, <2>7 DEF WritingInv, ActiveFile
<1>2. CASE UNCHANGED vars \/ OpenRefused
  BY <1>0, <1>2 DEF OpenRefused, vars, handle, disk, WritingInv, ActiveFile
<1>3. CASE pc' # "writing"
  BY <1>3 DEF WritingInv
<1>4. CASE Ends \/ Fails
  BY <1>0, <1>3, <1>4, EndsFacts, FailsFacts
<1> QED
  BY <1>1, <1>2, <1>3, <1>4
  DEF Next, Running, Progress, Ends, Fails, OpenCreate, OpenCreated, OpenExisting, OpenScanned,
      AppendFinish, Poison, FsyncBegin, RotateBegin, SyncAll, FsyncFinish, RotateListError,
      RotateCreate, RotateSyncDir, RotateFinish, Scan

\* Every step keeps DamageInv: reported damage does not go away.
LEMMA DamageStep ==
  ASSUME LogInv, Platform, [Next]_vars, ShapeInv'
  PROVE  DamageInv'
<1>0. ShapeInv /\ DamageInv /\ WritingInv /\ RotationInv
  BY DEF LogInv
<1>a. /\ files \in [DOMAIN files -> Seq(Chunk)] /\ DOMAIN files \in SUBSET Ids
  BY <1>0 DEF ShapeInv, TypeOK
<1>1. CASE Ends \/ OpenCreate
  BY <1>0, <1>1, EndsFacts DEF OpenCreate, DamageInv, Opened
<1>2. CASE OpenCreated \/ OpenExisting \/ Scan
  <2>1. report' = TailReport(files) /\ files' = files /\ pc' = "idle"
    BY <1>2 DEF OpenCreated, OpenExisting, Scan, OpenScanned, disk
  <2> QED BY <1>a, <2>1, DamageSeen DEF DamageInv
<1>3. CASE Fails \/ FsyncBegin \/ RotateBegin \/ FsyncFinish \/ RotateListError
           \/ RotateSyncDir \/ RotateFinish
  <2>1. files' = files /\ report' = report /\ Opened /\ pc' # "writing"
    BY <1>3, FailsFacts
    DEF FsyncBegin, RotateBegin, SyncAll, MayWrite, Ready, FsyncFinish, RotateListError,
        RotateSyncDir, RotateFinish, Opened, handle, disk
  <2> QED BY <1>0, <2>1 DEF DamageInv
<1>4. CASE UNCHANGED vars \/ OpenRefused
  BY <1>0, <1>4 DEF OpenRefused, vars, handle, disk, DamageInv, Opened, ActiveFile
<1>5. ASSUME Opened, report.tail_truncated = 1, report' = report,
             \A id \in DOMAIN files : \A i \in 1 .. Len(files[id]) :
                ~(pc = "writing" /\ id = active /\ i = Len(ActiveFile))
                  => /\ id \in DOMAIN files'
                     /\ i \in 1 .. Len(files'[id])
                     /\ files'[id][i] = files[id][i]
                     /\ ~(pc' = "writing" /\ id = active' /\ i = Len(ActiveFile'))
      PROVE  DamageInv'
  <2>0. PICK id \in DOMAIN files : \E i \in 1 .. Len(files[id]) :
            /\ files[id][i].state # "whole"
            /\ ~(pc = "writing" /\ id = active /\ i = Len(ActiveFile))
    BY <1>0, <1>5 DEF DamageInv
  <2>1. PICK i \in 1 .. Len(files[id]) :
            /\ files[id][i].state # "whole"
            /\ ~(pc = "writing" /\ id = active /\ i = Len(ActiveFile))
    BY <2>0
  <2> QED BY <1>5, <2>1 DEF DamageInv
<1>6. CASE \E d \in Data, cut \in Cuts : AppendBegin(d, cut)
  <2>1. PICK d \in Data, cut \in Cuts : AppendBegin(d, cut)
    BY <1>6
  <2>2. Opened /\ report' = report /\ active' = active /\ pc' = "writing" /\ active \in DOMAIN files
    BY <1>0, <2>1 DEF AppendBegin, MayWrite, Ready, Opened, handle, ShapeInv
  <2>3. Len(files'[active]) = Len(files[active]) + 1
    BY <1>a, <2>1, <2>2 DEF AppendBegin
  <2>4. \A id \in DOMAIN files : Keeps(id, Len(files[id])) /\ Len(files[id]) \in Nat
    BY <1>0, <1>a, <2>1, KeepsAppendBegin
  <2>5. \A id \in DOMAIN files' : Len(files'[id]) \in Nat
    BY DEF ShapeInv, TypeOK
  <2>6. CASE report.tail_truncated = 1
    BY <1>5, <2>2, <2>3, <2>4, <2>5, <2>6 DEF Keeps, ActiveFile
  <2> QED BY <2>2, <2>6 DEF DamageInv
<1>7. CASE AppendFinish
  <2>1. Opened /\ report' = report /\ pc = "writing" /\ pc' = "idle" /\ active \in DOMAIN files
    BY <1>0, <1>7 DEF AppendFinish, Opened, ShapeInv, Poison
  <2>2. ASSUME NEW id \in DOMAIN files, NEW i \in 1 .. Len(files[id]),
               ~(id = active /\ i = Len(ActiveFile))
        PROVE  Keeps(id, i)
    <3>1. i \in Nat /\ i <= Len(files[id]) /\ (id = active => i < Len(files[id]))
      BY <1>a, <2>2 DEF ActiveFile
    <3> QED BY <1>0, <1>7, <3>1, KeepsAppendFinish
  <2>3. \A id \in DOMAIN files' : Len(files'[id]) \in Nat
    BY DEF ShapeInv, TypeOK
  <2>4. CASE report.tail_truncated = 1
    BY <1>5, <1>a, <2>1, <2>2, <2>3, <2>4 DEF Keeps
  <2> QED BY <2>1, <2>4 DEF DamageInv
<1>8. CASE RotateCreate
  <2>1. /\ NextSegmentId(ListSegmentIds(files)) = active + 1
        /\ active + 1 \notin DOMAIN files
    BY <1>0, <1>8, NewSegment DEF RotateCreate
  <2>2. Opened /\ report' = report /\ pc = "rotating" /\ pc' # "writing"
        /\ \A id \in DOMAIN files : id \in DOMAIN files' /\ files'[id] = files[id]
    BY <1>8, <2>1 DEF RotateCreate, Opened, Poison
  <2>3. CASE report.tail_truncated = 1
    BY <1>5, <2>2, <2>3
  <2> QED BY <2>2, <2>3 DEF DamageInv
<1> QED
  BY <1>1, <1>2, <1>3, <1>4, <1>6, <1>7, <1>8 DEF Next, Running, Progress, Ends, Fails

\* Every step keeps CleanHandleInv: a clean handle knows its segment.
LEMMA CleanHandleStep ==
  ASSUME LogInv, Platform, [Next]_vars, ShapeInv'
  PROVE  CleanHandleInv'
<1>0. ShapeInv /\ CleanHandleInv /\ RotationInv /\ DamageInv
  BY DEF LogInv
<1>a. /\ files \in [DOMAIN files -> Seq(Chunk)] /\ DOMAIN files \in SUBSET Ids
      /\ \A id \in DOMAIN files : Laid(files[id])
  BY <1>0 DEF ShapeInv, TypeOK
<1>1. CASE Ends \/ Fails \/ OpenCreate
  BY <1>0, <1>1, EndsFacts, FailsFacts DEF OpenCreate, CleanHandleInv, Opened
<1>2. CASE OpenCreated \/ OpenExisting
  <2>1. /\ report' = TailReport(files) /\ files' = files /\ pc' = "idle"
        /\ active' = ActiveSegmentId(files)
        /\ activeSize' = LogicalEnd(files[ActiveSegmentId(files)])
    BY <1>2 DEF OpenCreated, OpenExisting, OpenScanned, disk
  <2>2. ListSegmentIds(files) # {}
    BY <1>0, <1>2, SegmentsAssumption DEF OpenCreated, OpenExisting, ShapeInv, ListSegmentIds
  <2> QED BY <1>a, <2>1, <2>2, TailReportFacts DEF CleanHandleInv, ActiveFile
<1>3. CASE \E d \in Data, cut \in Cuts : AppendBegin(d, cut)
  <2>1. PICK d \in Data, cut \in Cuts : AppendBegin(d, cut)
    BY <1>3
  <2> DEFINE s == files[active]
             c == CutTo(EncodeRecord(nextTxid, d, FileSize(s)), cut)
  <2>2. /\ active \in DOMAIN files /\ s \in Seq(Chunk) /\ nextTxid \in 1 .. MaxTxid
        /\ Ready /\ Opened
    BY <1>0, <2>1 DEF AppendBegin, MayWrite, Ready, ShapeInv, TypeOK, Opened
  <2>3. FileSize(s) \in Nat
    BY <2>2, FileSizeType
  <2>4. c \in Chunk /\ c.at = FileSize(s)
    <3> HIDE DEF s
    <3> QED BY <2>2, <2>3, CutFrame
  <2>5. /\ files'[active] = Append(s, c) /\ pc' = "writing"
        /\ UNCHANGED <<active, activeSize, report, poisoned>>
    BY <2>1, <2>2 DEF AppendBegin, handle
  <2>6. report.tail_truncated = 0 => AllWhole(s, Len(s)) /\ activeSize = FileSize(s)
    BY <1>0, <2>2 DEF CleanHandleInv, Ready, ActiveFile
  <2> HIDE DEF s, c
  <2>7. /\ Len(Append(s, c)) = Len(s) + 1 /\ Append(s, c)[Len(s) + 1] = c /\ Len(s) \in Nat
        /\ \A i \in 1 .. Len(s) : Append(s, c)[i] = s[i]
    BY <2>2, <2>4
  <2>8. AllWhole(s, Len(s)) => AllWhole(Append(s, c), Len(Append(s, c)) - 1)
    BY <2>7 DEF AllWhole
  <2> QED BY <2>4, <2>5, <2>6, <2>7, <2>8 DEF CleanHandleInv, ActiveFile
<1>4. CASE AppendFinish
  <2> DEFINE s == ActiveFile
             t == Completed(s)
             n == Len(s)
  <2>1. /\ active \in DOMAIN files /\ s \in Seq(Chunk) /\ Laid(s) /\ n > 0 /\ n \in Nat
        /\ pc = "writing" /\ Opened /\ ~poisoned /\ n \in 1 .. n
    BY <1>0, <1>4 DEF AppendFinish, ShapeInv, TypeOK, Opened, ActiveFile, RotationInv
  <2>2. files'[active] = t /\ UNCHANGED <<active, report>> /\ pc' = "idle"
    BY <1>4, <2>1 DEF AppendFinish, ActiveFile, Poison
  <2>3. ~poisoned' => activeSize' = activeSize + t[n].len
    BY <1>4 DEF AppendFinish, Poison
  <2>4. report.tail_truncated = 0 => AllWhole(s, n - 1) /\ activeSize = s[n].at
    BY <1>0, <2>1 DEF CleanHandleInv
  <2> HIDE DEF s
  <2>5. s[n].txid \in 1 .. MaxTxid /\ s[n].data \in Data /\ s[n].at \in Nat
    BY <2>1, ChunkFields
  <2>6. /\ Len(t) = n /\ \A i \in 1 .. (n - 1) : t[i] = s[i]
        /\ t[n] = EncodeRecord(s[n].txid, s[n].data, s[n].at) /\ t \in Seq(Chunk)
    BY <2>1, CompletedFacts
  <2>7. t[n].at = s[n].at /\ t[n].state = "whole"
    BY <2>5, <2>6, WholeFrame
  <2> HIDE DEF t, n
  <2>8. FileSize(t) = t[n].at + t[n].len
    BY <2>1, <2>6 DEF FileSize
  <2>9. AllWhole(s, n - 1) => AllWhole(t, n)
    BY <2>1, <2>6, <2>7 DEF AllWhole
  <2> QED BY <2>2, <2>3, <2>4, <2>6, <2>7, <2>8, <2>9 DEF CleanHandleInv, ActiveFile
<1>5. CASE FsyncBegin \/ RotateBegin \/ FsyncFinish \/ RotateListError \/ RotateSyncDir
  <2>1. /\ UNCHANGED <<files, active, activeSize, report, poisoned>>
        /\ Opened /\ pc # "writing" /\ pc' # "writing"
    BY <1>5 DEF FsyncBegin, RotateBegin, SyncAll, MayWrite, Ready, FsyncFinish,
       RotateListError, RotateSyncDir, Opened, handle, disk
  <2> QED BY <1>0, <2>1 DEF CleanHandleInv, ActiveFile
<1>6. CASE RotateCreate
  <2>1. /\ NextSegmentId(ListSegmentIds(files)) = active + 1 /\ active \in DOMAIN files
        /\ active + 1 \notin DOMAIN files /\ active \in Nat
    BY <1>0, <1>6, NewSegment DEF RotateCreate, ShapeInv, Opened
  <2>2. /\ files'[active] = files[active] /\ UNCHANGED <<active, activeSize, report, poisoned>>
        /\ Opened /\ pc = "rotating" /\ pc' = "created"
    BY <1>6, <2>1 DEF RotateCreate, Opened
  <2> QED BY <1>0, <2>2 DEF CleanHandleInv, ActiveFile
<1>7. CASE RotateFinish
  <2>1. pc = "opening" /\ ~poisoned /\ Opened
    BY <1>0, <1>7 DEF RotateFinish, RotationInv, Opened
  <2>2. files'[active'] = <<>> /\ activeSize' = 0 /\ pc' = "idle"
    BY <1>0, <1>7, <2>1 DEF RotateFinish, RotationInv, disk
  <2>3. AllWhole(<<>>, Len(<<>>)) /\ FileSize(<<>>) = 0
    BY DEF AllWhole, FileSize
  <2> QED BY <2>2, <2>3 DEF CleanHandleInv, ActiveFile
<1>8. CASE Scan
  <2>1. /\ UNCHANGED <<files, active, activeSize, poisoned, pc>> /\ report' = TailReport(files)
        /\ ScanOk(files) /\ pc = "idle" /\ Opened /\ active \in DOMAIN files
    BY <1>0, <1>8 DEF Scan, disk, Opened, ShapeInv
  <2>2. CASE report'.tail_truncated # 0
    BY <2>2 DEF CleanHandleInv
  <2>3. CASE report'.tail_truncated = 0
    <3>1. \A id \in DOMAIN files : AllWhole(files[id], Len(files[id]))
      BY <1>0, <2>1, <2>3, NoDamageSeen
    <3>2. report.tail_truncated # 1
      BY <1>0, <2>1, <3>1 DEF DamageInv, AllWhole
    <3>3. report.tail_truncated = 0
      BY <1>0, <3>2 DEF ShapeInv, TypeOK, Report
    <3> QED BY <1>0, <2>1, <3>3 DEF CleanHandleInv, ActiveFile, Opened
  <2> QED BY <2>2, <2>3
<1>9. CASE UNCHANGED vars \/ OpenRefused
  BY <1>0, <1>9 DEF OpenRefused, vars, handle, disk, CleanHandleInv, Opened, ActiveFile
<1> QED
  BY <1>1, <1>2, <1>3, <1>4, <1>5, <1>6, <1>7, <1>8, <1>9 DEF Next, Running, Progress, Ends, Fails

\* Every step keeps PendingInv: what append acknowledged is in the file.
LEMMA PendingStep ==
  ASSUME LogInv, Platform, [Next]_vars, ShapeInv'
  PROVE  PendingInv'
<1>0. ShapeInv /\ PendingInv /\ RotationInv /\ CleanHandleInv /\ WritingInv
  BY DEF LogInv
<1>a. /\ files \in [DOMAIN files -> Seq(Chunk)] /\ pending \in SUBSET Ref
  BY <1>0 DEF ShapeInv, TypeOK
<1>1. CASE pending' = {}
  BY <1>1 DEF PendingInv
<1>2. ASSUME NEW r \in pending, active' = active,
             \A n \in Nat : n <= Len(ActiveFile) => Keeps(active, n)
      PROVE  r.segment = active' /\ (r.clean => Intact(r)' /\ RefersToItsFrame(r)')
  <2>1. r.segment = active /\ r \in Ref
    BY <1>0, <1>a DEF PendingInv
  <2>2. CASE r.clean
    <3>1. Intact(r) /\ RefersToItsFrame(r) /\ r.idx \in Nat
      BY <1>0, <2>1, <2>2 DEF PendingInv, Ref
    <3>2. r.idx <= Len(ActiveFile)
      BY <1>a, <2>1, <3>1 DEF Intact, ActiveFile
    <3> QED BY <1>0, <1>2, <2>1, <3>1, <3>2, IntactKept
  <2> QED BY <1>2, <2>1, <2>2
<1>3. CASE files' = files /\ pending' = pending /\ active' = active /\ active \in DOMAIN files
  <2>1. \A n \in Nat : n <= Len(ActiveFile) => Keeps(active, n)
    BY <1>0, <1>3, KeepsSame DEF ActiveFile
  <2> QED BY <1>2, <1>3, <2>1 DEF PendingInv
<1>4. CASE Fails \/ FsyncBegin \/ RotateBegin \/ RotateListError \/ RotateSyncDir \/ Scan
  <2>1. files' = files /\ pending' = pending /\ active' = active /\ Opened
    BY <1>4, FailsFacts DEF FsyncBegin, RotateBegin, SyncAll, MayWrite, Ready,
       RotateListError, RotateSyncDir, Scan, Opened, handle, disk, history
  <2> QED BY <1>0, <1>3, <2>1 DEF ShapeInv
<1>5. CASE \E d \in Data, cut \in Cuts : AppendBegin(d, cut)
  <2>1. PICK d \in Data, cut \in Cuts : AppendBegin(d, cut)
    BY <1>5
  <2>2. active \in DOMAIN files /\ active' = active /\ pending' = pending
    BY <1>0, <2>1 DEF AppendBegin, MayWrite, Ready, ShapeInv, Opened, handle, history
  <2>3. \A n \in Nat : n <= Len(ActiveFile) => Keeps(active, n)
    BY <1>0, <2>1, <2>2, KeepsAppendBegin DEF ActiveFile
  <2> QED BY <1>2, <2>2, <2>3 DEF PendingInv
<1>6. CASE AppendFinish
  <2> DEFINE s == ActiveFile
             t == Completed(s)
             n == Len(s)
             new == [segment |-> active, offset |-> activeSize, len |-> t[n].len,
                     txid |-> nextTxid, data |-> t[n].data, idx |-> n,
                     clean |-> report.tail_truncated = 0]
  <2>1. /\ active \in DOMAIN files /\ s \in Seq(Chunk) /\ Laid(s) /\ n > 0 /\ n \in Nat
        /\ pc = "writing" /\ Opened /\ ~poisoned /\ s = files[active] /\ n \in 1 .. n
    BY <1>0, <1>6 DEF AppendFinish, ShapeInv, TypeOK, Opened, ActiveFile, RotationInv
  <2>2. /\ files'[active] = t /\ active' = active /\ active \in DOMAIN files'
        /\ (pending' = pending \/ pending' = pending \cup {new})
    BY <1>6, <2>1 DEF AppendFinish, ActiveFile
  <2>3. s[n].state = "torn" /\ s[n].txid = nextTxid
    BY <1>0, <2>1 DEF WritingInv
  <2>4. report.tail_truncated = 0 => AllWhole(s, n - 1) /\ activeSize = s[n].at
    BY <1>0, <2>1 DEF CleanHandleInv
  <2>5. ASSUME NEW r \in pending
        PROVE  r.segment = active' /\ (r.clean => Intact(r)' /\ RefersToItsFrame(r)')
    <3>1. r.segment = active /\ r \in Ref
      BY <1>0, <1>a DEF PendingInv
    <3>2. CASE r.clean
      <4>1. Intact(r) /\ RefersToItsFrame(r) /\ r.idx \in Nat
        BY <1>0, <3>1, <3>2 DEF PendingInv, Ref
      <4>2. r.idx \in 1 .. n /\ s[r.idx].state = "whole"
        BY <2>1, <3>1, <4>1 DEF Intact, AllWhole
      <4>3. r.idx < n
        BY <2>1, <2>3, <4>2
      <4>4. Keeps(active, r.idx)
        BY <1>0, <1>6, <2>1, <4>1, <4>3, KeepsAppendFinish
      <4> QED BY <1>0, <2>2, <3>1, <4>1, <4>4, IntactKept
    <3> QED BY <2>2, <3>1, <3>2
  <2>6. ASSUME NEW r, r = new
        PROVE  r.segment = active' /\ (r.clean => Intact(r)' /\ RefersToItsFrame(r)')
    <3> HIDE DEF s, n
    <3>1. s[n].txid \in 1 .. MaxTxid /\ s[n].data \in Data /\ s[n].at \in Nat
      BY <2>1, ChunkFields DEF n
    <3>2. /\ Len(t) = n /\ \A i \in 1 .. (n - 1) : t[i] = s[i]
          /\ t[n] = EncodeRecord(s[n].txid, s[n].data, s[n].at) /\ t \in Seq(Chunk)
      BY <2>1, CompletedFacts DEF n
    <3>3. /\ t[n].at = s[n].at /\ t[n].state = "whole"
          /\ t[n].txid = s[n].txid /\ t[n].data = s[n].data
      BY <3>1, <3>2, WholeFrame
    <3> HIDE DEF t
    <3>4. AllWhole(s, n - 1) => AllWhole(t, n)
      BY <2>1, <3>2, <3>3 DEF AllWhole
    <3>5. /\ r.segment = active /\ r.offset = activeSize /\ r.len = t[n].len
          /\ r.txid = nextTxid /\ r.data = t[n].data /\ r.idx = n
          /\ r.clean = (report.tail_truncated = 0)
      BY <2>6
    <3> HIDE DEF new
    <3>6. r.clean => Intact(r)'
      <4>1. r.clean => AllWhole(t, n)
        BY <2>4, <3>4, <3>5
      <4>2. r.idx = n /\ n \in 1 .. Len(t) /\ t[n].txid = r.txid /\ t[n].data = r.data
        BY <2>1, <2>3, <3>2, <3>3, <3>5
      <4>3. files'[r.segment] = t /\ r.segment \in DOMAIN files'
        BY <2>2, <3>5
      <4> QED BY <4>1, <4>2, <4>3 DEF Intact
    <3>7. r.clean => RefersToItsFrame(r)'
      BY <2>2, <2>4, <3>3, <3>5 DEF RefersToItsFrame
    <3> QED BY <2>2, <3>5, <3>6, <3>7
  <2> HIDE DEF new
  <2> QED BY <2>2, <2>5, <2>6 DEF PendingInv
<1>7. CASE RotateCreate
  <2>1. /\ NextSegmentId(ListSegmentIds(files)) = active + 1 /\ active \in DOMAIN files
        /\ active + 1 \notin DOMAIN files /\ active \in Nat
    BY <1>0, <1>7, NewSegment DEF RotateCreate, ShapeInv, Opened
  <2>2. /\ files' = [i \in DOMAIN files \cup {active + 1} |->
                        IF i = active + 1 THEN <<>> ELSE files[i]]
        /\ active' = active /\ pending' = pending
    BY <1>7, <2>1 DEF RotateCreate, history
  <2>3. \A n \in Nat : n <= Len(ActiveFile) => Keeps(active, n)
    BY <1>0, <2>1, <2>2, KeepsNew DEF ActiveFile
  <2> QED BY <1>2, <2>2, <2>3 DEF PendingInv
<1>8. CASE UNCHANGED vars \/ OpenRefused
  BY <1>0, <1>8
  DEF OpenRefused, vars, handle, disk, history, PendingInv, Intact, RefersToItsFrame
<1>9. CASE OpenCreate
  <2>1. pending = {}
    BY <1>0, <1>9 DEF OpenCreate, ShapeInv, Opened
  <2> QED BY <1>1, <1>9, <2>1 DEF OpenCreate, history
<1>10. CASE Ends \/ OpenCreated \/ OpenExisting \/ FsyncFinish \/ RotateFinish
  BY <1>0, <1>1, <1>10, EndsFacts
  DEF OpenCreated, OpenExisting, OpenScanned, FsyncFinish, RotateFinish, Acknowledge
<1> QED
  BY <1>4, <1>5, <1>6, <1>7, <1>8, <1>9, <1>10 DEF Next, Running, Progress, Ends, Fails

\* Every step keeps DurableInv: what fsync acknowledged is on disk.
LEMMA DurableStep ==
  ASSUME LogInv, Platform, [Next]_vars, ShapeInv'
  PROVE  DurableInv'
<1>0. ShapeInv /\ PendingInv /\ SyncedInv /\ RotationInv
  BY DEF LogInv
<1>1. CASE durable' = durable
  BY <1>1, DurableKept DEF DurableInv
<1>2. CASE /\ durable' = durable \cup pending
           /\ files' = files /\ synced' = synced /\ entries' = DOMAIN files
           /\ synced[active] = Len(ActiveFile)
  <2>1. ASSUME NEW r \in pending, r.clean
        PROVE  Intact(r)' /\ r.segment \in entries' /\ r.idx <= synced'[r.segment]
    <3>1. r.segment = active /\ Intact(r)
      BY <1>0, <2>1 DEF PendingInv
    <3>2. active \in DOMAIN files /\ r.idx \in 1 .. Len(ActiveFile)
      BY <3>1 DEF Intact, ActiveFile
    <3>3. r.idx <= Len(ActiveFile)
      BY <3>2
    <3> QED BY <1>2, <3>1, <3>2, <3>3 DEF Intact
  <2> QED BY <1>2, <2>1, DurableKept DEF DurableInv
<1>3. CASE FsyncFinish
  BY <1>0, <1>2, <1>3 DEF FsyncFinish, Acknowledge, SyncedInv
<1>4. CASE RotateFinish
  BY <1>0, <1>2, <1>4 DEF RotateFinish, Acknowledge, SyncedInv, disk
<1>5. CASE Ends \/ Fails
  BY <1>0, <1>1, <1>5, EndsFacts, FailsFacts DEF history
<1> QED
  BY <1>1, <1>3, <1>4, <1>5
  DEF Next, Running, Progress, Ends, Fails, OpenCreate, OpenCreated, OpenExisting, OpenRefused,
      AppendBegin, AppendFinish, FsyncBegin, RotateBegin, SyncAll, RotateListError,
      RotateCreate, RotateSyncDir, Scan, vars, history

\* On this platform no dirty page is ever given up.
LEMMA DroppedStep ==
  ASSUME LogInv, Platform, [Next]_vars
  PROVE  dropped' = {}
<1>1. dropped = {} /\ ~DropsDirtyPages
  BY DEF LogInv, Platform
<1>2. CASE SyncAllError
  BY <1>1, <1>2 DEF SyncAllError
<1>3. CASE RotateCreate
  BY <1>1, <1>3 DEF RotateCreate
<1> QED
  BY <1>1, <1>2, <1>3
  DEF Next, Running, Progress, OpenCreate, OpenCreated, OpenExisting, OpenRefused, OpenFails,
      AppendBegin, AppendFinish, AppendError, FsyncBegin, RotateBegin, SyncAll, FsyncFinish,
      DirectoryError, RotateListError, RotateSyncDir, RotateFinish, Scan, Close, Crash,
      PowerLoss, vars, disk

------------------------------------------------------------------------------
(* The theorems *)

\* The inductive invariant holds at the start.
LEMMA LogInvInit == Init => LogInv
<1> SUFFICES ASSUME Init PROVE LogInv
  OBVIOUS
<1>1. ShapeInv
  BY ShapeInit
<1>2. DOMAIN files = {} /\ ~Opened /\ pc = "closed" /\ pending = {} /\ durable = {}
  BY DEF Init, Opened
<1> QED
  BY <1>1, <1>2 DEF Init, LogInv, CleanHandleInv, RotationInv, WritingInv, DamageInv,
     PendingInv, SyncedInv, DurableInv

\* The inductive invariant is inductive.
LEMMA LogInvStep ==
  ASSUME LogInv, Platform, [Next]_vars
  PROVE  LogInv'
<1>1. ShapeInv'
  BY ShapeStep DEF LogInv
<1> QED
  BY <1>1, DroppedStep, CleanHandleStep, RotationStep, WritingStep, DamageStep,
     PendingStep, SyncedStep, DurableStep DEF LogInv

(***************************************************************************)
(* LogInv is an invariant of the log, whether or not callers heed reports. *)
(***************************************************************************)
THEOREM LogInvariant == ASSUME Platform PROVE Spec => []LogInv
<1>1. LogInv /\ [Next]_vars => LogInv'
  BY LogInvStep
<1> QED BY <1>1, LogInvInit, PTL DEF Spec

(***************************************************************************)
(* The fsync contract of record_log.rs, for the handles that were opened   *)
(* on an undamaged log: every record that was appended before an fsync or  *)
(* a rotate that returned Ok is returned by every later scan, through any  *)
(* sequence of I/O errors, crashes, power losses and reopenings, and       *)
(* whatever other handles do to the log later.                             *)
(***************************************************************************)
THEOREM FsyncContract == ASSUME Platform PROVE Spec => []CleanFsyncedSurvives
<1>1. LogInv => CleanFsyncedSurvives
  <2> SUFFICES ASSUME LogInv, NEW r \in durable, r.clean PROVE Returned(r)
    BY DEF CleanFsyncedSurvives
  <2>1. Intact(r) /\ ShapeInv /\ RotationInv
    BY DEF LogInv, DurableInv
  <2>2. r.segment \in ListSegmentIds(files)
    BY <2>1, AllListed DEF Intact
  <2>3. files[r.segment] \in Seq(Chunk)
    BY <2>1 DEF Intact, ShapeInv, TypeOK
  <2>4. r.idx \in Replayed(files[r.segment])
    BY <2>1, <2>3, ReplayedWhole DEF Intact
  <2> QED BY <2>1, <2>2, <2>4 DEF Intact, Returned, ScanReturns
<1> QED BY <1>1, LogInvariant, PTL

------------------------------------------------------------------------------
(* Append-only *)

(***************************************************************************)
(* While the system runs, every step keeps every chunk of every file, but  *)
(* for the one that write_all is working on.                               *)
(***************************************************************************)
LEMMA RunningKeeps ==
  ASSUME LogInv, Platform, Running \/ UNCHANGED vars,
         NEW id \in DOMAIN files, NEW n \in Nat, n <= Len(files[id]),
         (pc = "writing" /\ id = active) => n < Len(files[id])
  PROVE  Keeps(id, n)
<1>0. ShapeInv /\ RotationInv
  BY DEF LogInv
<1>1. CASE files' = files
  BY <1>0, <1>1, KeepsSame
<1>2. CASE OpenCreate
  <2>1. 1 \notin DOMAIN files
    BY <1>0, <1>2, AllListed DEF OpenCreate
  <2> QED BY <1>0, <1>2, <2>1, KeepsNew DEF OpenCreate
<1>3. CASE \E d \in Data, cut \in Cuts : AppendBegin(d, cut)
  BY <1>0, <1>3, KeepsAppendBegin
<1>4. CASE AppendFinish
  <2>1. pc = "writing"
    BY <1>4 DEF AppendFinish
  <2> QED BY <1>0, <1>4, <2>1, KeepsAppendFinish
<1>5. CASE RotateCreate
  <2>1. NextSegmentId(ListSegmentIds(files)) = active + 1 /\ active + 1 \notin DOMAIN files
    BY <1>0, <1>5, NewSegment DEF RotateCreate
  <2>2. CASE files' = [i \in DOMAIN files \cup {active + 1} |->
                          IF i = active + 1 THEN <<>> ELSE files[i]]
    BY <1>0, <2>1, <2>2, KeepsNew
  <2> QED BY <1>1, <1>5, <2>1, <2>2 DEF RotateCreate
<1> QED
  BY <1>1, <1>2, <1>3, <1>4, <1>5
  DEF vars, disk, Running, Progress, OpenCreated, OpenExisting, OpenRefused, OpenFails,
      AppendError, FsyncBegin, SyncAll, SyncAllError, FsyncFinish, RotateBegin,
      DirectoryError, RotateListError, RotateSyncDir, RotateFinish, Scan, Close, Crash

\* A scan replays no more frames than the file has, nor the unfinished one.
LEMMA ReplayedCount ==
  ASSUME LogInv, NEW id \in DOMAIN files
  PROVE  /\ Cardinality(Replayed(files[id])) \in Nat
         /\ Cardinality(Replayed(files[id])) <= Len(files[id])
         /\ (pc = "writing" /\ id = active)
              => Cardinality(Replayed(files[id])) < Len(files[id])
<1> DEFINE s == files[id]
<1>1. s \in Seq(Chunk) /\ Len(s) \in Nat
  BY DEF LogInv, ShapeInv, TypeOK
<1>2. ASSUME NEW n \in Nat, Replayed(s) \subseteq 1 .. n
      PROVE  Cardinality(Replayed(s)) \in Nat /\ Cardinality(Replayed(s)) <= n
  <2>1. IsFiniteSet(1 .. n) /\ Cardinality(1 .. n) = n
    BY FS_Interval
  <2>2. IsFiniteSet(Replayed(s)) /\ Cardinality(Replayed(s)) <= n
    BY <1>2, <2>1, FS_Subset
  <2> QED BY <2>2, FS_CardinalityType
<1>3. Replayed(s) \subseteq 1 .. Len(s)
  BY DEF Replayed
<1>4. ASSUME pc = "writing", id = active
      PROVE  Len(s) - 1 \in Nat /\ Replayed(s) \subseteq 1 .. (Len(s) - 1)
  <2>1. Len(s) > 0 /\ s[Len(s)].state = "torn"
    BY <1>4 DEF LogInv, ShapeInv, WritingInv, ActiveFile
  <2>2. Len(s) \notin Replayed(s)
    BY <1>1, <2>1, ReplayedWhole DEF AllWhole
  <2> QED BY <1>1, <1>3, <2>1, <2>2
<1> HIDE DEF s
<1>5. Cardinality(Replayed(s)) \in Nat /\ Cardinality(Replayed(s)) <= Len(s)
  BY <1>1, <1>2, <1>3
<1>6. (pc = "writing" /\ id = active) => Cardinality(Replayed(s)) <= Len(s) - 1
  BY <1>2, <1>4
<1> QED BY <1>1, <1>5, <1>6 DEF s

(***************************************************************************)
(* The log is append-only, on every disk that keeps its side and whatever  *)
(* callers do: no step, power loss and failed calls included, changes a    *)
(* frame that is on disk, and no step of a program that does not fail      *)
(* changes a record that scans return.                                     *)
(***************************************************************************)
THEOREM LogIsAppendOnly == ASSUME Platform PROVE Spec => AppendOnly
<1>1. LogInv /\ [Next]_vars =>
        [/\ \A id \in entries : Keeps(id, synced[id])
         /\ faults' = faults => \A id \in DOMAIN files :
                                   Keeps(id, Cardinality(Replayed(files[id])))]_vars
  <2> SUFFICES ASSUME LogInv, Next
               PROVE  /\ \A id \in entries : Keeps(id, synced[id])
                      /\ faults' = faults => \A id \in DOMAIN files :
                                   Keeps(id, Cardinality(Replayed(files[id])))
    OBVIOUS
  <2>1. \A id \in entries : Keeps(id, synced[id])
    BY SyncedKept
  <2>2. ASSUME faults' = faults, NEW id \in DOMAIN files
        PROVE  Keeps(id, Cardinality(Replayed(files[id])))
    <3>1. Running
      BY <2>2 DEF LogInv, ShapeInv, TypeOK, Next, PowerLoss, Fault
    <3> QED BY <3>1, ReplayedCount, RunningKeeps
  <2> QED BY <2>1, <2>2
<1> QED BY <1>1, LogInvariant, PTL DEF Spec, AppendOnly

------------------------------------------------------------------------------
(* Callers that heed the recovery report *)

\* SealedInv holds at the start.
LEMMA SealedInit == Init => SealedInv
BY DEF Init, SealedInv

\* append_record by a caller who heeds the report touches the last frame only.
LEMMA SealedAppend ==
  ASSUME LogInv, Platform, SealedInv,
         AppendFinish \/ \E d \in Data, cut \in Cuts : MayWrite /\ CallerChecksReport
                                                         /\ AppendBegin(d, cut)
  PROVE  /\ DOMAIN files' = DOMAIN files /\ synced' = synced
         /\ AllWhole(files'[active], Len(files'[active]) - 1)
         /\ active \in DOMAIN files /\ active = Max(DOMAIN files)
         /\ \A id \in DOMAIN files : id # active => files'[id] = files[id]
<1>0. ShapeInv /\ RotationInv /\ CleanHandleInv
  BY DEF LogInv
<1>1. CASE AppendFinish
  <2> DEFINE s == files[active]
             t == Completed(s)
  <2>1. active \in DOMAIN files /\ s \in Seq(Chunk) /\ Laid(s) /\ Len(s) > 0
        /\ active = Max(DOMAIN files) /\ Len(s) \in Nat
    BY <1>0, <1>1 DEF AppendFinish, ShapeInv, TypeOK, Opened, RotationInv, ActiveFile
  <2>2. files' = [files EXCEPT ![active] = t] /\ synced' = synced
    BY <1>1 DEF AppendFinish
  <2>3. AllWhole(s, Len(s) - 1)
    BY <2>1 DEF SealedInv
  <2> HIDE DEF s
  <2>4. Len(t) = Len(s) /\ \A i \in 1 .. (Len(s) - 1) : t[i] = s[i]
    BY <2>1, CompletedFacts
  <2>5. AllWhole(t, Len(t) - 1)
    BY <2>3, <2>4 DEF AllWhole
  <2> HIDE DEF t
  <2> QED BY <2>1, <2>2, <2>5
<1>2. CASE \E d \in Data, cut \in Cuts : MayWrite /\ CallerChecksReport /\ AppendBegin(d, cut)
  <2>1. PICK d \in Data, cut \in Cuts : MayWrite /\ CallerChecksReport /\ AppendBegin(d, cut)
    BY <1>2
  <2> DEFINE s == files[active]
             c == CutTo(EncodeRecord(nextTxid, d, FileSize(s)), cut)
  <2>2. active \in DOMAIN files /\ s \in Seq(Chunk)
        /\ active = Max(DOMAIN files) /\ Len(s) \in Nat
    BY <1>0, <2>1 DEF MayWrite, Ready, ShapeInv, TypeOK, Opened, RotationInv
  <2>3. files' = [files EXCEPT ![active] = Append(s, c)] /\ synced' = synced
    BY <2>1 DEF AppendBegin
  <2>4. AllWhole(s, Len(s))
    BY <1>0, <2>1 DEF MayWrite, Ready, CleanHandleInv, Opened, ActiveFile
  <2> HIDE DEF s, c
  <2>5. Len(Append(s, c)) = Len(s) + 1 /\ \A i \in 1 .. Len(s) : Append(s, c)[i] = s[i]
    BY <2>2
  <2>6. AllWhole(Append(s, c), Len(Append(s, c)) - 1)
    BY <2>2, <2>4, <2>5 DEF AllWhole
  <2> QED BY <2>2, <2>3, <2>6
<1> QED BY <1>1, <1>2

\* Power loss damages the last segment only, and in it the last frame only.
LEMMA SealedPowerLoss ==
  ASSUME LogInv, Platform, SealedInv, PowerLoss, NEW id \in DOMAIN files'
  PROVE  /\ AllWhole(files'[id], Len(files'[id]) - 1)
         /\ id # Max(DOMAIN files') => /\ AllWhole(files'[id], Len(files'[id]))
                                       /\ synced'[id] = Len(files'[id])
<1>0. ShapeInv /\ RotationInv /\ dropped = {}
  BY DEF LogInv
<1>1. /\ id \in DOMAIN files /\ DOMAIN files' \subseteq DOMAIN files
      /\ synced'[id] = Len(files'[id]) /\ synced[id] <= synced'[id]
      /\ Len(files'[id]) <= Len(files[id])
      /\ \A i \in 1 .. synced[id] : files'[id][i] = OnDisk(id)[i]
      /\ \A i \in 1 .. (Len(files'[id]) - 1) : files'[id][i] = OnDisk(id)[i]
      /\ files'[id] \in Seq(Chunk)
  BY <1>0, PowerLossFacts
<1>2. /\ files[id] \in Seq(Chunk) /\ Laid(files[id]) /\ synced[id] \in Nat
      /\ DOMAIN files \in SUBSET Nat
  BY <1>0, <1>1 DEF ShapeInv, TypeOK, Ids
<1>3. OnDisk(id) = files[id]
  BY <1>0, <1>1, <1>2, OnDiskFacts
<1>4. Len(files'[id]) \in Nat /\ Len(files[id]) \in Nat
  BY <1>1, <1>2
<1>5. AllWhole(files'[id], Len(files'[id]) - 1)
  <2>1. AllWhole(files[id], Len(files[id]) - 1)
    BY <1>1 DEF SealedInv
  <2> QED BY <1>1, <1>3, <1>4, <2>1 DEF AllWhole
<1>6. ASSUME id # Max(DOMAIN files') PROVE AllWhole(files'[id], Len(files'[id]))
  <2>1. \E higher \in DOMAIN files' : ~(higher <= id)
    <3>1. DOMAIN files' \in SUBSET Nat
      BY <1>1, <1>2
    <3> QED BY <1>6, <3>1, MaxIs
  <2>2. id # Max(DOMAIN files)
    BY <1>0, <1>1, <1>2, <2>1, AllListed
  <2>3. AllWhole(files[id], Len(files[id])) /\ synced[id] = Len(files[id])
    BY <1>1, <2>2 DEF SealedInv
  <2> QED BY <1>1, <1>3, <1>4, <2>3 DEF AllWhole
<1> QED BY <1>1, <1>5, <1>6

\* Every step keeps the part of SealedInv that is about the files.
LEMMA SealedFiles ==
  ASSUME LogInv, LogInv', Platform, CallerChecksReport, SealedInv, [Next]_vars
  PROVE  \A id \in DOMAIN files' :
            /\ AllWhole(files'[id], Len(files'[id]) - 1)
            /\ id # Max(DOMAIN files') => /\ AllWhole(files'[id], Len(files'[id]))
                                          /\ synced'[id] = Len(files'[id])
<1>0. ShapeInv /\ RotationInv /\ CleanHandleInv /\ SyncedInv
  BY DEF LogInv
<1>1. CASE UNCHANGED <<files, synced>>
  BY <1>1 DEF SealedInv
<1>2. CASE OpenCreate
  <2>1. DOMAIN files = {}
    BY <1>0, <1>2, AllListed DEF OpenCreate
  <2>2. DOMAIN files' = {1} /\ files'[1] = <<>>
    BY <1>2, <2>1 DEF OpenCreate
  <2>3. Max({1}) = 1
    BY MaxIs
  <2>4. AllWhole(<<>>, Len(<<>>) - 1)
    BY DEF AllWhole
  <2> QED BY <2>2, <2>3, <2>4
<1>3. CASE AppendFinish \/ \E d \in Data, cut \in Cuts : AppendBegin(d, cut)
  <2>1. AppendFinish \/ \E d \in Data, cut \in Cuts : MayWrite /\ CallerChecksReport
                                                         /\ AppendBegin(d, cut)
    BY <1>3 DEF AppendBegin
  <2> QED BY <2>1, SealedAppend DEF SealedInv
<1>4. CASE SyncAllError \/ FsyncBegin \/ RotateBegin
  <2>1. files' = files /\ Ready /\ \E n : synced' = [synced EXCEPT ![active] = n]
    BY <1>4 DEF SyncAllError, FsyncBegin, RotateBegin, SyncAll, MayWrite
  <2>2. active = Max(DOMAIN files)
    BY <1>0, <2>1 DEF Ready, RotationInv, Opened
  <2>3. \A id \in DOMAIN files : id # active => synced'[id] = synced[id]
    BY <1>0, <2>1 DEF ShapeInv, TypeOK
  <2> QED BY <2>1, <2>2, <2>3 DEF SealedInv
<1>5. CASE RotateCreate
  <2>1. /\ NextSegmentId(ListSegmentIds(files)) = active + 1 /\ active \in DOMAIN files
        /\ active + 1 \notin DOMAIN files /\ active \in Nat /\ Opened /\ pc = "rotating"
    BY <1>0, <1>5, NewSegment DEF RotateCreate, ShapeInv, Opened
  <2>2. /\ files' = [i \in DOMAIN files \cup {active + 1} |->
                        IF i = active + 1 THEN <<>> ELSE files[i]]
        /\ synced' = [i \in DOMAIN files \cup {active + 1} |->
                        IF i = active + 1 THEN 0 ELSE synced[i]]
        /\ newId' = active + 1 /\ pc' = "created"
    BY <1>5, <2>1 DEF RotateCreate
  <2>3. active = Max(DOMAIN files) /\ ~poisoned /\ report.tail_truncated = 0
    BY <1>0, <2>1 DEF RotationInv, SealedInv
  <2>4. AllWhole(files[active], Len(files[active])) /\ synced[active] = Len(files[active])
    BY <1>0, <2>1, <2>3 DEF CleanHandleInv, SyncedInv, ActiveFile
  <2>5. Max(DOMAIN files') = active + 1
    <3>1. RotationInv' /\ ~poisoned'
      BY <1>5, <2>2, <2>3 DEF LogInv, RotationInv
    <3> QED BY <2>2, <3>1 DEF RotationInv, Opened
  <2>6. AllWhole(<<>>, Len(<<>>) - 1)
    BY DEF AllWhole
  <2> QED BY <2>2, <2>3, <2>4, <2>5, <2>6 DEF SealedInv
<1>6. CASE PowerLoss
  BY <1>6, SealedPowerLoss
<1> QED
  BY <1>1, <1>2, <1>3, <1>4, <1>5, <1>6
  DEF Next, Running, Progress, OpenCreated, OpenExisting, OpenRefused, OpenFails, AppendError,
      FsyncFinish, DirectoryError, RotateListError, RotateSyncDir, RotateFinish,
      Scan, Close, Crash, vars, disk

\* Every step keeps SealedInv.
LEMMA SealedStep ==
  ASSUME LogInv, LogInv', Platform, CallerChecksReport, SealedInv, [Next]_vars
  PROVE  SealedInv'
<1>0. ShapeInv
  BY DEF LogInv
<1>1. pc' \in {"writing", "rotating", "created", "opening"} => report'.tail_truncated = 0
  <2>1. CASE Ends \/ Fails
    BY <1>0, <2>1, EndsFacts, FailsFacts
  <2>2. CASE ~Ends /\ ~Fails
    BY <2>2
    DEF SealedInv, Next, Running, Progress, Ends, Fails, OpenCreate, OpenCreated, OpenExisting,
        OpenScanned, OpenRefused, AppendBegin, AppendFinish, Poison, FsyncBegin, RotateBegin,
        SyncAll, MayWrite, FsyncFinish, RotateListError, RotateCreate, RotateSyncDir,
        RotateFinish, Scan, vars, handle
  <2> QED BY <2>1, <2>2
<1>2. \A r \in pending' \cup durable' : r.clean
  <2>1. CASE AppendFinish
    <3>1. report.tail_truncated = 0
      BY <2>1 DEF AppendFinish, SealedInv
    <3> DEFINE frame == Completed(ActiveFile)[Len(ActiveFile)]
               new == [segment |-> active, offset |-> activeSize, len |-> frame.len,
                       txid |-> nextTxid, data |-> frame.data, idx |-> Len(ActiveFile),
                       clean |-> report.tail_truncated = 0]
    <3>2. new.clean
      BY <3>1
    <3>3. durable' = durable /\ (pending' = pending \/ pending' = pending \cup {new})
      BY <2>1 DEF AppendFinish
    <3> HIDE DEF new
    <3> QED BY <3>2, <3>3 DEF SealedInv
  <2>2. CASE Ends \/ Fails
    BY <1>0, <2>2, EndsFacts, FailsFacts DEF history, SealedInv
  <2>3. CASE ~Ends /\ ~Fails /\ ~AppendFinish
    <3>1. pending' \cup durable' \subseteq pending \cup durable
      BY <2>3
      DEF Next, Running, Progress, Ends, Fails, OpenCreate, OpenCreated, OpenExisting, OpenScanned,
          OpenRefused, AppendBegin, FsyncBegin, RotateBegin, SyncAll, FsyncFinish,
          Acknowledge, RotateListError, RotateCreate, RotateSyncDir, RotateFinish, Scan,
          vars, history
    <3> QED BY <3>1 DEF SealedInv
  <2> QED BY <2>1, <2>2, <2>3
<1> QED BY <1>1, <1>2, SealedFiles DEF SealedInv

\* A cut frame at the very end of a file never decodes to a structural error,
\* only zeros do.
LEMMA LastDecode ==
  ASSUME NEW s \in Seq(Chunk), Len(s) > 0
  PROVE  \/ DecodeNext(s, Len(s)) \in {"Ok", "Truncated", "CrcMismatch"}
         \/ s[Len(s)].state = "zeros"
<1> DEFINE n == Len(s)
<1>1. n \in 1 .. n /\ s # <<>>
  OBVIOUS
<1>2. s[n].at \in Nat /\ s[n].len \in Nat /\ s[n].state \in {"whole", "torn", "crc", "zeros"}
  BY <1>1, ChunkFields
<1>3. FileSize(s) - s[n].at = s[n].len
  BY <1>1, <1>2 DEF FileSize
<1>4. HeaderLen \in Nat /\ \A c \in StructuralCuts : c < HeaderLen
  BY WireAssumption
<1>5. CASE s[n].state = "torn"
  <2>1. CASE s[n].len < HeaderLen
    BY <1>3, <1>5, <2>1 DEF DecodeNext
  <2>2. CASE ~(s[n].len < HeaderLen)
    BY <1>2, <1>3, <1>4, <1>5, <2>2 DEF DecodeNext
  <2> QED BY <2>1, <2>2
<1>6. CASE s[n].state # "torn"
  BY <1>2, <1>6 DEF DecodeNext
<1> QED BY <1>5, <1>6

\* A directory in the state SealedInv describes is one that scan_all accepts.
LEMMA SealedOpens ==
  ASSUME LogInv, SealedInv, Platform
  PROVE  Openable
<1> SUFFICES ASSUME NEW id \in ListSegmentIds(files), ~ZeroedTail,
                    NEW i \in 1 .. Len(files[id]), DecodeNext(files[id], i) # "Ok"
             PROVE  /\ id = ActiveSegmentId(files)
                    /\ DecodeNext(files[id], i) \in {"Truncated", "CrcMismatch"}
  BY DEF Openable, ScanOk, ScanSegmentOk
<1> DEFINE s == files[id]
<1>1. ShapeInv /\ RotationInv
  BY DEF LogInv
<1>2. id \in DOMAIN files /\ ActiveSegmentId(files) = Max(DOMAIN files)
  BY <1>1, AllListed
<1>3. s \in Seq(Chunk) /\ Len(s) \in Nat
  BY <1>1, <1>2 DEF ShapeInv, TypeOK
<1>4. /\ AllWhole(s, Len(s) - 1)
      /\ id # Max(DOMAIN files) => AllWhole(s, Len(s))
  BY <1>2 DEF SealedInv
<1> HIDE DEF s
<1>5. s[i].state # "whole"
  BY <1>3, DecodeOk DEF s
<1>6. id = Max(DOMAIN files)
  BY <1>4, <1>5 DEF AllWhole, s
<1>7. i = Len(s) /\ Len(s) > 0
  BY <1>3, <1>4, <1>5 DEF AllWhole, s
<1>8. s[Len(s)].state # "zeros"
  BY <1>2, <1>6, <1>7 DEF ZeroedTail, s
<1> QED BY <1>2, <1>3, <1>6, <1>7, <1>8, LastDecode DEF s

\* SealedInv is an invariant when callers heed the report.
LEMMA SealedInvariant ==
  ASSUME Platform, CallerChecksReport PROVE Spec => [](LogInv /\ SealedInv)
<1>1. LogInv /\ SealedInv /\ [Next]_vars => LogInv' /\ SealedInv'
  BY LogInvStep, SealedStep
<1> QED BY <1>1, LogInvInit, SealedInit, PTL DEF Spec

(***************************************************************************)
(* If callers do not write to a log whose recovery report shows a          *)
(* discarded tail, then open and scan never refuse what crashes, power     *)
(* loss and I/O errors leave behind, but for zeros in place of the last    *)
(* frame.                                                                  *)
(***************************************************************************)
THEOREM AlwaysOpens ==
  ASSUME Platform, CallerChecksReport PROVE Spec => []Openable
<1>1. LogInv /\ SealedInv => Openable
  BY SealedOpens
<1> QED BY <1>1, SealedInvariant, PTL

(***************************************************************************)
(* On a disk that never shows zeros for data it lost there is no exception.*)
(***************************************************************************)
THEOREM AlwaysOpensWithoutZeros ==
  ASSUME Platform, CallerChecksReport, ~ZeroTails PROVE Spec => []ScanOk(files)
<1>1. LogInv /\ Openable => ScanOk(files)
  <2> SUFFICES ASSUME LogInv, ZeroedTail PROVE FALSE
    BY DEF Openable
  <2> DEFINE id == ActiveSegmentId(files)
  <2>1. ShapeInv /\ RotationInv
    BY DEF LogInv
  <2>2. id \in DOMAIN files
    BY <2>1, AllListed DEF ZeroedTail
  <2>3. files[id] \in Seq(Chunk) /\ files[id] # <<>> /\ files[id][Len(files[id])].state = "zeros"
    BY <2>1, <2>2 DEF ShapeInv, TypeOK, ZeroedTail
  <2> HIDE DEF id
  <2>4. files[id][Len(files[id])] \in Chunk
    BY <2>3
  <2> QED BY <2>3, <2>4 DEF Chunk, ChunkState
<1> QED BY <1>1, SealedInvariant, AlwaysOpens, PTL

(***************************************************************************)
(* Under the same discipline the fsync contract holds without exception.   *)
(***************************************************************************)
THEOREM FsyncContractForAll ==
  ASSUME Platform, CallerChecksReport PROVE Spec => []FsyncedSurvives
<1>1. SealedInv /\ CleanFsyncedSurvives => FsyncedSurvives
  BY DEF SealedInv, CleanFsyncedSurvives, FsyncedSurvives
<1> QED BY <1>1, SealedInvariant, FsyncContract, PTL

(***************************************************************************)
(* And so does the contract of append: every record the live handle has    *)
(* acknowledged is returned by scan, before any fsync.                     *)
(***************************************************************************)
THEOREM AppendContract ==
  ASSUME Platform, CallerChecksReport PROVE Spec => []AppendedRecoverable
<1>1. LogInv /\ SealedInv => AppendedRecoverable
  <2> SUFFICES ASSUME LogInv, SealedInv, NEW r \in pending PROVE Returned(r)
    BY DEF AppendedRecoverable
  <2>1. Intact(r) /\ ShapeInv /\ RotationInv
    BY DEF LogInv, PendingInv, SealedInv
  <2>2. r.segment \in ListSegmentIds(files)
    BY <2>1, AllListed DEF Intact
  <2>3. files[r.segment] \in Seq(Chunk)
    BY <2>1 DEF Intact, ShapeInv, TypeOK
  <2>4. r.idx \in Replayed(files[r.segment])
    BY <2>1, <2>3, ReplayedWhole DEF Intact
  <2> QED BY <2>1, <2>2, <2>4 DEF Intact, Returned, ScanReturns
<1> QED BY <1>1, SealedInvariant, PTL

(***************************************************************************)
(* The RecordRef that append returned names the bytes of its own frame:    *)
(* active_size, which is counted and never read from the file, is where    *)
(* O_APPEND has put the frame.                                             *)
(***************************************************************************)
THEOREM RefsContract ==
  ASSUME Platform, CallerChecksReport PROVE Spec => []RefsAccurate
<1>1. LogInv /\ SealedInv => RefsAccurate
  BY DEF LogInv, PendingInv, SealedInv, RefsAccurate
<1> QED BY <1>1, SealedInvariant, PTL
=============================================================================
