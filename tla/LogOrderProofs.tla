--------------------------- MODULE LogOrderProofs ---------------------------
(***************************************************************************)
(* The order of the log: txids, and that the log implements AbstractLog.   *)
(* Proved for every value of the constants, on the platform of             *)
(* RecordLogProofs, for callers who heed the recovery report and write     *)
(* fewer records than there are txids.                                     *)
(***************************************************************************)
EXTENDS LogRefinement, RecordLogProofs

Disciplined == Platform /\ CallerChecksReport /\ MaxAppends < MaxTxid

------------------------------------------------------------------------------
(* Txids *)

\* last_txid_seen is the greatest txid that a scan returns, 0 if there is none.
LEMMA LastTxidIs ==
  ASSUME NEW F, F \in [DOMAIN F -> Seq(Chunk)]
  PROVE  /\ \A id \in ListSegmentIds(F) : \A i \in Replayed(F[id]) :
               F[id][i].txid <= LastTxidSeen(F)
         /\ \/ LastTxidSeen(F) = 0
            \/ \E id \in ListSegmentIds(F) : \E i \in Replayed(F[id]) :
                  F[id][i].txid = LastTxidSeen(F)
<1> DEFINE T == {0} \cup UNION {{F[id][i].txid : i \in Replayed(F[id])} :
                                  id \in ListSegmentIds(F)}
<1>1. \A id \in ListSegmentIds(F) : \A i \in Replayed(F[id]) :
         F[id][i].txid \in 1 .. MaxTxid
  <2> TAKE id \in ListSegmentIds(F)
  <2> TAKE i \in Replayed(F[id])
  <2>1. F[id] \in Seq(Chunk)
    BY DEF ListSegmentIds
  <2>2. i \in 1 .. Len(F[id])
    BY DEF Replayed
  <2> QED BY <2>1, <2>2, ChunkFields
<1>2. MaxTxid \in Nat
  BY WireAssumption
<1>3. T \in SUBSET Nat /\ T # {} /\ \A x \in T : x <= MaxTxid
  BY <1>1, <1>2
<1>4. Max(T) \in T /\ \A y \in T : y <= Max(T)
  <2> HIDE DEF T
  <2> QED BY <1>2, <1>3, NatMax
<1>5. LastTxidSeen(F) = Max(T)
  BY DEF LastTxidSeen
<1>6. \A id \in ListSegmentIds(F) : \A i \in Replayed(F[id]) : F[id][i].txid \in T
  OBVIOUS
<1>7. \A x \in T : \/ x = 0
                   \/ \E id \in ListSegmentIds(F) : \E i \in Replayed(F[id]) :
                         F[id][i].txid = x
  OBVIOUS
<1> HIDE DEF T
<1> QED BY <1>4, <1>5, <1>6, <1>7

\* In a segment without damage every frame is replayed.
LEMMA WholeReplayed ==
  ASSUME NEW s \in Seq(Chunk), AllWhole(s, Len(s))
  PROVE  Replayed(s) = 1 .. Len(s)
<1>1. \A i \in 1 .. Len(s) : AllWhole(s, i)
  BY DEF AllWhole
<1> QED BY <1>1, ReplayedWhole DEF Replayed

\* A scan replays an initial part of a segment, all its whole frames at least.
LEMMA ReplayedPart ==
  ASSUME NEW s \in Seq(Chunk), NEW w \in 0 .. Len(s), AllWhole(s, w)
  PROVE  \E m \in w .. Len(s) : Replayed(s) = 1 .. m
<1> DEFINE bad == {i \in 1 .. Len(s) : s[i].state # "whole"}
<1>0. Len(s) \in Nat /\ Replayed(s) \subseteq 1 .. Len(s)
  BY DEF Replayed
<1>1. CASE bad = {}
  <2>1. AllWhole(s, Len(s))
    BY <1>1 DEF AllWhole
  <2> QED BY <1>0, <2>1, WholeReplayed
<1>2. CASE bad # {}
  <2>1. PICK b \in bad : \A y \in bad : b <= y
    <3>1. bad \in SUBSET Nat
      BY <1>0
    <3> HIDE DEF bad
    <3> QED BY <1>2, <3>1, NatMin
  <2>2. b \in 1 .. Len(s) /\ s[b].state # "whole"
    OBVIOUS
  <2>3. b > w
    BY <1>0, <2>2 DEF AllWhole
  <2>4. ASSUME NEW i \in 1 .. Len(s) PROVE AllWhole(s, i) <=> i < b
    <3>1. CASE i < b
      BY <1>0, <2>1, <2>2, <3>1 DEF AllWhole
    <3>2. CASE ~(i < b)
      BY <1>0, <2>2, <3>2 DEF AllWhole
    <3> QED BY <3>1, <3>2
  <2>5. \A i \in 1 .. Len(s) : i \in Replayed(s) <=> i < b
    BY <2>4, ReplayedWhole
  <2>6. Replayed(s) = 1 .. (b - 1) /\ b - 1 \in w .. Len(s)
    <3>1. b \in Nat /\ w \in Nat /\ b <= Len(s)
      BY <1>0, <2>2
    <3>2. ASSUME NEW i PROVE i \in Replayed(s) <=> i \in 1 .. (b - 1)
      <4>1. CASE i \in 1 .. Len(s)
        BY <1>0, <2>5, <3>1, <4>1
      <4>2. CASE i \notin 1 .. Len(s)
        BY <1>0, <3>1, <4>2
      <4> QED BY <4>1, <4>2
    <3>3. Replayed(s) = 1 .. (b - 1)
      BY <3>2
    <3>4. b - 1 \in w .. Len(s)
      BY <1>0, <2>3, <3>1
    <3> QED BY <3>3, <3>4
  <2> QED BY <2>6
<1> QED BY <1>1, <1>2

(***************************************************************************)
(* Where every frame is whole, last_txid_seen + 1 is a txid that follows   *)
(* all those in the log.                                                   *)
(***************************************************************************)
LEMMA LastTxidWhole ==
  ASSUME LogInv, Disciplined, TxidsDense,
         \A id \in DOMAIN files : AllWhole(files[id], Len(files[id]))
  PROVE  /\ NextTxid(LastTxidSeen(files)) = LastTxidSeen(files) + 1
         /\ LastTxidSeen(files) \in Nat
         /\ \A id \in DOMAIN files : \A i \in 1 .. Len(files[id]) :
               files[id][i].txid <= LastTxidSeen(files)
         /\ \/ LastTxidSeen(files) = 0
            \/ \E id \in DOMAIN files : \E i \in 1 .. Len(files[id]) :
                  files[id][i].txid = LastTxidSeen(files)
<1> DEFINE last == LastTxidSeen(files)
<1>1. /\ ShapeInv /\ RotationInv /\ Platform /\ files \in [DOMAIN files -> Seq(Chunk)]
      /\ appends \in Nat /\ appends <= MaxAppends
  BY RecordLogAssumption DEF LogInv, ShapeInv, TypeOK, Disciplined
<1>2. ListSegmentIds(files) = DOMAIN files
  BY <1>1, AllListed
<1>3. \A id \in DOMAIN files : Replayed(files[id]) = 1 .. Len(files[id])
  BY <1>1, WholeReplayed
<1>4. /\ \A id \in DOMAIN files : \A i \in 1 .. Len(files[id]) : files[id][i].txid <= last
      /\ \/ last = 0
         \/ \E id \in DOMAIN files : \E i \in 1 .. Len(files[id]) : files[id][i].txid = last
  BY <1>1, <1>2, <1>3, LastTxidIs
<1>5. last \in Nat /\ MaxTxid \in Nat
  BY <1>1, LastTxidType, WireAssumption
<1>6. last <= appends
  BY <1>1, <1>4, <1>5 DEF TxidsDense
<1>7. last # MaxTxid
  BY <1>1, <1>5, <1>6, RecordLogAssumption DEF Disciplined
<1> QED BY <1>4, <1>5, <1>7 DEF NextTxid

\* A scan or an open that reports no damage gives the handle the next txid.
LEMMA NextTxidScanned ==
  ASSUME LogInv, LogInv', Disciplined, TxidsDense, ScanOk(files), files' = files,
         DOMAIN files # {},
         nextTxid' = NextTxid(LastTxidSeen(files)), report' = TailReport(files)
  PROVE  NextTxidFollows'
<1> SUFFICES ASSUME report'.tail_truncated = 0
             PROVE  NextTxidFollows'
  BY DEF NextTxidFollows
<1>1. \A id \in DOMAIN files : AllWhole(files[id], Len(files[id]))
  BY NoDamageSeen DEF LogInv, Disciplined
<1>2. /\ nextTxid' = LastTxidSeen(files) + 1
      /\ LastTxidSeen(files) \in Nat
      /\ \A id \in DOMAIN files : \A i \in 1 .. Len(files[id]) :
            files[id][i].txid <= LastTxidSeen(files)
      /\ \/ LastTxidSeen(files) = 0
         \/ \E id \in DOMAIN files : \E i \in 1 .. Len(files[id]) :
               files[id][i].txid = LastTxidSeen(files)
  BY <1>1, LastTxidWhole
<1>3. \A id \in DOMAIN files : \A i \in 1 .. Len(files[id]) : files[id][i].txid \in Nat
  <2> TAKE id \in DOMAIN files
  <2> TAKE i \in 1 .. Len(files[id])
  <2>1. files[id] \in Seq(Chunk)
    BY DEF LogInv, ShapeInv, TypeOK
  <2> QED BY <2>1, ChunkFields, WireAssumption
<1>4. \A id \in DOMAIN files : \A i \in 1 .. Len(files[id]) : files[id][i].txid < nextTxid'
  BY <1>2, <1>3
<1>5. nextTxid' > 1 => \E id \in DOMAIN files : \E i \in 1 .. Len(files[id]) :
                          files[id][i].txid = nextTxid' - 1
  BY <1>2
<1> QED BY <1>4, <1>5 DEF NextTxidFollows

\* Every frame has a txid.
LEMMA TxidType ==
  ASSUME ShapeInv
  PROVE  \A id \in DOMAIN files : \A i \in 1 .. Len(files[id]) :
            files[id][i].txid \in Nat /\ files[id][i].txid >= 1
<1> TAKE id \in DOMAIN files
<1> TAKE i \in 1 .. Len(files[id])
<1>1. files[id] \in Seq(Chunk)
  BY DEF ShapeInv, TypeOK
<1> QED BY <1>1, ChunkFields, WireAssumption

\* A step after which the same frames are there, with the same txids.
SameTxids ==
    /\ \A id \in DOMAIN files' : \A i \in 1 .. Len(files'[id]) :
          id \in DOMAIN files /\ i \in 1 .. Len(files[id]) /\ files'[id][i].txid = files[id][i].txid
    /\ \A id \in DOMAIN files : \A i \in 1 .. Len(files[id]) :
          id \in DOMAIN files' /\ i \in 1 .. Len(files'[id])

\* Such a step keeps their order.
LEMMA TxidsSame ==
  ASSUME ShapeInv, TxidsOrdered, TxidsDense, SameTxids,
         appends \in Nat, appends' \in Nat, appends <= appends'
  PROVE  TxidsOrdered' /\ TxidsDense'
<1>1. TxidsOrdered'
  BY DEF TxidsOrdered, SameTxids, Earlier
<1>2. TxidsDense'
  <2> SUFFICES ASSUME NEW id \in DOMAIN files', NEW i \in 1 .. Len(files'[id])
               PROVE  /\ files'[id][i].txid <= appends'
                      /\ \A t \in 1 .. files'[id][i].txid :
                            \E jd \in DOMAIN files' : \E j \in 1 .. Len(files'[jd]) :
                               files'[jd][j].txid = t
    BY DEF TxidsDense
  <2>1. /\ id \in DOMAIN files /\ i \in 1 .. Len(files[id])
        /\ files'[id][i].txid = files[id][i].txid
    BY DEF SameTxids
  <2>2. files[id][i].txid <= appends'
    BY <2>1, TxidType DEF TxidsDense
  <2>3. ASSUME NEW t \in 1 .. files[id][i].txid
        PROVE  \E jd \in DOMAIN files' : \E j \in 1 .. Len(files'[jd]) : files'[jd][j].txid = t
    <3>1. PICK jd \in DOMAIN files : \E j \in 1 .. Len(files[jd]) : files[jd][j].txid = t
      BY <2>1 DEF TxidsDense
    <3>2. PICK j \in 1 .. Len(files[jd]) : files[jd][j].txid = t
      BY <3>1
    <3> QED BY <3>2 DEF SameTxids
  <2> QED BY <2>1, <2>2, <2>3
<1> QED BY <1>1, <1>2

\* A new empty segment brings no frames.
LEMMA SameTxidsNew ==
  ASSUME ShapeInv, NEW new, new \notin DOMAIN files,
         files' = [i \in DOMAIN files \cup {new} |-> IF i = new THEN <<>> ELSE files[i]]
  PROVE  SameTxids
<1>1. DOMAIN files' = DOMAIN files \cup {new} /\ Len(files'[new]) = 0
      /\ \A id \in DOMAIN files : files'[id] = files[id]
  OBVIOUS
<1> QED BY <1>1 DEF SameTxids

\* append_record puts the next txid behind all the others.
LEMMA TxidAppendBegin ==
  ASSUME LogInv, LogInv', Disciplined, SealedInv, TxidInv,
         NEW d \in Data, NEW cut \in Cuts, AppendBegin(d, cut)
  PROVE  TxidsOrdered' /\ TxidsDense' /\ NextTxidFollows'
<1> DEFINE s == files[active]
           c == CutTo(EncodeRecord(nextTxid, d, FileSize(s)), cut)
<1>0. /\ ShapeInv /\ RotationInv /\ CallerChecksReport /\ Platform
      /\ TxidsOrdered /\ TxidsDense /\ NextTxidFollows
  BY DEF LogInv, Disciplined, TxidInv
<1>1. /\ active \in DOMAIN files /\ s \in Seq(Chunk) /\ nextTxid \in 1 .. MaxTxid
      /\ active = Max(DOMAIN files) /\ Len(s) \in Nat
      /\ DOMAIN files \in SUBSET Nat /\ nextTxid \in Nat /\ nextTxid >= 1
      /\ appends \in Nat
  BY <1>0, WireAssumption DEF AppendBegin, MayWrite, Ready, ShapeInv, TypeOK, Opened, RotationInv, Ids
<1>2. \A id \in DOMAIN files : id <= active
  BY <1>0, <1>1, AllListed
<1>3. c \in Chunk /\ c.txid = nextTxid
  <2>1. FileSize(s) \in Nat /\ cut \in Nat
    BY <1>1, FileSizeType, RecordLogAssumption
  <2> DEFINE e == EncodeRecord(nextTxid, d, FileSize(s))
  <2>2. e \in Chunk /\ e.txid = nextTxid
    <3> HIDE DEF s
    <3> QED BY <1>1, <2>1, WholeFrame
  <2> HIDE DEF e
  <2>3. CutTo(e, cut) \in Chunk /\ CutTo(e, cut).txid = e.txid
    BY <2>1, <2>2, CutToFacts
  <2> QED BY <2>2, <2>3 DEF e
<1>4. /\ files' = [files EXCEPT ![active] = Append(s, c)]
      /\ appends' = appends + 1 /\ nextTxid' = nextTxid /\ active' = active
      /\ pc' = "writing"
  BY DEF AppendBegin, handle
<1> HIDE DEF c
<1>5. /\ DOMAIN files' = DOMAIN files
      /\ \A id \in DOMAIN files : id # active => files'[id] = files[id]
      /\ Len(files'[active]) = Len(s) + 1
      /\ \A i \in 1 .. Len(s) : files'[active][i] = s[i]
      /\ files'[active][Len(s) + 1] = c
  BY <1>1, <1>3, <1>4
<1>6. \A id \in DOMAIN files : \A i \in 1 .. Len(files'[id]) :
         \/ i \in 1 .. Len(files[id]) /\ files'[id][i] = files[id][i]
         \/ id = active /\ i = Len(s) + 1 /\ files'[id][i].txid = nextTxid
  BY <1>1, <1>3, <1>5
<1>7. \A id \in DOMAIN files : \A i \in 1 .. Len(files[id]) :
         /\ i \in 1 .. Len(files'[id]) /\ files'[id][i] = files[id][i]
         /\ files[id][i].txid \in Nat /\ files[id][i].txid >= 1
  <2>1. ASSUME NEW id \in DOMAIN files, NEW i \in 1 .. Len(files[id])
        PROVE  i \in 1 .. Len(files'[id]) /\ files'[id][i] = files[id][i]
    <3>1. CASE id # active
      BY <1>5, <3>1
    <3>2. CASE id = active
      BY <1>1, <1>5, <3>2
    <3> QED BY <3>1, <3>2
  <2> QED BY <1>0, <2>1, TxidType
<1>8. \A id \in DOMAIN files : \A i \in 1 .. Len(files[id]) : files[id][i].txid < nextTxid
  BY <1>0 DEF NextTxidFollows, AppendBegin, MayWrite, Ready, Opened
<1>9. TxidsOrdered'
  <2> SUFFICES ASSUME NEW id \in DOMAIN files, NEW jd \in DOMAIN files,
                      NEW i \in 1 .. Len(files'[id]), NEW j \in 1 .. Len(files'[jd]),
                      Earlier(id, i, jd, j)
               PROVE  files'[id][i].txid < files'[jd][j].txid
    BY <1>5 DEF TxidsOrdered, Earlier
  <2>1. CASE i \in 1 .. Len(files[id]) /\ j \in 1 .. Len(files[jd])
    BY <1>0, <1>7, <2>1 DEF TxidsOrdered
  <2>2. CASE i \in 1 .. Len(files[id]) /\ files'[jd][j].txid = nextTxid
    BY <1>7, <1>8, <2>2
  <2>3. CASE id = active /\ i = Len(s) + 1
    BY <1>1, <1>2, <1>5, <2>3 DEF Earlier
  <2> QED BY <1>6, <2>1, <2>2, <2>3
<1>10. ASSUME NEW t \in Nat, t >= 1, t < nextTxid
       PROVE  \E jd \in DOMAIN files : \E j \in 1 .. Len(files[jd]) : files[jd][j].txid = t
  <2>1. PICK id \in DOMAIN files : \E i \in 1 .. Len(files[id]) : files[id][i].txid = nextTxid - 1
    BY <1>0, <1>1, <1>10 DEF NextTxidFollows, AppendBegin, MayWrite, Ready, Opened
  <2>2. PICK i \in 1 .. Len(files[id]) : files[id][i].txid = nextTxid - 1
    BY <2>1
  <2>3. t \in 1 .. files[id][i].txid
    BY <1>1, <1>10, <2>2
  <2> QED BY <1>0, <2>3 DEF TxidsDense
<1>11. nextTxid <= appends + 1
  <2>1. CASE nextTxid = 1
    BY <1>1, <2>1
  <2>2. CASE nextTxid > 1
    <3>1. PICK id \in DOMAIN files : \E i \in 1 .. Len(files[id]) : files[id][i].txid = nextTxid - 1
      BY <1>0, <2>2 DEF NextTxidFollows, AppendBegin, MayWrite, Ready, Opened
    <3>2. nextTxid - 1 <= appends
      BY <1>0, <3>1 DEF TxidsDense
    <3> QED BY <1>1, <3>2
  <2> QED BY <1>1, <2>1, <2>2
<1>12. TxidsDense'
  <2> SUFFICES ASSUME NEW id \in DOMAIN files, NEW i \in 1 .. Len(files'[id])
               PROVE  /\ files'[id][i].txid <= appends + 1
                      /\ \A t \in 1 .. files'[id][i].txid :
                            \E jd \in DOMAIN files : \E j \in 1 .. Len(files'[jd]) :
                               files'[jd][j].txid = t
    BY <1>4, <1>5 DEF TxidsDense
  <2>1. files'[id][i].txid \in Nat /\ files'[id][i].txid <= nextTxid
    <3>1. CASE i \in 1 .. Len(files[id]) /\ files'[id][i] = files[id][i]
      BY <1>1, <1>7, <1>8, <3>1
    <3>2. CASE files'[id][i].txid = nextTxid
      BY <1>1, <3>2
    <3> QED BY <1>6, <3>1, <3>2
  <2>2. ASSUME NEW t \in 1 .. files'[id][i].txid
        PROVE  \E jd \in DOMAIN files : \E j \in 1 .. Len(files'[jd]) : files'[jd][j].txid = t
    <3>1. CASE t < nextTxid
      <4>1. PICK jd \in DOMAIN files : \E j \in 1 .. Len(files[jd]) : files[jd][j].txid = t
        BY <1>10, <2>1, <3>1
      <4>2. PICK j \in 1 .. Len(files[jd]) : files[jd][j].txid = t
        BY <4>1
      <4>3. j \in 1 .. Len(files'[jd]) /\ files'[jd][j] = files[jd][j]
        BY <1>7
      <4> QED BY <4>2, <4>3
    <3>2. CASE t = nextTxid
      <4>1. Len(s) + 1 \in 1 .. Len(files'[active])
        BY <1>1, <1>5
      <4> QED BY <1>1, <1>3, <1>5, <3>2, <4>1
    <3> QED BY <1>1, <2>1, <3>1, <3>2
  <2> QED BY <1>1, <1>11, <2>1, <2>2
<1>13. NextTxidFollows'
  <2>1. \A id \in DOMAIN files' : \A i \in 1 .. Len(files'[id]) :
           files'[id][i].txid < nextTxid' \/ (id = active' /\ i = Len(files'[active']))
    BY <1>4, <1>5, <1>6, <1>8
  <2>2. nextTxid' > 1 => \E id \in DOMAIN files' : \E i \in 1 .. Len(files'[id]) :
                            files'[id][i].txid = nextTxid' - 1
    <3> SUFFICES ASSUME nextTxid > 1
                 PROVE  \E id \in DOMAIN files' : \E i \in 1 .. Len(files'[id]) :
                            files'[id][i].txid = nextTxid - 1
      BY <1>4
    <3>1. nextTxid - 1 \in Nat /\ nextTxid - 1 >= 1 /\ nextTxid - 1 < nextTxid
      BY <1>1
    <3>2. PICK id \in DOMAIN files : \E i \in 1 .. Len(files[id]) : files[id][i].txid = nextTxid - 1
      BY <1>10, <3>1
    <3> QED BY <1>5, <1>7, <3>2
  <2> QED BY <1>4, <2>1, <2>2 DEF NextTxidFollows, ActiveFile
<1> QED BY <1>9, <1>12, <1>13 DEF TxidInv

\* The frame that write_all completes keeps its txid.
LEMMA CompletedTxids ==
  ASSUME ShapeInv, AppendFinish
  PROVE  /\ SameTxids
         /\ DOMAIN files' = DOMAIN files
         /\ active \in DOMAIN files
         /\ Len(files'[active]) = Len(files[active])
         /\ Len(files[active]) \in Nat /\ Len(files[active]) > 0
         /\ \A id \in DOMAIN files : id # active => files'[id] = files[id]
         /\ \A i \in 1 .. (Len(files[active]) - 1) : files'[active][i] = files[active][i]
         /\ files'[active][Len(files[active])] =
              EncodeRecord(files[active][Len(files[active])].txid,
                           files[active][Len(files[active])].data,
                           files[active][Len(files[active])].at)
<1> DEFINE s == files[active]
<1>1. active \in DOMAIN files /\ s \in Seq(Chunk) /\ Laid(s) /\ Len(s) > 0 /\ Len(s) \in Nat
  BY DEF AppendFinish, ShapeInv, TypeOK, Opened, ActiveFile
<1>2. files' = [files EXCEPT ![active] = Completed(s)]
  BY DEF AppendFinish
<1>3. /\ Len(Completed(s)) = Len(s)
      /\ \A i \in 1 .. (Len(s) - 1) : Completed(s)[i] = s[i]
      /\ Completed(s)[Len(s)] = EncodeRecord(s[Len(s)].txid, s[Len(s)].data, s[Len(s)].at)
  <2> HIDE DEF s
  <2> QED BY <1>1, CompletedFacts
<1>4. \A i \in 1 .. Len(s) : Completed(s)[i].txid = s[i].txid
  BY <1>1, <1>3 DEF EncodeRecord
<1>5. DOMAIN files' = DOMAIN files /\ files'[active] = Completed(s)
      /\ \A id \in DOMAIN files : id # active => files'[id] = files[id]
  BY <1>1, <1>2
<1>6. SameTxids
  BY <1>1, <1>3, <1>4, <1>5 DEF SameTxids
<1> QED BY <1>1, <1>3, <1>5, <1>6

\* append_record's end moves the handle on to the txid after it.
LEMMA TxidAppendFinish ==
  ASSUME LogInv, LogInv', SealedInv, TxidInv, AppendFinish
  PROVE  TxidsOrdered' /\ TxidsDense' /\ NextTxidFollows'
<1>0. ShapeInv /\ WritingInv /\ TxidsOrdered /\ TxidsDense /\ NextTxidFollows /\ RotationInv
  BY DEF LogInv, TxidInv
<1>1. appends' = appends /\ appends \in Nat /\ nextTxid \in Nat /\ active' = active
      /\ pc = "writing"
  BY <1>0, WireAssumption DEF AppendFinish, ShapeInv, TypeOK
<1>2. TxidsOrdered' /\ TxidsDense'
  BY <1>0, <1>1, CompletedTxids, TxidsSame
<1>3. NextTxidFollows'
  <2> SUFFICES ASSUME ~poisoned' PROVE NextTxidFollows'
    BY DEF NextTxidFollows
  <2>1. nextTxid' = nextTxid + 1
    BY DEF AppendFinish, Poison
  <2>2. Opened /\ ~poisoned /\ report.tail_truncated = 0
    BY <1>0, <1>1 DEF Opened, RotationInv, SealedInv
  <2>3. /\ active \in DOMAIN files /\ Len(files[active]) \in 1 .. Len(files[active])
        /\ files[active][Len(files[active])].txid = nextTxid
    BY <1>0, <1>1, CompletedTxids DEF WritingInv, ActiveFile
  <2>4. \A id \in DOMAIN files : \A i \in 1 .. Len(files[id]) : files[id][i].txid < nextTxid + 1
    <3> SUFFICES ASSUME NEW id \in DOMAIN files, NEW i \in 1 .. Len(files[id])
                 PROVE  files[id][i].txid < nextTxid + 1
      OBVIOUS
    <3>1. files[id][i].txid \in Nat
      BY <1>0, TxidType
    <3>2. files[id][i].txid < nextTxid \/ (id = active /\ i = Len(files[active]))
      BY <1>0, <2>2 DEF NextTxidFollows, ActiveFile
    <3> QED BY <1>1, <2>3, <3>1, <3>2
  <2>5. SameTxids
    BY <1>0, CompletedTxids
  <2>6. \A id \in DOMAIN files' : \A i \in 1 .. Len(files'[id]) : files'[id][i].txid < nextTxid'
    BY <2>1, <2>4, <2>5 DEF SameTxids
  <2>7. \E id \in DOMAIN files' : \E i \in 1 .. Len(files'[id]) :
           files'[id][i].txid = nextTxid' - 1
    BY <1>1, <2>1, <2>3, <2>5 DEF SameTxids
  <2> QED BY <2>6, <2>7 DEF NextTxidFollows
<1> QED BY <1>2, <1>3 DEF TxidInv

(***************************************************************************)
(* Power loss takes frames from the end of the log only: what precedes a   *)
(* frame that is left, is left too.  Frames that are left keep their       *)
(* record, and stay whole or become damaged.                               *)
(***************************************************************************)
LEMMA PowerLossFrames ==
  ASSUME LogInv, SealedInv, Platform, PowerLoss
  PROVE  /\ \A id \in DOMAIN files' : \A i \in 1 .. Len(files'[id]) :
               /\ id \in DOMAIN files /\ i \in 1 .. Len(files[id])
               /\ Remains(files[id][i], files'[id][i])
         /\ \A id \in DOMAIN files', jd \in DOMAIN files :
               \A i \in 1 .. Len(files'[id]), j \in 1 .. Len(files[jd]) :
                  Earlier(jd, j, id, i) =>
                     /\ jd \in DOMAIN files' /\ j \in 1 .. Len(files'[jd])
                     /\ files'[jd][j] = files[jd][j]
<1>0. ShapeInv /\ RotationInv /\ dropped = {}
  BY DEF LogInv
<1>1. \A id \in DOMAIN files' :
         /\ id \in DOMAIN files /\ files'[id] \in Seq(Chunk) /\ Len(files'[id]) \in Nat
         /\ files[id] \in Seq(Chunk) /\ Len(files[id]) \in Nat /\ id \in Nat
         /\ Len(files'[id]) <= Len(files[id])
         /\ synced[id] \in Nat /\ synced[id] <= Len(files'[id])
         /\ \A i \in 1 .. synced[id] : files'[id][i] = files[id][i]
         /\ \A i \in 1 .. (Len(files'[id]) - 1) : files'[id][i] = files[id][i]
         /\ \A i \in 1 .. Len(files'[id]) : Remains(files[id][i], files'[id][i])
         /\ \A lower \in DOMAIN files : lower < id => lower \in DOMAIN files'
  <2> TAKE id \in DOMAIN files'
  <2>1. id \in DOMAIN files
    BY <1>0, PowerLossFacts
  <2>2. /\ files[id] \in Seq(Chunk) /\ Len(files[id]) \in Nat /\ id \in Nat
        /\ Laid(files[id]) /\ synced[id] \in Nat
    BY <1>0, <2>1 DEF ShapeInv, TypeOK, Ids
  <2>3. OnDisk(id) = files[id]
    BY <1>0, <2>1, <2>2, OnDiskFacts
  <2>4. /\ files'[id] \in Seq(Chunk)
        /\ synced[id] <= synced'[id]
        /\ synced'[id] = Len(files'[id])
        /\ Len(files'[id]) <= Len(files[id])
        /\ \A i \in 1 .. synced[id] : files'[id][i] = OnDisk(id)[i]
        /\ \A i \in 1 .. (Len(files'[id]) - 1) : files'[id][i] = OnDisk(id)[i]
        /\ \A i \in 1 .. Len(files'[id]) : Remains(OnDisk(id)[i], files'[id][i])
        /\ \A lower \in DOMAIN files : lower < id => lower \in DOMAIN files'
    BY <1>0, PowerLossFacts
  <2> QED BY <2>1, <2>2, <2>3, <2>4
<1>2. ASSUME NEW id \in DOMAIN files', NEW i \in 1 .. Len(files'[id])
      PROVE  /\ id \in DOMAIN files /\ i \in 1 .. Len(files[id])
             /\ Remains(files[id][i], files'[id][i])
  BY <1>1
<1>3. ASSUME NEW id \in DOMAIN files', NEW jd \in DOMAIN files,
             NEW i \in 1 .. Len(files'[id]), NEW j \in 1 .. Len(files[jd]),
             Earlier(jd, j, id, i)
      PROVE  /\ jd \in DOMAIN files' /\ j \in 1 .. Len(files'[jd])
             /\ files'[jd][j] = files[jd][j]
  <2>1. CASE jd = id /\ j < i
    <3>1. Len(files'[id]) \in Nat
      BY <1>1
    <3>2. j \in 1 .. (Len(files'[id]) - 1) /\ j \in 1 .. Len(files'[id])
      BY <2>1, <3>1
    <3> QED BY <1>1, <2>1, <3>2
  <2>2. CASE jd < id
    <3>1. jd \in DOMAIN files' /\ id \in DOMAIN files
      BY <1>1, <2>2
    <3>2. jd \in Nat /\ id \in Nat /\ jd # Max(DOMAIN files)
      BY <1>0, <1>1, <2>2, <3>1, AllListed
    <3>3. synced[jd] = Len(files[jd])
      BY <3>2 DEF SealedInv
    <3>4. j \in 1 .. synced[jd] /\ j \in 1 .. Len(files'[jd])
      BY <1>1, <3>1, <3>3
    <3> QED BY <1>1, <3>1, <3>4
  <2> QED BY <1>3, <2>1, <2>2 DEF Earlier
<1> QED BY <1>2, <1>3

\* Two frames of the log are one, or one of them is earlier.
LEMMA EarlierTotal ==
  ASSUME NEW id \in Int, NEW jd \in Int, NEW i \in Int, NEW j \in Int
  PROVE  Earlier(id, i, jd, j) \/ Earlier(jd, j, id, i) \/ (id = jd /\ i = j)
BY DEF Earlier

\* So power loss leaves the txids from 1 on to some point.
LEMMA TxidPowerLoss ==
  ASSUME LogInv, SealedInv, Platform, TxidInv, PowerLoss
  PROVE  TxidsOrdered' /\ TxidsDense' /\ NextTxidFollows'
<1>0. ShapeInv /\ TxidsOrdered /\ TxidsDense
  BY DEF LogInv, TxidInv
<1>1. \A id \in DOMAIN files' : \A i \in 1 .. Len(files'[id]) :
         /\ id \in DOMAIN files /\ i \in 1 .. Len(files[id])
         /\ files'[id][i].txid = files[id][i].txid
  BY PowerLossFrames DEF Remains
<1>2. TxidsOrdered'
  BY <1>0, <1>1 DEF TxidsOrdered, Earlier
<1>3. TxidsDense'
  <2> SUFFICES ASSUME NEW id \in DOMAIN files', NEW i \in 1 .. Len(files'[id])
               PROVE  /\ files'[id][i].txid <= appends'
                      /\ \A t \in 1 .. files'[id][i].txid :
                            \E jd \in DOMAIN files' : \E j \in 1 .. Len(files'[jd]) :
                               files'[jd][j].txid = t
    BY DEF TxidsDense
  <2>1. files'[id][i].txid <= appends'
    BY <1>0, <1>1 DEF TxidsDense, PowerLoss
  <2>2. ASSUME NEW t \in 1 .. files'[id][i].txid
        PROVE  \E jd \in DOMAIN files' : \E j \in 1 .. Len(files'[jd]) : files'[jd][j].txid = t
    <3>1. id \in DOMAIN files /\ i \in 1 .. Len(files[id]) /\ files'[id][i].txid = files[id][i].txid
      BY <1>1
    <3>2. PICK jd \in DOMAIN files : \E j \in 1 .. Len(files[jd]) : files[jd][j].txid = t
      BY <1>0, <3>1 DEF TxidsDense
    <3>3. PICK j \in 1 .. Len(files[jd]) : files[jd][j].txid = t
      BY <3>2
    <3>4. files[id][i].txid \in Nat /\ t <= files[id][i].txid /\ t \in Nat
      BY <1>0, <3>1, TxidType
    <3>5. ~Earlier(id, i, jd, j)
      BY <1>0, <3>1, <3>3, <3>4 DEF TxidsOrdered
    <3>6. id \in Int /\ jd \in Int /\ i \in Int /\ j \in Int
      BY <1>0, <3>1 DEF ShapeInv, TypeOK, Ids
    <3>7. CASE Earlier(jd, j, id, i)
      BY <3>3, <3>7, PowerLossFrames
    <3>8. CASE id = jd /\ i = j
      BY <3>1, <3>3, <3>8
    <3> QED BY <3>5, <3>6, <3>7, <3>8, EarlierTotal
  <2> QED BY <2>1, <2>2
<1>4. NextTxidFollows'
  BY DEF NextTxidFollows, PowerLoss, NoHandle, Opened
<1> QED BY <1>2, <1>3, <1>4 DEF TxidInv

\* What is in the log no later than a frame that is replayed, is replayed.
LEMMA BeforeReplayed ==
  ASSUME LogInv, SealedInv, Platform, TxidsOrdered,
         NEW id \in DOMAIN files, NEW i \in Replayed(files[id]),
         NEW jd \in DOMAIN files, NEW j \in 1 .. Len(files[jd]),
         files[jd][j].txid <= files[id][i].txid
  PROVE  j \in Replayed(files[jd])
<1>a. ShapeInv /\ RotationInv /\ i \in 1 .. Len(files[id])
  BY DEF LogInv, Replayed
<1>b. id \in Int /\ jd \in Int /\ files[id] \in Seq(Chunk) /\ files[jd] \in Seq(Chunk)
  BY <1>a DEF ShapeInv, TypeOK, Ids
<1>c. files[jd][j].txid \in Nat /\ files[id][i].txid \in Nat
  BY <1>a, TxidType
<1>0. /\ ShapeInv /\ RotationInv /\ id \in Int /\ jd \in Int /\ i \in 1 .. Len(files[id])
      /\ i \in Int /\ j \in Int /\ files[id] \in Seq(Chunk) /\ files[jd] \in Seq(Chunk)
      /\ files[jd][j].txid \in Nat /\ files[id][i].txid \in Nat
  BY <1>a, <1>b, <1>c
<1>1. ~Earlier(id, i, jd, j)
  BY <1>0 DEF TxidsOrdered
<1>2. CASE id = jd /\ i = j
  BY <1>2
<1>3. CASE id = jd /\ j < i
  <2>1. AllWhole(files[id], i)
    BY <1>0, ReplayedWhole
  <2>2. AllWhole(files[jd], j)
    BY <1>0, <1>3, <2>1 DEF AllWhole
  <2> QED BY <1>0, <2>2, ReplayedWhole
<1>4. CASE jd < id
  <2>1. jd # Max(DOMAIN files)
    BY <1>0, <1>4, AllListed
  <2>2. AllWhole(files[jd], Len(files[jd]))
    BY <2>1 DEF SealedInv
  <2>3. AllWhole(files[jd], j)
    BY <1>0, <2>2 DEF AllWhole
  <2> QED BY <1>0, <2>3, ReplayedWhole
<1> QED BY <1>0, <1>1, <1>2, <1>3, <1>4, EarlierTotal DEF Earlier

\* Every step keeps the order of the txids.
LEMMA TxidOrderStep ==
  ASSUME LogInv, LogInv', SealedInv, Disciplined, TxidInv, [Next]_vars
  PROVE  TxidsOrdered' /\ TxidsDense' /\ NextTxidFollows'
<1>0. /\ ShapeInv /\ RotationInv /\ Platform /\ TxidsOrdered /\ TxidsDense /\ NextTxidFollows
      /\ appends \in Nat /\ appends' \in Nat
  <2>1. ShapeInv /\ ShapeInv' /\ RotationInv
    BY DEF LogInv
  <2>2. appends \in 0 .. MaxAppends /\ appends' \in 0 .. MaxAppends
    BY <2>1 DEF ShapeInv, TypeOK
  <2> QED BY <2>1, <2>2 DEF Disciplined, TxidInv
<1>1. ASSUME files' = files, appends' = appends
      PROVE  TxidsOrdered' /\ TxidsDense'
  BY <1>0, <1>1 DEF TxidsOrdered, TxidsDense, Earlier
<1>2. CASE OpenFails \/ Close \/ Crash \/ Fails
  <2>1. files' = files /\ appends' = appends
    BY <1>2 DEF OpenFails, Close, Crash, Fails, AppendError, SyncAllError, DirectoryError, disk
  <2>2. ~Opened' \/ poisoned'
    BY <1>2, FailsFacts DEF OpenFails, Close, Crash, NoHandle, Opened
  <2> QED BY <1>1, <2>1, <2>2 DEF TxidInv, NextTxidFollows
<1>3. CASE PowerLoss
  BY <1>0, <1>3, TxidPowerLoss
<1>4. CASE OpenCreate
  <2>1. 1 \notin DOMAIN files
    BY <1>0, <1>4, AllListed DEF OpenCreate
  <2>2. SameTxids /\ appends' = appends
    BY <1>0, <1>4, <2>1, SameTxidsNew DEF OpenCreate
  <2>3. TxidsOrdered' /\ TxidsDense'
    BY <1>0, <2>2, TxidsSame
  <2> QED BY <1>4, <2>3 DEF TxidInv, NextTxidFollows, OpenCreate, Opened
<1>5. CASE OpenCreated \/ OpenExisting \/ Scan
  <2>1. /\ files' = files /\ appends' = appends /\ ScanOk(files)
        /\ nextTxid' = NextTxid(LastTxidSeen(files)) /\ report' = TailReport(files)
    BY <1>5 DEF OpenCreated, OpenExisting, Scan, OpenScanned, disk
  <2>2. DOMAIN files # {}
    BY <1>0, <1>5 DEF OpenCreated, OpenExisting, Scan, ShapeInv, Opened, ListSegmentIds
  <2>3. NextTxidFollows'
    BY <1>0, <2>1, <2>2, NextTxidScanned
  <2> QED BY <1>1, <2>1, <2>3 DEF TxidInv
<1>6. CASE \E d \in Data, cut \in Cuts : AppendBegin(d, cut)
  BY <1>6, TxidAppendBegin
<1>7. CASE AppendFinish
  BY <1>7, TxidAppendFinish
<1>8. CASE RotateCreate
  <2>1. /\ NextSegmentId(ListSegmentIds(files)) = active + 1
        /\ active + 1 \notin DOMAIN files /\ active \in Nat
    BY <1>0, <1>8, NewSegment DEF RotateCreate
  <2>2. /\ files' = [i \in DOMAIN files \cup {active + 1} |->
                        IF i = active + 1 THEN <<>> ELSE files[i]]
        /\ appends' = appends /\ nextTxid' = nextTxid /\ report' = report
        /\ poisoned' = poisoned /\ pc = "rotating"
    BY <1>8, <2>1 DEF RotateCreate
  <2>3. SameTxids
    BY <1>0, <2>1, <2>2, SameTxidsNew
  <2>4. TxidsOrdered' /\ TxidsDense'
    BY <1>0, <2>2, <2>3, TxidsSame
  <2>5. NextTxidFollows'
    BY <1>0, <2>2, <2>3 DEF NextTxidFollows, SameTxids, Opened
  <2> QED BY <2>4, <2>5 DEF TxidInv
<1>9. CASE \/ FsyncBegin \/ RotateBegin \/ FsyncFinish \/ RotateListError
           \/ RotateSyncDir \/ RotateFinish \/ OpenRefused \/ UNCHANGED vars
  <2>1. /\ files' = files /\ appends' = appends /\ nextTxid' = nextTxid
        /\ report' = report /\ poisoned' = poisoned
        /\ Opened' => Opened
        /\ pc # "writing" \/ (pc' = "writing" /\ active' = active)
    BY <1>9 DEF FsyncBegin, RotateBegin, SyncAll, Ready, MayWrite, FsyncFinish, RotateListError,
       RotateSyncDir, RotateFinish, OpenRefused, vars, disk, handle, Opened
  <2>2. NextTxidFollows'
    BY <1>0, <2>1 DEF NextTxidFollows, ActiveFile
  <2> QED BY <1>1, <2>1, <2>2 DEF TxidInv
<1> QED
  BY <1>2, <1>3, <1>4, <1>5, <1>6, <1>7, <1>8, <1>9
  DEF Next, Running, Progress, Fails

(***************************************************************************)
(* A handle that accepts writes, and found no damage when it opened,       *)
(* agrees with the files.                                                  *)
(***************************************************************************)
LEMMA ReadyInSync ==
  ASSUME Disciplined, LogInv, SealedInv, TxidInv, Ready, report.tail_truncated = 0
  PROVE  /\ \A id \in DOMAIN files : AllWhole(files[id], Len(files[id]))
         /\ active \in DOMAIN files
         /\ active = ActiveSegmentId(files)
         /\ activeSize = FileSize(ActiveFile)
         /\ nextTxid = NextTxid(LastTxidSeen(files))
<1>1. /\ ShapeInv /\ RotationInv /\ CleanHandleInv /\ Platform /\ TxidsDense /\ NextTxidFollows
      /\ Opened /\ ~poisoned /\ pc = "idle"
  BY DEF LogInv, TxidInv, Disciplined, Ready, Opened
<1>2. active = Max(DOMAIN files) /\ active \in DOMAIN files
  BY <1>1 DEF RotationInv, ShapeInv
<1>3. active = ActiveSegmentId(files)
  BY <1>1, <1>2, AllListed
<1>4. activeSize = FileSize(ActiveFile) /\ AllWhole(files[active], Len(files[active]))
  BY <1>1 DEF CleanHandleInv, ActiveFile
<1>5. \A id \in DOMAIN files : AllWhole(files[id], Len(files[id]))
  BY <1>2, <1>4 DEF SealedInv
<1>6. /\ NextTxid(LastTxidSeen(files)) = LastTxidSeen(files) + 1
      /\ LastTxidSeen(files) \in Nat
      /\ \A id \in DOMAIN files : \A i \in 1 .. Len(files[id]) :
            files[id][i].txid <= LastTxidSeen(files)
      /\ \/ LastTxidSeen(files) = 0
         \/ \E id \in DOMAIN files : \E i \in 1 .. Len(files[id]) :
               files[id][i].txid = LastTxidSeen(files)
  BY <1>1, <1>5, LastTxidWhole
<1>7. /\ \A id \in DOMAIN files : \A i \in 1 .. Len(files[id]) : files[id][i].txid < nextTxid
      /\ nextTxid > 1 => \E id \in DOMAIN files : \E i \in 1 .. Len(files[id]) :
                            files[id][i].txid = nextTxid - 1
      /\ nextTxid \in Nat /\ nextTxid >= 1
  BY <1>1, WireAssumption DEF NextTxidFollows, ShapeInv, TypeOK
<1>8. LastTxidSeen(files) < nextTxid
  BY <1>6, <1>7
<1>9. nextTxid - 1 <= LastTxidSeen(files)
  BY <1>6, <1>7
<1> QED BY <1>2, <1>3, <1>4, <1>5, <1>6, <1>7, <1>8, <1>9

\* Every step keeps PendingLast.
LEMMA PendingLastStep ==
  ASSUME Disciplined, LogInv, LogInv', SealedInv, TxidInv, [Next]_vars
  PROVE  PendingLast'
<1>0. ShapeInv /\ RotationInv /\ Platform /\ PendingLast
  BY DEF LogInv, Disciplined, TxidInv
<1>1. CASE Ends \/ Fails
  BY <1>0, <1>1, EndsFacts, FailsFacts DEF PendingLast
<1>2. CASE OpenCreate \/ OpenCreated \/ OpenExisting
  BY <1>0, <1>2 DEF OpenCreate, OpenCreated, OpenExisting, OpenScanned, PendingLast, Opened
<1>3. CASE AppendFinish
  <2> SUFFICES ASSUME ~poisoned' PROVE PendingLast'
    BY DEF PendingLast
  <2> DEFINE frame == Completed(ActiveFile)[Len(ActiveFile)]
             new == [segment |-> active, offset |-> activeSize, len |-> frame.len,
                     txid |-> nextTxid, data |-> frame.data, idx |-> Len(ActiveFile),
                     clean |-> report.tail_truncated = 0]
  <2>1. pending' = pending \cup {new} /\ nextTxid' = nextTxid + 1 /\ report' = report
    BY <1>3 DEF AppendFinish, Poison
  <2>2. new.txid = nextTxid
    OBVIOUS
  <2>3. report.tail_truncated = 0
    BY <1>3 DEF SealedInv, AppendFinish
  <2>4. nextTxid \in Nat
    BY <1>0, WireAssumption DEF ShapeInv, TypeOK
  <2> HIDE DEF new
  <2>5. \E r \in pending' : r.txid = nextTxid' - 1
    BY <2>1, <2>2, <2>4
  <2> QED BY <2>1, <2>3, <2>5 DEF PendingLast
<1>4. CASE Scan
  <2> SUFFICES ASSUME ~poisoned', pending' # {} PROVE PendingLast'
    BY DEF PendingLast
  <2>1. /\ Ready /\ pending' = pending /\ pending # {} /\ Opened
        /\ nextTxid' = NextTxid(LastTxidSeen(files)) /\ report' = TailReport(files)
    BY <1>4 DEF Scan, Ready, history, Opened
  <2>2. report.tail_truncated = 0 /\ \E r \in pending : r.txid = nextTxid - 1
    BY <1>0, <2>1 DEF PendingLast, Ready
  <2>3. /\ \A id \in DOMAIN files : AllWhole(files[id], Len(files[id]))
        /\ active \in DOMAIN files /\ active = ActiveSegmentId(files)
        /\ nextTxid' = nextTxid
    BY <2>1, <2>2, ReadyInSync
  <2>4. files[active] \in Seq(Chunk)
    BY <1>0, <2>3 DEF ShapeInv, TypeOK
  <2>5. \A i \in 1 .. Len(files[active]) : DecodeNext(files[active], i) = "Ok"
    BY <2>3, <2>4, DecodeOk DEF AllWhole
  <2>6. LogicalEnd(files[active]) = FileSize(files[active])
    BY <2>5 DEF LogicalEnd
  <2>7. report'.tail_truncated = 0
    BY <2>1, <2>3, <2>6 DEF TailReport, NoReport
  <2> QED BY <2>1, <2>2, <2>3, <2>7 DEF PendingLast
<1>5. CASE \/ \E d \in Data, cut \in Cuts : AppendBegin(d, cut)
           \/ FsyncBegin \/ RotateBegin \/ RotateListError \/ RotateCreate
           \/ RotateSyncDir \/ OpenRefused \/ UNCHANGED vars
  <2>1. \/ poisoned'
        \/ /\ pending' = pending /\ nextTxid' = nextTxid /\ report' = report
           /\ poisoned' = poisoned /\ (Opened' => Opened)
    BY <1>5 DEF AppendBegin, FsyncBegin, RotateBegin, SyncAll, Ready, MayWrite, RotateListError,
       RotateCreate, Poison, RotateSyncDir, OpenRefused, vars, handle, history, Opened
  <2> QED BY <1>0, <2>1 DEF PendingLast
<1>6. CASE FsyncFinish \/ RotateFinish
  BY <1>6 DEF FsyncFinish, RotateFinish, Acknowledge, PendingLast
<1> QED
  BY <1>1, <1>2, <1>3, <1>4, <1>5, <1>6
  DEF Next, Running, Progress, Ends, Fails

(***************************************************************************)
(* TxidInv is an invariant of the log.                                     *)
(***************************************************************************)
LEMMA TxidInvariant ==
  ASSUME Disciplined PROVE Spec => [](LogInv /\ SealedInv /\ TxidInv)
<1>1. Init => TxidInv
  BY DEF Init, TxidInv, TxidsOrdered, TxidsDense, NextTxidFollows, PendingLast, Opened
<1>2. LogInv /\ SealedInv /\ TxidInv /\ [Next]_vars => (LogInv /\ SealedInv /\ TxidInv)'
  <2> SUFFICES ASSUME LogInv, SealedInv, TxidInv, [Next]_vars
               PROVE  (LogInv /\ SealedInv /\ TxidInv)'
    OBVIOUS
  <2>1. LogInv' /\ SealedInv'
    BY LogInvStep, SealedStep DEF Disciplined
  <2>2. TxidsOrdered' /\ TxidsDense' /\ NextTxidFollows' /\ PendingLast'
    BY <2>1, TxidOrderStep, PendingLastStep
  <2> QED BY <2>1, <2>2 DEF TxidInv
<1> QED BY <1>1, <1>2, LogInvInit, SealedInit, PTL DEF Spec

(***************************************************************************)
(* Poisoning does its job: a handle that accepts writes, and found no      *)
(* damage when it opened, agrees with the files about the active segment,  *)
(* its size and the next txid, so that the next append_record puts a frame *)
(* where a scan will find it, under a txid of its own.                     *)
(***************************************************************************)
THEOREM HandleStaysInSync ==
  ASSUME Disciplined PROVE Spec => []HandleInSync
<1>1. LogInv /\ SealedInv /\ TxidInv => HandleInSync
  BY ReadyInSync DEF HandleInSync
<1> QED BY <1>1, TxidInvariant, PTL

\* F is a directory of segments, all of them listed.
Listed(F) ==
    /\ F \in [DOMAIN F -> Seq(Chunk)]
    /\ DOMAIN F \in SUBSET Nat
    /\ ListSegmentIds(F) = DOMAIN F

\* Among the frames that scans of F return, txids are 1, 2, 3 ... in order.
OneByOne(F) ==
    /\ Listed(F)
    /\ \A id, jd \in DOMAIN F : \A i \in Replayed(F[id]), j \in Replayed(F[jd]) :
          Earlier(id, i, jd, j) => F[id][i].txid < F[jd][j].txid
    /\ \A t \in 1 .. LastTxidSeen(F) :
          \E id \in DOMAIN F : \E i \in Replayed(F[id]) : F[id][i].txid = t

\* TxidInv makes them so.
LEMMA LogOneByOne ==
  ASSUME Disciplined, LogInv, SealedInv, TxidInv
  PROVE  OneByOne(files)
<1>0. ListSegmentIds(files) = DOMAIN files /\ DOMAIN files \in SUBSET Nat
  BY AllListed DEF LogInv, Disciplined, ShapeInv, TypeOK, Ids
<1>1. /\ ShapeInv /\ RotationInv /\ Platform /\ TxidsDense /\ TxidsOrdered
      /\ files \in [DOMAIN files -> Seq(Chunk)]
  BY DEF LogInv, TxidInv, Disciplined, ShapeInv, TypeOK
<1>2. \A id \in DOMAIN files : Replayed(files[id]) \subseteq 1 .. Len(files[id])
  BY DEF Replayed
<1>3. ASSUME NEW t \in 1 .. LastTxidSeen(files)
      PROVE  \E id \in DOMAIN files : \E i \in Replayed(files[id]) : files[id][i].txid = t
  <2>1. LastTxidSeen(files) \in Nat /\ t \in Nat /\ 1 <= t /\ t <= LastTxidSeen(files)
    BY <1>1, LastTxidType, WireAssumption
  <2>2. PICK id \in DOMAIN files : \E i \in Replayed(files[id]) :
                files[id][i].txid = LastTxidSeen(files)
    BY <1>1, <2>1, LastTxidIs DEF ListSegmentIds
  <2>3. PICK i \in Replayed(files[id]) : files[id][i].txid = LastTxidSeen(files)
    BY <2>2
  <2>4. i \in 1 .. Len(files[id])
    BY <1>2
  <2>5. PICK jd \in DOMAIN files : \E j \in 1 .. Len(files[jd]) : files[jd][j].txid = t
    BY <1>1, <2>1, <2>3, <2>4 DEF TxidsDense
  <2>6. PICK j \in 1 .. Len(files[jd]) : files[jd][j].txid = t
    BY <2>5
  <2>7. j \in Replayed(files[jd])
    BY <1>1, <2>1, <2>3, <2>4, <2>6, BeforeReplayed
  <2> QED BY <2>6, <2>7
<1> QED BY <1>0, <1>1, <1>2, <1>3 DEF OneByOne, Listed, TxidsOrdered

(***************************************************************************)
(* The txids that a scan returns are 1, 2, 3 ... in the order of the log:  *)
(* none is reused, skipped or out of order, across any number of I/O       *)
(* errors, crashes, power losses and reopenings.                           *)
(***************************************************************************)
THEOREM TxidsStayContiguous ==
  ASSUME Disciplined PROVE Spec => []TxidsContiguous
<1>1. LogInv /\ SealedInv /\ TxidInv => TxidsContiguous
  BY LogOneByOne DEF TxidsContiguous, OneByOne, Listed, Earlier
<1> QED BY <1>1, TxidInvariant, PTL

------------------------------------------------------------------------------
(* Refinement *)

\* The frames of such a log that scans return have a txid each, up to the last.
LEMMA OneByOneTxids ==
  ASSUME NEW F, OneByOne(F)
  PROVE  /\ LastTxidSeen(F) \in Nat
         /\ \A id \in DOMAIN F : \A i \in Replayed(F[id]) :
               /\ F[id][i].txid \in 1 .. LastTxidSeen(F)
               /\ F[id][i].data \in Data
         /\ \A id, jd \in DOMAIN F : \A i \in Replayed(F[id]), j \in Replayed(F[jd]) :
               F[id][i].txid = F[jd][j].txid => id = jd /\ i = j
<1>1. LastTxidSeen(F) \in Nat
  BY LastTxidType, WireAssumption DEF OneByOne, Listed
<1>2. \A id \in DOMAIN F : \A i \in Replayed(F[id]) :
         i \in Nat /\ F[id][i].txid \in 1 .. MaxTxid /\ F[id][i].data \in Data
  <2> TAKE id \in DOMAIN F
  <2> TAKE i \in Replayed(F[id])
  <2>1. F[id] \in Seq(Chunk) /\ i \in 1 .. Len(F[id])
    BY DEF OneByOne, Listed, Replayed
  <2> QED BY <2>1, ChunkFields
<1>3. \A id \in DOMAIN F : \A i \in Replayed(F[id]) : F[id][i].txid <= LastTxidSeen(F)
  BY LastTxidIs DEF OneByOne, Listed
<1>4. ASSUME NEW id \in DOMAIN F, NEW jd \in DOMAIN F,
             NEW i \in Replayed(F[id]), NEW j \in Replayed(F[jd]),
             F[id][i].txid = F[jd][j].txid
      PROVE  id = jd /\ i = j
  <2>1. id \in Int /\ jd \in Int /\ i \in Int /\ j \in Int
    BY <1>2 DEF OneByOne, Listed
  <2>2. F[id][i].txid \in Nat /\ F[jd][j].txid \in Nat
    BY <1>2, WireAssumption
  <2>3. ~Earlier(id, i, jd, j) /\ ~Earlier(jd, j, id, i)
    BY <1>4, <2>2 DEF OneByOne, Listed
  <2> QED BY <2>1, <2>3, EarlierTotal
<1> QED BY <1>1, <1>2, <1>3, <1>4, WireAssumption

\* The mapped log is a sequence of data, each the data of the one frame with
\* its txid.
LEMMA LogOfFacts ==
  ASSUME NEW F, OneByOne(F)
  PROVE  /\ LogOf(F) \in Seq(Data)
         /\ Len(LogOf(F)) = LastTxidSeen(F)
         /\ \A id \in DOMAIN F : \A i \in Replayed(F[id]) :
               LogOf(F)[F[id][i].txid] = F[id][i].data
<1>0. LastTxidSeen(F) \in Nat
  BY OneByOneTxids
<1>1. ASSUME NEW id \in DOMAIN F, NEW i \in Replayed(F[id])
      PROVE  (CHOOSE d \in DataOf(F, F[id][i].txid) : TRUE) = F[id][i].data
  <2> DEFINE P == UNION {{jd} \X Replayed(F[jd]) : jd \in ListSegmentIds(F)}
             Q == {q \in P : F[q[1]][q[2]].txid = F[id][i].txid}
  <2>1. <<id, i>> \in P
    BY DEF OneByOne, Listed
  <2>2. \A q \in P : /\ q = <<q[1], q[2]>> /\ q[1] \in DOMAIN F
                     /\ q[2] \in Replayed(F[q[1]])
    BY DEF OneByOne, Listed
  <2> HIDE DEF P
  <2>3. \A q \in Q : q = <<id, i>>
    BY <2>2, OneByOneTxids
  <2>4. Q = {<<id, i>>}
    BY <2>1, <2>3
  <2>5. DataOf(F, F[id][i].txid) = {F[q[1]][q[2]].data : q \in Q}
    BY DEF DataOf, P
  <2>6. DataOf(F, F[id][i].txid) = {F[id][i].data}
    <3> HIDE DEF Q
    <3> QED BY <2>4, <2>5
  <2> QED BY <2>6
<1>2. \A id \in DOMAIN F : \A i \in Replayed(F[id]) :
         LogOf(F)[F[id][i].txid] = F[id][i].data
  BY <1>1, OneByOneTxids DEF LogOf
<1>3. ASSUME NEW t \in 1 .. LastTxidSeen(F)
      PROVE  LogOf(F)[t] \in Data
  <2>1. PICK id \in DOMAIN F : \E i \in Replayed(F[id]) : F[id][i].txid = t
    BY DEF OneByOne, Listed
  <2>2. PICK i \in Replayed(F[id]) : F[id][i].txid = t
    BY <2>1
  <2> QED BY <1>2, <2>2, OneByOneTxids
<1>4. LogOf(F) \in [1 .. LastTxidSeen(F) -> Data]
  BY <1>3 DEF LogOf
<1>5. LogOf(F) \in Seq(Data) /\ Len(LogOf(F)) = LastTxidSeen(F)
  BY <1>0, <1>4
<1> QED BY <1>2, <1>5

\* Whatever a scan of F returns, a scan of G returns.
ReplayedIn(F, G) ==
    \A id \in DOMAIN F : \A i \in Replayed(F[id]) :
        /\ id \in DOMAIN G
        /\ i \in Replayed(G[id])
        /\ G[id][i] = F[id][i]

\* Then the log of F begins the log of G.
LEMMA PrefixLog ==
  ASSUME NEW F, NEW G, OneByOne(F), OneByOne(G), ReplayedIn(F, G)
  PROVE  /\ LastTxidSeen(F) <= LastTxidSeen(G)
         /\ \A t \in 1 .. LastTxidSeen(F) : LogOf(F)[t] = LogOf(G)[t]
<1>0. LastTxidSeen(F) \in Nat /\ LastTxidSeen(G) \in Nat
  BY OneByOneTxids
<1>1. ASSUME NEW t \in 1 .. LastTxidSeen(F)
      PROVE  t <= LastTxidSeen(G) /\ LogOf(F)[t] = LogOf(G)[t]
  <2>1. PICK id \in DOMAIN F : \E i \in Replayed(F[id]) : F[id][i].txid = t
    BY DEF OneByOne, Listed
  <2>2. PICK i \in Replayed(F[id]) : F[id][i].txid = t
    BY <2>1
  <2>3. /\ id \in DOMAIN G /\ i \in Replayed(G[id])
        /\ G[id][i].txid = t /\ G[id][i].data = F[id][i].data
    BY <2>2 DEF ReplayedIn
  <2>4. t <= LastTxidSeen(G)
    BY <1>0, <2>3, OneByOneTxids
  <2>5. LogOf(F)[t] = F[id][i].data
    BY <2>2, LogOfFacts
  <2>6. LogOf(G)[t] = G[id][i].data
    BY <2>3, LogOfFacts
  <2> QED BY <2>3, <2>4, <2>5, <2>6
<1> QED BY <1>0, <1>1

\* If both return the same, the two logs are the same.
LEMMA SameLog ==
  ASSUME NEW F, NEW G, OneByOne(F), OneByOne(G), ReplayedIn(F, G), ReplayedIn(G, F)
  PROVE  LogOf(F) = LogOf(G)
<1>1. LastTxidSeen(F) = LastTxidSeen(G)
  BY PrefixLog, OneByOneTxids
<1>2. \A t \in 1 .. LastTxidSeen(F) : LogOf(F)[t] = LogOf(G)[t]
  BY PrefixLog
<1> QED BY <1>1, <1>2 DEF LogOf

\* If G returns one more, it is the next.
LEMMA AppendedLog ==
  ASSUME NEW F, NEW G, OneByOne(F), OneByOne(G), ReplayedIn(F, G),
         NEW id \in DOMAIN G, NEW i \in Replayed(G[id]),
         ~(id \in DOMAIN F /\ i \in Replayed(F[id])),
         \A jd \in DOMAIN G : \A j \in Replayed(G[jd]) :
            (jd = id /\ j = i) \/ (jd \in DOMAIN F /\ j \in Replayed(F[jd]))
  PROVE  LogOf(G) = Append(LogOf(F), G[id][i].data)
<1> DEFINE m == LastTxidSeen(F)
           n == LastTxidSeen(G)
           t == G[id][i].txid
<1>0. m \in Nat /\ n \in Nat /\ t \in 1 .. n /\ m <= n
  BY OneByOneTxids, PrefixLog
<1>1. t > m
  <2> SUFFICES ASSUME t <= m PROVE FALSE
    BY <1>0
  <2>0. t \in 1 .. m
    BY <1>0
  <2>1. PICK jd \in DOMAIN F : \E j \in Replayed(F[jd]) : F[jd][j].txid = t
    BY <2>0 DEF OneByOne, Listed
  <2>2. PICK j \in Replayed(F[jd]) : F[jd][j].txid = t
    BY <2>1
  <2>3. jd \in DOMAIN G /\ j \in Replayed(G[jd]) /\ G[jd][j].txid = t
    BY <2>2 DEF ReplayedIn
  <2>4. jd = id /\ j = i
    BY <2>3, OneByOneTxids
  <2> QED BY <2>2, <2>4
<1>2. ASSUME NEW u \in 1 .. n, u # t
      PROVE  u <= m
  <2>1. PICK jd \in DOMAIN G : \E j \in Replayed(G[jd]) : G[jd][j].txid = u
    BY DEF OneByOne, Listed
  <2>2. PICK j \in Replayed(G[jd]) : G[jd][j].txid = u
    BY <2>1
  <2>3. jd \in DOMAIN F /\ j \in Replayed(F[jd])
    BY <1>2, <2>2
  <2>4. F[jd][j].txid = u
    BY <2>2, <2>3 DEF ReplayedIn
  <2> QED BY <2>3, <2>4, OneByOneTxids
<1>3. t = m + 1 /\ n = m + 1
  BY <1>0, <1>1, <1>2
<1>4. LogOf(F) \in Seq(Data) /\ LogOf(G) \in Seq(Data) /\ Len(LogOf(F)) = m /\ Len(LogOf(G)) = m + 1
  BY <1>3, LogOfFacts
<1>5. LogOf(G)[m + 1] = G[id][i].data
  BY <1>3, LogOfFacts
<1>6. \A u \in 1 .. m : LogOf(G)[u] = LogOf(F)[u]
  BY PrefixLog
<1>7. G[id][i].data \in Data
  BY OneByOneTxids
<1> HIDE DEF m, n, t
<1> QED BY <1>0, <1>4, <1>5, <1>6, <1>7

\* If G has the whole frames of F, where they were, its scan returns them.
LEMMA WholeFramesReplayed ==
  ASSUME NEW F, NEW G,
         F \in [DOMAIN F -> Seq(Chunk)], G \in [DOMAIN G -> Seq(Chunk)],
         \A id \in DOMAIN F : \A i \in 1 .. Len(F[id]) :
            AllWhole(F[id], i) => /\ id \in DOMAIN G
                                  /\ i \in 1 .. Len(G[id])
                                  /\ \A j \in 1 .. i : G[id][j] = F[id][j]
  PROVE  ReplayedIn(F, G)
<1> SUFFICES ASSUME NEW id \in DOMAIN F, NEW i \in Replayed(F[id])
             PROVE  /\ id \in DOMAIN G
                    /\ i \in Replayed(G[id])
                    /\ G[id][i] = F[id][i]
  BY DEF ReplayedIn
<1>1. F[id] \in Seq(Chunk) /\ i \in 1 .. Len(F[id])
  BY DEF Replayed
<1>2. AllWhole(F[id], i)
  BY <1>1, ReplayedWhole
<1>3. id \in DOMAIN G /\ i \in 1 .. Len(G[id]) /\ \A j \in 1 .. i : G[id][j] = F[id][j]
  BY <1>1, <1>2
<1>4. AllWhole(G[id], i) /\ G[id] \in Seq(Chunk)
  BY <1>2, <1>3 DEF AllWhole
<1> QED BY <1>1, <1>3, <1>4, ReplayedWhole

\* Unless it is the end of an append or power loss, a step leaves what scans
\* return as it is.
LEMMA ScanUnchanged ==
  ASSUME Platform, LogInv, LogInv', [Next]_vars, ~AppendFinish, ~PowerLoss
  PROVE  ReplayedIn(files, files') /\ ReplayedIn(files', files)
<1>0. /\ ShapeInv /\ RotationInv
      /\ files \in [DOMAIN files -> Seq(Chunk)] /\ files' \in [DOMAIN files' -> Seq(Chunk)]
  BY DEF LogInv, ShapeInv, TypeOK
<1>1. CASE files' = files
  BY <1>1 DEF ReplayedIn
<1>2. ASSUME NEW new, new \notin DOMAIN files,
             files' = [i \in DOMAIN files \cup {new} |-> IF i = new THEN <<>> ELSE files[i]]
      PROVE  ReplayedIn(files, files') /\ ReplayedIn(files', files)
  <2>1. /\ DOMAIN files' = DOMAIN files \cup {new} /\ files'[new] = <<>>
        /\ \A id \in DOMAIN files : files'[id] = files[id]
    BY <1>2
  <2>2. Replayed(files'[new]) = {}
    BY <2>1 DEF Replayed
  <2> QED BY <2>1, <2>2 DEF ReplayedIn
<1>3. CASE OpenCreate
  <2>1. 1 \notin DOMAIN files
    BY <1>0, <1>3, AllListed DEF OpenCreate
  <2> QED BY <1>2, <1>3, <2>1 DEF OpenCreate
<1>4. CASE RotateCreate
  <2>1. NextSegmentId(ListSegmentIds(files)) = active + 1 /\ active + 1 \notin DOMAIN files
    BY <1>0, <1>4, NewSegment DEF RotateCreate
  <2>2. files' = files \/ files' = [i \in DOMAIN files \cup {active + 1} |->
                                       IF i = active + 1 THEN <<>> ELSE files[i]]
    BY <1>4, <2>1 DEF RotateCreate
  <2> QED BY <1>1, <1>2, <2>1, <2>2
<1>5. ASSUME NEW d \in Data, NEW cut \in Cuts, AppendBegin(d, cut)
      PROVE  ReplayedIn(files, files') /\ ReplayedIn(files', files)
  <2> DEFINE s == files[active]
             c == CutTo(EncodeRecord(nextTxid, d, FileSize(s)), cut)
  <2>1. /\ active \in DOMAIN files /\ s \in Seq(Chunk) /\ Len(s) \in Nat
        /\ nextTxid \in 1 .. MaxTxid /\ FileSize(s) \in Nat
    BY <1>0, <1>5, FileSizeType DEF AppendBegin, MayWrite, Ready, ShapeInv, TypeOK, Opened
  <2>2. c \in Chunk /\ c.state # "whole"
    BY <2>1, CutFrame DEF CutTo, EncodeRecord
  <2>3. files' = [files EXCEPT ![active] = Append(s, c)]
    BY <1>5 DEF AppendBegin
  <2> HIDE DEF c
  <2>4. /\ DOMAIN files' = DOMAIN files
        /\ \A id \in DOMAIN files : id # active => files'[id] = files[id]
        /\ Len(files'[active]) = Len(s) + 1
        /\ \A i \in 1 .. Len(s) : files'[active][i] = s[i]
        /\ files'[active][Len(s) + 1] = c
    BY <2>1, <2>2, <2>3
  <2>5. ReplayedIn(files, files')
    <3>1. \A id \in DOMAIN files : \A i \in 1 .. Len(files[id]) :
             /\ id \in DOMAIN files' /\ i \in 1 .. Len(files'[id])
             /\ \A j \in 1 .. i : files'[id][j] = files[id][j]
      BY <2>1, <2>4
    <3> QED BY <1>0, <3>1, WholeFramesReplayed
  <2>6. ReplayedIn(files', files)
    <3>1. ASSUME NEW id \in DOMAIN files', NEW i \in 1 .. Len(files'[id]), AllWhole(files'[id], i)
          PROVE  /\ id \in DOMAIN files /\ i \in 1 .. Len(files[id])
                 /\ \A j \in 1 .. i : files[id][j] = files'[id][j]
      <4>1. CASE id # active
        BY <2>4, <4>1
      <4>2. CASE id = active
        <5>1. i # Len(s) + 1
          BY <2>1, <2>2, <2>4, <3>1, <4>2 DEF AllWhole
        <5> QED BY <2>1, <2>4, <4>2, <5>1
      <4> QED BY <4>1, <4>2
    <3> QED BY <1>0, <3>1, WholeFramesReplayed
  <2> QED BY <2>5, <2>6
<1> QED
  BY <1>1, <1>3, <1>4, <1>5
  DEF Next, Running, Progress, OpenCreated, OpenExisting, OpenRefused, OpenFails, AppendError,
      FsyncBegin, RotateBegin, SyncAll, SyncAllError, FsyncFinish, DirectoryError,
      RotateListError, RotateSyncDir, RotateFinish, Scan, Close, Crash, vars, disk

\* The end of an append adds one record to what scans return.
LEMMA ScanAppended ==
  ASSUME LogInv, LogInv', SealedInv, AppendFinish
  PROVE  LET n == Len(files[active])
         IN  /\ ReplayedIn(files, files')
             /\ active \in DOMAIN files' /\ n \in Replayed(files'[active])
             /\ ~(active \in DOMAIN files /\ n \in Replayed(files[active]))
             /\ \A id \in DOMAIN files' : \A i \in Replayed(files'[id]) :
                   (id = active /\ i = n) \/ (id \in DOMAIN files /\ i \in Replayed(files[id]))
<1> DEFINE s == files[active]
           t == files'[active]
           n == Len(s)
<1>0. /\ ShapeInv /\ WritingInv /\ CleanHandleInv /\ RotationInv /\ pc = "writing"
      /\ files \in [DOMAIN files -> Seq(Chunk)] /\ files' \in [DOMAIN files' -> Seq(Chunk)]
  BY DEF LogInv, ShapeInv, TypeOK, AppendFinish
<1>1. /\ DOMAIN files' = DOMAIN files /\ active \in DOMAIN files
      /\ Len(t) = n /\ n \in Nat /\ n > 0 /\ s \in Seq(Chunk) /\ t \in Seq(Chunk)
      /\ \A id \in DOMAIN files : id # active => files'[id] = files[id]
      /\ \A i \in 1 .. (n - 1) : t[i] = s[i]
      /\ t[n].state = "whole"
  BY <1>0, CompletedTxids DEF EncodeRecord
<1>2. s[n].state # "whole"
  BY <1>0 DEF WritingInv, ActiveFile
<1>3. AllWhole(s, n - 1)
  BY <1>0 DEF CleanHandleInv, RotationInv, SealedInv, Opened, ActiveFile
<1>4. n \in Replayed(t)
  <2>1. AllWhole(t, n)
    BY <1>1, <1>3 DEF AllWhole
  <2> QED BY <1>1, <2>1, ReplayedWhole
<1>5. n \notin Replayed(s)
  BY <1>1, <1>2, ReplayedWhole DEF AllWhole
<1>6. ReplayedIn(files, files')
  <2>1. ASSUME NEW id \in DOMAIN files, NEW i \in 1 .. Len(files[id]), AllWhole(files[id], i)
        PROVE  /\ id \in DOMAIN files' /\ i \in 1 .. Len(files'[id])
               /\ \A j \in 1 .. i : files'[id][j] = files[id][j]
    <3>1. CASE id # active
      BY <1>1, <3>1
    <3>2. CASE id = active
      <4>1. i # n
        BY <1>1, <1>2, <2>1, <3>2 DEF AllWhole
      <4> QED BY <1>1, <3>2, <4>1
    <3> QED BY <3>1, <3>2
  <2> QED BY <1>0, <2>1, WholeFramesReplayed
<1>7. ASSUME NEW id \in DOMAIN files', NEW i \in Replayed(files'[id])
      PROVE  (id = active /\ i = n) \/ (id \in DOMAIN files /\ i \in Replayed(files[id]))
  <2>1. CASE id # active
    BY <1>1, <2>1
  <2>2. CASE id = active /\ i # n
    <3>1. i \in 1 .. (n - 1)
      BY <1>1, <2>2 DEF Replayed
    <3>2. AllWhole(s, i)
      <4> HIDE DEF s
      <4>1. \A j \in 1 .. i : j \in 1 .. (n - 1)
        BY <1>1, <3>1
      <4> QED BY <1>3, <4>1 DEF AllWhole
    <3>3. i \in 1 .. Len(s)
      BY <1>1, <3>1
    <3> QED BY <1>1, <2>2, <3>2, <3>3, ReplayedWhole
  <2> QED BY <1>1, <2>1, <2>2
<1> QED BY <1>1, <1>4, <1>5, <1>6, <1>7

\* After power loss scans return nothing that they did not return before.
LEMMA ScanAfterPowerLoss ==
  ASSUME LogInv, LogInv', SealedInv, Platform, PowerLoss
  PROVE  ReplayedIn(files', files)
<1>0. files \in [DOMAIN files -> Seq(Chunk)] /\ files' \in [DOMAIN files' -> Seq(Chunk)]
  BY DEF LogInv, ShapeInv, TypeOK
<1>1. ASSUME NEW id \in DOMAIN files', NEW i \in 1 .. Len(files'[id]), AllWhole(files'[id], i)
      PROVE  /\ id \in DOMAIN files /\ i \in 1 .. Len(files[id])
             /\ \A j \in 1 .. i : files[id][j] = files'[id][j]
  <2>1. id \in DOMAIN files /\ i \in 1 .. Len(files[id])
    BY PowerLossFrames
  <2>2. ASSUME NEW j \in 1 .. i
        PROVE  files[id][j] = files'[id][j]
    <3>1. files'[id] \in Seq(Chunk)
      BY <1>0
    <3>2. j \in 1 .. Len(files'[id])
      BY <3>1
    <3>3. Remains(files[id][j], files'[id][j])
      BY <3>2, PowerLossFrames
    <3> QED BY <1>1, <3>3 DEF Remains, AllWhole
  <2> QED BY <2>1, <2>2
<1> QED BY <1>0, <1>1, WholeFramesReplayed

\* The txid of a record that is intact in F is one that a scan of F returns.
LEMMA IntactTxid ==
  ASSUME NEW F, OneByOne(F), NEW r, r.segment \in DOMAIN F,
         r.idx \in 1 .. Len(F[r.segment]), AllWhole(F[r.segment], r.idx),
         F[r.segment][r.idx].txid = r.txid
  PROVE  r.txid \in 1 .. LastTxidSeen(F)
<1>1. F[r.segment] \in Seq(Chunk)
  BY DEF OneByOne, Listed
<1>2. r.idx \in Replayed(F[r.segment])
  BY <1>1, ReplayedWhole
<1> QED BY <1>2, OneByOneTxids

\* The greatest txid of a set of records, 0 for none.
GreatestTxid(D) == Max({0} \cup {r.txid : r \in D})

\* It is what its name says.
LEMMA GreatestTxidIs ==
  ASSUME NEW D \in SUBSET Ref
  PROVE  /\ GreatestTxid(D) \in Nat
         /\ \A m \in Nat : (\A r \in D : r.txid <= m) => GreatestTxid(D) <= m
         /\ \A m \in Nat : (\A r \in D : r.txid <= m) /\ (\E r \in D : r.txid = m)
                             => GreatestTxid(D) = m
<1> DEFINE T == {0} \cup {r.txid : r \in D}
<1>1. \A r \in D : r.txid \in 1 .. MaxTxid
  BY DEF Ref
<1>2. MaxTxid \in Nat /\ T \in SUBSET Nat /\ T # {} /\ \A x \in T : x <= MaxTxid
  BY <1>1, WireAssumption
<1>3. \A x \in T : x = 0 \/ \E r \in D : r.txid = x
  OBVIOUS
<1>4. \A r \in D : r.txid \in T
  OBVIOUS
<1>5. GreatestTxid(D) = Max(T)
  BY DEF GreatestTxid
<1> HIDE DEF T
<1>6. Max(T) \in T /\ \A y \in T : y <= Max(T)
  BY <1>2, NatMax
<1>7. Max(T) \in Nat
  BY <1>2, <1>6
<1>8. ASSUME NEW m \in Nat, \A r \in D : r.txid <= m
      PROVE  Max(T) <= m /\ ((\E r \in D : r.txid = m) => Max(T) = m)
  BY <1>2, <1>3, <1>4, <1>6, <1>7, <1>8
<1> QED BY <1>5, <1>7, <1>8

\* A sync that returns Ok acknowledges all of the log, if anything is pending.
LEMMA SyncAcknowledges ==
  ASSUME Disciplined, LogInv, SealedInv, TxidInv, FsyncFinish \/ RotateFinish, pending # {}
  PROVE  GreatestTxid(durable \cup pending) = LastTxidSeen(files)
<1>0. /\ ShapeInv /\ RotationInv /\ CleanHandleInv /\ PendingInv /\ DurableInv /\ Platform
      /\ NextTxidFollows /\ TxidsDense /\ PendingLast
      /\ durable \cup pending \in SUBSET Ref
  BY DEF LogInv, TxidInv, Disciplined, ShapeInv, TypeOK
<1>1. pc \in {"syncing", "opening"} /\ Opened /\ ~poisoned
  BY <1>0 DEF FsyncFinish, RotateFinish, Opened, RotationInv
<1>2. OneByOne(files)
  BY LogOneByOne
<1>3. \A r \in durable \cup pending : r.txid \in 1 .. LastTxidSeen(files)
  <2> TAKE r \in durable \cup pending
  <2>1. Intact(r)
    BY <1>0 DEF SealedInv, PendingInv, DurableInv
  <2> QED BY <1>2, <2>1, IntactTxid DEF Intact
<1>4. PICK r \in pending : r.txid = nextTxid - 1
  BY <1>0, <1>1 DEF PendingLast
<1>5. report.tail_truncated = 0
  BY <1>0, <1>1 DEF PendingLast
<1>6. \A id \in DOMAIN files : \A i \in 1 .. Len(files[id]) : files[id][i].txid < nextTxid
  BY <1>0, <1>1, <1>5 DEF NextTxidFollows
<1>7. LastTxidSeen(files) \in Nat /\ nextTxid \in Nat
  BY <1>0, <1>2, OneByOneTxids, WireAssumption DEF ShapeInv, TypeOK
<1>8. LastTxidSeen(files) < nextTxid
  <2>1. r.txid \in 1 .. LastTxidSeen(files)
    BY <1>3
  <2>2. LastTxidSeen(files) \in 1 .. LastTxidSeen(files)
    BY <1>7, <2>1
  <2>3. PICK id \in DOMAIN files : \E i \in Replayed(files[id]) : files[id][i].txid = LastTxidSeen(files)
    BY <1>2, <2>2 DEF OneByOne, Listed
  <2> QED BY <1>6, <2>3 DEF Replayed
<1>9. r.txid = LastTxidSeen(files)
  BY <1>3, <1>4, <1>7, <1>8
<1>10. \A q \in durable \cup pending : q.txid <= LastTxidSeen(files)
  BY <1>3, <1>7
<1> QED BY <1>0, <1>7, <1>9, <1>10, GreatestTxidIs

(***************************************************************************)
(* The log implements AbstractLog: opening, writing, syncing, rotating,    *)
(* failing, crashing and recovering look from outside like a sequence that *)
(* grows at its end, loses records by power loss only, and then from its   *)
(* end, and never one that an fsync or a rotate has acknowledged.          *)
(***************************************************************************)
THEOREM LogRefinesAbstractLog ==
  ASSUME Disciplined PROVE Spec => ImplementsAbstractLog
<1> DEFINE Inv == LogInv /\ SealedInv /\ TxidInv
<1>1. Init => Abstract!Init
  <2> SUFFICES ASSUME Init PROVE Abstract!Init
    OBVIOUS
  <2>1. files = <<>> /\ durable = {} /\ pending = {}
    BY DEF Init
  <2>2. ListSegmentIds(files) = {}
    BY <2>1 DEF ListSegmentIds
  <2>3. LastTxidSeen(files) = 0
    <3>1. LastTxidSeen(files) = Max({0})
      BY <2>2 DEF LastTxidSeen
    <3> QED BY <3>1, MaxIs
  <2>4. MappedLog = <<>>
    BY <2>3 DEF MappedLog, LogOf
  <2>5. MappedAcked = 0
    <3>1. MappedAcked = Max({0})
      BY <2>1 DEF MappedAcked
    <3> QED BY <3>1, MaxIs
  <2> QED BY <2>1, <2>4, <2>5 DEF Abstract!Init
<1>2. Inv /\ Inv' /\ OneByOne(files) /\ OneByOne(files)' /\ [Next]_vars => [Abstract!Next]_(Abstract!avars)
  <2> SUFFICES ASSUME LogInv, SealedInv, TxidInv, LogInv', OneByOne(files), OneByOne(files'),
                      [Next]_vars
               PROVE  [Abstract!Next]_(Abstract!avars)
    OBVIOUS
  <2>0. /\ ShapeInv /\ ShapeInv' /\ Platform /\ RotationInv /\ DurableInv'
        /\ durable \in SUBSET Ref /\ durable' \in SUBSET Ref
    BY DEF LogInv, Disciplined, ShapeInv, TypeOK
  <2>1. /\ MappedLog = LogOf(files) /\ MappedLog' = LogOf(files')
        /\ MappedAcked = GreatestTxid(durable) /\ MappedAcked' = GreatestTxid(durable')
    BY DEF MappedLog, MappedAcked, GreatestTxid
  <2>2. ~AppendFinish /\ ~PowerLoss => MappedLog' = MappedLog
    BY <2>0, <2>1, ScanUnchanged, SameLog
  <2>3. CASE AppendFinish
    <3> DEFINE d == files'[active][Len(files[active])].data
    <3>1. LogOf(files') = Append(LogOf(files), d)
      BY <2>3, ScanAppended, AppendedLog
    <3>2. d \in Data
      <4>1. active \in DOMAIN files' /\ Len(files[active]) \in Replayed(files'[active])
        BY <2>3, ScanAppended
      <4> QED BY <4>1, OneByOneTxids
    <3> HIDE DEF d
    <3>3. durable' = durable /\ (pending' = pending \/ pending' # {})
      BY <2>3 DEF AppendFinish
    <3>4. (pending' # {}) \in {pending # {}, TRUE}
      BY <3>3
    <3> QED BY <2>1, <3>1, <3>2, <3>3, <3>4 DEF Abstract!Next, Abstract!Append1
  <2>4. CASE PowerLoss
    <3> DEFINE n == LastTxidSeen(files')
    <3>1. /\ durable' = durable /\ pending' = {}
      BY <2>0, <2>4, EndsFacts DEF Ends
    <3>2. n \in Nat /\ LastTxidSeen(files) \in Nat
      BY OneByOneTxids
    <3>3. n <= LastTxidSeen(files) /\ \A t \in 1 .. n : LogOf(files')[t] = LogOf(files)[t]
      BY <2>0, <2>4, ScanAfterPowerLoss, PrefixLog
    <3>4. \A r \in durable : r.txid <= n
      <4> TAKE r \in durable
      <4>1. Intact(r)'
        BY <2>0, DurableKept DEF SealedInv
      <4>2. r.txid \in 1 .. n
        BY <4>1, IntactTxid DEF Intact
      <4> QED BY <3>2, <4>2
    <3>5. GreatestTxid(durable) \in Nat /\ GreatestTxid(durable) <= n
      BY <2>0, <3>2, <3>4, GreatestTxidIs
    <3>6. /\ LogOf(files) \in Seq(Data) /\ LogOf(files') \in Seq(Data)
          /\ Len(LogOf(files)) = LastTxidSeen(files) /\ Len(LogOf(files')) = n
      BY LogOfFacts
    <3> HIDE DEF n
    <3>7. LogOf(files') = SubSeq(LogOf(files), 1, n)
      BY <3>2, <3>3, <3>6
    <3>8. n \in GreatestTxid(durable) .. Len(LogOf(files))
      BY <3>2, <3>3, <3>5, <3>6
    <3> QED BY <2>1, <3>1, <3>7, <3>8 DEF Abstract!Next, Abstract!PowerFails
  <2>5. CASE FsyncFinish \/ RotateFinish
    <3>1. /\ durable' = durable \cup pending /\ pending' = {}
      BY <2>5 DEF FsyncFinish, RotateFinish, Acknowledge
    <3>2. ~AppendFinish /\ ~PowerLoss
      BY <2>5 DEF FsyncFinish, RotateFinish, AppendFinish, PowerLoss, NoHandle
    <3>3. CASE pending = {}
      BY <2>1, <2>2, <3>1, <3>2, <3>3 DEF Abstract!avars
    <3>4. CASE pending # {}
      <4>1. MappedAcked' = LastTxidSeen(files)
        BY <2>1, <2>5, <3>1, <3>4, SyncAcknowledges
      <4>2. Len(MappedLog) = LastTxidSeen(files)
        BY <2>1, LogOfFacts
      <4> QED BY <2>2, <3>1, <3>2, <3>4, <4>1, <4>2 DEF Abstract!Next, Abstract!Sync
    <3> QED BY <3>3, <3>4
  <2>6. CASE OpenFails \/ Close \/ Crash
    <3>1. durable' = durable /\ pending' = {}
      BY <2>0, <2>6, EndsFacts DEF Ends
    <3>2. files' = files
      BY <2>6 DEF OpenFails, Close, Crash, disk
    <3> QED BY <2>1, <3>1, <3>2 DEF Abstract!Next, Abstract!HandleGone
  <2>7. CASE \/ OpenCreate \/ OpenCreated \/ OpenExisting \/ OpenRefused
             \/ \E d \in Data, cut \in Cuts : AppendBegin(d, cut)
             \/ Fails \/ FsyncBegin \/ RotateBegin \/ RotateListError \/ RotateCreate
             \/ RotateSyncDir \/ Scan \/ UNCHANGED vars
    <3>1. durable' = durable /\ pending' = pending
      <4>1. CASE Fails
        BY <4>1, FailsFacts DEF history
      <4>2. CASE OpenCreated \/ OpenExisting
        BY <2>0, <4>2 DEF OpenCreated, OpenExisting, OpenScanned, ShapeInv, Opened
      <4> QED
        BY <2>7, <4>1, <4>2
        DEF OpenCreate, OpenRefused, AppendBegin, FsyncBegin, RotateBegin, SyncAll,
            RotateListError, RotateCreate, RotateSyncDir, Scan, vars, history
    <3>2. CASE AppendFinish \/ PowerLoss
      BY <2>3, <2>4, <3>2
    <3>3. CASE ~AppendFinish /\ ~PowerLoss
      BY <2>1, <2>2, <3>1, <3>3 DEF Abstract!avars
    <3> QED BY <3>2, <3>3
  <2> QED
    BY <2>3, <2>4, <2>5, <2>6, <2>7
    DEF Next, Running, Progress, Fails
<1>3. Inv => OneByOne(files)
  BY LogOneByOne
<1>4. Spec => []Inv
  BY TxidInvariant
<1> HIDE DEF Inv
<1> QED BY <1>1, <1>2, <1>3, <1>4, PTL DEF Spec, ImplementsAbstractLog, Abstract!Spec

------------------------------------------------------------------------------
(* Sizes *)

\* Products of naturals.
LEMMA ProductFacts ==
  ASSUME NEW a \in Nat, NEW b \in Nat, NEW m \in Nat
  PROVE  /\ a * m \in Nat
         /\ (a + 1) * m = a * m + m
         /\ a <= b => a * m <= b * m
<1>1. a * m \in Nat /\ b * m \in Nat
  OBVIOUS
<1>2. (a + 1) * m = a * m + m
  OBVIOUS
<1>3. a <= b => a * m <= b * m
  <2> SUFFICES ASSUME a <= b PROVE a * m <= b * m
    OBVIOUS
  <2>1. (b - a) * m \in Nat
    OBVIOUS
  <2>2. b * m = a * m + (b - a) * m
    OBVIOUS
  <2> QED BY <1>1, <2>1, <2>2
<1> QED BY <1>1, <1>2, <1>3

\* The length of a frame, and what bounds it.
LEMMA FrameLenFacts ==
  ASSUME NEW d \in Data
  PROVE  /\ FrameLen(d) \in Nat /\ FrameMax \in Nat
         /\ Encodable(d) => FrameLen(d) <= FrameMax
BY WireAssumption DEF FrameLen, FrameMax, Encodable

\* Frames of which something remains, and no others, stay within the bound.
LEMMA SizeKept ==
  ASSUME ShapeInv, ShapeInv', SizeInv, appends' = appends,
         \A id \in DOMAIN files' : \A i \in 1 .. Len(files'[id]) :
            /\ id \in DOMAIN files /\ i \in 1 .. Len(files[id])
            /\ Remains(files[id][i], files'[id][i])
  PROVE  SizeInv'
<1> SUFFICES ASSUME NEW id \in DOMAIN files', NEW i \in 1 .. Len(files'[id])
             PROVE  /\ files'[id][i].len <= FrameLen(files'[id][i].data)
                    /\ files'[id][i].at + FrameLen(files'[id][i].data) <= appends' * FrameMax
  BY DEF SizeInv
<1> DEFINE c == files[id][i]
           e == files'[id][i]
<1>1. /\ files[id] \in Seq(Chunk) /\ i \in 1 .. Len(files[id]) /\ files'[id] \in Seq(Chunk)
      /\ Remains(c, e) /\ id \in DOMAIN files
  BY DEF ShapeInv, TypeOK
<1>2. c.len \in Nat /\ e.len \in Nat /\ c.data \in Data /\ FrameLen(c.data) \in Nat
  BY <1>1, ChunkFields, FrameLenFacts
<1>3. c.len <= FrameLen(c.data) /\ c.at + FrameLen(c.data) <= appends * FrameMax
  BY <1>1 DEF SizeInv
<1>4. e.data = c.data /\ e.at = c.at /\ e.len <= c.len
  BY <1>1 DEF Remains
<1> QED BY <1>2, <1>3, <1>4

\* Every step keeps the sizes within the bound.
LEMMA SizeStep ==
  ASSUME Platform, LogInv, LogInv', SealedInv, SizeInv, [Next]_vars
  PROVE  SizeInv'
<1>0. /\ ShapeInv /\ ShapeInv' /\ RotationInv
      /\ files \in [DOMAIN files -> Seq(Chunk)] /\ files' \in [DOMAIN files' -> Seq(Chunk)]
      /\ appends \in Nat
  <2>1. ShapeInv /\ ShapeInv' /\ RotationInv
    BY DEF LogInv
  <2>2. TypeOK /\ TypeOK'
    BY <2>1 DEF ShapeInv
  <2>3. appends \in Nat
    BY <2>2, RecordLogAssumption DEF TypeOK
  <2>4. files \in [DOMAIN files -> Seq(Chunk)] /\ files' \in [DOMAIN files' -> Seq(Chunk)]
    BY <2>2 DEF TypeOK
  <2> QED BY <2>1, <2>3, <2>4
<1>1. \A id \in DOMAIN files : \A i \in 1 .. Len(files[id]) : Remains(files[id][i], files[id][i])
  BY <1>0, RemainsItself
<1>2. ASSUME files' = files, appends' = appends PROVE SizeInv'
  BY <1>0, <1>1, <1>2, SizeKept
<1>3. ASSUME NEW new, new \notin DOMAIN files, appends' = appends,
             files' = [i \in DOMAIN files \cup {new} |-> IF i = new THEN <<>> ELSE files[i]]
      PROVE  SizeInv'
  <2>1. /\ DOMAIN files' = DOMAIN files \cup {new} /\ Len(files'[new]) = 0
        /\ \A id \in DOMAIN files : files'[id] = files[id]
    BY <1>3
  <2> QED BY <1>0, <1>1, <1>3, <2>1, SizeKept
<1>4. CASE OpenCreate
  <2>1. 1 \notin DOMAIN files
    BY <1>0, <1>4, AllListed DEF OpenCreate
  <2> QED BY <1>3, <1>4, <2>1 DEF OpenCreate
<1>5. CASE RotateCreate
  <2>1. NextSegmentId(ListSegmentIds(files)) = active + 1 /\ active + 1 \notin DOMAIN files
    BY <1>0, <1>5, NewSegment DEF RotateCreate
  <2>2. /\ appends' = appends
        /\ files' = files \/ files' = [i \in DOMAIN files \cup {active + 1} |->
                                         IF i = active + 1 THEN <<>> ELSE files[i]]
    BY <1>5, <2>1 DEF RotateCreate
  <2> QED BY <1>2, <1>3, <2>1, <2>2
<1>6. CASE PowerLoss
  <2>1. appends' = appends
    BY <1>6 DEF PowerLoss
  <2> QED BY <1>0, <1>6, <2>1, SizeKept, PowerLossFrames
<1>7. ASSUME NEW d \in Data, NEW cut \in Cuts, AppendBegin(d, cut)
      PROVE  SizeInv'
  <2> DEFINE s == files[active]
             e == EncodeRecord(nextTxid, d, FileSize(s))
             c == CutTo(e, cut)
  <2>1. /\ active \in DOMAIN files /\ s \in Seq(Chunk) /\ Len(s) \in Nat
        /\ nextTxid \in 1 .. MaxTxid /\ FileSize(s) \in Nat /\ appends' = appends + 1
        /\ Encodable(d) /\ cut < FrameLen(d) /\ cut \in Nat
    BY <1>0, <1>7, FileSizeType, RecordLogAssumption
    DEF AppendBegin, MayWrite, Ready, ShapeInv, TypeOK, Opened
  <2>2. files' = [files EXCEPT ![active] = Append(s, c)]
    BY <1>7 DEF AppendBegin
  <2>3. c \in Chunk /\ c.at = FileSize(s) /\ c.data = d /\ c.len = cut
    <3>1. e \in Chunk /\ e.at = FileSize(s) /\ e.data = d
      BY <2>1, WholeFrame
    <3> HIDE DEF e
    <3> QED BY <2>1, <3>1, CutToFacts
  <2> HIDE DEF c
  <2>4. /\ DOMAIN files' = DOMAIN files
        /\ \A id \in DOMAIN files : id # active => files'[id] = files[id]
        /\ Len(files'[active]) = Len(s) + 1
        /\ \A i \in 1 .. Len(s) : files'[active][i] = s[i]
        /\ files'[active][Len(s) + 1] = c
    BY <2>1, <2>2, <2>3
  <2>5. /\ appends * FrameMax \in Nat /\ FrameMax \in Nat
        /\ appends' * FrameMax = appends * FrameMax + FrameMax
    BY <1>0, <2>1, FrameLenFacts, ProductFacts
  <2>6. FileSize(s) <= appends * FrameMax
    <3>1. CASE s = <<>>
      BY <2>5, <3>1 DEF FileSize
    <3>2. CASE s # <<>>
      <4>1. Len(s) \in 1 .. Len(s)
        BY <2>1, <3>2
      <4>2. s[Len(s)].at \in Nat /\ s[Len(s)].len \in Nat /\ FrameLen(s[Len(s)].data) \in Nat
        BY <2>1, <4>1, ChunkFields, FrameLenFacts
      <4>3. /\ s[Len(s)].len <= FrameLen(s[Len(s)].data)
            /\ s[Len(s)].at + FrameLen(s[Len(s)].data) <= appends * FrameMax
        BY <2>1, <4>1 DEF SizeInv
      <4>4. FileSize(s) = s[Len(s)].at + s[Len(s)].len
        BY <3>2 DEF FileSize
      <4> QED BY <2>5, <4>2, <4>3, <4>4
    <3> QED BY <3>1, <3>2
  <2>7. FrameLen(d) \in Nat /\ FrameLen(d) <= FrameMax
    BY <2>1, FrameLenFacts
  <2>8. c.len <= FrameLen(c.data) /\ c.at + FrameLen(c.data) <= appends' * FrameMax
    BY <2>1, <2>3, <2>5, <2>6, <2>7
  <2> SUFFICES ASSUME NEW id \in DOMAIN files', NEW i \in 1 .. Len(files'[id])
               PROVE  /\ files'[id][i].len <= FrameLen(files'[id][i].data)
                      /\ files'[id][i].at + FrameLen(files'[id][i].data) <= appends' * FrameMax
    BY DEF SizeInv
  <2>9. CASE id = active /\ i = Len(s) + 1
    BY <2>4, <2>8, <2>9
  <2>10. CASE i \in 1 .. Len(files[id]) /\ files'[id][i] = files[id][i] /\ id \in DOMAIN files
    <3>1. files[id] \in Seq(Chunk)
      BY <1>0, <2>10
    <3>2. files[id][i].at \in Nat /\ FrameLen(files[id][i].data) \in Nat
      BY <2>10, <3>1, ChunkFields, FrameLenFacts
    <3>3. /\ files[id][i].len <= FrameLen(files[id][i].data)
          /\ files[id][i].at + FrameLen(files[id][i].data) <= appends * FrameMax
      BY <2>10 DEF SizeInv
    <3> QED BY <2>5, <2>10, <3>2, <3>3
  <2> QED BY <2>1, <2>4, <2>9, <2>10
<1>8. CASE AppendFinish
  <2> DEFINE n == Len(files[active])
             c == files[active][n]
             e == files'[active][n]
  <2>1. /\ DOMAIN files' = DOMAIN files /\ active \in DOMAIN files
        /\ Len(files'[active]) = n /\ n \in Nat /\ n > 0 /\ appends' = appends
        /\ \A id \in DOMAIN files : id # active => files'[id] = files[id]
        /\ \A i \in 1 .. (n - 1) : files'[active][i] = files[active][i]
        /\ e = EncodeRecord(c.txid, c.data, c.at)
    BY <1>0, <1>8, CompletedTxids DEF AppendFinish
  <2>2. c.data \in Data /\ c.at + FrameLen(c.data) <= appends * FrameMax
    <3>1. files[active] \in Seq(Chunk) /\ n \in 1 .. Len(files[active])
      BY <1>0, <2>1
    <3> QED BY <2>1, <3>1, ChunkFields DEF SizeInv
  <2>3. e.len = FrameLen(c.data) /\ e.data = c.data /\ e.at = c.at
    BY <2>1 DEF EncodeRecord
  <2>4. FrameLen(c.data) \in Nat
    BY <2>2, FrameLenFacts
  <2>5. e.len <= FrameLen(e.data) /\ e.at + FrameLen(e.data) <= appends' * FrameMax
    BY <2>1, <2>2, <2>3, <2>4
  <2> SUFFICES ASSUME NEW id \in DOMAIN files', NEW i \in 1 .. Len(files'[id])
               PROVE  /\ files'[id][i].len <= FrameLen(files'[id][i].data)
                      /\ files'[id][i].at + FrameLen(files'[id][i].data) <= appends' * FrameMax
    BY DEF SizeInv
  <2>6. CASE id = active /\ i = n
    BY <2>5, <2>6
  <2>7. CASE ~(id = active /\ i = n)
    <3>1. id \in DOMAIN files /\ i \in 1 .. Len(files[id]) /\ files'[id][i] = files[id][i]
      BY <2>1, <2>7
    <3> QED BY <2>1, <3>1 DEF SizeInv
  <2> QED BY <2>6, <2>7
<1> QED
  BY <1>2, <1>4, <1>5, <1>6, <1>7, <1>8
  DEF Next, Running, Progress, OpenCreated, OpenExisting, OpenRefused, OpenFails, AppendError,
      FsyncBegin, RotateBegin, SyncAll, SyncAllError, FsyncFinish, DirectoryError,
      RotateListError, RotateSyncDir, RotateFinish, Scan, Close, Crash, vars, disk

\* No segment can grow beyond u64::MAX.
RoomForAll == MaxAppends * FrameMax <= MaxSize

\* Then no append overflows: every write that succeeds is acknowledged.
LEMMA AppendAcknowledged ==
  ASSUME Disciplined, RoomForAll, LogInv, SealedInv, TxidInv, SizeInv, AppendFinish
  PROVE  ~poisoned'
<1> DEFINE n == Len(files[active])
           c == files[active][n]
<1>0. ShapeInv /\ WritingInv /\ RotationInv /\ CleanHandleInv /\ TxidsDense /\ pc = "writing"
  BY DEF LogInv, TxidInv, AppendFinish
<1>1. /\ active \in DOMAIN files /\ files[active] \in Seq(Chunk) /\ n \in 1 .. n
      /\ Laid(files[active]) /\ n > 0 /\ appends \in Nat /\ appends <= MaxAppends
      /\ MaxAppends \in Nat /\ MaxSize \in Nat /\ MaxTxid \in Nat /\ MaxAppends < MaxTxid
  BY <1>0, RecordLogAssumption, WireAssumption
  DEF ShapeInv, TypeOK, Opened, ActiveFile, Disciplined
<1>2. c.txid = nextTxid /\ activeSize = c.at
  BY <1>0 DEF WritingInv, CleanHandleInv, RotationInv, SealedInv, Opened, ActiveFile
<1>3. nextTxid < MaxTxid
  <2>1. c.txid <= appends
    BY <1>0, <1>1 DEF TxidsDense
  <2>2. nextTxid \in Nat
    BY <1>0, WireAssumption DEF ShapeInv, TypeOK
  <2> QED BY <1>1, <1>2, <2>1, <2>2
<1>4. activeSize + FrameLen(c.data) <= MaxSize
  <2>1. c.data \in Data /\ c.at \in Nat /\ FrameLen(c.data) \in Nat /\ FrameMax \in Nat
    BY <1>1, ChunkFields, FrameLenFacts
  <2>2. c.at + FrameLen(c.data) <= appends * FrameMax
    BY <1>1 DEF SizeInv
  <2>3. /\ appends * FrameMax <= MaxAppends * FrameMax
        /\ appends * FrameMax \in Nat /\ MaxAppends * FrameMax \in Nat
    BY <1>1, <2>1, ProductFacts
  <2> QED BY <1>1, <1>2, <2>1, <2>2, <2>3 DEF RoomForAll
<1>5. Completed(ActiveFile)[Len(ActiveFile)].len = FrameLen(c.data)
  <2>1. Completed(files[active])[n] = EncodeRecord(c.txid, c.data, c.at)
    BY <1>1, CompletedFacts
  <2> QED BY <2>1 DEF EncodeRecord, ActiveFile
<1>6. ~poisoned
  BY <1>0 DEF RotationInv
<1>7. /\ activeSize + FrameLen(c.data) \in Nat /\ MaxSize \in Nat
      /\ nextTxid \in Nat /\ MaxTxid \in Nat
  <2>1. FrameLen(c.data) \in Nat
    BY <1>1, ChunkFields, FrameLenFacts
  <2>2. activeSize \in Nat /\ nextTxid \in Nat
    BY <1>0, WireAssumption DEF ShapeInv, TypeOK
  <2> QED BY <1>1, <2>1, <2>2
<1>8. /\ ~(activeSize + FrameLen(c.data) > MaxSize)
      /\ nextTxid # MaxTxid
  BY <1>3, <1>4, <1>7
<1> HIDE DEF n, c
<1> QED BY <1>5, <1>6, <1>8 DEF AppendFinish
=============================================================================
