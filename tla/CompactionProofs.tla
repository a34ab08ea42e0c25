-------------------------- MODULE CompactionProofs --------------------------
(***************************************************************************)
(* compact_to and the swap of its result, for any source, any number of    *)
(* attempts, crashes and power losses.                                     *)
(***************************************************************************)
EXTENDS Compaction, RecordLogProofs, FunctionTheorems

------------------------------------------------------------------------------
(* The inductive invariants behind the properties *)

\* The record of live key k of a store with live values src, and its place
\* in segment s: nothing after it is of the same key.
PutOf(src, k) == [type |-> "Put", key |-> k, value |-> src[k]]

Placed(src, s, k) ==
    \E i \in 1 .. Len(s) :
        s[i].data = PutOf(src, k) /\ \A j \in (i + 1) .. Len(s) : s[j].data.key # k

\* The segment is a beginning of the complete copy.
Copied(src, s) ==
    /\ \A i \in 1 .. Len(s) : /\ s[i].data.key \in DOMAIN src
                               /\ s[i].data = PutOf(src, s[i].data.key)
    /\ \A i, j \in 1 .. Len(s) : i < j => s[i].data.key < s[j].data.key
    /\ \A i \in 1 .. Len(s) : \A k \in DOMAIN src :
          k < s[i].data.key => \E j \in 1 .. (i - 1) : s[j].data.key = k

\* The first n frames are not cut.
FullLength(s, n) == \A i \in 1 .. n : s[i].state \in {"whole", "crc"}

\* Where the call is, where its handle is, and what they have to do with the
\* directory.
CallInv ==
    /\ DOMAIN source \subseteq Keys /\ source \in [DOMAIN source -> Values]
    /\ DOMAIN files \subseteq {1}
    /\ intruder \in {"none", "store", "torn"}
    /\ place \in Nat /\ placeOnDisk \in Nat
    /\ todo \subseteq DOMAIN source
    /\ cpc \in {"idle", "checked", "locked", "ok", "failed"} => pc = "closed"
    /\ cpc = "opening" => pc = "creating" /\ files[1] = <<>>
    /\ cpc = "copying" => pc \in {"idle", "writing", "syncing"}
    /\ cpc \in {"closing", "reopened"} => pc = "idle"
    /\ cpc \in {"checked", "locked"} =>
          CASE intruder = "none" -> files = <<>>
            [] intruder = "store" -> \A id \in DOMAIN files : AllWhole(files[id], Len(files[id]))
            [] intruder = "torn" -> TRUE
    /\ cpc \in {"checked", "locked", "opening"} =>
          todo = DOMAIN source /\ stats = [records_written |-> 0, bytes_written |-> 0]

\* A poisoned handle is between calls.
HandleInv == poisoned => pc = "idle"

\* Pages that the kernel dropped after a failed sync_all belong to a target
\* that the call is giving up, or has given up.
DroppedInv ==
    dropped # {} => /\ DOMAIN files # {}
                    /\ cpc \in {"idle", "failed"} \/ (cpc = "copying" /\ poisoned)

\* Whatever has happened, what there is of the copy is its beginning.
CopyInv ==
    intruder = "none" =>
        \A id \in DOMAIN files : Copied(source, files[id]) /\ FullLength(files[id], Len(files[id]) - 1)

\* The loop: the records of the keys behind it are placed and counted.
LoopInv ==
    ((cpc = "copying" /\ ~poisoned) \/ cpc = "closing") =>
        LET s == files[1]
            done == IF pc = "writing" THEN Len(s) - 1 ELSE Len(s)
        IN  /\ (pc = "syncing" \/ cpc = "closing") => todo = {} /\ synced[1] = Len(s)
            /\ cpc = "closing" => entries = {1}
            /\ intruder # "torn" =>
                  /\ AllWhole(s, done)
                  /\ pc = "writing" => todo # {} /\ s[Len(s)].data = PutOf(source, NextKey)
                  /\ \A k \in DOMAIN source \ todo : Placed(source, s, k)
            /\ intruder = "none" =>
                  /\ \A k \in DOMAIN source : k \in todo <=> \A i \in 1 .. done : s[i].data.key # k
                  /\ stats.records_written = done
                  /\ stats.bytes_written = activeSize
                  /\ activeSize = IF pc = "writing" THEN s[Len(s)].at ELSE FileSize(s)

\* After a successful call the target, while it is there, is complete, and
\* all of its file is on disk.
CompleteInv ==
    /\ succeeded => cpc \in {"idle", "ok", "failed", "reopened"}
    /\ (succeeded /\ place # 0) =>
          LET s == files[1]
          IN  /\ entries = {1} /\ synced[1] = Len(s) /\ dropped = {}
              /\ intruder # "torn" =>
                    AllWhole(s, Len(s)) /\ \A k \in DOMAIN source : Placed(source, s, k)
              /\ (intruder = "none" /\ cpc = "ok") =>
                    /\ stats.records_written = Len(s)
                    /\ stats.bytes_written = FileSize(s)
    /\ place >= 2 => succeeded
    /\ (cpc = "ok" /\ place # 0) => succeeded

CompactInv == CallInv /\ HandleInv /\ DroppedInv /\ CopyInv /\ LoopInv /\ CompleteInv

------------------------------------------------------------------------------
(* The target as a log *)

\* The next key to copy.
LEMMA NextKeyIs ==
  ASSUME CallInv, todo # {}
  PROVE  /\ NextKey \in todo /\ NextKey \in DOMAIN source /\ NextKey \in Nat
         /\ \A k \in todo : NextKey <= k
         /\ PutOf(source, NextKey) \in Data
<1>1. todo \in SUBSET Nat /\ todo \subseteq DOMAIN source /\ DOMAIN source \subseteq Keys
  BY KeydirAssumption DEF CallInv
<1>2. NextKey \in todo /\ \A k \in todo : NextKey <= k
  BY <1>1, MinIs DEF NextKey
<1>3. source[NextKey] \in Values /\ NextKey \in Keys
  BY <1>1, <1>2 DEF CallInv
<1>4. PutOf(source, NextKey) \in [type : {"Put"}, key : Keys, value : Values]
  BY <1>3 DEF PutOf
<1> QED BY <1>1, <1>2, <1>4, CompactionAssumption

\* A step of the call or of its environment, as the target log sees it.
LEMMA CompactLogStep ==
  ASSUME CallInv, [CompactNext]_cvars
  PROVE  \/ [Next]_vars
         \/ \E d \in Data, whole \in BOOLEAN : Intrude(d, whole)
         \/ CompactAborts
         \/ RemoveTarget
         \/ TargetLost
<1>1. ASSUME NEW cut \in Cuts, CopyBegin(cut) PROVE Next
  <2>1. AppendBegin(PutOf(source, NextKey), cut) /\ todo # {}
    BY <1>1 DEF CopyBegin, PutOf
  <2>2. PutOf(source, NextKey) \in Data
    BY <2>1, NextKeyIs
  <2> QED BY <2>1, <2>2 DEF Next, Running
<1>2. CASE CompactCreate \/ CompactOpened \/ CompactOpenFails \/ CopyFinish \/ FsyncOut
             \/ FsyncOutFinish \/ TargetError \/ CompactClose \/ ReopenSwapped \/ CompactCrash
             \/ CompactPowerLoss \/ CompactNotLocked
  BY <1>2 DEF CompactNotLocked, CompactCreate, CompactOpened, CompactOpenFails, CopyFinish,
     FsyncOut, FsyncOutFinish, TargetError, CompactClose, ReopenSwapped, CompactCrash, CompactPowerLoss,
     Next, Running, Progress
<1>3. CASE CompactCheck \/ CompactRefused \/ CompactLock \/ CompactAgain \/ RemoveSource
             \/ RenameTarget \/ UNCHANGED cvars
  BY <1>3 DEF CompactCheck, CompactRefused, CompactLock, CompactAgain, RemoveSource,
     RenameTarget, cvars
<1> QED BY <1>1, <1>2, <1>3 DEF CompactNext

\* What another process leaves in the target.
LEMMA IntrudeFacts ==
  ASSUME NEW d \in Data, NEW whole \in BOOLEAN, Intrude(d, whole)
  PROVE  /\ DOMAIN files' = {1} /\ files'[1] \in Seq(Chunk) /\ Len(files'[1]) = 1
         /\ Laid(files'[1])
         /\ whole => AllWhole(files'[1], 1)
         /\ files' \in [{1} -> Seq(Chunk)]
<1> DEFINE frame == EncodeRecord(1, d, 0)
           c == IF whole THEN frame ELSE CutTo(frame, 1)
<1>1. 1 \in 1 .. MaxTxid /\ 0 \in Nat /\ 1 \in Nat
  BY WireAssumption
<1>2. frame \in Chunk /\ frame.len > 0 /\ frame.state = "whole"
  BY <1>1, WholeFrame
<1> HIDE DEF frame
<1>3. CutTo(frame, 1) \in Chunk /\ CutTo(frame, 1).len = 1
  BY <1>1, <1>2, CutToFacts
<1>4. c \in Chunk /\ c.len > 0 /\ (whole => c.state = "whole")
  BY <1>2, <1>3
<1>5. files' = [id \in {1} |-> <<c>>]
  BY DEF Intrude, frame
<1> HIDE DEF c
<1>6. DOMAIN files' = {1} /\ files'[1] = <<c>>
  BY <1>5
<1>7. /\ files'[1] \in Seq(Chunk) /\ Len(files'[1]) = 1 /\ files'[1][1] = c
  BY <1>4, <1>6
<1>8. Laid(files'[1])
  BY <1>4, <1>7 DEF Laid
<1>9. whole => AllWhole(files'[1], 1)
  BY <1>4, <1>7 DEF AllWhole
<1>10. files' \in [{1} -> Seq(Chunk)]
  BY <1>5, <1>6, <1>7
<1> QED BY <1>6, <1>7, <1>8, <1>9, <1>10

LEMMA CompactShapeStep ==
  ASSUME ShapeInv, CallInv, [CompactNext]_cvars
  PROVE  ShapeInv'
<1>1. CASE [Next]_vars
  BY <1>1, ShapeStep
<1>2. ASSUME NEW d \in Data, NEW whole \in BOOLEAN, Intrude(d, whole) PROVE ShapeInv'
  <2>1. /\ DOMAIN files' = {1} /\ files'[1] \in Seq(Chunk) /\ Laid(files'[1])
        /\ Len(files'[1]) = 1 /\ files' \in [{1} -> Seq(Chunk)]
    BY <1>2, IntrudeFacts
  <2>2. /\ pc' = pc /\ pc = "closed" /\ entries' = entries /\ entries = {}
        /\ synced' = [id \in {1} |-> 0] /\ UNCHANGED <<dropped, handle, history, appends, faults>>
    <3>1. DOMAIN files = {}
      BY <1>2 DEF Intrude
    <3> QED BY <1>2, <3>1 DEF Intrude, CallInv, ShapeInv
  <2>3. /\ synced' \in [{1} -> Nat] /\ synced'[1] = 0
    BY <2>2
  <2>4. TypeOK'
    <3>1. {1} \in SUBSET Ids
      BY DEF Ids
    <3> QED BY <2>1, <2>2, <2>3, <3>1 DEF ShapeInv, TypeOK, handle, history
  <2> QED BY <2>1, <2>2, <2>3, <2>4 DEF ShapeInv, handle, history, Opened
<1>3. CASE CompactAborts
  <2>1. faults' \in 0 .. MaxFaults
    BY <1>3, FaultBound DEF CompactAborts, ShapeInv, TypeOK
  <2> QED BY <1>3, <2>1, ShapeNoHandle DEF CompactAborts
<1>4. CASE RemoveTarget \/ TargetLost
  <2>1. /\ files' = <<>> /\ synced' = <<>> /\ entries' = {} /\ dropped' = {}
        /\ durable' \in {{}, durable} /\ appends' = appends
    BY <1>4 DEF RemoveTarget, TargetLost, NoFiles
  <2>2. DOMAIN files' = {} /\ files' \in [{} -> Seq(Chunk)] /\ synced' \in [{} -> Nat]
    BY <2>1
  <2>3. faults' \in 0 .. MaxFaults
    BY <1>4, FaultBound DEF RemoveTarget, TargetLost, ShapeInv, TypeOK
  <2>4. NoHandle \/ (pc' = "closed" /\ pc = "closed" /\ UNCHANGED <<handle, pending>>)
    BY <1>4 DEF RemoveTarget, TargetLost, CallInv
  <2>5. 1 \in 1 .. MaxTxid /\ NoReport \in Report
    BY WireAssumption DEF NoReport, Report
  <2>6. pc' = "closed" /\ pending' = {}
    BY <2>4 DEF NoHandle, ShapeInv, Opened
  <2>7. TypeOK'
    <3>1. /\ active' \in Nat /\ newId' \in Nat /\ activeSize' \in Nat
          /\ nextTxid' \in 1 .. MaxTxid /\ poisoned' \in BOOLEAN /\ report' \in Report
      <4>1. CASE NoHandle
        BY <2>5, <4>1 DEF NoHandle
      <4>2. CASE UNCHANGED handle
        BY <4>2 DEF ShapeInv, TypeOK, handle
      <4> QED BY <2>4, <4>1, <4>2
    <3>2. appends' \in 0 .. MaxAppends /\ durable' \in SUBSET Ref
      BY <2>1 DEF ShapeInv, TypeOK
    <3> QED BY <2>1, <2>2, <2>3, <2>6, <3>1, <3>2 DEF TypeOK, PC
  <2> QED BY <2>1, <2>2, <2>6, <2>7 DEF ShapeInv, Opened
<1> QED BY <1>1, <1>2, <1>3, <1>4, CompactLogStep

------------------------------------------------------------------------------
(* What is copied *)

\* What is left of a beginning of the copy is one.
LEMMA CopiedPrefix ==
  ASSUME NEW src, NEW s \in Seq(Chunk), Copied(src, s),
         NEW t \in Seq(Chunk), Len(t) <= Len(s),
         \A i \in 1 .. Len(t) : t[i].data = s[i].data
  PROVE  Copied(src, t)
<1>1. /\ Len(s) \in Nat /\ Len(t) \in Nat
      /\ \A i \in 1 .. Len(t) : i \in 1 .. Len(s) /\ t[i].data = s[i].data
  OBVIOUS
<1>2. \A i \in 1 .. Len(t) : /\ t[i].data.key \in DOMAIN src
                             /\ t[i].data = PutOf(src, t[i].data.key)
  BY <1>1 DEF Copied
<1>3. \A i, j \in 1 .. Len(t) : i < j => t[i].data.key < t[j].data.key
  BY <1>1 DEF Copied
<1>4. ASSUME NEW i \in 1 .. Len(t), NEW k \in DOMAIN src, k < t[i].data.key
      PROVE  \E j \in 1 .. (i - 1) : t[j].data.key = k
  <2>1. PICK j \in 1 .. (i - 1) : s[j].data.key = k
    BY <1>1, <1>4 DEF Copied
  <2>2. j \in 1 .. Len(t)
    BY <1>1
  <2> QED BY <1>1, <2>1, <2>2
<1> QED BY <1>2, <1>3, <1>4 DEF Copied

\* The record of the next key continues the copy.
LEMMA CopiedAppend ==
  ASSUME NEW src, DOMAIN src \subseteq Nat, NEW s \in Seq(Chunk), Copied(src, s),
         NEW rest \in SUBSET DOMAIN src, NEW key \in rest,
         \A k \in rest : key <= k,
         \A k \in DOMAIN src : k \in rest <=> \A i \in 1 .. Len(s) : s[i].data.key # k,
         NEW c \in Chunk, c.data = PutOf(src, key)
  PROVE  Copied(src, Append(s, c))
<1> DEFINE t == Append(s, c)
           n == Len(s)
<1>1. /\ t \in Seq(Chunk) /\ Len(t) = n + 1 /\ n \in Nat
      /\ \A i \in 1 .. n : t[i] = s[i]
      /\ t[n + 1] = c
  OBVIOUS
<1>2. c.data.key = key
  BY DEF PutOf
<1>3. \A i \in 1 .. n : /\ s[i].data.key \in DOMAIN src
                        /\ s[i].data = PutOf(src, s[i].data.key)
  BY DEF Copied
<1>4. \A i \in 1 .. n : s[i].data.key < key
  <2> SUFFICES ASSUME NEW i \in 1 .. n PROVE s[i].data.key < key
    OBVIOUS
  <2>1. s[i].data.key # key /\ s[i].data.key \in Nat /\ key \in Nat
    BY <1>3
  <2>2. CASE key < s[i].data.key
    <3>1. PICK j \in 1 .. (i - 1) : s[j].data.key = key
      BY <2>2 DEF Copied
    <3>2. j \in 1 .. n
      BY <1>1
    <3> QED BY <3>1, <3>2
  <2> QED BY <2>1, <2>2
<1>5. ASSUME NEW k \in DOMAIN src, k < key PROVE \E j \in 1 .. n : s[j].data.key = k
  <2>1. k \notin rest
    BY <1>5
  <2> QED BY <2>1
<1> HIDE DEF t
<1>6. \A i \in 1 .. (n + 1) : i \in 1 .. n \/ i = n + 1
  BY <1>1
<1> HIDE DEF n
<1>7. \A i \in 1 .. (n + 1) : /\ t[i].data.key \in DOMAIN src
                              /\ t[i].data = PutOf(src, t[i].data.key)
  BY <1>1, <1>2, <1>3, <1>6
<1>8. \A i, j \in 1 .. (n + 1) : i < j => t[i].data.key < t[j].data.key
  <2> SUFFICES ASSUME NEW i \in 1 .. (n + 1), NEW j \in 1 .. (n + 1), i < j
               PROVE  t[i].data.key < t[j].data.key
    OBVIOUS
  <2>1. i \in 1 .. n
    BY <1>1
  <2>2. CASE j = n + 1
    BY <1>1, <1>2, <1>4, <2>1, <2>2
  <2>3. CASE j \in 1 .. n
    BY <1>1, <2>1, <2>3 DEF Copied, n
  <2> QED BY <1>6, <2>2, <2>3
<1>9. ASSUME NEW i \in 1 .. (n + 1), NEW k \in DOMAIN src, k < t[i].data.key
      PROVE  \E j \in 1 .. (i - 1) : t[j].data.key = k
  <2>1. CASE i \in 1 .. n
    <3>1. PICK j \in 1 .. (i - 1) : s[j].data.key = k
      BY <1>1, <1>9, <2>1 DEF Copied, n
    <3>2. j \in 1 .. n
      BY <1>1, <2>1
    <3> QED BY <1>1, <3>1, <3>2
  <2>2. CASE i = n + 1
    <3>1. PICK j \in 1 .. n : s[j].data.key = k
      BY <1>1, <1>2, <1>5, <1>9, <2>2
    <3>2. i - 1 = n
      BY <1>1, <2>2
    <3> QED BY <1>1, <3>1, <3>2
  <2> QED BY <1>6, <2>1, <2>2
<1> QED BY <1>1, <1>7, <1>8, <1>9 DEF Copied, t

\* A record of another key leaves the place of a key's record as it is.
LEMMA PlacedAppend ==
  ASSUME NEW src, NEW s \in Seq(Chunk), NEW k, NEW c \in Chunk, c.data.key # k,
         Placed(src, s, k)
  PROVE  Placed(src, Append(s, c), k)
<1> DEFINE t == Append(s, c)
<1>1. /\ Len(t) = Len(s) + 1 /\ Len(s) \in Nat
      /\ \A i \in 1 .. Len(s) : t[i] = s[i]
      /\ t[Len(s) + 1] = c
  OBVIOUS
<1>2. PICK i \in 1 .. Len(s) : /\ s[i].data = PutOf(src, k)
                               /\ \A j \in (i + 1) .. Len(s) : s[j].data.key # k
  BY DEF Placed
<1> HIDE DEF t
<1>3. i \in 1 .. Len(t) /\ t[i].data = PutOf(src, k)
  BY <1>1, <1>2
<1>4. ASSUME NEW j \in (i + 1) .. Len(t) PROVE t[j].data.key # k
  <2>1. CASE j = Len(s) + 1
    BY <1>1, <2>1
  <2>2. CASE j # Len(s) + 1
    <3>1. j \in (i + 1) .. Len(s) /\ j \in 1 .. Len(s)
      BY <1>1, <2>2
    <3> QED BY <1>1, <1>2, <3>1
  <2> QED BY <2>1, <2>2
<1> QED BY <1>3, <1>4 DEF Placed, t

\* Where a key's record is depends on what the frames carry.
LEMMA PlacedSame ==
  ASSUME NEW src, NEW s \in Seq(Chunk), NEW k, Placed(src, s, k),
         NEW t \in Seq(Chunk), Len(t) = Len(s), \A i \in 1 .. Len(s) : t[i].data = s[i].data
  PROVE  Placed(src, t, k)
<1>1. PICK i \in 1 .. Len(s) : /\ s[i].data = PutOf(src, k)
                               /\ \A j \in (i + 1) .. Len(s) : s[j].data.key # k
  BY DEF Placed
<1>2. \A j \in (i + 1) .. Len(s) : j \in 1 .. Len(s)
  OBVIOUS
<1> QED BY <1>1, <1>2 DEF Placed

\* A record at the end of the segment is in place.
LEMMA PlacedLast ==
  ASSUME NEW src, NEW s \in Seq(Chunk), Len(s) > 0, NEW k, s[Len(s)].data = PutOf(src, k)
  PROVE  Placed(src, s, k)
<1>1. Len(s) \in 1 .. Len(s) /\ (Len(s) + 1) .. Len(s) = {}
  OBVIOUS
<1> QED BY <1>1 DEF Placed

------------------------------------------------------------------------------
(* The call *)

LEMMA CallInit == CompactInit => CallInv
<1> SUFFICES ASSUME CompactInit PROVE CallInv
  OBVIOUS
<1>1. DOMAIN source \subseteq Keys /\ source \in [DOMAIN source -> Values]
  BY DEF CompactInit
<1> QED BY <1>1 DEF CompactInit, Init, CallInv

\* Nothing writes to the source.
LEMMA SourceKept == ASSUME [CompactNext]_cvars PROVE source' = source
BY DEF CompactNext, CompactCheck, CompactRefused, CompactNotLocked, Intrude, CompactLock,
   CompactCreate, CompactOpened, CompactOpenFails, CopyBegin, CopyFinish, FsyncOut, FsyncOutFinish, TargetError,
   CompactAborts, CompactClose, CompactAgain, RemoveTarget, RemoveSource, RenameTarget,
   ReopenSwapped, CompactCrash, CompactPowerLoss, TargetLost, cvars, compaction

LEMMA HandleStep ==
  ASSUME CallInv, HandleInv, [CompactNext]_cvars
  PROVE  HandleInv'
<1>1. CASE [Next]_vars
  BY <1>1, PoisonedStep DEF HandleInv
<1>2. CASE \E d \in Data, whole \in BOOLEAN : Intrude(d, whole)
  BY <1>2 DEF Intrude, HandleInv, handle
<1>3. CASE CompactAborts \/ TargetLost
  BY <1>3 DEF CompactAborts, TargetLost, NoHandle, HandleInv
<1>4. CASE RemoveTarget
  BY <1>4 DEF RemoveTarget, HandleInv, handle
<1> QED BY <1>1, <1>2, <1>3, <1>4, CompactLogStep

LEMMA GivenUpStep ==
  ASSUME ShapeInv, CallInv, HandleInv, DroppedInv, [CompactNext]_cvars
  PROVE  DroppedInv'
<1>1. CASE TargetError
  <2>1. poisoned' /\ cpc' = "copying" /\ cpc = "copying" /\ files' = files
    BY <1>1 DEF TargetError, AppendError, SyncAllError, DirectoryError, Poison, compaction, disk
  <2>2. Opened
    BY <2>1 DEF CallInv, Opened
  <2> QED BY <2>1, <2>2 DEF ShapeInv, DroppedInv
<1>2. CASE RemoveTarget \/ TargetLost \/ CompactPowerLoss
  BY <1>2 DEF RemoveTarget, TargetLost, CompactPowerLoss, PowerLoss, NoFiles, DroppedInv
<1>3. CASE CompactRefused \/ CompactNotLocked \/ CompactAgain \/ CompactAborts \/ CompactCrash
             \/ UNCHANGED cvars
  BY <1>3 DEF CompactRefused, CompactNotLocked, CompactAgain, CompactAborts, CompactCrash,
     OpenFails, Interrupted, Crash, cvars, vars, disk, handle, compaction, DroppedInv
<1>4. CASE CompactCheck
  BY <1>4 DEF CompactCheck, TargetEmpty, DroppedInv, vars, disk
<1>5. CASE CompactLock \/ CompactCreate \/ CompactOpened \/ CompactOpenFails \/ CompactClose
             \/ RemoveSource \/ RenameTarget \/ ReopenSwapped
             \/ (\E d \in Data, whole \in BOOLEAN : Intrude(d, whole))
  <2>1. dropped' = dropped
    BY <1>5 DEF CompactLock, CompactCreate, CompactOpened, CompactOpenFails, CompactClose,
       RemoveSource, RenameTarget, ReopenSwapped, Intrude, OpenCreate, OpenCreated, OpenExisting,
       OpenFails, Close, vars, disk
  <2>2. cpc \in {"checked", "locked", "opening", "closing", "ok"}
    BY <1>5 DEF CompactLock, CompactCreate, CompactOpened, CompactOpenFails, CompactClose,
       RemoveSource, RenameTarget, ReopenSwapped, Intrude
  <2> QED BY <2>1, <2>2 DEF DroppedInv
<1>6. CASE CopyFinish \/ FsyncOut \/ FsyncOutFinish \/ (\E cut \in Cuts : CopyBegin(cut))
  <2>1. dropped' = dropped /\ ~poisoned /\ cpc = "copying"
    BY <1>6 DEF CopyFinish, FsyncOut, FsyncOutFinish, CopyBegin, AppendFinish, FsyncBegin, SyncAll,
       FsyncFinish, AppendBegin, MayWrite, Ready, HandleInv
  <2> QED BY <2>1 DEF DroppedInv
<1> QED BY <1>1, <1>2, <1>3, <1>4, <1>5, <1>6 DEF CompactNext

LEMMA CallStep ==
  ASSUME ShapeInv, CallInv, [CompactNext]_cvars
  PROVE  CallInv'
<1>0. source' = source
  BY SourceKept
<1>1. CASE CompactCheck
  <2>1. DOMAIN files = {}
    BY <1>1 DEF CompactCheck, TargetEmpty
  <2> QED BY <1>0, <1>1, <2>1 DEF CompactCheck, TargetEmpty, CallInv, target, vars, disk
<1>2. CASE CompactRefused \/ CompactAgain \/ RemoveSource \/ RenameTarget \/ UNCHANGED cvars
  <2>1. UNCHANGED <<files, pc, intruder, placeOnDisk, todo>> /\ place' \in {place, 2, 3}
    BY <1>2 DEF CompactRefused, CompactAgain, RemoveSource, RenameTarget, cvars, compaction,
       target, vars, disk
  <2>2. \/ cpc \in {"idle", "ok", "failed"} /\ cpc' \in {"idle", "ok", "failed"}
        \/ UNCHANGED <<cpc, stats>>
    BY <1>2 DEF CompactRefused, CompactAgain, RemoveSource, RenameTarget, cvars, compaction
  <2>3. place' \in Nat
    BY <2>1 DEF CallInv
  <2> QED BY <1>0, <2>1, <2>2, <2>3 DEF CallInv
<1>3. CASE CompactLock
  BY <1>0, <1>3 DEF CompactLock, CallInv, target, vars, disk
<1>4. ASSUME NEW d \in Data, NEW whole \in BOOLEAN, Intrude(d, whole) PROVE CallInv'
  <2>1. DOMAIN files' = {1} /\ Len(files'[1]) = 1 /\ (whole => AllWhole(files'[1], 1))
    BY <1>4, IntrudeFacts
  <2> QED BY <1>0, <1>4, <2>1 DEF Intrude, CallInv
<1>5. CASE CompactCreate
  <2>1. DOMAIN files' = {1} /\ files'[1] = <<>> /\ pc' = "creating"
    BY <1>5 DEF CompactCreate, OpenCreate, CallInv
  <2> QED BY <1>0, <1>5, <2>1 DEF CompactCreate, CallInv, target
<1>6. CASE CompactOpened \/ ReopenSwapped
  <2>1. files' = files /\ pc' = "idle"
    BY <1>6 DEF CompactOpened, ReopenSwapped, OpenCreated, OpenExisting, OpenScanned, disk
  <2> QED BY <1>0, <1>6, <2>1 DEF CompactOpened, ReopenSwapped, CallInv, target
<1>7. CASE CompactOpenFails \/ CompactNotLocked \/ CompactAborts \/ CompactClose
  <2>1. files' = files /\ pc' = "closed" /\ cpc' \in {"ok", "failed"}
        /\ UNCHANGED <<intruder, placeOnDisk, todo>> /\ place' \in {place, 1}
    BY <1>7 DEF CompactOpenFails, CompactNotLocked, CompactAborts, CompactClose, OpenFails, Close,
       NoHandle, disk, target
  <2>2. place' \in Nat
    BY <2>1 DEF CallInv
  <2> QED BY <1>0, <2>1, <2>2 DEF CallInv
<1>8. ASSUME NEW cut \in Cuts, CopyBegin(cut) PROVE CallInv'
  <2>1. DOMAIN files' = DOMAIN files /\ pc' = "writing" /\ cpc = "copying"
    BY <1>8 DEF CopyBegin, AppendBegin
  <2> QED BY <1>0, <1>8, <2>1 DEF CopyBegin, CallInv, compaction, target
<1>9. CASE CopyFinish
  <2>1. DOMAIN files' = DOMAIN files /\ pc' = "idle"
    BY <1>9 DEF CopyFinish, AppendFinish, Poison
  <2> QED BY <1>0, <1>9, <2>1 DEF CopyFinish, CallInv, target
<1>10. CASE FsyncOut \/ FsyncOutFinish
  <2>1. files' = files
        /\ (FsyncOut => pc' = "syncing" /\ UNCHANGED compaction) /\ (FsyncOutFinish => pc' = "idle")
    BY <1>10 DEF FsyncOut, FsyncOutFinish, FsyncBegin, SyncAll, FsyncFinish
  <2> QED BY <1>0, <1>10, <2>1 DEF FsyncOut, FsyncOutFinish, CallInv, compaction, target
<1>11. CASE TargetError
  <2>1. files' = files /\ pc' = "idle" /\ cpc = "copying"
    BY <1>11 DEF TargetError, AppendError, SyncAllError, DirectoryError, Poison, disk
  <2> QED BY <1>0, <1>11, <2>1 DEF TargetError, CallInv, compaction, target
<1>12. CASE CompactCrash \/ CompactPowerLoss
  <2>1. DOMAIN files' \subseteq DOMAIN files /\ pc' = "closed"
    BY <1>12, PowerLossFacts DEF CompactCrash, CompactPowerLoss, Crash, PowerLoss, NoHandle, disk,
       CallInv
  <2>2. cpc' \in {"idle", "ok", "failed"} /\ UNCHANGED <<intruder, todo>>
    BY <1>12 DEF CompactCrash, CompactPowerLoss, Interrupted, target
  <2>3. place' \in Nat /\ placeOnDisk' \in Nat
    <3>1. CASE CompactCrash
      BY <3>1 DEF CompactCrash, target, CallInv
    <3>2. CASE CompactPowerLoss
      BY <3>2 DEF CompactPowerLoss, CallInv
    <3> QED BY <1>12, <3>1, <3>2
  <2> QED BY <1>0, <2>1, <2>2, <2>3 DEF CallInv
<1>13. CASE RemoveTarget \/ TargetLost
  <2>1. DOMAIN files' = {} /\ pc' = "closed"
    BY <1>13 DEF RemoveTarget, TargetLost, NoFiles, NoHandle, CallInv
  <2>2. cpc' \in {"idle", "ok", "failed"} /\ intruder' \in {"none", intruder} /\ todo' = todo
        /\ place' = 0 /\ placeOnDisk' \in Nat
    BY <1>13 DEF RemoveTarget, TargetLost, Interrupted, CallInv
  <2> QED BY <1>0, <2>1, <2>2 DEF CallInv
<1> QED
  BY <1>1, <1>2, <1>3, <1>4, <1>5, <1>6, <1>7, <1>8, <1>9, <1>10, <1>11, <1>12, <1>13
  DEF CompactNext

------------------------------------------------------------------------------
(* What the steps do to the target's segment *)

\* A call that has a handle writes to segment 1.
LEMMA TargetFile ==
  ASSUME ShapeInv, CallInv, cpc \in {"copying", "closing", "reopened"}
  PROVE  /\ active = 1 /\ DOMAIN files = {1}
         /\ files[1] \in Seq(Chunk) /\ Laid(files[1]) /\ Len(files[1]) \in Nat
         /\ pc = "writing" => Len(files[1]) > 0
<1>1. Opened
  BY DEF CallInv, Opened
<1>2. active = 1 /\ DOMAIN files = {1}
  BY <1>1 DEF CallInv, ShapeInv
<1> QED BY <1>2 DEF ShapeInv, TypeOK, ActiveFile

\* An append begins: a part of the next key's record is at the end.
LEMMA BeginFacts ==
  ASSUME ShapeInv, CallInv, NEW cut \in Cuts, CopyBegin(cut)
  PROVE  /\ DOMAIN files' = {1}
         /\ \E c \in Chunk : /\ c.data = PutOf(source, NextKey) /\ c.at = FileSize(files[1])
                             /\ files'[1] = Append(files[1], c)
<1> DEFINE d == PutOf(source, NextKey)
           frame == EncodeRecord(nextTxid, d, FileSize(files[1]))
           c == CutTo(frame, cut)
<1>1. cpc = "copying" /\ todo # {} /\ AppendBegin(d, cut)
  BY DEF CopyBegin, PutOf
<1>2. d \in Data
  BY <1>1, NextKeyIs
<1>3. active = 1 /\ DOMAIN files = {1} /\ files[1] \in Seq(Chunk)
  BY <1>1, TargetFile
<1> HIDE DEF d
<1>4. files' = [files EXCEPT ![1] = Append(files[1], c)]
  BY <1>1, <1>3 DEF AppendBegin
<1>5. FileSize(files[1]) \in Nat /\ nextTxid \in 1 .. MaxTxid /\ cut \in Nat
  BY <1>3, FileSizeType, RecordLogAssumption DEF ShapeInv, TypeOK
<1>6. frame \in Chunk /\ frame.data = d /\ frame.at = FileSize(files[1])
  BY <1>2, <1>5, WholeFrame
<1> HIDE DEF frame
<1>7. c \in Chunk /\ c.data = d /\ c.at = FileSize(files[1])
  BY <1>5, <1>6, CutToFacts
<1> HIDE DEF c
<1> QED BY <1>3, <1>4, <1>7 DEF d

\* An append ends: the last frame is whole.
LEMMA FinishFacts ==
  ASSUME ShapeInv, CallInv, CopyFinish
  PROVE  /\ DOMAIN files' = {1} /\ files'[1] \in Seq(Chunk)
         /\ Len(files'[1]) = Len(files[1])
         /\ \A i \in 1 .. Len(files[1]) : files'[1][i].data = files[1][i].data
         /\ AllWhole(files[1], Len(files[1]) - 1) => AllWhole(files'[1], Len(files[1]))
         /\ FullLength(files[1], Len(files[1]) - 1) => FullLength(files'[1], Len(files[1]))
         /\ files'[1][Len(files[1])].at = files[1][Len(files[1])].at
         /\ FileSize(files'[1]) = files[1][Len(files[1])].at + files'[1][Len(files[1])].len
<1> DEFINE s == files[1]
           t == Completed(s)
           n == Len(s)
<1>1. /\ cpc = "copying" /\ pc = "writing"
      /\ active = 1 /\ DOMAIN files = {1} /\ s \in Seq(Chunk) /\ Laid(s) /\ n \in Nat /\ n > 0
  BY TargetFile DEF CopyFinish, AppendFinish
<1>2. files' = [files EXCEPT ![1] = t]
  BY <1>1 DEF CopyFinish, AppendFinish
<1>3. DOMAIN files' = {1} /\ files'[1] = t
  BY <1>1, <1>2
<1> HIDE DEF s, t
<1>4. /\ t \in Seq(Chunk) /\ Len(t) = n
      /\ \A i \in 1 .. (n - 1) : t[i] = s[i]
      /\ t[n] = EncodeRecord(s[n].txid, s[n].data, s[n].at)
  BY <1>1, CompletedFacts DEF t
<1>5. s[n].txid \in 1 .. MaxTxid /\ s[n].data \in Data /\ s[n].at \in Nat
  <2>1. n \in 1 .. Len(s)
    BY <1>1
  <2> HIDE DEF n
  <2> QED BY <1>1, <2>1, ChunkFields
<1>6. t[n].data = s[n].data /\ t[n].state = "whole" /\ t[n].at = s[n].at
  BY <1>4, <1>5, WholeFrame
<1>7. FileSize(t) = t[n].at + t[n].len
  BY <1>1, <1>4 DEF FileSize
<1> HIDE DEF n
<1>8. \A i \in 1 .. n : i \in 1 .. (n - 1) \/ i = n
  BY <1>1
<1>9. \A i \in 1 .. n : t[i].data = s[i].data
  BY <1>4, <1>6, <1>8
<1>10. FullLength(s, n - 1) => FullLength(t, n)
  BY <1>4, <1>6, <1>8 DEF FullLength
<1>11. AllWhole(s, n - 1) => AllWhole(t, n)
  BY <1>4, <1>6, <1>8 DEF AllWhole
<1> QED BY <1>3, <1>4, <1>6, <1>7, <1>9, <1>10, <1>11 DEF s, n

\* Power loss: what is left of the segment, and all of it if it was synced and
\* no page was dropped.
LEMMA LossFacts ==
  ASSUME ShapeInv, CallInv, CompactPowerLoss
  PROVE  /\ entries \subseteq DOMAIN files' /\ DOMAIN files' \subseteq DOMAIN files
         /\ entries' = DOMAIN files'
         /\ \A id \in DOMAIN files' :
               /\ files'[id] \in Seq(Chunk) /\ files[id] \in Seq(Chunk)
               /\ Len(files'[id]) <= Len(files[id])
               /\ \A i \in 1 .. Len(files'[id]) : files'[id][i].data = files[id][i].data
               /\ \A n \in Nat : (n < Len(files'[id]) /\ FullLength(files[id], n))
                                   => FullLength(files'[id], n)
               /\ synced'[id] = Len(files'[id])
               /\ (dropped = {} /\ synced[id] = Len(files[id])) => files'[id] = files[id]
<1>1. PowerLoss
  BY DEF CompactPowerLoss
<1>2. /\ entries \subseteq DOMAIN files' /\ DOMAIN files' \subseteq DOMAIN files
      /\ entries' = DOMAIN files'
      /\ files' \in [DOMAIN files' -> Seq(Chunk)]
  BY <1>1, PowerLossFacts
<1>3. ASSUME NEW id \in DOMAIN files'
      PROVE  /\ files'[id] \in Seq(Chunk) /\ files[id] \in Seq(Chunk)
             /\ Len(files'[id]) <= Len(files[id])
             /\ \A i \in 1 .. Len(files'[id]) : files'[id][i].data = files[id][i].data
             /\ \A n \in Nat : (n < Len(files'[id]) /\ FullLength(files[id], n))
                                 => FullLength(files'[id], n)
             /\ synced'[id] = Len(files'[id])
             /\ (dropped = {} /\ synced[id] = Len(files[id])) => files'[id] = files[id]
  <2>1. id \in DOMAIN files /\ files[id] \in Seq(Chunk) /\ Laid(files[id])
    BY <1>2 DEF ShapeInv, TypeOK
  <2>2. /\ OnDisk(id) \in Seq(Chunk) /\ Len(OnDisk(id)) = Len(files[id])
        /\ dropped = {} => OnDisk(id) = files[id]
        /\ \A i \in 1 .. Len(files[id]) :
              /\ OnDisk(id)[i].data = files[id][i].data
              /\ OnDisk(id)[i].state \in {files[id][i].state, "crc"}
    <3>1. \A i \in 1 .. Len(files[id]) :
             /\ OnDisk(id)[i].data = files[id][i].data
             /\ OnDisk(id)[i].state \in {files[id][i].state, "crc"}
      <4> SUFFICES ASSUME NEW i \in 1 .. Len(files[id])
                   PROVE  /\ OnDisk(id)[i].data = files[id][i].data
                          /\ OnDisk(id)[i].state \in {files[id][i].state, "crc"}
        OBVIOUS
      <4>1. files[id][i] \in Chunk
        BY <2>1
      <4>2. OnDisk(id)[i] \in {files[id][i], [files[id][i] EXCEPT !.state = "crc"]}
        BY DEF OnDisk
      <4> QED BY <4>1, <4>2 DEF Chunk
    <3> QED BY <2>1, <3>1, OnDiskFacts
  <2>3. /\ synced[id] <= synced'[id] /\ synced'[id] = Len(files'[id])
        /\ Len(files'[id]) <= Len(files[id])
        /\ \A i \in 1 .. synced[id] : files'[id][i] = OnDisk(id)[i]
        /\ \A i \in 1 .. (Len(files'[id]) - 1) : files'[id][i] = OnDisk(id)[i]
        /\ \A i \in 1 .. Len(files'[id]) : Remains(OnDisk(id)[i], files'[id][i])
    BY <1>1, PowerLossFacts
  <2>4. files'[id] \in Seq(Chunk)
    BY <1>2
  <2> DEFINE s == files[id]
             t == files'[id]
             u == OnDisk(id)
  <2>5. Len(s) \in Nat /\ Len(t) \in Nat
    BY <2>1, <2>4
  <2> HIDE DEF s, t, u
  <2>6. \A i \in 1 .. Len(t) : t[i].data = s[i].data
    <3> SUFFICES ASSUME NEW i \in 1 .. Len(t) PROVE t[i].data = s[i].data
      OBVIOUS
    <3>1. i \in 1 .. Len(s)
      BY <2>3, <2>5 DEF s, t
    <3>2. u[i].data = s[i].data
      BY <2>2, <3>1 DEF s, u
    <3> QED BY <2>3, <3>2 DEF Remains, t, u
  <2>7. ASSUME NEW n \in Nat, n < Len(t), FullLength(s, n) PROVE FullLength(t, n)
    <3> SUFFICES ASSUME NEW i \in 1 .. n PROVE t[i].state \in {"whole", "crc"}
      BY DEF FullLength
    <3>1. i \in 1 .. (Len(t) - 1) /\ i \in 1 .. Len(s)
      BY <2>3, <2>5, <2>7 DEF s, t
    <3>2. t[i] = u[i]
      BY <2>3, <3>1 DEF t, u
    <3>3. u[i].state \in {s[i].state, "crc"}
      BY <2>2, <3>1 DEF s, u
    <3> QED BY <2>7, <3>2, <3>3 DEF FullLength
  <2>8. ASSUME dropped = {}, synced[id] = Len(s) PROVE t = s
    <3>1. Len(t) = Len(s)
      BY <2>3, <2>5, <2>8 DEF s, t
    <3>2. \A i \in 1 .. Len(s) : t[i] = s[i]
      BY <2>2, <2>3, <2>8 DEF s, t
    <3>3. s \in Seq(Chunk) /\ t \in Seq(Chunk)
      BY <2>1, <2>4 DEF s, t
    <3> QED BY <3>1, <3>2, <3>3
  <2> QED BY <2>1, <2>3, <2>4, <2>6, <2>7, <2>8 DEF s, t
<1> QED BY <1>2, <1>3

------------------------------------------------------------------------------
(* The invariants of the copy *)

LEMMA CopyStep ==
  ASSUME ShapeInv, CallInv, CopyInv, LoopInv, [CompactNext]_cvars
  PROVE  CopyInv'
<1> SUFFICES ASSUME intruder' = "none" PROVE CopyInv'
  BY DEF CopyInv
<1>0. source' = source
  BY SourceKept
<1>1. CASE files' = files /\ intruder' = intruder
  BY <1>0, <1>1 DEF CopyInv
<1>2. CASE RemoveTarget \/ TargetLost \/ CompactCheck
  <2>1. DOMAIN files' = {}
    BY <1>2 DEF RemoveTarget, TargetLost, NoFiles, CompactCheck, TargetEmpty, vars, disk
  <2> QED BY <2>1 DEF CopyInv
<1>3. CASE CompactCreate
  <2>1. DOMAIN files' = {1} /\ files'[1] = <<>>
    BY <1>3 DEF CompactCreate, OpenCreate, CallInv
  <2> QED BY <2>1 DEF CopyInv, Copied, FullLength
<1>4. ASSUME NEW cut \in Cuts, CopyBegin(cut) PROVE CopyInv'
  <2>1. /\ cpc = "copying" /\ pc = "idle" /\ ~poisoned /\ todo # {} /\ intruder = "none"
    BY <1>4 DEF CopyBegin, AppendBegin, MayWrite, Ready, compaction, target
  <2>2. DOMAIN files = {1} /\ files[1] \in Seq(Chunk) /\ Len(files[1]) \in Nat
    BY <2>1, TargetFile
  <2>3. PICK c \in Chunk : /\ c.data = PutOf(source, NextKey) /\ c.at = FileSize(files[1])
                           /\ files'[1] = Append(files[1], c)
    BY <1>4, BeginFacts
  <2>4. DOMAIN files' = {1}
    BY <1>4, BeginFacts
  <2>5. /\ AllWhole(files[1], Len(files[1])) /\ Copied(source, files[1])
        /\ \A k \in DOMAIN source :
              k \in todo <=> \A i \in 1 .. Len(files[1]) : files[1][i].data.key # k
    BY <2>1, <2>2 DEF LoopInv, CopyInv
  <2>6. /\ NextKey \in todo /\ \A k \in todo : NextKey <= k
        /\ todo \in SUBSET DOMAIN source /\ DOMAIN source \subseteq Nat
    BY <2>1, NextKeyIs, KeydirAssumption DEF CallInv
  <2> DEFINE s == files[1]
             key == NextKey
  <2> HIDE DEF s, key
  <2>7. Copied(source, Append(s, c))
    <3>1. c.data = PutOf(source, key) /\ key \in todo /\ \A k \in todo : key <= k
      BY <2>3, <2>6 DEF key
    <3>2. /\ s \in Seq(Chunk) /\ Copied(source, s)
          /\ \A k \in DOMAIN source : k \in todo <=> \A i \in 1 .. Len(s) : s[i].data.key # k
      BY <2>2, <2>5 DEF s
    <3> QED BY <2>6, <3>1, <3>2, CopiedAppend
  <2>8. Len(Append(s, c)) = Len(s) + 1 /\ \A i \in 1 .. Len(s) : Append(s, c)[i] = s[i]
    BY <2>2 DEF s
  <2>9. FullLength(Append(s, c), Len(Append(s, c)) - 1)
    <3>1. Len(Append(s, c)) - 1 = Len(s)
      BY <2>2, <2>8 DEF s
    <3> QED BY <2>5, <2>8, <3>1 DEF AllWhole, FullLength, s
  <2> QED BY <1>0, <2>3, <2>4, <2>7, <2>9 DEF CopyInv, s
<1>5. CASE CopyFinish
  <2>1. cpc = "copying" /\ intruder = "none"
    BY <1>5 DEF CopyFinish, target
  <2>2. /\ DOMAIN files = {1} /\ files[1] \in Seq(Chunk)
        /\ Copied(source, files[1]) /\ FullLength(files[1], Len(files[1]) - 1)
    BY <2>1, TargetFile DEF CopyInv
  <2>3. /\ DOMAIN files' = {1} /\ files'[1] \in Seq(Chunk) /\ Len(files'[1]) = Len(files[1])
        /\ \A i \in 1 .. Len(files[1]) : files'[1][i].data = files[1][i].data
        /\ FullLength(files'[1], Len(files[1]))
    BY <1>5, <2>2, FinishFacts
  <2>4. Copied(source, files'[1])
    BY <2>2, <2>3, CopiedPrefix
  <2>5. FullLength(files'[1], Len(files'[1]) - 1)
    BY <2>2, <2>3 DEF FullLength
  <2> QED BY <1>0, <2>3, <2>4, <2>5 DEF CopyInv
<1>6. CASE CompactPowerLoss
  <2> SUFFICES ASSUME NEW id \in DOMAIN files'
               PROVE  Copied(source, files'[id]) /\ FullLength(files'[id], Len(files'[id]) - 1)
    BY <1>0 DEF CopyInv
  <2> DEFINE s == files[id]
             t == files'[id]
  <2>1. /\ id \in DOMAIN files /\ t \in Seq(Chunk) /\ s \in Seq(Chunk) /\ Len(t) <= Len(s)
        /\ \A i \in 1 .. Len(t) : t[i].data = s[i].data
        /\ \A n \in Nat : (n < Len(t) /\ FullLength(s, n)) => FullLength(t, n)
    BY <1>6, LossFacts
  <2>2. Copied(source, s) /\ FullLength(s, Len(s) - 1)
    BY <1>6, <2>1 DEF CopyInv, CompactPowerLoss
  <2>3. Len(s) \in Nat /\ Len(t) \in Nat
    BY <2>1
  <2> HIDE DEF s, t
  <2>4. Copied(source, t)
    BY <2>1, <2>2, CopiedPrefix
  <2>5. FullLength(t, Len(t) - 1)
    <3>1. CASE Len(t) = 0
      BY <3>1 DEF FullLength
    <3>2. CASE Len(t) > 0
      <4>1. Len(t) - 1 \in Nat /\ Len(t) - 1 < Len(t)
        BY <2>3, <3>2
      <4>2. FullLength(s, Len(t) - 1)
        BY <2>1, <2>2, <2>3 DEF FullLength
      <4> QED BY <2>1, <4>1, <4>2
    <3> QED BY <2>3, <3>1, <3>2
  <2> QED BY <2>4, <2>5 DEF t
<1>7. ~ \E d \in Data, whole \in BOOLEAN : Intrude(d, whole)
  BY DEF Intrude
<1>8. CASE CompactNotLocked \/ CompactRefused \/ CompactLock \/ CompactOpened \/ CompactOpenFails
             \/ FsyncOut \/ FsyncOutFinish \/ TargetError \/ CompactAborts \/ CompactClose
             \/ CompactAgain \/ RemoveSource \/ RenameTarget \/ ReopenSwapped \/ CompactCrash
             \/ UNCHANGED cvars
  <2>1. intruder' = intruder
    BY <1>8 DEF CompactNotLocked, CompactRefused, CompactLock, CompactOpened, CompactOpenFails,
       FsyncOut, FsyncOutFinish, TargetError, CompactAborts, CompactClose, CompactAgain,
       RemoveSource, RenameTarget, ReopenSwapped, CompactCrash, cvars, compaction, target
  <2>2. files' = files
    BY <1>8 DEF CompactNotLocked, CompactRefused, CompactLock, CompactOpened, CompactOpenFails,
       FsyncOut, FsyncOutFinish, TargetError, CompactAborts, CompactClose, CompactAgain,
       RemoveSource, RenameTarget, ReopenSwapped, CompactCrash, cvars, vars, disk, OpenCreated,
       OpenExisting, OpenFails, FsyncBegin, SyncAll, FsyncFinish, AppendError, SyncAllError,
       DirectoryError, Close, Crash
  <2> QED BY <1>1, <2>1, <2>2
<1> QED BY <1>2, <1>3, <1>4, <1>5, <1>6, <1>7, <1>8 DEF CompactNext
LEMMA LoopStep ==
  ASSUME ShapeInv, CallInv, HandleInv, LoopInv, [CompactNext]_cvars
  PROVE  LoopInv'
<1>0. source' = source
  BY SourceKept
<1>1. CASE ~(((cpc' = "copying" /\ ~poisoned') \/ cpc' = "closing"))
  BY <1>1 DEF LoopInv
<1>2. CASE CompactOpened
  <2> DEFINE s == files[1]
  <2>1. /\ cpc' = "copying" /\ pc' = "idle" /\ files' = files
        /\ UNCHANGED <<todo, stats, intruder>> /\ ScanOk(files)
        /\ activeSize' = LogicalEnd(files[ActiveSegmentId(files)])
    BY <1>2 DEF CompactOpened, OpenCreated, OpenExisting, OpenScanned, disk, target
  <2>2. todo = DOMAIN source /\ stats = [records_written |-> 0, bytes_written |-> 0]
    BY <1>2 DEF CompactOpened, CallInv
  <2>3. DOMAIN files = {1}
    BY <1>2 DEF CompactOpened, OpenCreated, OpenExisting, ShapeInv, CallInv, ListSegmentIds
  <2>4. s \in Seq(Chunk)
    BY <2>3 DEF ShapeInv, TypeOK
  <2>5. intruder = "none" => s = <<>>
    <3>1. CASE cpc = "opening"
      BY <3>1 DEF CallInv
    <3>2. CASE cpc = "locked"
      <4>1. intruder = "none" => files = <<>>
        BY <3>2 DEF CallInv
      <4> QED BY <2>3, <4>1
    <3> QED BY <1>2, <3>1, <3>2 DEF CompactOpened
  <2>6. intruder = "store" => AllWhole(s, Len(s))
    <3>1. CASE cpc = "locked"
      BY <2>3, <3>1 DEF CallInv
    <3>2. CASE cpc = "opening"
      BY <3>2 DEF CallInv, AllWhole
    <3> QED BY <1>2, <3>1, <3>2 DEF CompactOpened
  <2>7. intruder = "none" => activeSize' = 0 /\ FileSize(s) = 0
    <3>1. ListSegmentIds(files) = {1}
      BY <2>3, SegmentsAssumption DEF ListSegmentIds
    <3>2. ActiveSegmentId(files) = 1
      <4>1. {1} \in SUBSET Nat /\ 1 \in {1} /\ \A y \in {1} : y <= 1
        OBVIOUS
      <4>2. Max({1}) = 1
        BY <4>1, MaxIs
      <4> QED BY <3>1, <4>2 DEF ActiveSegmentId
    <3> QED BY <2>1, <2>5, <3>2 DEF LogicalEnd, FileSize
  <2>8. intruder \in {"none", "store", "torn"}
    BY DEF CallInv
  <2>9. intruder = "none" => AllWhole(s, Len(s)) /\ Len(s) = 0
    BY <2>5 DEF AllWhole
  <2> QED BY <1>0, <2>1, <2>2, <2>6, <2>7, <2>8, <2>9 DEF LoopInv
<1>3. ASSUME NEW cut \in Cuts, CopyBegin(cut) PROVE LoopInv'
  <2> DEFINE s == files[1]
             key == NextKey
  <2>1. /\ cpc = "copying" /\ pc = "idle" /\ ~poisoned /\ todo # {}
        /\ cpc' = cpc /\ pc' = "writing"
        /\ UNCHANGED <<todo, stats, intruder, activeSize>>
    BY <1>3 DEF CopyBegin, AppendBegin, MayWrite, Ready, compaction, target, handle
  <2>2. s \in Seq(Chunk) /\ Len(s) \in Nat
    BY <2>1, TargetFile
  <2>3. PICK c \in Chunk : /\ c.data = PutOf(source, key) /\ c.at = FileSize(s)
                           /\ files'[1] = Append(s, c)
    BY <1>3, BeginFacts
  <2>4. key \in todo /\ NextKey' = key
    BY <2>1, NextKeyIs DEF NextKey
  <2> DEFINE t == files'[1]
  <2> HIDE DEF s, key, t
  <2>5. /\ Len(t) = Len(s) + 1 /\ Len(t) - 1 = Len(s) /\ t[Len(t)] = c
        /\ \A i \in 1 .. Len(s) : t[i] = s[i]
    BY <2>2, <2>3 DEF t
  <2>6. /\ intruder # "torn" => /\ AllWhole(s, Len(s))
                               /\ \A k \in DOMAIN source \ todo : Placed(source, s, k)
        /\ intruder = "none" =>
              /\ \A k \in DOMAIN source : k \in todo <=> \A i \in 1 .. Len(s) : s[i].data.key # k
              /\ stats.records_written = Len(s) /\ stats.bytes_written = activeSize
              /\ activeSize = FileSize(s)
    BY <2>1 DEF LoopInv, s
  <2>7. intruder # "torn" => AllWhole(t, Len(s))
    BY <2>5, <2>6 DEF AllWhole
  <2>8. intruder # "torn" => \A k \in DOMAIN source \ todo : Placed(source, t, k)
    <3> SUFFICES ASSUME intruder # "torn", NEW k \in DOMAIN source \ todo
                 PROVE  Placed(source, t, k)
      OBVIOUS
    <3>1. c.data.key # k
      BY <2>3, <2>4 DEF PutOf
    <3>2. Placed(source, s, k)
      BY <2>6
    <3>3. Placed(source, Append(s, c), k)
      BY <2>2, <3>1, <3>2, PlacedAppend
    <3> QED BY <2>3, <3>3 DEF t
  <2>9. intruder = "none" =>
          \A k \in DOMAIN source : k \in todo <=> \A i \in 1 .. Len(s) : t[i].data.key # k
    BY <2>5, <2>6
  <2>10. t[Len(t)].data = PutOf(source, key) /\ t[Len(t)].at = FileSize(s)
    BY <2>3, <2>5
  <2> QED
    <3>1. /\ (pc' = "syncing" \/ cpc' = "closing") = FALSE /\ pc' = "writing"
          /\ cpc' # "closing"
      BY <2>1
    <3>2. intruder' # "torn" => /\ AllWhole(t, Len(t) - 1)
                                /\ todo' # {} /\ t[Len(t)].data = PutOf(source', NextKey')
                                /\ \A k \in DOMAIN source' \ todo' : Placed(source', t, k)
      BY <1>0, <2>1, <2>4, <2>5, <2>7, <2>8, <2>10
    <3>3. intruder' = "none" =>
            /\ \A k \in DOMAIN source' : k \in todo' <=> \A i \in 1 .. (Len(t) - 1) : t[i].data.key # k
            /\ stats'.records_written = Len(t) - 1 /\ stats'.bytes_written = activeSize'
            /\ activeSize' = t[Len(t)].at
      BY <1>0, <2>1, <2>5, <2>6, <2>9, <2>10
    <3> QED BY <3>1, <3>2, <3>3 DEF LoopInv, t
<1>4. CASE CopyFinish /\ ~poisoned'
  <2> DEFINE s == files[1]
             t == files'[1]
             n == Len(s)
             key == NextKey
  <2>1. /\ cpc = "copying" /\ cpc' = cpc /\ pc = "writing" /\ pc' = "idle" /\ ~poisoned
        /\ intruder' = intruder /\ todo' = todo \ {key}
        /\ stats' = [records_written |-> stats.records_written + 1,
                     bytes_written |-> stats.bytes_written + activeSize' - activeSize]
    BY <1>4 DEF CopyFinish, AppendFinish, Poison, HandleInv, target
  <2>2. s \in Seq(Chunk) /\ n \in Nat /\ n > 0 /\ active = 1 /\ DOMAIN files = {1}
    BY <2>1, TargetFile
  <2>3. activeSize' = activeSize + t[n].len
    <3>1. t = Completed(s)
      BY <1>4, <2>2 DEF CopyFinish, AppendFinish
    <3> QED BY <1>4, <2>2, <3>1 DEF CopyFinish, AppendFinish, Poison, ActiveFile
  <2>4. /\ t \in Seq(Chunk) /\ Len(t) = n
        /\ \A i \in 1 .. n : t[i].data = s[i].data
        /\ AllWhole(s, n - 1) => AllWhole(t, n)
        /\ FileSize(t) = s[n].at + t[n].len
    BY <1>4, FinishFacts
  <2>5. /\ intruder # "torn" => /\ AllWhole(s, n - 1) /\ s[n].data = PutOf(source, key)
                               /\ todo # {}
                               /\ \A k \in DOMAIN source \ todo : Placed(source, s, k)
        /\ intruder = "none" =>
              /\ \A k \in DOMAIN source :
                    k \in todo <=> \A i \in 1 .. (n - 1) : s[i].data.key # k
              /\ stats.records_written = n - 1 /\ stats.bytes_written = activeSize
              /\ activeSize = s[n].at
    BY <2>1 DEF LoopInv
  <2>6. activeSize \in Nat /\ t[n].len \in Nat
    <3>1. n \in 1 .. Len(t)
      BY <2>2, <2>4
    <3>2. t[n] \in Chunk
      BY <2>4, <3>1
    <3> QED BY <3>2 DEF ShapeInv, TypeOK, Chunk
  <2> HIDE DEF s, t, n, key
  <2>7. intruder # "torn" => \A k \in DOMAIN source \ todo' : Placed(source, t, k)
    <3> SUFFICES ASSUME intruder # "torn", NEW k \in DOMAIN source \ todo'
                 PROVE  Placed(source, t, k)
      OBVIOUS
    <3>1. CASE k = key
      <4>1. Len(t) > 0 /\ t[Len(t)].data = PutOf(source, k)
        BY <2>2, <2>4, <2>5, <3>1
      <4> QED BY <2>4, <4>1, PlacedLast
    <3>2. CASE k # key
      <4>1. Placed(source, s, k)
        BY <2>1, <2>5, <3>2
      <4>2. n = Len(s)
        BY DEF n
      <4> QED BY <2>2, <2>4, <4>1, <4>2, PlacedSame
    <3> QED BY <3>1, <3>2
  <2>8. intruder = "none" =>
          \A k \in DOMAIN source : k \in todo' <=> \A i \in 1 .. n : t[i].data.key # k
    <3> SUFFICES ASSUME intruder = "none", NEW k \in DOMAIN source
                 PROVE  k \in todo' <=> \A i \in 1 .. n : t[i].data.key # k
      OBVIOUS
    <3>1. s[n].data.key = key
      BY <2>5 DEF PutOf
    <3>2. (\A i \in 1 .. n : s[i].data.key # k)
            <=> (k # key /\ \A i \in 1 .. (n - 1) : s[i].data.key # k)
      BY <2>2, <3>1
    <3>3. (\A i \in 1 .. n : t[i].data.key # k) <=> (\A i \in 1 .. n : s[i].data.key # k)
      BY <2>4
    <3> QED BY <2>1, <2>5, <3>2, <3>3
  <2>9. intruder = "none" => /\ stats'.records_written = n
                             /\ stats'.bytes_written = activeSize' /\ activeSize' = FileSize(t)
    <3> SUFFICES ASSUME intruder = "none"
                 PROVE  /\ stats'.records_written = n
                        /\ stats'.bytes_written = activeSize' /\ activeSize' = FileSize(t)
      OBVIOUS
    <3>1. stats'.records_written = n
      BY <2>1, <2>2, <2>5
    <3>2. stats'.bytes_written = activeSize'
      BY <2>1, <2>3, <2>5, <2>6
    <3>3. activeSize' = FileSize(t)
      BY <2>3, <2>4, <2>5
    <3> QED BY <3>1, <3>2, <3>3
  <2> QED BY <1>0, <2>1, <2>4, <2>5, <2>7, <2>8, <2>9 DEF LoopInv, t
<1>5. CASE FsyncOut
  <2>1. /\ cpc = "copying" /\ cpc' = cpc /\ pc = "idle" /\ pc' = "syncing" /\ ~poisoned
        /\ files' = files /\ UNCHANGED <<todo, stats, intruder, activeSize>> /\ todo = {}
        /\ synced' = [synced EXCEPT ![active] = Len(ActiveFile)]
    BY <1>5 DEF FsyncOut, FsyncBegin, SyncAll, Ready, compaction, target, handle
  <2>2. synced'[1] = Len(files[1])
    BY <2>1, TargetFile DEF ActiveFile, ShapeInv, TypeOK
  <2> QED BY <1>0, <2>1, <2>2 DEF LoopInv
<1>6. CASE FsyncOutFinish
  <2>1. /\ cpc = "copying" /\ cpc' = "closing" /\ pc = "syncing" /\ pc' = "idle"
        /\ UNCHANGED <<files, synced, todo, stats, intruder, activeSize>>
        /\ entries' = DOMAIN files
    BY <1>6 DEF FsyncOutFinish, FsyncFinish, target, handle
  <2>2. ~poisoned /\ DOMAIN files = {1}
    BY <2>1, TargetFile DEF HandleInv
  <2> QED BY <1>0, <2>1, <2>2 DEF LoopInv
<1>7. CASE TargetError
  <2>1. poisoned' /\ cpc' = "copying"
    BY <1>7 DEF TargetError, AppendError, SyncAllError, DirectoryError, Poison, compaction
  <2> QED BY <1>1, <2>1
<1>8. CASE UNCHANGED cvars
  <2>1. UNCHANGED <<cpc, poisoned, pc, files, synced, entries, todo, stats, intruder, activeSize>>
    BY <1>8 DEF cvars, vars, disk, handle, compaction, target
  <2> QED BY <1>0, <2>1 DEF LoopInv, NextKey
<1>9. CASE CompactCheck \/ CompactRefused \/ CompactNotLocked \/ CompactLock \/ CompactCreate
             \/ CompactOpenFails \/ CompactAborts \/ CompactClose \/ CompactAgain \/ RemoveTarget \/ RemoveSource
             \/ RenameTarget \/ ReopenSwapped \/ CompactCrash \/ CompactPowerLoss \/ TargetLost
             \/ \E d \in Data, whole \in BOOLEAN : Intrude(d, whole)
  <2>1. cpc' \notin {"copying", "closing"}
    BY <1>9 DEF CompactCheck, CompactRefused, CompactNotLocked, CompactLock, CompactCreate,
       CompactOpenFails, CompactAborts, CompactClose, CompactAgain, RemoveTarget, RemoveSource, RenameTarget,
       ReopenSwapped, CompactCrash, CompactPowerLoss, TargetLost, Intrude, Interrupted
  <2> QED BY <1>1, <2>1
<1>10. CASE CopyFinish /\ poisoned'
  <2>1. cpc' = "copying"
    BY <1>10 DEF CopyFinish
  <2> QED BY <1>1, <1>10, <2>1
<1> QED BY <1>2, <1>3, <1>4, <1>5, <1>6, <1>7, <1>8, <1>9, <1>10 DEF CompactNext

LEMMA CompleteStep ==
  ASSUME ShapeInv, CallInv, DroppedInv, LoopInv, CompleteInv, [CompactNext]_cvars
  PROVE  CompleteInv'
<1>0. source' = source
  BY SourceKept
<1>1. CASE CompactClose
  <2>1. /\ cpc = "closing" /\ cpc' = "ok" /\ succeeded' = TRUE /\ pc = "idle"
        /\ UNCHANGED <<files, synced, entries, stats, intruder>> /\ dropped' = {}
    BY <1>1 DEF CompactClose, Close, disk, target, CallInv, DroppedInv
  <2> QED BY <1>0, <2>1 DEF LoopInv, CompleteInv
<1>2. CASE RemoveTarget \/ TargetLost
  <2>1. succeeded' \in {FALSE, succeeded} /\ place' = 0 /\ cpc' \in {"idle", "ok", "failed"}
    BY <1>2 DEF RemoveTarget, TargetLost, Interrupted
  <2> QED BY <2>1 DEF CompleteInv
<1>3. CASE CompactPowerLoss
  <2>1. /\ cpc' = Interrupted /\ UNCHANGED <<stats, intruder, succeeded>> /\ dropped' = {}
        /\ \E p \in (placeOnDisk .. place) \ {0} : place' = p
    BY <1>3 DEF CompactPowerLoss, PowerLoss
  <2>2. /\ cpc' \in {"idle", "ok", "failed"} /\ (cpc' = "ok" => cpc = "ok")
    BY <2>1 DEF Interrupted
  <2>3. (place' >= 2 => place >= 2) /\ (place' # 0 => place # 0)
    BY <2>1 DEF CallInv
  <2>4. ASSUME succeeded, place' # 0
        PROVE  entries' = {1} /\ files'[1] = files[1] /\ synced'[1] = Len(files[1])
    <3>1. entries = {1} /\ synced[1] = Len(files[1]) /\ dropped = {}
      BY <2>3, <2>4 DEF CompleteInv
    <3>2. DOMAIN files' = {1}
      BY <1>3, <3>1, LossFacts DEF CallInv
    <3> QED BY <1>3, <3>1, <3>2, LossFacts
  <2> QED BY <1>0, <2>1, <2>2, <2>3, <2>4 DEF CompleteInv
<1>4. CASE CompactRefused \/ (CompactNotLocked /\ cpc = "idle") \/ CompactAgain \/ RemoveSource
             \/ RenameTarget \/ ReopenSwapped \/ CompactCrash \/ UNCHANGED cvars
  <2>1. UNCHANGED <<files, synced, entries, dropped, stats, intruder, succeeded>>
    BY <1>4 DEF CompactRefused, CompactNotLocked, CompactAgain, RemoveSource, RenameTarget,
       ReopenSwapped, CompactCrash, OpenExisting, OpenFails, Crash, cvars, vars, disk, compaction, target
  <2>2. /\ cpc' \in {"idle", "ok", "failed", "reopened"} \/ cpc' = cpc
        /\ cpc' = "ok" => cpc = "ok"
        /\ (RemoveSource \/ RenameTarget \/ place' = place)
    BY <1>4 DEF CompactRefused, CompactNotLocked, CompactAgain, RemoveSource, RenameTarget,
       ReopenSwapped, CompactCrash, Interrupted, cvars, compaction, target
  <2>3. (place' >= 2 \/ (cpc' = "ok" /\ place' # 0)) => succeeded
    <3>1. CASE place' = place
      BY <2>2, <3>1 DEF CompleteInv
    <3>2. CASE RemoveSource \/ RenameTarget
      BY <3>2 DEF RemoveSource, RenameTarget, CompleteInv
    <3> QED BY <2>2, <3>1, <3>2
  <2>4. place' # 0 => place # 0
    BY <2>2 DEF RemoveSource, RenameTarget
  <2> QED BY <1>0, <2>1, <2>2, <2>3, <2>4 DEF CompleteInv
<1>5. CASE CompactCheck
  <2>1. ~(succeeded /\ place # 0)
    <3>1. DOMAIN files = {}
      BY <1>5 DEF CompactCheck, TargetEmpty
    <3> QED BY <3>1 DEF CompleteInv, ShapeInv
  <2>2. ~(place >= 2)
    BY <2>1 DEF CompleteInv, CallInv
  <2> QED BY <1>5, <2>2 DEF CompactCheck, CompleteInv
<1>6. CASE CompactLock \/ CompactCreate \/ CompactOpened \/ CompactOpenFails \/ CopyFinish
             \/ FsyncOut \/ FsyncOutFinish \/ TargetError \/ CompactAborts
             \/ (CompactNotLocked /\ cpc = "checked")
             \/ (\E d \in Data, whole \in BOOLEAN : Intrude(d, whole))
             \/ (\E cut \in Cuts : CopyBegin(cut))
  <2>1. /\ cpc \in {"checked", "locked", "opening", "copying"} /\ cpc' # "ok"
        /\ succeeded' = succeeded /\ place' \in {place, 1}
    BY <1>6 DEF CompactLock, CompactCreate, CompactOpened, CompactOpenFails, CopyFinish, FsyncOut,
       FsyncOutFinish, TargetError, CompactAborts, CompactNotLocked, Intrude, CopyBegin, compaction,
       target
  <2>2. ~succeeded
    BY <2>1 DEF CompleteInv
  <2> QED BY <2>1, <2>2 DEF CompleteInv
<1>7. CompactNotLocked => cpc \in {"idle", "checked"}
  BY DEF CompactNotLocked
<1> QED BY <1>1, <1>2, <1>3, <1>4, <1>5, <1>6, <1>7 DEF CompactNext

\* The inductive invariant.
THEOREM CompactInvariant == CompactSpec => [](ShapeInv /\ CompactInv)
<1>1. CompactInit => ShapeInv /\ CompactInv
  <2> SUFFICES ASSUME CompactInit PROVE ShapeInv /\ CompactInv
    OBVIOUS
  <2>1. ShapeInv /\ DOMAIN files = {}
    BY ShapeInit DEF CompactInit, Init
  <2>2. CallInv
    BY CallInit
  <2>3. HandleInv /\ DroppedInv /\ CopyInv /\ LoopInv /\ CompleteInv
    BY <2>1 DEF CompactInit, Init, HandleInv, DroppedInv, CopyInv, LoopInv, CompleteInv
  <2> QED BY <2>1, <2>2, <2>3 DEF CompactInv
<1>2. (ShapeInv /\ CompactInv) /\ [CompactNext]_cvars => (ShapeInv /\ CompactInv)'
  <2> SUFFICES ASSUME ShapeInv, CallInv, HandleInv, DroppedInv, CopyInv, LoopInv, CompleteInv,
                      [CompactNext]_cvars
               PROVE  (/\ ShapeInv /\ CallInv /\ HandleInv /\ DroppedInv
                       /\ CopyInv /\ LoopInv /\ CompleteInv)'
    BY DEF CompactInv
  <2> QED BY CompactShapeStep, CallStep, HandleStep, GivenUpStep, CopyStep, LoopStep, CompleteStep
<1> QED BY <1>1, <1>2, PTL DEF CompactSpec

------------------------------------------------------------------------------
(* What a scan of the target shows *)

\* Where a scan of a log with one segment meets a key.
LEMMA OneSegment ==
  ASSUME NEW F, DOMAIN F = {1}, F[1] \in Seq(Chunk)
  PROVE  /\ ListSegmentIds(F) = {1} /\ ActiveSegmentId(F) = 1
         /\ \A k, p : p \in Touches(F, k) <=>
               \E i \in Replayed(F[1]) : /\ p = <<1, i>> /\ F[1][i].data.key = k
                                         /\ F[1][i].data.type # "Raw"
<1>1. ListSegmentIds(F) = {1}
  BY SegmentsAssumption DEF ListSegmentIds
<1>2. ActiveSegmentId(F) = 1
  <2>1. {1} \in SUBSET Nat /\ 1 \in {1} /\ \A y \in {1} : y <= 1
    OBVIOUS
  <2> QED BY <1>1, <2>1, MaxIs DEF ActiveSegmentId
<1>3. ASSUME NEW k, NEW p
      PROVE  p \in Touches(F, k) <=>
               \E i \in Replayed(F[1]) : /\ p = <<1, i>> /\ F[1][i].data.key = k
                                         /\ F[1][i].data.type # "Raw"
  BY <1>1 DEF Touches
<1> QED BY <1>1, <1>2, <1>3

\* A record that a scan reaches, and nothing of its key after it: the key is
\* live and has the record's value.
LEMMA LiveAt ==
  ASSUME NEW F, DOMAIN F = {1}, F[1] \in Seq(Chunk), NEW src, NEW k \in Keys,
         NEW i \in Replayed(F[1]), F[1][i].data = PutOf(src, k),
         \A j \in (i + 1) .. Len(F[1]) : F[1][j].data.key # k
  PROVE  k \in LiveKeys(F) /\ Projection(F)[k] = src[k]
<1> DEFINE p == <<1, i>>
           T == Touches(F, k)
           Last(q) == \A r \in T : r = q \/ Before(r, q)
<1>1. Replayed(F[1]) \subseteq 1 .. Len(F[1])
  BY DEF Replayed
<1>2. p \in T
  BY OneSegment DEF PutOf
<1>3. ASSUME NEW r \in T PROVE r = p \/ Before(r, p)
  <2>1. PICK j \in Replayed(F[1]) : r = <<1, j>> /\ F[1][j].data.key = k
    BY OneSegment
  <2>2. i \in 1 .. Len(F[1]) /\ j \in 1 .. Len(F[1]) /\ Len(F[1]) \in Nat
    BY <1>1
  <2>3. j \notin (i + 1) .. Len(F[1])
    BY <2>1
  <2>4. j <= i
    BY <2>2, <2>3
  <2> QED BY <2>1, <2>2, <2>4 DEF Before
<1>4. ASSUME NEW q \in T, Last(q) PROVE q = p
  <2>1. PICK j \in Replayed(F[1]) : q = <<1, j>>
    BY OneSegment
  <2>2. i \in Nat /\ j \in Nat
    BY <1>1, <2>1
  <2>3. q = p \/ (Before(q, p) /\ Before(p, q))
    BY <1>2, <1>3, <1>4
  <2> QED BY <2>1, <2>2, <2>3 DEF Before
<1>5. LastTouch(F, k) = CHOOSE q \in T : Last(q)
  BY DEF LastTouch
<1> HIDE DEF p, T, Last
<1>6. Last(p)
  BY <1>3 DEF Last
<1>7. LastTouch(F, k) = p
  BY <1>2, <1>4, <1>5, <1>6
<1>8. LastRecord(F, k) = F[1][i]
  BY <1>7 DEF LastRecord, p
<1>9. k \in LiveKeys(F)
  BY <1>2, <1>8 DEF LiveKeys, PutOf, T
<1> QED BY <1>8, <1>9 DEF Projection, PutOf

\* Of a segment of whole frames a scan returns everything.
LEMMA WholeSegment ==
  ASSUME NEW F, DOMAIN F = {1}, F[1] \in Seq(Chunk), AllWhole(F[1], Len(F[1]))
  PROVE  Replayed(F[1]) = 1 .. Len(F[1]) /\ ScanOk(F)
<1> DEFINE s == F[1]
<1>1. s \in Seq(Chunk) /\ Len(s) \in Nat
  OBVIOUS
<1> HIDE DEF s
<1>2. \A i \in 1 .. Len(s) : DecodeNext(s, i) = "Ok"
  BY <1>1, DecodeOk DEF AllWhole, s
<1>3. Replayed(s) = 1 .. Len(s)
  BY <1>1, <1>2 DEF Replayed
<1>4. \A b \in BOOLEAN : ScanSegmentOk(s, b)
  BY <1>2 DEF ScanSegmentOk
<1> QED BY <1>3, <1>4, OneSegment DEF ScanOk, s

\* A complete target covers the source.
LEMMA CompleteCovers ==
  ASSUME ShapeInv, CallInv, CompleteInv, succeeded, place # 0, intruder # "torn"
  PROVE  Covers /\ DOMAIN files = {1} /\ files[1] \in Seq(Chunk)
<1>1. /\ entries = {1} /\ AllWhole(files[1], Len(files[1]))
      /\ \A k \in DOMAIN source : Placed(source, files[1], k)
  BY DEF CompleteInv
<1>2. DOMAIN files = {1} /\ files[1] \in Seq(Chunk)
  BY <1>1 DEF ShapeInv, TypeOK, CallInv
<1>3. Replayed(files[1]) = 1 .. Len(files[1]) /\ ScanOk(files)
  BY <1>1, <1>2, WholeSegment
<1>4. ASSUME NEW k \in DOMAIN source
      PROVE  k \in LiveKeys(files) /\ Projection(files)[k] = source[k]
  <2>1. PICK i \in 1 .. Len(files[1]) :
           /\ files[1][i].data = PutOf(source, k)
           /\ \A j \in (i + 1) .. Len(files[1]) : files[1][j].data.key # k
    BY <1>1 DEF Placed
  <2>2. k \in Keys /\ i \in Replayed(files[1])
    BY <1>3 DEF CallInv
  <2> QED BY <1>2, <2>1, <2>2, LiveAt
<1> QED BY <1>2, <1>3, <1>4 DEF Covers

\* A scan of whole frames returns as many records as there are.
LEMMA CountWhole ==
  ASSUME DOMAIN files = {1}, files[1] \in Seq(Chunk), AllWhole(files[1], Len(files[1]))
  PROVE  RecordCount = Len(files[1])
<1> DEFINE n == Len(files[1])
           S == {1} \X (1 .. n)
           f == [i \in 1 .. n |-> <<1, i>>]
<1>1. Replayed(files[1]) = 1 .. n /\ ListSegmentIds(files) = {1} /\ n \in Nat
  BY WholeSegment, OneSegment
<1>2. RecordCount = Cardinality(S)
  <2>1. UNION {{id} \X Replayed(files[id]) : id \in {1}} = S
    BY <1>1
  <2> QED BY <1>1, <2>1 DEF RecordCount
<1> HIDE DEF n
<1>3. f \in Bijection(1 .. n, S)
  <2>1. f \in [1 .. n -> S]
    OBVIOUS
  <2>2. \A i, j \in 1 .. n : f[i] = f[j] => i = j
    OBVIOUS
  <2>3. \A t \in S : \E i \in 1 .. n : f[i] = t
    OBVIOUS
  <2> QED BY <2>1, <2>2, <2>3, Fun_IsBij
<1>4. Cardinality(S) = n
  BY <1>1, <1>3, FS_CountingElements DEF ExistsBijection
<1> QED BY <1>2, <1>4 DEF n

\* A complete copy has a record for each key and no other.
LEMMA CountKeys ==
  ASSUME NEW src, DOMAIN src \subseteq Nat, NEW s \in Seq(Chunk), Copied(src, s),
         \A k \in DOMAIN src : Placed(src, s, k)
  PROVE  Cardinality(DOMAIN src) = Len(s)
<1> DEFINE n == Len(s)
           S == DOMAIN src
           f == [i \in 1 .. n |-> s[i].data.key]
<1>1. n \in Nat
  OBVIOUS
<1>2. f \in [1 .. n -> S]
  BY DEF Copied
<1>3. \A i, j \in 1 .. n : f[i] = f[j] => i = j
  <2> SUFFICES ASSUME NEW i \in 1 .. n, NEW j \in 1 .. n, i < j PROVE f[i] # f[j]
    OBVIOUS
  <2>1. s[i].data.key < s[j].data.key /\ s[i].data.key \in Nat /\ s[j].data.key \in Nat
    BY DEF Copied
  <2> QED BY <2>1
<1>4. \A t \in S : \E i \in 1 .. n : f[i] = t
  <2> SUFFICES ASSUME NEW t \in S PROVE \E i \in 1 .. n : f[i] = t
    OBVIOUS
  <2>1. PICK i \in 1 .. n : s[i].data = PutOf(src, t)
    BY DEF Placed
  <2> QED BY <2>1 DEF PutOf
<1> HIDE DEF f, n, S
<1>5. f \in Bijection(1 .. n, S)
  BY <1>2, <1>3, <1>4, Fun_IsBij
<1>6. Cardinality(S) = n
  BY <1>1, <1>5, FS_CountingElements DEF ExistsBijection
<1> QED BY <1>6 DEF n, S

\* A beginning of the copy shows a beginning of the source.
LEMMA CopiedIsLive ==
  ASSUME ShapeInv, CallInv, NEW F, DOMAIN F = {1}, F[1] \in Seq(Chunk), Copied(source, F[1]),
         NEW k \in LiveKeys(F)
  PROVE  /\ k \in DOMAIN source
         /\ Projection(F)[k] = source[k]
         /\ \A x \in DOMAIN source : x < k => x \in LiveKeys(F)
<1> DEFINE s == F[1]
<1>1. PICK i \in Replayed(s) : s[i].data.key = k
  <2>1. PICK p : p \in Touches(F, k)
    BY DEF LiveKeys
  <2> QED BY <2>1, OneSegment
<1>2. DOMAIN source \subseteq Keys /\ DOMAIN source \subseteq Nat
  BY KeydirAssumption DEF CallInv
<1>3. /\ i \in 1 .. Len(s) /\ Len(s) \in Nat
      /\ \A m \in 1 .. i : m \in Replayed(s)
  BY DEF Replayed
<1> HIDE DEF s
<1>4. s \in Seq(Chunk) /\ Copied(source, s)
  BY DEF s
<1>5. ASSUME NEW m \in Replayed(s), m \in 1 .. Len(s), NEW x, s[m].data.key = x
      PROVE  x \in DOMAIN source /\ x \in LiveKeys(F) /\ Projection(F)[x] = source[x]
  <2>1. x \in DOMAIN source /\ s[m].data = PutOf(source, x)
    BY <1>4, <1>5 DEF Copied
  <2>2. \A j \in (m + 1) .. Len(s) : s[j].data.key # x
    <3> SUFFICES ASSUME NEW j \in (m + 1) .. Len(s) PROVE s[j].data.key # x
      OBVIOUS
    <3>1. j \in 1 .. Len(s) /\ m < j
      BY <1>3, <1>5
    <3>2. s[m].data.key < s[j].data.key /\ s[m].data.key \in Nat
      BY <1>2, <1>4, <1>5, <2>1, <3>1 DEF Copied
    <3> QED BY <1>5, <3>2
  <2> QED BY <1>2, <2>1, <2>2, LiveAt DEF s
<1>6. ASSUME NEW x \in DOMAIN source, x < k PROVE x \in LiveKeys(F)
  <2>1. PICK m \in 1 .. (i - 1) : s[m].data.key = x
    BY <1>1, <1>3, <1>4, <1>6 DEF Copied
  <2>2. m \in 1 .. i /\ m \in 1 .. Len(s)
    BY <1>3
  <2>3. m \in Replayed(s)
    BY <1>3, <2>2
  <2> QED BY <1>5, <2>1, <2>2, <2>3
<1> QED BY <1>1, <1>3, <1>5, <1>6

\* It opens, unless zeros stand where its last record was.
LEMMA CopiedOpens ==
  ASSUME ~ZeroTails, NEW F, DOMAIN F = {1}, F[1] \in Seq(Chunk), FullLength(F[1], Len(F[1]) - 1)
  PROVE  ScanOk(F)
<1> DEFINE s == F[1]
<1>1. s \in Seq(Chunk) /\ Len(s) \in Nat
  OBVIOUS
<1> HIDE DEF s
<1>2. ASSUME NEW i \in 1 .. Len(s) PROVE DecodeNext(s, i) \in {"Ok", "Truncated", "CrcMismatch"}
  <2>1. CASE i = Len(s)
    <3>1. s[i] \in Chunk /\ Len(s) > 0
      BY <1>1, <2>1
    <3>2. s[Len(s)].state # "zeros"
      BY <2>1, <3>1 DEF Chunk, ChunkState
    <3> QED BY <1>1, <2>1, <3>1, <3>2, LastDecode
  <2>2. CASE i # Len(s)
    <3>1. s[i].state \in {"whole", "crc"}
      BY <1>1, <2>2 DEF FullLength, s
    <3> QED BY <3>1 DEF DecodeNext
  <2> QED BY <2>1, <2>2
<1>3. ScanSegmentOk(s, TRUE)
  BY <1>2 DEF ScanSegmentOk
<1>4. (1 = ActiveSegmentId(F)) = TRUE
  BY OneSegment
<1> QED BY <1>3, <1>4, OneSegment DEF ScanOk, s

------------------------------------------------------------------------------
(* What compact_to and the swap promise *)

(***************************************************************************)
(* Once compact_to has returned Ok, the target, for as long as its         *)
(* directory exists, holds exactly the live keys of the source, one record *)
(* each: no power loss that leaves the directory undoes that, and no later *)
(* call that is refused.  A process that put a complete record into the    *)
(* target between the emptiness check and the open adds it to the copy and *)
(* hides nothing; a torn one is left out, and so is power loss that takes  *)
(* the directory, which nothing has fsynced into its parent.  For every    *)
(* source and every number of attempts, faults and keys.                   *)
(***************************************************************************)
THEOREM CompactionIsFaithful == CompactSpec => []CompactedEqualsSource
<1>1. ShapeInv /\ CompactInv => CompactedEqualsSource
  <2> SUFFICES ASSUME ShapeInv, CallInv, CopyInv, CompleteInv, succeeded, place # 0,
                      intruder # "torn"
               PROVE  /\ Covers
                      /\ intruder = "none" => /\ LiveKeys(files) = DOMAIN source
                                              /\ RecordCount = Cardinality(DOMAIN source)
    BY DEF CompactInv, CompactedEqualsSource
  <2>1. Covers /\ DOMAIN files = {1} /\ files[1] \in Seq(Chunk)
    BY CompleteCovers
  <2>2. AllWhole(files[1], Len(files[1])) /\ \A k \in DOMAIN source : Placed(source, files[1], k)
    BY DEF CompleteInv
  <2>3. ASSUME intruder = "none"
        PROVE  LiveKeys(files) = DOMAIN source /\ RecordCount = Cardinality(DOMAIN source)
    <3>1. Copied(source, files[1])
      BY <2>1, <2>3 DEF CopyInv
    <3>2. \A k \in LiveKeys(files) : k \in DOMAIN source
      BY <2>1, <3>1, CopiedIsLive
    <3>3. \A k \in DOMAIN source : k \in LiveKeys(files)
      BY <2>1 DEF Covers
    <3>4. DOMAIN source \subseteq Nat
      BY KeydirAssumption DEF CallInv
    <3>5. RecordCount = Len(files[1]) /\ Cardinality(DOMAIN source) = Len(files[1])
      BY <2>1, <2>2, <3>1, <3>4, CountWhole, CountKeys
    <3> QED BY <3>2, <3>3, <3>5
  <2> QED BY <2>1, <2>3
<1> QED BY <1>1, CompactInvariant, PTL

(***************************************************************************)
(* The swap of examples/soak.rs never has the data nowhere: from the first *)
(* file of the source that is removed on, every crash and power loss finds *)
(* a target that opens and shows all of the source's live keys, though the *)
(* directory that holds both is never fsynced.                             *)
(***************************************************************************)
THEOREM SwapIsSafe == CompactSpec => []SwapKeepsData
<1>1. ShapeInv /\ CompactInv => SwapKeepsData
  BY CompleteCovers DEF CompactInv, CompleteInv, SwapKeepsData
<1> QED BY <1>1, CompactInvariant, PTL

(***************************************************************************)
(* CompactionStats is counted in the loop, from active_size; it is the     *)
(* number of records of the target and its size in bytes.                  *)
(***************************************************************************)
THEOREM StatsAreExact == CompactSpec => []StatsDescribeTarget
<1>1. ShapeInv /\ CompactInv => StatsDescribeTarget
  <2> SUFFICES ASSUME ShapeInv, CallInv, CompleteInv, cpc = "ok", intruder = "none", place # 0,
                      succeeded
               PROVE  /\ stats.records_written = RecordCount
                      /\ stats.bytes_written = FileSize(files[1])
    BY DEF CompactInv, CompleteInv, StatsDescribeTarget
  <2>1. DOMAIN files = {1} /\ files[1] \in Seq(Chunk)
    BY CompleteCovers
  <2>2. /\ AllWhole(files[1], Len(files[1])) /\ stats.records_written = Len(files[1])
        /\ stats.bytes_written = FileSize(files[1])
    BY DEF CompleteInv
  <2> QED BY <2>1, <2>2, CountWhole
<1> QED BY <1>1, CompactInvariant, PTL

(***************************************************************************)
(* Wherever a compaction is interrupted, by an error, a crash or power     *)
(* loss, what it leaves opens and is the copy of the first live keys, in   *)
(* key order, on a disk that shows no zeros for data it lost.              *)
(***************************************************************************)
THEOREM InterruptedCopyIsPrefix ==
  ASSUME ~ZeroTails PROVE CompactSpec => []LeftoverIsPrefix
<1>1. ShapeInv /\ CompactInv => LeftoverIsPrefix
  <2> SUFFICES ASSUME ShapeInv, CallInv, CopyInv, intruder = "none" PROVE LeftoverIsPrefix
    BY DEF CompactInv, LeftoverIsPrefix
  <2>1. CASE DOMAIN files = {}
    <3>1. ListSegmentIds(files) = {}
      BY <2>1 DEF ListSegmentIds
    <3>2. LiveKeys(files) = {} /\ ScanOk(files)
      BY <3>1 DEF LiveKeys, Touches, ScanOk
    <3> QED BY <3>2 DEF LeftoverIsPrefix
  <2>2. CASE DOMAIN files = {1}
    <3>1. /\ files[1] \in Seq(Chunk) /\ Copied(source, files[1])
          /\ FullLength(files[1], Len(files[1]) - 1)
      BY <2>2 DEF ShapeInv, TypeOK, CopyInv
    <3>2. ScanOk(files)
      BY <2>2, <3>1, CopiedOpens
    <3>3. \A k \in LiveKeys(files) : /\ k \in DOMAIN source
                                    /\ Projection(files)[k] = source[k]
                                    /\ \A x \in DOMAIN source : x < k => x \in LiveKeys(files)
      BY <2>2, <3>1, CopiedIsLive
    <3> QED BY <3>2, <3>3 DEF LeftoverIsPrefix
  <2> QED BY <2>1, <2>2 DEF CallInv
<1> QED BY <1>1, CompactInvariant, PTL
=============================================================================
