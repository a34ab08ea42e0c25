---------------------------- MODULE DataWalProofs ----------------------------
(***************************************************************************)
(* The key-value store of datawal.rs, for every value of the constants:    *)
(* what get returns, what a reopen would rebuild, and what is left of what *)
(* was fsynced.                                                            *)
(***************************************************************************)
EXTENDS DataWal, LogOrderProofs

------------------------------------------------------------------------------
(* The inductive invariant behind the properties *)

\* The reference in k's entry names a frame that scans return, with k's value.
EntryHolds(k) ==
    LET ref == map[k]
    IN  /\ ref.segment \in DOMAIN files
        /\ \E i \in Replayed(files[ref.segment]) :
              LET c == files[ref.segment][i]
              IN  /\ c.at = ref.offset
                  /\ c.len = ref.len
                  /\ c.data.type = "Put"
                  /\ c.data.key = k
                  /\ c.data.value = kv[k]

(***************************************************************************)
(* Every entry stays good for get, and as long as the handle is not        *)
(* poisoned the keydir is the one a reopen would build.  A poisoned one    *)
(* can be behind the files by the record whose append failed after the     *)
(* write.                                                                  *)
(***************************************************************************)
KeydirInv ==
    wal => /\ Opened
           /\ pc = "writing" => ActiveFile[Len(ActiveFile)].data.type # "Raw"
           /\ DOMAIN map = DOMAIN kv
           /\ \A k \in DOMAIN map : EntryHolds(k)
           /\ ~poisoned => map = Rebuild(files) /\ kv = Projection(files)

\* The values of the store are no older than what was fsynced.
ReflectsInv ==
    wal => \A r \in durable : r.data.type # "Raw" =>
        \E id \in DOMAIN files : \E i \in Replayed(files[id]) :
          LET c == files[id][i]
          IN  /\ c.data.key = r.data.key
              /\ c.data.type # "Raw"
              /\ c.txid >= r.txid
              /\ c.data.type = "Put" <=> r.data.key \in DOMAIN kv
              /\ c.data.type = "Put" => kv[r.data.key] = c.data.value

------------------------------------------------------------------------------
(* Replaying a log *)

\* The places where a scan of F meets a Put or Delete of k.
LEMMA TouchesAre ==
  ASSUME NEW F, Listed(F), NEW k
  PROVE  /\ \A p \in Touches(F, k) :
               /\ p = <<p[1], p[2]>> /\ p[1] \in DOMAIN F /\ p[2] \in Replayed(F[p[1]])
               /\ F[p[1]][p[2]].data.key = k /\ F[p[1]][p[2]].data.type # "Raw"
         /\ \A id \in DOMAIN F : \A i \in Replayed(F[id]) :
               F[id][i].data.key = k /\ F[id][i].data.type # "Raw" => <<id, i>> \in Touches(F, k)
BY DEF Touches, Listed

\* Scans go over naturals, of which there is a last one.
LEMMA ScanOrder ==
  ASSUME NEW F, Listed(F), NEW id \in DOMAIN F, NEW i \in Replayed(F[id])
  PROVE  /\ id \in Nat /\ i \in Nat /\ id <= MaxListedId
         /\ i \in 1 .. Len(F[id]) /\ F[id] \in Seq(Chunk) /\ Len(F[id]) \in Nat
         /\ F[id][i].data \in Data
<1>1. F[id] \in Seq(Chunk) /\ i \in 1 .. Len(F[id]) /\ id \in Nat /\ id <= MaxListedId
  BY DEF Listed, Replayed, ListSegmentIds
<1> QED BY <1>1, ChunkFields

\* If a scan meets k at all, there is a last time.
LEMMA LastTouchIs ==
  ASSUME NEW F, Listed(F), NEW k, Touches(F, k) # {}
  PROVE  /\ LastTouch(F, k) \in Touches(F, k)
         /\ \A q \in Touches(F, k) : q = LastTouch(F, k) \/ Before(q, LastTouch(F, k))
<1> DEFINE T == Touches(F, k)
           S == {p[1] : p \in T}
           m == Max(S)
           J == {p[2] : p \in {q \in T : q[1] = m}}
           n == Max(J)
<1>1. \A p \in T : /\ p = <<p[1], p[2]>> /\ p[1] \in DOMAIN F /\ p[2] \in Replayed(F[p[1]])
                   /\ p[1] \in Nat /\ p[1] <= MaxListedId
                   /\ p[2] \in Nat /\ p[2] <= Len(F[p[1]]) /\ Len(F[p[1]]) \in Nat
  BY TouchesAre, ScanOrder
<1>2. MaxListedId \in Nat
  BY SegmentsAssumption
<1> HIDE DEF T
<1>3. S \in SUBSET Nat /\ S # {} /\ \A x \in S : x <= MaxListedId
  BY <1>1 DEF T
<1>4. m \in S /\ \A y \in S : y <= m
  <2> HIDE DEF S
  <2> QED BY <1>2, <1>3, NatMax
<1>5. m \in DOMAIN F /\ Len(F[m]) \in Nat /\ m \in Nat
  BY <1>1, <1>4
<1> HIDE DEF m
<1>6. J \in SUBSET Nat /\ J # {} /\ \A x \in J : x <= Len(F[m])
  BY <1>1, <1>4
<1>7. n \in J /\ \A y \in J : y <= n
  <2> HIDE DEF J
  <2> QED BY <1>5, <1>6, NatMax
<1> HIDE DEF n
<1>8. n \in Nat
  BY <1>6, <1>7
<1>9. <<m, n>> \in T
  BY <1>1, <1>7
<1>10. \A q \in T : q = <<m, n>> \/ Before(q, <<m, n>>)
  <2> TAKE q \in T
  <2>1. q = <<q[1], q[2]>> /\ q[1] \in Nat /\ q[2] \in Nat
    BY <1>1
  <2>2. q[1] <= m
    BY <1>4
  <2>3. q[1] = m => q[2] <= n
    BY <1>7
  <2> QED BY <1>5, <1>8, <2>1, <2>2, <2>3 DEF Before
<1> HIDE DEF S, J
<1> QED BY <1>9, <1>10 DEF LastTouch, T

\* A last time is the last time.
LEMMA LastTouchOnly ==
  ASSUME NEW F, Listed(F), NEW k, NEW p \in Touches(F, k),
         \A q \in Touches(F, k) : q = p \/ Before(q, p)
  PROVE  LastTouch(F, k) = p
<1> DEFINE l == LastTouch(F, k)
<1>1. l \in Touches(F, k) /\ \A q \in Touches(F, k) : q = l \/ Before(q, l)
  BY LastTouchIs
<1>2. /\ l[1] \in Nat /\ l[2] \in Nat /\ p[1] \in Nat /\ p[2] \in Nat
  BY <1>1, TouchesAre, ScanOrder
<1>3. ~(Before(l, p) /\ Before(p, l))
  BY <1>2 DEF Before
<1> QED BY <1>1, <1>3

\* The last time a scan meets k is one at which it replays a frame.
LEMMA LastTouched ==
  ASSUME NEW F, F \in [DOMAIN F -> Seq(Chunk)], DOMAIN F \in SUBSET Nat,
         NEW k, Touches(F, k) # {}
  PROVE  /\ LastTouch(F, k)[1] \in ListSegmentIds(F)
         /\ LastTouch(F, k)[2] \in Replayed(F[LastTouch(F, k)[1]])
<1> DEFINE G == [id \in ListSegmentIds(F) |-> F[id]]
<1>1. ListSegmentIds(G) = ListSegmentIds(F) /\ DOMAIN G = ListSegmentIds(F)
  BY DEF ListSegmentIds
<1>2. Listed(G)
  BY <1>1 DEF Listed, ListSegmentIds
<1>3. \A id \in ListSegmentIds(F) : G[id] = F[id]
  OBVIOUS
<1> HIDE DEF G
<1>4. Touches(G, k) = Touches(F, k)
  <2>1. ASSUME NEW p PROVE p \in Touches(G, k) <=> p \in Touches(F, k)
    BY <1>1, <1>3 DEF Touches
  <2> QED BY <2>1
<1>5. LastTouch(F, k) = LastTouch(G, k)
  BY <1>4 DEF LastTouch
<1>6. /\ LastTouch(G, k)[1] \in DOMAIN G
      /\ LastTouch(G, k)[2] \in Replayed(G[LastTouch(G, k)[1]])
  BY <1>2, <1>4, LastTouchIs, TouchesAre
<1> QED BY <1>1, <1>3, <1>5, <1>6

\* Two directories of which scans return the same rebuild to the same keydir.
LEMMA SameRebuild ==
  ASSUME NEW F, NEW G, Listed(F), Listed(G), ReplayedIn(F, G), ReplayedIn(G, F)
  PROVE  Rebuild(F) = Rebuild(G) /\ Projection(F) = Projection(G)
<1>1. \A k : Touches(F, k) = Touches(G, k)
  <2> TAKE k
  <2>1. ASSUME NEW p \in Touches(F, k) PROVE p \in Touches(G, k)
    BY TouchesAre DEF ReplayedIn
  <2>2. ASSUME NEW p \in Touches(G, k) PROVE p \in Touches(F, k)
    BY TouchesAre DEF ReplayedIn
  <2> QED BY <2>1, <2>2
<1>2. \A k : LastTouch(F, k) = LastTouch(G, k)
  BY <1>1 DEF LastTouch
<1>3. \A k : Touches(F, k) # {} => LastRecord(F, k) = LastRecord(G, k)
  <2> TAKE k
  <2> HAVE Touches(F, k) # {}
  <2>1. LastTouch(F, k) \in Touches(F, k)
    BY LastTouchIs
  <2>2. /\ LastTouch(F, k)[1] \in DOMAIN F
        /\ LastTouch(F, k)[2] \in Replayed(F[LastTouch(F, k)[1]])
    BY <2>1, TouchesAre
  <2> QED BY <1>2, <2>2 DEF LastRecord, ReplayedIn
<1>4. LiveKeys(F) = LiveKeys(G)
  BY <1>1, <1>3 DEF LiveKeys
<1>5. \A k \in LiveKeys(F) : Touches(F, k) # {}
  BY DEF LiveKeys
<1> QED BY <1>2, <1>3, <1>4, <1>5 DEF Rebuild, Projection

(***************************************************************************)
(* A record at the end of the log changes the entry of its own key and no  *)
(* other, in the way put and delete change the keydir.                     *)
(***************************************************************************)
LEMMA RebuildAppended ==
  ASSUME NEW F, NEW G, Listed(F), Listed(G), ReplayedIn(F, G),
         NEW id \in DOMAIN G, NEW i \in Replayed(G[id]),
         \A jd \in DOMAIN G : \A j \in Replayed(G[jd]) :
            (jd = id /\ j = i) \/ (jd \in DOMAIN F /\ j \in Replayed(F[jd])),
         \A jd \in DOMAIN F : \A j \in Replayed(F[jd]) : Earlier(jd, j, id, i),
         G[id][i].data.type # "Raw"
  PROVE  LET c == G[id][i]
             k == c.data.key
         IN  IF c.data.type = "Put"
             THEN /\ Rebuild(G) = With(Rebuild(F), k,
                                       [segment |-> id, offset |-> c.at, len |-> c.len])
                  /\ Projection(G) = With(Projection(F), k, c.data.value)
             ELSE /\ Rebuild(G) = Without(Rebuild(F), k)
                  /\ Projection(G) = Without(Projection(F), k)
<1> DEFINE c == G[id][i]
           k == c.data.key
<1>0. c.data \in Data /\ k \in Keys
  BY ScanOrder, KeydirAssumption
<1>1. \A x : x # k => Touches(G, x) = Touches(F, x)
  <2> TAKE x
  <2> HAVE x # k
  <2>1. ASSUME NEW p \in Touches(F, x) PROVE p \in Touches(G, x)
    BY TouchesAre DEF ReplayedIn
  <2>2. ASSUME NEW p \in Touches(G, x) PROVE p \in Touches(F, x)
    <3>1. /\ p = <<p[1], p[2]>> /\ p[1] \in DOMAIN G /\ p[2] \in Replayed(G[p[1]])
          /\ G[p[1]][p[2]].data.key = x /\ G[p[1]][p[2]].data.type # "Raw"
      BY TouchesAre
    <3>2. p[1] \in DOMAIN F /\ p[2] \in Replayed(F[p[1]])
      BY <3>1
    <3>3. F[p[1]][p[2]] = G[p[1]][p[2]]
      BY <3>2 DEF ReplayedIn
    <3> QED BY <3>1, <3>2, <3>3, TouchesAre
  <2> QED BY <2>1, <2>2
<1>2. \A x : x # k => LastTouch(G, x) = LastTouch(F, x)
  BY <1>1 DEF LastTouch
<1>3. \A x : x # k /\ Touches(F, x) # {} => LastRecord(G, x) = LastRecord(F, x)
  <2> TAKE x
  <2> HAVE x # k /\ Touches(F, x) # {}
  <2>1. LastTouch(F, x) \in Touches(F, x)
    BY LastTouchIs
  <2>2. /\ LastTouch(F, x)[1] \in DOMAIN F
        /\ LastTouch(F, x)[2] \in Replayed(F[LastTouch(F, x)[1]])
    BY <2>1, TouchesAre
  <2> QED BY <1>2, <2>2 DEF LastRecord, ReplayedIn
<1>4. <<id, i>> \in Touches(G, k)
  BY TouchesAre
<1>5. LastTouch(G, k) = <<id, i>>
  <2>1. ASSUME NEW q \in Touches(G, k)
        PROVE  q = <<id, i>> \/ Before(q, <<id, i>>)
    <3>1. q = <<q[1], q[2]>> /\ q[1] \in DOMAIN G /\ q[2] \in Replayed(G[q[1]])
      BY TouchesAre
    <3>2. \/ q[1] = id /\ q[2] = i
          \/ Earlier(q[1], q[2], id, i)
      BY <3>1
    <3> QED BY <3>1, <3>2 DEF Earlier, Before
  <2> QED BY <1>4, <2>1, LastTouchOnly
<1>6. LastRecord(G, k) = c
  BY <1>5 DEF LastRecord
<1> HIDE DEF c, k
<1>7. \A x : x # k => (x \in LiveKeys(G) <=> x \in LiveKeys(F))
  BY <1>1, <1>3 DEF LiveKeys
<1>8. k \in LiveKeys(G) <=> c.data.type = "Put"
  BY <1>0, <1>4, <1>6 DEF LiveKeys
<1>9. \A x \in LiveKeys(G) : x # k => Touches(F, x) # {}
  BY <1>1 DEF LiveKeys
<1>10. CASE c.data.type = "Put"
  <2>1. LiveKeys(G) = LiveKeys(F) \cup {k}
    BY <1>7, <1>8, <1>10
  <2>2. DOMAIN Rebuild(F) = LiveKeys(F) /\ DOMAIN Projection(F) = LiveKeys(F)
    BY DEF Rebuild, Projection
  <2>3. \A x \in LiveKeys(G) : x # k =>
           Rebuild(G)[x] = Rebuild(F)[x] /\ Projection(G)[x] = Projection(F)[x]
    BY <1>2, <1>3, <1>7, <1>9 DEF Rebuild, Projection
  <2>4. /\ Rebuild(G)[k] = [segment |-> id, offset |-> c.at, len |-> c.len]
        /\ Projection(G)[k] = c.data.value
    BY <1>5, <1>6, <1>8, <1>10 DEF Rebuild, Projection
  <2>5. Rebuild(G) = With(Rebuild(F), k, [segment |-> id, offset |-> c.at, len |-> c.len])
    <3>1. Rebuild(G) = [x \in LiveKeys(G) |-> Rebuild(G)[x]]
      BY DEF Rebuild
    <3> QED BY <2>1, <2>2, <2>3, <2>4, <3>1 DEF With
  <2>6. Projection(G) = With(Projection(F), k, c.data.value)
    <3>1. Projection(G) = [x \in LiveKeys(G) |-> Projection(G)[x]]
      BY DEF Projection
    <3> QED BY <2>1, <2>2, <2>3, <2>4, <3>1 DEF With
  <2> QED BY <1>10, <2>5, <2>6 DEF c, k
<1>11. CASE c.data.type # "Put"
  <2>1. LiveKeys(G) = LiveKeys(F) \ {k}
    BY <1>7, <1>8, <1>11
  <2>2. DOMAIN Rebuild(F) = LiveKeys(F) /\ DOMAIN Projection(F) = LiveKeys(F)
    BY DEF Rebuild, Projection
  <2>3. \A x \in LiveKeys(G) : x # k =>
           Rebuild(G)[x] = Rebuild(F)[x] /\ Projection(G)[x] = Projection(F)[x]
    BY <1>2, <1>3, <1>7, <1>9 DEF Rebuild, Projection
  <2>4. Rebuild(G) = Without(Rebuild(F), k)
    <3>1. Rebuild(G) = [x \in LiveKeys(G) |-> Rebuild(G)[x]]
      BY DEF Rebuild
    <3> QED BY <2>1, <2>2, <2>3, <3>1 DEF Without
  <2>5. Projection(G) = Without(Projection(F), k)
    <3>1. Projection(G) = [x \in LiveKeys(G) |-> Projection(G)[x]]
      BY DEF Projection
    <3> QED BY <2>1, <2>2, <2>3, <3>1 DEF Without
  <2> QED BY <1>11, <2>4, <2>5 DEF c, k
<1> QED BY <1>10, <1>11

\* The entries of a keydir that was just rebuilt name the frames of their keys.
LEMMA RebuiltEntries ==
  ASSUME NEW F, Listed(F), NEW k \in LiveKeys(F)
  PROVE  /\ Rebuild(F)[k].segment \in DOMAIN F
         /\ \E i \in Replayed(F[Rebuild(F)[k].segment]) :
               LET c == F[Rebuild(F)[k].segment][i]
               IN  /\ c.at = Rebuild(F)[k].offset
                   /\ c.len = Rebuild(F)[k].len
                   /\ c.data.type = "Put"
                   /\ c.data.key = k
                   /\ c.data.value = Projection(F)[k]
<1> DEFINE p == LastTouch(F, k)
<1>1. Touches(F, k) # {} /\ LastRecord(F, k).data.type = "Put"
  BY DEF LiveKeys
<1>2. p \in Touches(F, k)
  BY <1>1, LastTouchIs
<1>3. p[1] \in DOMAIN F /\ p[2] \in Replayed(F[p[1]]) /\ F[p[1]][p[2]].data.key = k
  BY <1>2, TouchesAre
<1>4. LastRecord(F, k) = F[p[1]][p[2]]
  BY DEF LastRecord
<1>5. /\ Rebuild(F)[k].segment = p[1]
      /\ Rebuild(F)[k].offset = F[p[1]][p[2]].at
      /\ Rebuild(F)[k].len = F[p[1]][p[2]].len
      /\ Projection(F)[k] = F[p[1]][p[2]].data.value
  BY <1>4 DEF Rebuild, Projection
<1> HIDE DEF p
<1> QED BY <1>1, <1>3, <1>4, <1>5

------------------------------------------------------------------------------
(* The store *)

\* The store's steps are steps of its log.
LEMMA StoreStepIsLogStep == [DataWalNext]_kvars => [Next]_vars
BY DEF DataWalNext, DataWalOpen, StoreAppend, StoreAppended, StoreUnaffected, LogOnly,
       StoreGone, kvars, Next, Running, Progress

LEMMA StoreIsLog == DataWalSpec => Spec
BY StoreStepIsLogStep, PTL DEF DataWalSpec, DataWalInit, Spec

\* The segments of a log that rotates within bounds are all listed.
LEMMA ListedIs ==
  ASSUME Platform, NEW F, F \in [DOMAIN F -> Seq(Chunk)], DOMAIN F \in SUBSET Ids,
         \A id \in DOMAIN F : id <= MaxSegs
  PROVE  Listed(F)
<1>1. MaxSegs \in Nat /\ MaxListedId \in Nat /\ MaxSegs <= MaxListedId
  BY RecordLogAssumption, SegmentsAssumption DEF Platform
<1>2. DOMAIN F \in SUBSET Nat
  BY DEF Ids
<1>3. \A id \in DOMAIN F : id <= MaxListedId
  BY <1>1, <1>2
<1>4. ListSegmentIds(F) = DOMAIN F
  BY <1>3 DEF ListSegmentIds
<1> QED BY <1>2, <1>4 DEF Listed

\* So they are, before and after every step.
LEMMA FilesListed ==
  ASSUME Platform, LogInv, LogInv'
  PROVE  Listed(files) /\ Listed(files')
<1>1. /\ files \in [DOMAIN files -> Seq(Chunk)] /\ DOMAIN files \in SUBSET Ids
      /\ \A id \in DOMAIN files : id <= MaxSegs
  BY DEF LogInv, ShapeInv, TypeOK, RotationInv
<1>2. /\ files' \in [DOMAIN files' -> Seq(Chunk)] /\ DOMAIN files' \in SUBSET Ids
      /\ \A id \in DOMAIN files' : id <= MaxSegs
  BY DEF LogInv, ShapeInv, TypeOK, RotationInv
<1> QED BY <1>1, <1>2, ListedIs

\* An entry that is left alone stays good while the log keeps its frames.
LEMMA EntryKept ==
  ASSUME ReplayedIn(files, files'), NEW k, EntryHolds(k),
         map'[k] = map[k], kv'[k] = kv[k]
  PROVE  EntryHolds(k)'
<1>1. PICK i \in Replayed(files[map[k].segment]) :
         LET c == files[map[k].segment][i]
         IN  /\ c.at = map[k].offset
             /\ c.len = map[k].len
             /\ c.data.type = "Put"
             /\ c.data.key = k
             /\ c.data.value = kv[k]
  BY DEF EntryHolds
<1>2. map[k].segment \in DOMAIN files
  BY DEF EntryHolds
<1>3. /\ map[k].segment \in DOMAIN files' /\ i \in Replayed(files'[map[k].segment])
      /\ files'[map[k].segment][i] = files[map[k].segment][i]
  BY <1>1, <1>2 DEF ReplayedIn
<1> QED BY <1>1, <1>3 DEF EntryHolds

\* A keydir and values that were just rebuilt are as they should be.
LEMMA FreshEntries ==
  ASSUME Listed(files'), map' = Rebuild(files'), kv' = Projection(files')
  PROVE  DOMAIN map' = DOMAIN kv' /\ \A k \in DOMAIN map' : EntryHolds(k)'
<1>1. DOMAIN map' = LiveKeys(files') /\ DOMAIN kv' = LiveKeys(files')
  BY DEF Rebuild, Projection
<1>2. ASSUME NEW k \in LiveKeys(files') PROVE EntryHolds(k)'
  BY RebuiltEntries DEF EntryHolds
<1> QED BY <1>1, <1>2

(***************************************************************************)
(* The end of put or delete: either append_record failed after the write   *)
(* and the handle is poisoned, or the keydir has the record's entry as a   *)
(* reopen would build it.                                                  *)
(***************************************************************************)
LEMMA KeydirAppended ==
  ASSUME Platform, CallerChecksReport, LogInv, LogInv', SealedInv, KeydirInv, StoreAppended, wal
  PROVE  \/ poisoned' /\ UNCHANGED <<map, kv>>
         \/ ~poisoned' /\ map' = Rebuild(files') /\ kv' = Projection(files')
<1> DEFINE n == Len(files[active])
           c == files'[active][n]
           frame == Completed(ActiveFile)[Len(ActiveFile)]
           new == [segment |-> active, offset |-> activeSize, len |-> frame.len,
                   txid |-> nextTxid, data |-> frame.data, idx |-> Len(ActiveFile),
                   clean |-> report.tail_truncated = 0]
<1>0. /\ ShapeInv /\ RotationInv /\ WritingInv /\ CleanHandleInv /\ PendingInv /\ AppendFinish
      /\ pc = "writing" /\ ~poisoned /\ report.tail_truncated = 0 /\ Opened
  BY DEF LogInv, StoreAppended, AppendFinish, RotationInv, SealedInv, Opened
<1>1. /\ DOMAIN files' = DOMAIN files /\ active \in DOMAIN files
      /\ n \in Nat /\ n > 0 /\ files[active] \in Seq(Chunk) /\ active = Max(DOMAIN files)
      /\ c = EncodeRecord(files[active][n].txid, files[active][n].data, files[active][n].at)
  BY <1>0, CompletedTxids DEF ShapeInv, TypeOK, RotationInv
<1>2. frame = c
  <2>1. files' = [files EXCEPT ![active] = Completed(files[active])]
    BY <1>0 DEF AppendFinish
  <2> QED BY <1>1, <2>1 DEF ActiveFile
<1>3. /\ c.at = activeSize /\ c.data = files[active][n].data /\ c.data.type # "Raw"
  BY <1>0, <1>1 DEF CleanHandleInv, ActiveFile, EncodeRecord, KeydirInv
<1>4. new \notin pending
  <2> SUFFICES ASSUME new \in pending PROVE FALSE
    OBVIOUS
  <2>1. new.clean /\ new.segment = active /\ new.idx = n
    BY <1>0 DEF ActiveFile
  <2> HIDE DEF new
  <2>2. Intact(new)
    BY <1>0, <2>1 DEF PendingInv
  <2>3. files[active][n].state = "whole"
    BY <1>1, <2>1, <2>2 DEF Intact, AllWhole
  <2> QED BY <1>0, <2>3 DEF WritingInv, ActiveFile
<1>5. \/ poisoned' /\ pending' = pending
      \/ ~poisoned' /\ pending' = pending \cup {new}
  <2> HIDE DEF frame
  <2> QED BY <1>0 DEF AppendFinish, Poison, frame
<1>6. new.data = c.data /\ new.segment = active /\ new.offset = c.at /\ new.len = c.len
  BY <1>2, <1>3
<1> HIDE DEF new, frame
<1>7. CASE poisoned' /\ pending' = pending
  BY <1>7 DEF StoreAppended
<1>8. CASE ~poisoned' /\ pending' = pending \cup {new}
  <2>1. pending' # pending /\ \A r \in pending' \ pending : r = new
    BY <1>4, <1>8
  <2>2. /\ UpdateKeydir(new)
        /\ kv' = IF new.data.type = "Put" THEN With(kv, new.data.key, new.data.value)
                 ELSE Without(kv, new.data.key)
    BY <2>1 DEF StoreAppended
  <2>3. map = Rebuild(files) /\ kv = Projection(files)
    BY <1>0 DEF KeydirInv
  <2>4. /\ ReplayedIn(files, files')
        /\ active \in DOMAIN files' /\ n \in Replayed(files'[active])
        /\ n \notin Replayed(files[active])
        /\ \A id \in DOMAIN files' : \A i \in Replayed(files'[id]) :
              (id = active /\ i = n) \/ (id \in DOMAIN files /\ i \in Replayed(files[id]))
    BY <1>0, <1>1, ScanAppended
  <2>5. Listed(files) /\ Listed(files')
    BY FilesListed
  <2>6. ASSUME NEW jd \in DOMAIN files, NEW j \in Replayed(files[jd])
        PROVE  Earlier(jd, j, active, n)
    <3>1. jd <= active
      BY <1>0, <1>1, AllListed
    <3>2. jd \in Nat /\ j \in Nat /\ j \in 1 .. Len(files[jd]) /\ active \in Nat
      BY <2>5, ScanOrder, <1>1 DEF Listed
    <3>3. jd = active => j < n
      BY <1>1, <2>4, <3>2
    <3> QED BY <3>1, <3>2, <3>3 DEF Earlier
  <2>7. IF c.data.type = "Put"
        THEN /\ Rebuild(files') = With(Rebuild(files), c.data.key,
                                       [segment |-> active, offset |-> c.at, len |-> c.len])
             /\ Projection(files') = With(Projection(files), c.data.key, c.data.value)
        ELSE /\ Rebuild(files') = Without(Rebuild(files), c.data.key)
             /\ Projection(files') = Without(Projection(files), c.data.key)
    <3> HIDE DEF n
    <3>1. c.data.type # "Raw"
      BY <1>3
    <3> QED BY <2>4, <2>5, <2>6, <3>1, RebuildAppended
  <2> HIDE DEF c
  <2>8. map' = Rebuild(files') /\ kv' = Projection(files')
    BY <1>6, <2>2, <2>3, <2>7 DEF UpdateKeydir
  <2> QED BY <1>8, <2>8
<1> QED BY <1>5, <1>7, <1>8

\* Every step keeps the keydir.
LEMMA KeydirStep ==
  ASSUME Platform, CallerChecksReport, LogInv, LogInv', SealedInv, KeydirInv,
         [DataWalNext]_kvars
  PROVE  KeydirInv'
<1> SUFFICES ASSUME wal' PROVE KeydirInv'
  BY DEF KeydirInv
<1>0. /\ ShapeInv /\ RotationInv /\ [Next]_vars /\ Listed(files) /\ Listed(files')
  BY StoreStepIsLogStep, FilesListed DEF LogInv
<1>1. CASE DataWalOpen
  <2>1. map' = Rebuild(files) /\ kv' = Projection(files)
    BY <1>1 DEF DataWalOpen, NoStore
  <2>2. files' = files /\ pc' = "idle"
    BY <1>1 DEF DataWalOpen, OpenCreated, OpenExisting, OpenScanned, disk
  <2> QED BY <1>0, <2>1, <2>2, FreshEntries DEF KeydirInv, Opened
<1>2. CASE StoreAppended
  <2>1. wal /\ AppendFinish /\ pc' = "idle"
    BY <1>2 DEF StoreAppended, AppendFinish, Poison
  <2>2. CASE poisoned' /\ UNCHANGED <<map, kv>>
    <3>1. ReplayedIn(files, files')
      BY <2>1, ScanAppended
    <3>2. \A k \in DOMAIN map' : EntryHolds(k)'
      BY <2>1, <2>2, <3>1, EntryKept DEF KeydirInv
    <3> QED BY <2>1, <2>2, <3>2 DEF KeydirInv, Opened
  <2>3. CASE map' = Rebuild(files') /\ kv' = Projection(files')
    BY <1>0, <2>1, <2>3, FreshEntries DEF KeydirInv, Opened
  <2> QED BY <1>2, <2>1, <2>2, <2>3, KeydirAppended
<1>3. CASE \/ \E d \in Data, cut \in Cuts : StoreAppend(d, cut)
           \/ StoreUnaffected
           \/ UNCHANGED kvars
  <2>1. wal /\ UNCHANGED <<map, kv>> /\ Opened
    BY <1>3 DEF StoreAppend, StoreUnaffected, store, kvars, KeydirInv
  <2>2. /\ Opened' /\ (poisoned' \/ poisoned' = poisoned)
        /\ pc # "writing" \/ pc' = "writing" \/ faults' = faults + 1
    <3>1. CASE \E d \in Data, cut \in Cuts : StoreAppend(d, cut)
      BY <3>1 DEF StoreAppend, AppendBegin, MayWrite, Ready, handle, Opened
    <3>2. CASE StoreUnaffected
      BY <2>1, <3>2 DEF StoreUnaffected, OpenCreate, OpenRefused, AppendError, FsyncBegin, SyncAll,
         SyncAllError, FsyncFinish, DirectoryError, Poison, Fault, handle, Opened, Ready
    <3>3. CASE UNCHANGED kvars
      BY <2>1, <3>3 DEF kvars, vars, handle, Opened
    <3> QED BY <1>3, <3>1, <3>2, <3>3
  <2>a. ~AppendFinish /\ ~PowerLoss
    <3>1. faults \in Nat
      BY <1>0, RecordLogAssumption DEF ShapeInv, TypeOK
    <3> QED BY <2>2, <3>1 DEF AppendFinish, Poison, PowerLoss, NoHandle, Opened
  <2>3. ReplayedIn(files, files') /\ ReplayedIn(files', files)
    BY <1>0, <2>a, ScanUnchanged
  <2>4. Rebuild(files') = Rebuild(files) /\ Projection(files') = Projection(files)
    BY <1>0, <2>3, SameRebuild
  <2>5. \A k \in DOMAIN map' : EntryHolds(k)'
    BY <2>1, <2>3, EntryKept DEF KeydirInv
  <2>6. pc' = "writing" => ActiveFile'[Len(ActiveFile')].data.type # "Raw"
    <3>1. CASE \E d \in Data, cut \in Cuts : StoreAppend(d, cut)
      <4>1. PICK d \in Data, cut \in Cuts : AppendBegin(d, cut) /\ d.type # "Raw"
        BY <2>1, <3>1 DEF StoreAppend
      <4> DEFINE s == files[active]
                 e == EncodeRecord(nextTxid, d, FileSize(s))
                 c == CutTo(e, cut)
      <4>2. /\ active \in DOMAIN files /\ s \in Seq(Chunk) /\ nextTxid \in 1 .. MaxTxid
            /\ FileSize(s) \in Nat /\ active' = active /\ cut \in Nat
        BY <1>0, <4>1, FileSizeType, RecordLogAssumption
        DEF AppendBegin, MayWrite, Ready, ShapeInv, TypeOK, Opened, handle
      <4>3. c \in Chunk /\ c.data = d
        <5>1. e \in Chunk /\ e.data = d
          BY <4>2, WholeFrame
        <5> HIDE DEF e
        <5> QED BY <4>2, <5>1, CutToFacts
      <4>4. files' = [files EXCEPT ![active] = Append(s, c)]
        BY <4>1 DEF AppendBegin
      <4> HIDE DEF c
      <4> QED BY <4>1, <4>2, <4>3, <4>4 DEF ActiveFile
    <3>2. CASE StoreUnaffected
      BY <2>1, <3>2 DEF StoreUnaffected, OpenCreate, OpenRefused, AppendError, FsyncBegin, SyncAll,
         SyncAllError, FsyncFinish, DirectoryError, Poison, Opened
    <3>3. CASE UNCHANGED kvars
      BY <2>1, <3>3 DEF kvars, vars, disk, handle, KeydirInv, ActiveFile
    <3> QED BY <1>3, <3>1, <3>2, <3>3
  <2>7. DOMAIN map' = DOMAIN kv' /\ (~poisoned' => map' = Rebuild(files') /\ kv' = Projection(files'))
    BY <2>1, <2>2, <2>4 DEF KeydirInv
  <2> QED BY <2>2, <2>5, <2>6, <2>7 DEF KeydirInv
<1>4. CASE LogOnly \/ StoreGone
  BY <1>4 DEF LogOnly, StoreGone, NoStore, store
<1> QED BY <1>1, <1>2, <1>3, <1>4 DEF DataWalNext

\* KeydirInv is an invariant of the store.
LEMMA KeydirInvariant ==
  ASSUME Platform, CallerChecksReport
  PROVE  DataWalSpec => [](LogInv /\ SealedInv /\ KeydirInv)
<1>1. DataWalInit => LogInv /\ SealedInv /\ KeydirInv
  BY LogInvInit, SealedInit DEF DataWalInit, KeydirInv
<1>2. LogInv /\ SealedInv /\ KeydirInv /\ [DataWalNext]_kvars => (LogInv /\ SealedInv /\ KeydirInv)'
  BY StoreStepIsLogStep, LogInvStep, SealedStep, KeydirStep
<1> QED BY <1>1, <1>2, PTL DEF DataWalSpec

\* What the bytes that an entry names decode to is the value of the key.
LEMMA EntryReadBack ==
  ASSUME ShapeInv, NEW k, EntryHolds(k)
  PROVE  ReadBack(map[k]) = kv[k]
<1> DEFINE s == files[map[k].segment]
           starts == {i \in 1 .. Len(s) : /\ s[i].at = map[k].offset
                                          /\ s[i].state = "whole"
                                          /\ s[i].len = map[k].len
                                          /\ s[i].data.type = "Put"}
<1>1. s \in Seq(Chunk) /\ Laid(s)
  BY DEF EntryHolds, ShapeInv, TypeOK
<1>2. PICK i \in Replayed(s) : /\ s[i].at = map[k].offset
                               /\ s[i].len = map[k].len
                               /\ s[i].data.type = "Put"
                               /\ s[i].data.value = kv[k]
  BY DEF EntryHolds
<1>3. i \in 1 .. Len(s) /\ s[i].state = "whole"
  <2>1. i \in 1 .. Len(s)
    BY DEF Replayed
  <2> QED BY <1>1, <2>1, ReplayedWhole DEF AllWhole
<1>4. ASSUME NEW j \in starts PROVE j = i
  <2>1. s[i].at \in Nat /\ s[j].at \in Nat /\ s[i].len \in Nat /\ s[j].len \in Nat
    BY <1>1, <1>3, ChunkFields
  <2>2. s[j].at = s[i].at /\ s[i].len > 0 /\ s[j].len > 0 /\ Len(s) \in Nat
    BY <1>1, <1>2, <1>3 DEF Laid
  <2>3. i \in 1 .. Len(s) /\ j \in 1 .. Len(s)
    BY <1>3
  <2>4. i < j => s[i].at + s[i].len <= s[j].at
    BY <1>1, <2>3 DEF Laid
  <2>5. j < i => s[j].at + s[j].len <= s[i].at
    BY <1>1, <2>3 DEF Laid
  <2> HIDE DEF s, starts
  <2>6. i \in Nat /\ j \in Nat
    BY <2>2, <2>3
  <2> QED BY <2>1, <2>2, <2>4, <2>5, <2>6
<1>5. starts = {i}
  BY <1>2, <1>3, <1>4
<1>6. ReadBack(map[k]) = IF starts = {} THEN Failed ELSE s[CHOOSE j \in starts : TRUE].data.value
  BY DEF ReadBack
<1> HIDE DEF starts, s
<1> QED BY <1>2, <1>5, <1>6

\* get returns what the store holds for a key.
LEMMA GetIs ==
  ASSUME LogInv, KeydirInv, wal, NEW k
  PROVE  Get(k) = IF k \in DOMAIN kv THEN kv[k] ELSE None
BY EntryReadBack DEF Get, KeydirInv, LogInv

(***************************************************************************)
(* get returns what the last put or delete of the key left: through every  *)
(* append, failed or not, fsync and reopening the entry of a live key      *)
(* names the bytes of the record with its value, also on a poisoned        *)
(* handle.  If callers do not heed the recovery report this is false, and  *)
(* get can return the value of another key.                                *)
(***************************************************************************)
THEOREM GetContract ==
  ASSUME Platform, CallerChecksReport PROVE DataWalSpec => []GetReturnsLatest
<1>1. LogInv /\ SealedInv /\ KeydirInv => GetReturnsLatest
  BY GetIs DEF GetReturnsLatest, Readable
<1> QED BY <1>1, KeydirInvariant, PTL

------------------------------------------------------------------------------
(* What was fsynced *)

\* The last Put or Delete of r's key in F is not older than r.
LEMMA LastIsNotOlder ==
  ASSUME NEW F, OneByOne(F), NEW r, r.segment \in DOMAIN F,
         r.idx \in 1 .. Len(F[r.segment]), AllWhole(F[r.segment], r.idx),
         F[r.segment][r.idx].txid = r.txid, F[r.segment][r.idx].data = r.data,
         r.data.type # "Raw"
  PROVE  \E id \in DOMAIN F : \E i \in Replayed(F[id]) :
            LET c == F[id][i]
            IN  /\ c.data.key = r.data.key
                /\ c.data.type # "Raw"
                /\ c.txid >= r.txid
                /\ c.data.type = "Put" <=> r.data.key \in DOMAIN Projection(F)
                /\ c.data.type = "Put" => Projection(F)[r.data.key] = c.data.value
<1> DEFINE k == r.data.key
           p == LastTouch(F, k)
           q == <<r.segment, r.idx>>
<1>0. Listed(F) /\ F[r.segment] \in Seq(Chunk)
  BY DEF OneByOne, Listed
<1>1. r.idx \in Replayed(F[r.segment])
  BY <1>0, ReplayedWhole
<1>2. q \in Touches(F, k) /\ k \in Keys
  BY <1>0, <1>1, TouchesAre, ScanOrder, KeydirAssumption
<1>3. p \in Touches(F, k) /\ (q = p \/ Before(q, p))
  BY <1>0, <1>2, LastTouchIs
<1>4. /\ p[1] \in DOMAIN F /\ p[2] \in Replayed(F[p[1]])
      /\ F[p[1]][p[2]].data.key = k /\ F[p[1]][p[2]].data.type # "Raw"
  <2> HIDE DEF p, k
  <2> QED BY <1>0, <1>3, TouchesAre
<1>5. LastRecord(F, k) = F[p[1]][p[2]]
  BY DEF LastRecord
<1>6. F[p[1]][p[2]].txid >= r.txid
  <2>1. F[p[1]][p[2]].txid \in Nat /\ F[r.segment][r.idx].txid \in Nat
    BY <1>1, <1>4, OneByOneTxids
  <2>2. CASE q = p
    BY <2>1, <2>2
  <2>3. CASE Before(q, p)
    <3>1. Earlier(r.segment, r.idx, p[1], p[2])
      BY <2>3 DEF Before, Earlier
    <3>2. F[r.segment][r.idx].txid < F[p[1]][p[2]].txid
      BY <1>1, <1>4, <3>1 DEF OneByOne
    <3> QED BY <2>1, <3>2
  <2> QED BY <1>3, <2>2, <2>3
<1>7. F[p[1]][p[2]].data.type = "Put" <=> k \in DOMAIN Projection(F)
  BY <1>2, <1>5 DEF Projection, LiveKeys
<1>8. F[p[1]][p[2]].data.type = "Put" => Projection(F)[k] = F[p[1]][p[2]].data.value
  BY <1>2, <1>5 DEF Projection, LiveKeys
<1> HIDE DEF p
<1> QED BY <1>4, <1>6, <1>7, <1>8

\* Every step keeps the values no older than what was fsynced.
LEMMA ReflectsStep ==
  ASSUME Disciplined, LogInv, LogInv', SealedInv, SealedInv', TxidInv, OneByOne(files'),
         KeydirInv, KeydirInv', ReflectsInv, [DataWalNext]_kvars
  PROVE  ReflectsInv'
<1> SUFFICES ASSUME wal', NEW r \in durable', r.data.type # "Raw"
             PROVE  \E id \in DOMAIN files' : \E i \in Replayed(files'[id]) :
                       LET c == files'[id][i]
                       IN  /\ c.data.key = r.data.key
                           /\ c.data.type # "Raw"
                           /\ c.txid >= r.txid
                           /\ c.data.type = "Put" <=> r.data.key \in DOMAIN kv'
                           /\ c.data.type = "Put" => kv'[r.data.key] = c.data.value
  BY DEF ReflectsInv
<1>1. CASE ~poisoned'
  <2>1. kv' = Projection(files')
    BY <1>1 DEF KeydirInv
  <2>2. Intact(r)'
    BY DEF LogInv, DurableInv, SealedInv
  <2> QED BY <2>1, <2>2, LastIsNotOlder DEF Intact
<1>2. CASE poisoned'
  <2>0. Platform /\ CallerChecksReport /\ RotationInv /\ ShapeInv /\ [Next]_vars
    BY StoreStepIsLogStep DEF LogInv, Disciplined
  <2>1. wal /\ durable' = durable /\ kv' = kv
    <3>1. CASE StoreAppended
      <4>1. wal /\ durable' = durable
        BY <3>1 DEF StoreAppended, AppendFinish
      <4> QED BY <1>2, <2>0, <3>1, <4>1, KeydirAppended
    <3>2. CASE DataWalOpen
      BY <1>2, <3>2 DEF DataWalOpen, OpenCreated, OpenExisting, OpenScanned
    <3>3. CASE \E d \in Data, cut \in Cuts : StoreAppend(d, cut)
      BY <3>3 DEF StoreAppend, AppendBegin, store, history
    <3>4. CASE StoreUnaffected
      BY <1>2, <2>0, <3>4 DEF StoreUnaffected, OpenCreate, OpenRefused, AppendError, FsyncBegin,
         SyncAll, SyncAllError, FsyncFinish, DirectoryError, RotationInv, vars, store,
         history, handle
    <3>5. CASE LogOnly \/ StoreGone
      BY <3>5 DEF LogOnly, StoreGone, NoStore, store
    <3>6. CASE UNCHANGED kvars
      BY <3>6 DEF kvars, store, vars, history
    <3> QED BY <3>1, <3>2, <3>3, <3>4, <3>5, <3>6 DEF DataWalNext
  <2>2. ReplayedIn(files, files')
    <3>1. CASE PowerLoss
      BY <1>2, <3>1 DEF PowerLoss, NoHandle
    <3>2. CASE AppendFinish
      BY <3>2, ScanAppended
    <3>3. CASE ~PowerLoss /\ ~AppendFinish
      BY <2>0, <3>3, ScanUnchanged
    <3> QED BY <3>1, <3>2, <3>3
  <2>3. \E id \in DOMAIN files : \E i \in Replayed(files[id]) :
           LET c == files[id][i]
           IN  /\ c.data.key = r.data.key
               /\ c.data.type # "Raw"
               /\ c.txid >= r.txid
               /\ c.data.type = "Put" <=> r.data.key \in DOMAIN kv
               /\ c.data.type = "Put" => kv[r.data.key] = c.data.value
    BY <2>1 DEF ReflectsInv
  <2> QED BY <2>1, <2>2, <2>3 DEF ReplayedIn
<1> QED BY <1>1, <1>2

(***************************************************************************)
(* Whatever failed, crashed or lost power in between, a store shows for    *)
(* every key the effect of its last fsynced put or delete, or of a later   *)
(* one: no fsynced value is lost and no fsynced delete is undone.          *)
(***************************************************************************)
THEOREM FsyncedValuesStay ==
  ASSUME Disciplined PROVE DataWalSpec => []KvReflectsDurable
<1> DEFINE Inv == LogInv /\ SealedInv /\ TxidInv /\ KeydirInv
<1>0. Platform /\ CallerChecksReport
  BY DEF Disciplined
<1>1. DataWalSpec => []Inv
  BY <1>0, StoreIsLog, TxidInvariant, KeydirInvariant, PTL
<1>2. Inv => OneByOne(files)
  BY LogOneByOne
<1>3. DataWalInit => ReflectsInv
  BY DEF DataWalInit, ReflectsInv
<1>4. Inv /\ Inv' /\ OneByOne(files)' /\ ReflectsInv /\ [DataWalNext]_kvars => ReflectsInv'
  BY ReflectsStep
<1>5. Inv /\ ReflectsInv => KvReflectsDurable
  <2> SUFFICES ASSUME Inv, ReflectsInv, Readable, NEW r \in durable, r.data.type # "Raw"
               PROVE  \E id \in DOMAIN files : \E i \in 1 .. Len(files[id]) :
                         LET c == files[id][i]
                         IN  /\ c.data.key = r.data.key
                             /\ c.data.type # "Raw"
                             /\ c.txid >= r.txid
                             /\ Get(r.data.key) = IF c.data.type = "Put" THEN c.data.value ELSE None
    BY DEF KvReflectsDurable
  <2>1. Get(r.data.key) = IF r.data.key \in DOMAIN kv THEN kv[r.data.key] ELSE None
    BY GetIs DEF Readable
  <2>2. PICK id \in DOMAIN files : \E i \in Replayed(files[id]) :
           LET c == files[id][i]
           IN  /\ c.data.key = r.data.key
               /\ c.data.type # "Raw"
               /\ c.txid >= r.txid
               /\ c.data.type = "Put" <=> r.data.key \in DOMAIN kv
               /\ c.data.type = "Put" => kv[r.data.key] = c.data.value
    BY DEF ReflectsInv, Readable
  <2>3. Replayed(files[id]) \subseteq 1 .. Len(files[id])
    BY DEF Replayed
  <2> QED BY <2>1, <2>2, <2>3
<1> HIDE DEF Inv
<1> QED BY <1>1, <1>2, <1>3, <1>4, <1>5, PTL DEF DataWalSpec

------------------------------------------------------------------------------
(* Reopening *)

(***************************************************************************)
(* The keydir that put and delete keep up to date is the one a reopen      *)
(* would rebuild from the files, also after a failed append, as long as    *)
(* append_record's overflow checks cannot fail: they come after the write, *)
(* and leave a record in the file that the keydir does not know.           *)
(***************************************************************************)
THEOREM ReopenContract ==
  ASSUME Disciplined, RoomForAll PROVE DataWalSpec => []ReopenAgrees
<1> DEFINE Inv == LogInv /\ SealedInv /\ TxidInv /\ KeydirInv
           Agrees == wal => map = Rebuild(files)
<1>0. Platform /\ CallerChecksReport
  BY DEF Disciplined
<1>1. DataWalSpec => []Inv
  BY <1>0, StoreIsLog, TxidInvariant, KeydirInvariant, PTL
<1>2. DataWalInit => SizeInv /\ Agrees
  BY DEF DataWalInit, Init, SizeInv
<1>3. Inv /\ Inv' /\ SizeInv /\ [DataWalNext]_kvars => SizeInv'
  BY <1>0, StoreStepIsLogStep, SizeStep
<1>4. Inv /\ Inv' /\ SizeInv /\ Agrees /\ [DataWalNext]_kvars => Agrees'
  <2> SUFFICES ASSUME Inv, Inv', SizeInv, Agrees, [DataWalNext]_kvars, wal'
               PROVE  map' = Rebuild(files')
    OBVIOUS
  <2>0. /\ ShapeInv /\ RotationInv /\ [Next]_vars /\ Listed(files) /\ Listed(files')
    BY <1>0, StoreStepIsLogStep, FilesListed DEF LogInv
  <2>1. CASE StoreAppended
    <3>1. wal /\ AppendFinish
      BY <2>1 DEF StoreAppended
    <3>2. ~poisoned'
      BY <3>1, AppendAcknowledged
    <3> QED BY <1>0, <2>1, <3>1, <3>2, KeydirAppended
  <2>2. CASE DataWalOpen
    <3>1. map' = Rebuild(files) /\ files' = files
      BY <2>2 DEF DataWalOpen, NoStore, OpenCreated, OpenExisting, disk
    <3> QED BY <3>1
  <2>3. CASE LogOnly \/ StoreGone
    BY <2>3 DEF LogOnly, StoreGone, NoStore, Inv, KeydirInv, store
  <2>4. CASE \/ \E d \in Data, cut \in Cuts : StoreAppend(d, cut)
             \/ StoreUnaffected
             \/ UNCHANGED kvars
    <3>1. wal /\ map' = map
      BY <2>4 DEF StoreAppend, StoreUnaffected, store, kvars
    <3>2. CASE files' = files
      BY <3>1, <3>2
    <3>3. CASE \E d \in Data, cut \in Cuts : StoreAppend(d, cut)
      <4>1. ~AppendFinish /\ ~PowerLoss
        BY <3>3 DEF StoreAppend, AppendBegin, AppendFinish, Poison, PowerLoss, NoHandle
      <4>2. ReplayedIn(files, files') /\ ReplayedIn(files', files)
        BY <1>0, <2>0, <4>1, ScanUnchanged
      <4> QED BY <2>0, <3>1, <4>2, SameRebuild
    <3>4. StoreUnaffected => files' = files
      <4>1. Opened
        BY <3>1 DEF KeydirInv
      <4> QED BY <4>1 DEF StoreUnaffected, OpenCreate, OpenRefused, AppendError, FsyncBegin,
          SyncAll, SyncAllError, FsyncFinish, DirectoryError, Opened, disk
    <3> QED BY <2>4, <3>2, <3>3, <3>4 DEF kvars, vars, disk
  <2> QED BY <2>1, <2>2, <2>3, <2>4 DEF DataWalNext
<1>5. Agrees => ReopenAgrees
  BY DEF ReopenAgrees, Readable
<1> HIDE DEF Inv, Agrees
<1> QED BY <1>1, <1>2, <1>3, <1>4, <1>5, PTL DEF DataWalSpec

------------------------------------------------------------------------------
(* Types *)

\* What a scan finds for a live key.
LEMMA LiveRecord ==
  ASSUME ShapeInv, NEW k \in LiveKeys(files)
  PROVE  /\ LastTouch(files, k)[1] \in Ids
         /\ LastRecord(files, k).at \in Nat
         /\ LastRecord(files, k).len \in Nat
         /\ LastRecord(files, k).data.value \in Values
<1> DEFINE id == LastTouch(files, k)[1]
           i == LastTouch(files, k)[2]
<1>1. files \in [DOMAIN files -> Seq(Chunk)] /\ DOMAIN files \in SUBSET Ids /\ Ids \subseteq Nat
  BY DEF ShapeInv, TypeOK, Ids
<1>2. Touches(files, k) # {}
  BY DEF LiveKeys
<1>3. id \in DOMAIN files /\ i \in Replayed(files[id])
  BY <1>1, <1>2, LastTouched DEF ListSegmentIds
<1>4. LastRecord(files, k) = files[id][i]
  BY DEF LastRecord
<1> HIDE DEF id, i
<1>5. files[id] \in Seq(Chunk) /\ i \in 1 .. Len(files[id])
  BY <1>1, <1>3 DEF Replayed
<1>6. /\ files[id][i].data \in Data /\ files[id][i].at \in Nat /\ files[id][i].len \in Nat
  BY <1>5, ChunkFields
<1>7. files[id][i].data.value \in Values
  BY <1>6, KeydirAssumption
<1> QED BY <1>1, <1>3, <1>4, <1>6, <1>7 DEF id

LEMMA TypesOpen ==
  ASSUME ShapeInv, map' = Rebuild(files), kv' = Projection(files), wal' = TRUE
  PROVE  DataWalTypeOK'
<1>1. DOMAIN map' = LiveKeys(files) /\ DOMAIN kv' = LiveKeys(files) /\ LiveKeys(files) \subseteq Keys
  BY DEF Rebuild, Projection, LiveKeys
<1>2. ASSUME NEW k \in LiveKeys(files)
      PROVE  [segment |-> LastTouch(files, k)[1], offset |-> LastRecord(files, k).at,
              len |-> LastRecord(files, k).len] \in KeydirRef
  BY LiveRecord DEF KeydirRef
<1>3. map' \in [LiveKeys(files) -> KeydirRef]
  BY <1>2 DEF Rebuild
<1>4. kv' \in [LiveKeys(files) -> Values]
  BY LiveRecord DEF Projection
<1> QED BY <1>1, <1>3, <1>4 DEF DataWalTypeOK

\* Nothing is open.
LEMMA TypesNoStore ==
  ASSUME wal = FALSE, map = <<>>, kv = <<>>
  PROVE  DataWalTypeOK
<1>1. DOMAIN map = {} /\ DOMAIN kv = {}
  OBVIOUS
<1>2. \A S : <<>> \in [{} -> S]
  OBVIOUS
<1>3. map \in [DOMAIN map -> KeydirRef] /\ kv \in [DOMAIN kv -> Values]
  BY <1>1, <1>2, Zenon
<1> QED BY <1>1, <1>3 DEF DataWalTypeOK

\* What put and delete do to a function of keys.
LEMMA WithIs ==
  ASSUME NEW S, NEW f, f \in [DOMAIN f -> S], NEW k, NEW v \in S
  PROVE  /\ DOMAIN With(f, k, v) = DOMAIN f \cup {k}
         /\ With(f, k, v) \in [DOMAIN With(f, k, v) -> S]
<1>1. \A x \in DOMAIN f \cup {k} : (IF x = k THEN v ELSE f[x]) \in S
  OBVIOUS
<1> QED BY <1>1 DEF With

LEMMA WithoutIs ==
  ASSUME NEW S, NEW f, f \in [DOMAIN f -> S], NEW k
  PROVE  /\ DOMAIN Without(f, k) = DOMAIN f \ {k}
         /\ Without(f, k) \in [DOMAIN Without(f, k) -> S]
BY DEF Without

LEMMA TypesAppended ==
  ASSUME ShapeInv', DataWalTypeOK, StoreAppended
  PROVE  DataWalTypeOK'
<1> USE DEF DataWalTypeOK
<1>1. CASE UNCHANGED store
  BY <1>1 DEF store
<1>2. CASE ~UNCHANGED store
  <2>1. PICK r \in pending' : /\ UpdateKeydir(r) /\ wal' = wal
                              /\ kv' = IF r.data.type = "Put" THEN With(kv, r.data.key, r.data.value)
                                       ELSE Without(kv, r.data.key)
    BY <1>2 DEF StoreAppended, store
  <2>2. r \in Ref
    BY DEF ShapeInv, TypeOK
  <2>3. /\ [segment |-> r.segment, offset |-> r.offset, len |-> r.len] \in KeydirRef
        /\ r.data \in Data
    BY <2>2 DEF Ref, KeydirRef
  <2>4. r.data.key \in Keys /\ r.data.value \in Values
    BY <2>3, KeydirAssumption
  <2> DEFINE e == [segment |-> r.segment, offset |-> r.offset, len |-> r.len]
  <2>5. CASE r.data.type = "Put"
    <3>1. map' = With(map, r.data.key, e) /\ kv' = With(kv, r.data.key, r.data.value)
      BY <2>1, <2>5 DEF UpdateKeydir
    <3> HIDE DEF e
    <3>2. DOMAIN map' = DOMAIN map \cup {r.data.key} /\ map' \in [DOMAIN map' -> KeydirRef]
      <4>1. e \in KeydirRef /\ map \in [DOMAIN map -> KeydirRef]
        BY <2>3 DEF e
      <4>2. /\ DOMAIN With(map, r.data.key, e) = DOMAIN map \cup {r.data.key}
            /\ With(map, r.data.key, e) \in [DOMAIN With(map, r.data.key, e) -> KeydirRef]
        BY <4>1, WithIs
      <4> QED BY <3>1, <4>2
    <3>3. DOMAIN kv' = DOMAIN kv \cup {r.data.key} /\ kv' \in [DOMAIN kv' -> Values]
      <4> DEFINE v == r.data.value
      <4>1. v \in Values /\ kv \in [DOMAIN kv -> Values] /\ kv' = With(kv, r.data.key, v)
        BY <2>4, <3>1
      <4> HIDE DEF v
      <4>2. /\ DOMAIN With(kv, r.data.key, v) = DOMAIN kv \cup {r.data.key}
            /\ With(kv, r.data.key, v) \in [DOMAIN With(kv, r.data.key, v) -> Values]
        BY <4>1, WithIs
      <4> QED BY <4>1, <4>2
    <3> QED BY <2>1, <2>4, <3>2, <3>3
  <2>6. CASE r.data.type # "Put"
    <3>1. map' = Without(map, r.data.key) /\ kv' = Without(kv, r.data.key)
      BY <2>1, <2>6 DEF UpdateKeydir
    <3>2. DOMAIN map' = DOMAIN map \ {r.data.key} /\ map' \in [DOMAIN map' -> KeydirRef]
      BY <3>1, WithoutIs
    <3>3. DOMAIN kv' = DOMAIN kv \ {r.data.key} /\ kv' \in [DOMAIN kv' -> Values]
      BY <3>1, WithoutIs
    <3> QED BY <2>1, <3>2, <3>3
  <2> QED BY <2>5, <2>6
<1> QED BY <1>1, <1>2

(***************************************************************************)
(* Type correctness of the store, on any platform and whoever the caller   *)
(* is: the keydir has an entry for every key that the operations left a    *)
(* value for and no other, also after failed appends.                      *)
(***************************************************************************)
THEOREM StoreTypeCorrect == DataWalSpec => []DataWalTypeOK
<1>1. DataWalInit => DataWalTypeOK
  BY TypesNoStore DEF DataWalInit
<1>2. (wal = FALSE /\ map = <<>> /\ kv = <<>> => DataWalTypeOK)'
  BY TypesNoStore, PTL
<1>3. ASSUME ShapeInv, ShapeInv', DataWalTypeOK, [DataWalNext]_kvars
      PROVE  DataWalTypeOK'
  <2>1. CASE DataWalOpen
    <3>1. CASE NoStore
      BY <1>2, <3>1 DEF NoStore
    <3>2. CASE wal' = TRUE /\ map' = Rebuild(files) /\ kv' = Projection(files)
      BY <1>3, <3>2, TypesOpen
    <3> QED BY <2>1, <3>1, <3>2 DEF DataWalOpen
  <2>2. CASE StoreAppended
    BY <1>3, <2>2, TypesAppended
  <2>3. CASE StoreGone
    BY <1>2, <2>3 DEF StoreGone, NoStore
  <2>4. CASE UNCHANGED store
    BY <1>3, <2>4 DEF store, DataWalTypeOK
  <2> QED
    BY <1>3, <2>1, <2>2, <2>3, <2>4 DEF DataWalNext, StoreAppend, StoreUnaffected, LogOnly, kvars
<1> QED BY <1>1, <1>3, StoreIsLog, ShapeCorrect, PTL DEF DataWalSpec
=============================================================================
