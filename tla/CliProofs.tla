------------------------------ MODULE CliProofs ------------------------------
(***************************************************************************)
(* The commands, on any platform, whatever writers have done to the store  *)
(* and whatever decays while a command runs: exit codes, values printed,   *)
(* and artefacts.                                                          *)
(***************************************************************************)
EXTENDS Cli, DataWalProofs, FunctionTheorems

------------------------------------------------------------------------------
(* The inductive invariants behind the properties *)

\* What belongs to each stage of a command.
StageInv ==
    /\ cmd \in Command \cup {NoCmd}
    /\ stage \in {"none", "started", "done"} \/ Holding
    /\ stage \in {"none", "started", "creating"} => out = <<>> /\ ~tail /\ rows = <<>>
    /\ stage = "none" => ~disturbed
    /\ stage \in {"started", "creating"} => cmd # NoCmd
    /\ stage = "walking" => cmd.name \in {"report", "verify", "scan", "dump"}
    /\ stage = "reading" => cmd.name \in {"get", "check", "export"}
    /\ stage = "writing" => cmd.name \in {"export", "compact"}
    /\ stage = "copying" => cmd.name = "compact"
    /\ (stage \in {"started", "creating"} /\ cmd.name = "get") => cmd.key \in Keys

\* As long as nothing decays, the open has said what there is to say.
HealthInv ==
    (stage \in {"walking", "reading"} /\ ~disturbed) =>
        /\ ScanOk(files)
        /\ ListSegmentIds(files) # {}
        /\ report = TailReport(files)

\* The walk goes up the segments, and sees every frame or a tail.
WalkInv ==
    stage = "walking" =>
        /\ left \subseteq ListSegmentIds(files)
        /\ \A id \in left, below \in ListSegmentIds(files) \ left : below < id
        /\ cmd.name = "verify" =>
              /\ out \in Seq(Nat \X Nat)
              /\ ~disturbed =>
                    (tail <=> \E id \in ListSegmentIds(files) \ left :
                                 LogicalEnd(files[id]) # FileSize(files[id]))
              /\ ~tail =>
                    \A id \in ListSegmentIds(files) \ left : \A i \in 1 .. Len(files[id]) :
                        \E n \in DOMAIN out : out[n] = <<id, i>>

(***************************************************************************)
(* Whatever decays, the keydir's references find the value that was live   *)
(* at the open, or nothing; rows holds the values read so far.             *)
(***************************************************************************)
AnswersInv ==
    stage \in {"reading", "writing", "copying"} =>
        /\ DOMAIN snap \subseteq Keys
        /\ snap \in [DOMAIN snap -> Values]
        /\ DOMAIN map = DOMAIN snap
        /\ \A k \in DOMAIN map : /\ map[k].segment \in DOMAIN files
                                 /\ Get(k) \in {Failed, snap[k]}
                                 /\ ~disturbed => Get(k) = snap[k]
        /\ DOMAIN rows \subseteq DOMAIN snap
        /\ rows = [k \in DOMAIN rows |-> snap[k]]
        /\ stage = "reading" => left \cup DOMAIN rows
                                 = IF cmd.name = "get" THEN {cmd.key} ELSE DOMAIN snap
        /\ stage = "reading" => left \subseteq Keys
        /\ (stage = "writing" /\ cmd.name = "export") => DOMAIN rows = DOMAIN snap

CliInv == StageInv /\ HealthInv /\ WalkInv /\ AnswersInv

------------------------------------------------------------------------------
(* The log under a command *)

\* The end of a command, as the log sees it.
Ended == NoHandle /\ UNCHANGED <<disk, durable, appends>> /\ (Fault \/ UNCHANGED faults)

\* One frame has decayed, and nothing else happened to the log.
Decayed(id, i) ==
    /\ files[id][i].state = "whole"
    /\ files' = [files EXCEPT ![id][i].state = "crc"]
    /\ Fault
    /\ UNCHANGED <<synced, entries, dropped, pc, handle, history, appends>>

\* A step of a command or of its environment, as the log sees it.
LEMMA CliLogStep ==
  ASSUME [CliNext]_clivars
  PROVE  \/ [Next]_vars
         \/ Ended
         \/ \E id \in DOMAIN files : \E i \in 1 .. Len(files[id]) : Decayed(id, i)
<1>1. CASE Writer
  BY <1>1, StoreStepIsLogStep DEF Writer
<1>2. CASE Create \/ Open \/ OpenError \/ Killed
  BY <1>2 DEF Create, Open, OpenError, Killed, Next, Running, Progress
<1>3. CASE Decay
  BY <1>3 DEF Decay, Decayed
<1>4. CASE Walk \/ WalkError \/ WalkEnd \/ ReadKey \/ ReadKeyFails \/ ReadKeyError \/ ReadEnd
             \/ Export \/ ExportError \/ CheckTarget \/ CompactTo
  <2>1. Ended \/ UNCHANGED kvars
    BY <1>4 DEF Walk, WalkError, WalkEnd, ReadKey, ReadKeyFails, ReadKeyError, ReadEnd, Export,
       ExportError, CheckTarget, CompactTo, Exit, Ended
  <2> QED BY <2>1 DEF kvars
<1>5. CASE (\E c \in Command : Start(c)) \/ Locked \/ NextCommand \/ Foreign \/ UNCHANGED clivars
  <2>1. UNCHANGED kvars
    BY <1>5 DEF Start, Locked, NextCommand, Foreign, ExitEarly, clivars
  <2> QED BY <2>1 DEF kvars
<1> QED BY <1>1, <1>2, <1>3, <1>4, <1>5 DEF CliNext

\* What a decayed frame keeps.
LEMMA DecayFacts ==
  ASSUME ShapeInv, NEW id \in DOMAIN files, NEW i \in 1 .. Len(files[id]), Decayed(id, i)
  PROVE  /\ DOMAIN files' = DOMAIN files
         /\ \A jd \in DOMAIN files : /\ files'[jd] \in Seq(Chunk)
                                     /\ Len(files'[jd]) = Len(files[jd])
                                     /\ \A j \in 1 .. Len(files[jd]) :
                                          /\ files'[jd][j].at = files[jd][j].at
                                          /\ files'[jd][j].len = files[jd][j].len
                                          /\ files'[jd][j].data = files[jd][j].data
                                          /\ files'[jd][j].state \in {files[jd][j].state, "crc"}
<1> DEFINE c == files[id][i]
           d == [c EXCEPT !.state = "crc"]
           t == [files[id] EXCEPT ![i] = d]
<1>1. files \in [DOMAIN files -> Seq(Chunk)] /\ files[id] \in Seq(Chunk)
  BY DEF ShapeInv, TypeOK
<1>2. c \in Chunk
  BY <1>1, ChunkFields
<1>3. d \in Chunk /\ d.at = c.at /\ d.len = c.len /\ d.data = c.data /\ d.state = "crc"
  BY <1>2 DEF Chunk, ChunkState
<1>4. files' = [files EXCEPT ![id] = t]
  BY DEF Decayed
<1> HIDE DEF d
<1>5. /\ t \in Seq(Chunk) /\ Len(t) = Len(files[id])
      /\ \A j \in 1 .. Len(files[id]) : t[j] = IF j = i THEN d ELSE files[id][j]
  BY <1>1, <1>3
<1> HIDE DEF t, c
<1> QED BY <1>1, <1>3, <1>4, <1>5 DEF c

LEMMA DecayKeepsShape ==
  ASSUME ShapeInv, NEW id \in DOMAIN files, NEW i \in 1 .. Len(files[id]), Decayed(id, i)
  PROVE  ShapeInv'
<1>1. /\ DOMAIN files' = DOMAIN files
      /\ \A jd \in DOMAIN files : files'[jd] \in Seq(Chunk) /\ Len(files'[jd]) = Len(files[jd])
  BY DecayFacts
<1>2. files' \in [DOMAIN files' -> Seq(Chunk)]
  <2>1. files' = [files EXCEPT ![id] = files'[id]]
    BY DEF Decayed, ShapeInv, TypeOK
  <2> QED BY <1>1, <2>1 DEF ShapeInv, TypeOK
<1>3. ASSUME NEW jd \in DOMAIN files PROVE Laid(files'[jd])
  <2>1. Laid(files[jd])
    BY DEF ShapeInv
  <2>2. /\ Len(files'[jd]) = Len(files[jd])
        /\ \A j \in 1 .. Len(files[jd]) : /\ files'[jd][j].at = files[jd][j].at
                                         /\ files'[jd][j].len = files[jd][j].len
    BY DecayFacts
  <2> QED BY <2>1, <2>2 DEF Laid
<1>4. faults' \in 0 .. MaxFaults
  BY FaultBound DEF ShapeInv, Decayed
<1>5. TypeOK'
  BY <1>1, <1>2, <1>4 DEF ShapeInv, TypeOK, Decayed, handle, history
<1> QED
  BY <1>1, <1>3, <1>5 DEF ShapeInv, Decayed, handle, history, Opened, ActiveFile

LEMMA CliShape == CliSpec => []ShapeInv
<1>1. CliInit => ShapeInv
  BY ShapeInit DEF CliInit, DataWalInit
<1>2. ASSUME ShapeInv, [CliNext]_clivars PROVE ShapeInv'
  <2>1. CASE [Next]_vars
    BY <1>2, <2>1, ShapeStep
  <2>2. CASE Ended
    <3>1. faults' \in 0 .. MaxFaults
      BY <1>2, <2>2, FaultBound DEF Ended, ShapeInv, TypeOK
    <3> QED BY <1>2, <2>2, <3>1, ShapeNoHandle DEF Ended
  <2>3. CASE \E id \in DOMAIN files : \E i \in 1 .. Len(files[id]) : Decayed(id, i)
    BY <1>2, <2>3, DecayKeepsShape
  <2> QED BY <1>2, <2>1, <2>2, <2>3, CliLogStep
<1> QED BY <1>1, <1>2, PTL DEF CliSpec

------------------------------------------------------------------------------
(* Values *)

\* No two frames of a segment start at the same byte.
LEMMA OneStart ==
  ASSUME NEW s \in Seq(Chunk), Laid(s),
         NEW i \in 1 .. Len(s), NEW j \in 1 .. Len(s), s[i].at = s[j].at
  PROVE  i = j
<1>1. s[i].at \in Nat /\ s[i].len \in Nat /\ s[j].len \in Nat /\ s[i].len > 0 /\ s[j].len > 0
  BY ChunkFields DEF Laid
<1>2. i < j => s[i].at + s[i].len <= s[j].at
  BY DEF Laid
<1>3. j < i => s[j].at + s[j].len <= s[i].at
  BY DEF Laid
<1> QED BY <1>1, <1>2, <1>3

(***************************************************************************)
(* What the keydir of a store that opens is good for: every live key has   *)
(* an entry, through which get reads the key's value.                      *)
(***************************************************************************)
LEMMA FreshAnswers ==
  ASSUME ShapeInv, files' = files, map' = Rebuild(files), NEW k \in LiveKeys(files)
  PROVE  /\ map'[k].segment \in DOMAIN files
         /\ Get(k)' = Projection(files)[k]
         /\ Projection(files)[k] \in Values
<1> DEFINE id == LastTouch(files, k)[1]
           i == LastTouch(files, k)[2]
           c == files[id][i]
<1>1. /\ Touches(files, k) # {} /\ LastRecord(files, k) = c /\ c.data.type = "Put"
  BY DEF LiveKeys, LastRecord
<1>2. files \in [DOMAIN files -> Seq(Chunk)] /\ DOMAIN files \in SUBSET Nat
  BY DEF ShapeInv, TypeOK, Ids
<1>3. id \in DOMAIN files /\ i \in Replayed(files[id])
  BY <1>1, <1>2, LastTouched DEF ListSegmentIds
<1>4. map'[k] = [segment |-> id, offset |-> c.at, len |-> c.len] /\ k \in DOMAIN map'
  BY <1>1 DEF Rebuild
<1>5. Projection(files)[k] = c.data.value
  BY <1>1 DEF Projection
<1> HIDE DEF id, i
<1>6. files[id] \in Seq(Chunk) /\ Laid(files[id]) /\ i \in 1 .. Len(files[id])
  BY <1>2, <1>3 DEF ShapeInv, Replayed
<1>7. c.state = "whole"
  BY <1>3, <1>6, ReplayedWhole DEF AllWhole
<1>8. c.data.value \in Values
  BY <1>6, ChunkFields, KeydirAssumption
<1> DEFINE starts == {j \in 1 .. Len(files[id]) :
                         /\ files[id][j].at = c.at
                         /\ files[id][j].state = "whole"
                         /\ files[id][j].len = c.len
                         /\ files[id][j].data.type = "Put"}
<1>9. starts = {i}
  BY <1>1, <1>6, <1>7, OneStart
<1>10. Get(k)' = IF starts = {} THEN Failed ELSE files[id][CHOOSE j \in starts : TRUE].data.value
  BY <1>4 DEF Get, ReadBack
<1> HIDE DEF starts
<1>11. Get(k)' = c.data.value
  BY <1>9, <1>10
<1> QED BY <1>3, <1>4, <1>5, <1>8, <1>11

\* When a frame decays, get of a key returns what it did, or an error.
LEMMA DecayedAnswers ==
  ASSUME ShapeInv, NEW id \in DOMAIN files, NEW i \in 1 .. Len(files[id]), Decayed(id, i),
         map' = map, NEW k \in DOMAIN map, map[k].segment \in DOMAIN files
  PROVE  Get(k)' \in {Failed, Get(k)}
<1> DEFINE ref == map[k]
           s == files[ref.segment]
           t == files'[ref.segment]
           starts == {j \in 1 .. Len(s) : /\ s[j].at = ref.offset
                                          /\ s[j].state = "whole"
                                          /\ s[j].len = ref.len
                                          /\ s[j].data.type = "Put"}
           later == {j \in 1 .. Len(t) : /\ t[j].at = ref.offset
                                         /\ t[j].state = "whole"
                                         /\ t[j].len = ref.len
                                         /\ t[j].data.type = "Put"}
<1>1. /\ s \in Seq(Chunk) /\ Laid(s) /\ Len(t) = Len(s)
      /\ \A j \in 1 .. Len(s) : /\ t[j].at = s[j].at /\ t[j].len = s[j].len
                                /\ t[j].data = s[j].data
                                /\ t[j].state \in {s[j].state, "crc"}
  BY DecayFacts DEF ShapeInv, TypeOK
<1>2. Get(k) = IF starts = {} THEN Failed ELSE s[CHOOSE j \in starts : TRUE].data.value
  BY DEF Get, ReadBack
<1>3. Get(k)' = IF later = {} THEN Failed ELSE t[CHOOSE j \in later : TRUE].data.value
  <2>1. Get(k)' = ReadBack(ref)'
    BY DEF Get
  <2>2. ref' = ref
    OBVIOUS
  <2> QED BY <2>1, <2>2, Zenon DEF ReadBack
<1> HIDE DEF s, t, ref
<1>4. later \subseteq starts
  BY <1>1
<1>5. \A j \in starts, l \in starts : j = l
  BY <1>1, OneStart
<1>6. \A j \in later : t[j].data.value = s[j].data.value
  BY <1>1, <1>4
<1> HIDE DEF starts, later
<1>7. CASE later # {}
  <2>1. later = starts
    BY <1>4, <1>5, <1>7
  <2> QED BY <1>2, <1>3, <1>6, <1>7, <2>1
<1> QED BY <1>3, <1>7

------------------------------------------------------------------------------
(* Commands *)

LEMMA CommandIs ==
  ASSUME NEW c \in Command
  PROVE  /\ c.name \in {"report", "verify", "check", "export", "compact", "get", "scan", "dump"}
         /\ c # NoCmd
         /\ c.name = "get" => c.key \in Keys \cup {Undecodable}
BY DEF Command, NoCmd

LEMMA StageInit == CliInit => StageInv
BY DEF CliInit, StageInv, Holding, NoCmd

LEMMA StageStep ==
  ASSUME StageInv, [CliNext]_clivars
  PROVE  StageInv'
<1>1. ASSUME NEW c \in Command, Start(c) PROVE StageInv'
  BY <1>1, CommandIs DEF StageInv, Start, Unacceptable, ExitEarly, Holding, NoCmd
<1>2. CASE Create \/ OpenError \/ Locked
  BY <1>2 DEF StageInv, Create, OpenError, Locked, ExitEarly, Holding, NoCmd
<1>3. CASE Open
  BY <1>3, CommandIs DEF StageInv, Open, Holding, NoCmd
<1>4. CASE Walk \/ WalkError \/ WalkEnd
  <2>1. /\ stage = "walking" /\ stage' \in {"walking", "done"}
        /\ UNCHANGED <<cmd, rows>>
    BY <1>4 DEF Walk, WalkError, WalkEnd, Exit
  <2> QED BY <2>1 DEF StageInv, Holding
<1>5. CASE ReadKey \/ ReadKeyFails \/ ReadKeyError \/ ReadEnd
  BY <1>5 DEF StageInv, ReadKey, ReadKeyFails, ReadKeyError, ReadEnd, Exit, Holding
<1>6. CASE Export \/ ExportError \/ CheckTarget \/ CompactTo
  BY <1>6 DEF StageInv, Export, ExportError, CheckTarget, CompactTo, Exit, Holding
<1>7. CASE NextCommand \/ Killed
  BY <1>7 DEF StageInv, NextCommand, Killed, Reset, Holding, NoCmd
<1>8. CASE Writer \/ Decay \/ Foreign \/ UNCHANGED clivars
  <2>1. UNCHANGED <<cmd, stage, out, tail, rows>>
    BY <1>8 DEF Writer, Decay, Foreign, clivars, cli
  <2>2. stage = "none" => ~disturbed'
    BY <1>8 DEF StageInv, Writer, Decay, Foreign, clivars, cli, Holding
  <2> QED BY <2>1, <2>2 DEF StageInv, Holding
<1> QED BY <1>1, <1>2, <1>3, <1>4, <1>5, <1>6, <1>7, <1>8 DEF CliNext

\* What a command that opens the store begins with.
LEMMA OpenFacts ==
  ASSUME ShapeInv, StageInv, Open
  PROVE  /\ files' = files /\ ScanOk(files) /\ report' = TailReport(files)
         /\ ListSegmentIds(files) # {}
<1>1. CASE OpenExisting
  BY <1>1 DEF OpenExisting, OpenScanned, disk
<1>2. CASE OpenCreated
  <2>1. 1 \in ListSegmentIds(files)
    BY <1>2, SegmentsAssumption DEF OpenCreated, ShapeInv, ListSegmentIds
  <2> QED BY <1>2, <2>1 DEF OpenCreated, OpenScanned
<1> QED BY <1>1, <1>2 DEF Open

LEMMA AnswersOpen ==
  ASSUME ShapeInv, StageInv, Open
  PROVE  AnswersInv'
<1> SUFFICES ASSUME stage' \in {"reading", "writing"}
             PROVE  AnswersInv'
  BY CommandIs DEF AnswersInv, Open, StageInv
<1>1. /\ cmd' = cmd /\ cmd \in Command /\ rows' = <<>> /\ disturbed' = disturbed
      /\ stage \in {"started", "creating"}
  BY DEF Open, StageInv
<1>2. /\ cmd.name \in {"get", "check", "export", "compact"}
      /\ stage' = IF cmd.name = "compact" THEN "writing" ELSE "reading"
      /\ left' = IF cmd.name = "get" THEN {cmd.key}
                 ELSE IF cmd.name = "compact" THEN {} ELSE LiveKeys(files)
  BY <1>1, CommandIs DEF Open
<1>3. map' = Rebuild(files) /\ snap' = Projection(files)
  BY <1>2 DEF Open, OnStore
<1>4. DOMAIN map' = LiveKeys(files) /\ DOMAIN snap' = LiveKeys(files) /\ LiveKeys(files) \subseteq Keys
  BY <1>3 DEF Rebuild, Projection, LiveKeys
<1>5. files' = files
  BY OpenFacts
<1>6. \A k \in LiveKeys(files) : /\ map'[k].segment \in DOMAIN files'
                                 /\ Get(k)' = snap'[k]
                                 /\ snap'[k] \in Values
  BY <1>3, <1>5, FreshAnswers
<1>7. snap' \in [LiveKeys(files) -> Values]
  BY <1>3, <1>6 DEF Projection
<1>8. DOMAIN rows' = {} /\ rows' = [k \in DOMAIN rows' |-> snap'[k]]
  BY <1>1
<1>9. cmd.name = "get" => cmd.key \in Keys
  BY <1>1 DEF StageInv
<1> QED BY <1>1, <1>2, <1>4, <1>6, <1>7, <1>8, <1>9 DEF AnswersInv

\* What get returns depends on the keydir and the files.
LEMMA SameAnswers ==
  ASSUME files' = files, map' = map
  PROVE  \A k : Get(k)' = Get(k)
<1>1. \A ref : ReadBack(ref)' = ReadBack(ref)
  BY DEF ReadBack
<1> QED BY <1>1 DEF Get

LEMMA AnswersReadKey ==
  ASSUME StageInv, AnswersInv, ReadKey
  PROVE  AnswersInv'
<1> DEFINE k == Min(left)
<1>1. /\ stage = "reading" /\ left # {} /\ UNCHANGED <<map, files, cmd, stage, snap, disturbed>>
      /\ Get(k) \notin {Failed, None} /\ rows' = With(rows, k, Get(k)) /\ left' = left \ {k}
  BY DEF ReadKey, kvars, vars, disk, store
<1>2. /\ left \subseteq Keys /\ DOMAIN rows \subseteq DOMAIN snap
      /\ left \cup DOMAIN rows = IF cmd.name = "get" THEN {cmd.key} ELSE DOMAIN snap
      /\ rows = [x \in DOMAIN rows |-> snap[x]] /\ DOMAIN map = DOMAIN snap
      /\ \A x \in DOMAIN map : Get(x) \in {Failed, snap[x]}
  BY <1>1 DEF AnswersInv
<1>3. k \in left
  BY <1>1, <1>2, MinIs, KeydirAssumption
<1> HIDE DEF k
<1>4. k \in DOMAIN map
  BY <1>1 DEF Get
<1>5. Get(k) = snap[k]
  BY <1>1, <1>2, <1>4
<1>6. DOMAIN rows' = DOMAIN rows \cup {k} /\ rows' = [x \in DOMAIN rows' |-> snap[x]]
  BY <1>1, <1>2, <1>5 DEF With
<1>7. left' \cup DOMAIN rows' = left \cup DOMAIN rows
  BY <1>1, <1>3, <1>6
<1>8. \A x : Get(x)' = Get(x)
  BY <1>1, SameAnswers
<1> QED BY <1>1, <1>2, <1>4, <1>6, <1>7, <1>8 DEF AnswersInv

LEMMA AnswersStep ==
  ASSUME ShapeInv, StageInv, AnswersInv, [CliNext]_clivars
  PROVE  AnswersInv'
<1>1. CASE Open
  BY <1>1, AnswersOpen
<1>2. CASE ReadKey
  BY <1>2, AnswersReadKey
<1>3. CASE ReadEnd
  <2>1. CASE stage' = "writing"
    <3>1. /\ stage = "reading" /\ left = {} /\ cmd.name = "export"
          /\ UNCHANGED <<files, map, cmd, left, rows, snap, disturbed>>
      BY <1>3, <2>1 DEF ReadEnd, Exit, StageInv, kvars, vars, disk, store
    <3>2. \A x : Get(x)' = Get(x)
      BY <3>1, SameAnswers
    <3> QED BY <2>1, <3>1, <3>2 DEF AnswersInv
  <2>2. CASE stage' = "done"
    BY <2>2 DEF AnswersInv
  <2> QED BY <1>3, <2>1, <2>2 DEF ReadEnd, Exit
<1>4. CASE Decay
  <2> SUFFICES ASSUME stage \in {"reading", "writing", "copying"} PROVE AnswersInv'
    BY <1>4 DEF Decay, AnswersInv
  <2>1. disturbed' /\ UNCHANGED <<map, cmd, stage, left, rows, snap>>
    BY <1>4 DEF Decay, Holding, store
  <2>2. \E id \in DOMAIN files : \E i \in 1 .. Len(files[id]) : Decayed(id, i)
    BY <1>4 DEF Decay, Decayed
  <2>3. DOMAIN files' = DOMAIN files
    BY <2>2, DecayFacts
  <2>4. \A k \in DOMAIN map : Get(k)' \in {Failed, Get(k)}
    BY <2>1, <2>2, DecayedAnswers DEF AnswersInv
  <2> QED BY <2>1, <2>3, <2>4 DEF AnswersInv
<1>5. CASE Foreign \/ Writer \/ UNCHANGED clivars
  <2>1. CASE stage \in {"reading", "writing", "copying"}
    <3>1. UNCHANGED <<files, map, cmd, stage, left, rows, snap, disturbed>>
      BY <1>5, <2>1 DEF Foreign, Writer, clivars, cli, kvars, vars, disk, store
    <3>2. \A x : Get(x)' = Get(x)
      BY <3>1, SameAnswers
    <3> QED BY <3>1, <3>2 DEF AnswersInv
  <2>2. CASE stage \notin {"reading", "writing", "copying"}
    BY <1>5, <2>2 DEF Foreign, Writer, clivars, cli, AnswersInv
  <2> QED BY <2>1, <2>2
<1>6. CASE stage' \notin {"reading", "writing", "copying"}
  BY <1>6 DEF AnswersInv
<1>7. CASE Walk
  BY <1>6, <1>7 DEF Walk, Exit
<1>8. CASE CheckTarget
  <2>1. CASE stage' = "copying"
    <3>1. stage = "writing" /\ UNCHANGED <<files, map, cmd, left, rows, snap, disturbed>>
      BY <1>8, <2>1 DEF CheckTarget, Exit, kvars, vars, disk, store
    <3>2. \A x : Get(x)' = Get(x)
      BY <3>1, SameAnswers
    <3> QED BY <2>1, <3>1, <3>2 DEF AnswersInv
  <2> QED BY <1>6, <1>8, <2>1 DEF CheckTarget, Exit
<1> QED
  BY <1>1, <1>2, <1>3, <1>4, <1>5, <1>6, <1>7, <1>8 DEF CliNext, Start, Locked, Create, OpenError,
     WalkError, WalkEnd, ReadKeyFails, ReadKeyError, Export, ExportError, CheckTarget, CompactTo,
     NextCommand, Killed, Exit, ExitEarly, Reset

\* Nothing happens to the files, or to what the open reported, between the
\* open and the end of a command, unless something decays.
LEMMA HealthStep ==
  ASSUME ShapeInv, StageInv, HealthInv, [CliNext]_clivars
  PROVE  HealthInv'
<1>1. CASE Open
  BY <1>1, OpenFacts DEF HealthInv
<1>2. CASE stage \in {"walking", "reading"} /\ UNCHANGED <<files, report, disturbed>>
  BY <1>2 DEF HealthInv
<1>3. CASE Decay
  BY <1>3 DEF Decay, Holding, HealthInv
<1>4. CASE stage' \notin {"walking", "reading"}
  BY <1>4 DEF HealthInv
<1>5. CASE Walk \/ ReadKey \/ ReadEnd
  <2>1. \/ stage' \in {"done", "writing"}
        \/ stage \in {"walking", "reading"} /\ UNCHANGED <<files, report, disturbed>>
    BY <1>5 DEF Walk, ReadKey, ReadEnd, Exit, kvars, vars, disk, handle
  <2> QED BY <1>2, <1>4, <2>1
<1>6. CASE Foreign \/ Writer \/ UNCHANGED clivars
  <2>1. \/ stage' \notin {"walking", "reading"}
        \/ stage \in {"walking", "reading"} /\ UNCHANGED <<files, report, disturbed>>
    BY <1>6 DEF Foreign, Writer, clivars, cli, kvars, vars, disk, handle
  <2> QED BY <1>2, <1>4, <2>1
<1> QED
  BY <1>1, <1>3, <1>4, <1>5, <1>6 DEF CliNext, Start, Locked, Create, OpenError,
     WalkError, WalkEnd, ReadKeyFails, ReadKeyError, Export, ExportError, CheckTarget, CompactTo,
     NextCommand, Killed, Exit, ExitEarly, Reset

\* A segment that decodes to its end has been seen whole.
LEMMA SeenWhole ==
  ASSUME NEW s \in Seq(Chunk), Laid(s)
  PROVE  /\ LogicalEnd(s) = FileSize(s) <=> AllWhole(s, Len(s))
         /\ AllWhole(s, Len(s)) => /\ Replayed(s) = 1 .. Len(s)
                                   /\ Cardinality(Replayed(s)) = Len(s)
         /\ Replayed(s) = 1 .. Len(s) => AllWhole(s, Len(s))
<1>1. Len(s) \in Nat
  OBVIOUS
<1>2. LogicalEnd(s) = FileSize(s) => AllWhole(s, Len(s))
  BY LogicalEndFacts
<1>3. ASSUME AllWhole(s, Len(s)) PROVE LogicalEnd(s) = FileSize(s)
  <2>1. \A i \in 1 .. Len(s) : DecodeNext(s, i) = "Ok"
    BY <1>3, DecodeOk DEF AllWhole
  <2> QED BY <2>1 DEF LogicalEnd
<1>4. ASSUME AllWhole(s, Len(s)) PROVE Replayed(s) = 1 .. Len(s)
  BY <1>4, WholeReplayed
<1>5. Cardinality(1 .. Len(s)) = Len(s)
  <2>1. Cardinality(1 .. Len(s)) = IF 1 > Len(s) THEN 0 ELSE Len(s) - 1 + 1
    BY <1>1, FS_Interval
  <2> QED BY <1>1, <2>1
<1>6. ASSUME Replayed(s) = 1 .. Len(s) PROVE AllWhole(s, Len(s))
  BY <1>1, <1>6, ReplayedWhole DEF AllWhole
<1> QED BY <1>2, <1>3, <1>4, <1>5, <1>6

------------------------------------------------------------------------------
(* The walk over the segments *)

\* One round of the walk that does not end the command.
LEMMA WalkRound ==
  ASSUME ShapeInv, WalkInv, Walk
  PROVE  /\ stage = "walking"
         /\ Min(left) \in left /\ \A y \in left : Min(left) <= y
         /\ left \subseteq ListSegmentIds(files)
         /\ files[Min(left)] \in Seq(Chunk) /\ Laid(files[Min(left)])
<1>1. stage = "walking" /\ left # {}
  BY DEF Walk
<1>2. left \subseteq ListSegmentIds(files)
  BY <1>1 DEF WalkInv
<1>3. ListSegmentIds(files) \subseteq DOMAIN files /\ DOMAIN files \subseteq Nat
  BY DEF ListSegmentIds, ShapeInv, TypeOK, Ids
<1>4. Min(left) \in left /\ \A y \in left : Min(left) <= y
  BY <1>1, <1>2, <1>3, MinIs
<1> QED BY <1>1, <1>2, <1>3, <1>4 DEF ShapeInv, TypeOK

\* The n-th smallest number of an interval.
LEMMA NthIs ==
  ASSUME NEW a \in Nat, NEW b \in Nat, NEW n \in Nat, 1 <= n, a + n - 1 <= b
  PROVE  Nth(a .. b, n) = a + n - 1
<1>1. ASSUME NEW i \in a .. b PROVE Cardinality({j \in a .. b : j < i}) = i - a
  <2> DEFINE c == i - 1
  <2>1. i \in Nat /\ a <= i /\ i <= b /\ c \in Int
    OBVIOUS
  <2>2. {j \in a .. b : j < i} = a .. c
    BY <2>1
  <2>3. (IF a > c THEN 0 ELSE c - a + 1) = i - a
    BY <2>1
  <2> HIDE DEF c
  <2>4. Cardinality(a .. c) = IF a > c THEN 0 ELSE c - a + 1
    BY <2>1, FS_Interval
  <2> QED BY <2>2, <2>3, <2>4
<1> DEFINE c == a + n - 1
<1>2. c \in a .. b /\ \A i \in a .. b : i - a = n - 1 <=> i = c
  OBVIOUS
<1> HIDE DEF c
<1>3. \A i \in a .. b : Cardinality({j \in a .. b : j < i}) = n - 1 <=> i = c
  BY <1>1, <1>2
<1> QED BY <1>2, <1>3 DEF Nth, c

\* The frames of segment id that are not skipped.
Wanted(id) == {i \in Replayed(files[id]) : cmd.name = "verify" \/ Selected(id, i)}

\* The arguments of the commands that walk over frames.
Walks == cmd.name = "verify" \/ cmd.from \in Nat \X Nat

\* They are the last ones that are replayed, since offsets grow.
LEMMA WantedIs ==
  ASSUME NEW id \in Nat, files[id] \in Seq(Chunk), Laid(files[id]), Walks
  PROVE  \E m \in 0 .. Len(files[id]) : \E a \in 1 .. (m + 1) :
            /\ Replayed(files[id]) = 1 .. m
            /\ Wanted(id) = a .. m
            /\ cmd.name = "verify" => a = 1
<1> DEFINE s == files[id]
<1>1. Len(s) \in Nat /\ AllWhole(s, 0)
  BY DEF AllWhole
<1>2. PICK m \in 0 .. Len(s) : Replayed(s) = 1 .. m
  BY <1>1, ReplayedPart
<1>3. m \in Nat /\ 1 \in 1 .. (m + 1) /\ m + 1 \in 1 .. (m + 1) /\ (m + 1) .. m = {}
  BY <1>1
<1>4. CASE cmd.name = "verify"
  <2>1. Wanted(id) = 1 .. m
    BY <1>2, <1>4 DEF Wanted
  <2> QED BY <1>2, <1>3, <2>1
<1>5. CASE cmd.name # "verify" /\ Wanted(id) = {}
  BY <1>2, <1>3, <1>5
<1>6. CASE cmd.name # "verify" /\ Wanted(id) # {}
  <2>1. Wanted(id) = {i \in 1 .. m : Selected(id, i)}
    BY <1>2, <1>6 DEF Wanted
  <2>2. PICK a \in Wanted(id) : \A i \in Wanted(id) : a <= i
    <3>1. Wanted(id) \in SUBSET Nat
      BY <2>1
    <3> QED BY <1>6, <3>1, NatMin
  <2>3. a \in 1 .. m /\ Selected(id, a)
    BY <2>1, <2>2
  <2>4. ASSUME NEW i \in a .. m PROVE Selected(id, i)
    <3>1. i \in 1 .. Len(s) /\ a \in 1 .. Len(s)
      BY <1>1, <1>2, <2>3
    <3>2. s[i].at \in Nat /\ s[a].at \in Nat /\ s[a].len \in Nat
      BY <3>1, ChunkFields
    <3>3. a < i => s[a].at + s[a].len <= s[i].at
      BY <3>1 DEF Laid
    <3>4. a = i \/ a < i
      BY <1>1, <2>3
    <3>5. cmd.from[2] \in Nat
      BY <1>6 DEF Walks
    <3> DEFINE first == s[a].at
               size == s[a].len
               at == s[i].at
               from == cmd.from[2]
    <3>6. /\ first \in Nat /\ size \in Nat /\ at \in Nat /\ from \in Nat
          /\ first = at \/ first + size <= at
      BY <3>2, <3>3, <3>4, <3>5
    <3> HIDE DEF first, size, at, from
    <3>7. first >= from => at >= from
      BY <3>6
    <3>8. s[a].at >= cmd.from[2] => s[i].at >= cmd.from[2]
      BY <3>7 DEF first, at, from
    <3> QED BY <2>3, <3>8 DEF Selected
  <2>5. Wanted(id) = a .. m
    <3>1. \A i : i \in Wanted(id) <=> i \in 1 .. m /\ Selected(id, i)
      BY <2>1
    <3>2. \A i \in a .. m : i \in 1 .. m
      BY <1>1, <2>3
    <3>3. \A i \in 1 .. m : a <= i => i \in a .. m
      BY <1>1, <2>3
    <3> QED BY <2>2, <2>4, <3>1, <3>2, <3>3
  <2>6. a \in 1 .. (m + 1)
    BY <1>3, <2>3
  <2> QED BY <1>2, <1>6, <2>5, <2>6
<1> QED BY <1>4, <1>5, <1>6

\* There is still something to print, or no limit.
Unlimited == Limited => cmd.limit \in Nat /\ (out = <<>> \/ Len(out) < cmd.limit)

\* How many more records may be printed before the limit is looked at.
Room == IF cmd.limit > Len(out) + 1 THEN cmd.limit - Len(out) ELSE 1

\* A segment's records are printed from the first that is wanted, as far as
\* the limit allows.
LEMMA PrintedIs ==
  ASSUME NEW id \in Nat, files[id] \in Seq(Chunk), Laid(files[id]), Walks, Len(out) \in Nat,
         Unlimited
  PROVE  \E m \in 0 .. Len(files[id]) : \E a \in 1 .. (m + 1) : \E r \in 0 .. (m + 1 - a) :
            /\ Replayed(files[id]) = 1 .. m
            /\ Wanted(id) = a .. m
            /\ cmd.name = "verify" => a = 1
            /\ Printed(id) = [n \in 1 .. r |-> <<id, a + n - 1>>]
            /\ r = m + 1 - a \/ (Limited /\ r = Room)
            /\ Limited => r <= Room
<1>1. PICK m \in 0 .. Len(files[id]) : \E a \in 1 .. (m + 1) :
         /\ Replayed(files[id]) = 1 .. m
         /\ Wanted(id) = a .. m
         /\ cmd.name = "verify" => a = 1
  BY WantedIs
<1>2. PICK a \in 1 .. (m + 1) : /\ Replayed(files[id]) = 1 .. m
                                /\ Wanted(id) = a .. m
                                /\ cmd.name = "verify" => a = 1
  BY <1>1
<1>3. m \in Nat /\ a \in Nat /\ 1 <= a /\ a <= m + 1
  <2>1. Len(files[id]) \in Nat
    OBVIOUS
  <2>2. m \in Nat
    BY <2>1
  <2> QED BY <2>2
<1> DEFINE k == m + 1 - a
<1>4. Cardinality(Wanted(id)) = k /\ k \in Nat
  <2>1. Cardinality(a .. m) = IF a > m THEN 0 ELSE m - a + 1
    BY <1>3, FS_Interval
  <2> QED BY <1>2, <1>3, <2>1
<1>5. ASSUME Limited
      PROVE  Max({1, cmd.limit - Len(out)}) = Room /\ Room \in Nat
  <2>1. cmd.limit \in Nat /\ (out = <<>> \/ Len(out) < cmd.limit)
    BY <1>5 DEF Unlimited
  <2>2. Len(out) <= cmd.limit
    BY <2>1
  <2> DEFINE d == cmd.limit - Len(out)
  <2>3. d \in Nat /\ Room = IF d > 1 THEN d ELSE 1
    BY <2>1, <2>2 DEF Room
  <2> HIDE DEF d
  <2>4. /\ {1, d} \in SUBSET Nat /\ Room \in {1, d} /\ \A y \in {1, d} : y <= Room
    BY <2>3
  <2>5. Max({1, d}) = Room
    BY <2>4, MaxIs
  <2> QED BY <2>4, <2>5 DEF d
<1> DEFINE room == IF Limited THEN Room ELSE k
           r == Min({room, k})
<1>6. room \in Nat
  BY <1>4, <1>5
<1>7. Printed(id) = [n \in 1 .. r |-> <<id, Nth(Wanted(id), n)>>]
  <2> DEFINE allowed == IF Limited THEN Max({1, cmd.limit - Len(out)})
                        ELSE Cardinality(Wanted(id))
  <2>1. Printed(id) = [n \in 1 .. Min({allowed, Cardinality(Wanted(id))}) |->
                          <<id, Nth(Wanted(id), n)>>]
    BY Zenon DEF Printed, Wanted
  <2>2. allowed = room
    BY <1>4, <1>5
  <2> HIDE DEF allowed, room
  <2> QED BY <1>4, <2>1, <2>2
<1> HIDE DEF k, room
<1>8. r \in {room, k} /\ r <= room /\ r <= k /\ r \in Nat
  <2>1. {room, k} \in SUBSET Nat /\ {room, k} # {}
    BY <1>4, <1>6
  <2>2. r \in {room, k} /\ \A y \in {room, k} : r <= y
    BY <2>1, MinIs
  <2> QED BY <1>4, <1>6, <2>2
<1> HIDE DEF r
<1>9. ASSUME NEW n \in 1 .. r PROVE Nth(Wanted(id), n) = a + n - 1
  <2>1. n \in Nat /\ 1 <= n /\ a + n - 1 <= m
    BY <1>3, <1>8 DEF k
  <2>2. Nth(a .. m, n) = a + n - 1
    BY <1>3, <2>1, NthIs
  <2> QED BY <1>2, <2>2
<1>10. Printed(id) = [n \in 1 .. r |-> <<id, a + n - 1>>]
  BY <1>7, <1>9
<1>11. r \in 0 .. (m + 1 - a)
  BY <1>3, <1>8 DEF k
<1>12. r = m + 1 - a \/ (Limited /\ r = Room)
  BY <1>8 DEF room, k
<1>13. Limited => r <= Room
  BY <1>8 DEF room
<1> QED BY <1>2, <1>10, <1>11, <1>12, <1>13

\* verify counts the frames of a segment one by one.
LEMMA VerifyPrints ==
  ASSUME cmd.name = "verify", NEW id \in Nat, files[id] \in Seq(Chunk), Laid(files[id]),
         Len(out) \in Nat
  PROVE  /\ Printed(id) \in Seq(Nat \X Nat)
         /\ AllWhole(files[id], Len(files[id]))
              => /\ Len(Printed(id)) = Len(files[id])
                 /\ \A i \in 1 .. Len(files[id]) : Printed(id)[i] = <<id, i>>
<1> DEFINE s == files[id]
<1>1. ~Limited /\ Unlimited /\ Walks
  BY DEF Limited, Unlimited, Walks
<1>2. PICK m \in 0 .. Len(s) :
            Replayed(s) = 1 .. m /\ Printed(id) = [n \in 1 .. m |-> <<id, n>>]
  <2>1. PICK m \in 0 .. Len(s) : \E a \in 1 .. (m + 1) : \E r \in 0 .. (m + 1 - a) :
              /\ Replayed(s) = 1 .. m
              /\ cmd.name = "verify" => a = 1
              /\ Printed(id) = [n \in 1 .. r |-> <<id, a + n - 1>>]
              /\ r = m + 1 - a \/ (Limited /\ r = Room)
    BY <1>1, PrintedIs
  <2>2. PICK r \in 0 .. m :
              /\ Replayed(s) = 1 .. m
              /\ Printed(id) = [n \in 1 .. r |-> <<id, 1 + n - 1>>]
              /\ r = m + 1 - 1
    BY <1>1, <2>1
  <2>3. r = m /\ \A n \in 1 .. r : 1 + n - 1 = n
    BY <2>2
  <2> QED BY <2>2, <2>3
<1>4. Len(s) \in Nat /\ m \in Nat
  OBVIOUS
<1>6. Printed(id) = [n \in 1 .. m |-> <<id, n>>]
  BY <1>2
<1>7. Printed(id) \in Seq(Nat \X Nat) /\ Len(Printed(id)) = m
  BY <1>4, <1>6
<1>8. AllWhole(s, Len(s)) => m = Len(s)
  <2>1. SUFFICES ASSUME AllWhole(s, Len(s)) PROVE m = Len(s)
    OBVIOUS
  <2>2. 1 .. m = 1 .. Len(s)
    BY <1>2, <2>1, SeenWhole
  <2> QED BY <1>4, <2>2
<1> QED BY <1>6, <1>7, <1>8

LEMMA WalkSees ==
  ASSUME ShapeInv, WalkInv, Walk, stage' = "walking"
  PROVE  WalkInv'
<1> DEFINE id == Min(left)
           s == files[id]
<1>1. /\ stage = "walking" /\ id \in left /\ \A y \in left : id <= y
      /\ left \subseteq ListSegmentIds(files)
      /\ s \in Seq(Chunk) /\ Laid(s)
  BY WalkRound
<1>2. /\ out' = out \o Printed(id) /\ left' = left \ {id}
      /\ tail' = (tail \/ LogicalEnd(s) # FileSize(s))
      /\ UNCHANGED <<files, cmd, disturbed>>
  BY DEF Walk, Exit, kvars, vars, disk
<1> HIDE DEF id
<1>3. /\ ListSegmentIds(files)' = ListSegmentIds(files)
      /\ ListSegmentIds(files) \subseteq Nat
  BY <1>2 DEF ListSegmentIds, ShapeInv, TypeOK, Ids
<1> DEFINE ids == ListSegmentIds(files)
<1> HIDE DEF ids
<1>4. left' \subseteq ids /\ ids \ left' = (ids \ left) \cup {id}
  BY <1>1, <1>2 DEF ids
<1>5. \A x \in left', below \in ids \ left' : below < x
  <2>1. \A x \in left, below \in ids \ left : below < x
    BY <1>1 DEF WalkInv, ids
  <2>2. \A x \in left' : id < x
    BY <1>1, <1>2, <1>3
  <2> QED BY <1>2, <1>4, <2>1, <2>2
<1>6. ASSUME cmd.name = "verify"
      PROVE  /\ out' \in Seq(Nat \X Nat)
             /\ ~disturbed =>
                   (tail' <=> \E x \in ids \ left' : LogicalEnd(files[x]) # FileSize(files[x]))
             /\ ~tail' =>
                   \A x \in ids \ left' : \A i \in 1 .. Len(files[x]) :
                       \E n \in DOMAIN out' : out'[n] = <<x, i>>
  <2>1. /\ out \in Seq(Nat \X Nat)
        /\ ~disturbed =>
              (tail <=> \E x \in ids \ left : LogicalEnd(files[x]) # FileSize(files[x]))
        /\ ~tail =>
              \A x \in ids \ left : \A i \in 1 .. Len(files[x]) :
                  \E n \in DOMAIN out : out[n] = <<x, i>>
    BY <1>1, <1>6 DEF WalkInv, ids
  <2>2. /\ Printed(id) \in Seq(Nat \X Nat)
        /\ AllWhole(s, Len(s)) => /\ Len(Printed(id)) = Len(s)
                                  /\ \A i \in 1 .. Len(s) : Printed(id)[i] = <<id, i>>
    <3>1. id \in Nat /\ Len(out) \in Nat
      BY <1>1, <1>3, <2>1
    <3> QED BY <1>1, <1>6, <3>1, VerifyPrints
  <2> DEFINE more == Printed(id)
  <2> HIDE DEF more
  <2>3. /\ out' \in Seq(Nat \X Nat)
        /\ \A n \in DOMAIN out : n \in DOMAIN out' /\ out'[n] = out[n]
        /\ \A i \in 1 .. Len(more) : Len(out) + i \in DOMAIN out' /\ out'[Len(out) + i] = more[i]
    <3>1. out \in Seq(Nat \X Nat) /\ more \in Seq(Nat \X Nat) /\ out' = out \o more
      BY <1>2, <2>1, <2>2 DEF more
    <3>2. out' \in Seq(Nat \X Nat) /\ Len(out') = Len(out) + Len(more)
      BY <3>1
    <3>3. DOMAIN out = 1 .. Len(out) /\ DOMAIN out' = 1 .. Len(out')
      BY <3>1, <3>2
    <3>4. Len(out) \in Nat /\ Len(more) \in Nat
      BY <3>1
    <3>5. \A n \in 1 .. Len(out) : (out \o more)[n] = out[n]
      BY <3>1
    <3>6. \A i \in 1 .. Len(more) : (out \o more)[Len(out) + i] = more[i]
      BY <3>1
    <3> QED BY <3>1, <3>2, <3>3, <3>4, <3>5, <3>6
  <2>5. ~disturbed =>
          (tail' <=> \E x \in ids \ left' : LogicalEnd(files[x]) # FileSize(files[x]))
    BY <1>2, <1>4, <2>1
  <2>6. ASSUME ~tail', NEW x \in ids \ left', NEW i \in 1 .. Len(files[x])
        PROVE  \E n \in DOMAIN out' : out'[n] = <<x, i>>
    <3>1. ~tail /\ LogicalEnd(s) = FileSize(s)
      BY <1>2, <2>6
    <3>2. CASE x \in ids \ left
      <4>1. PICK n \in DOMAIN out : out[n] = <<x, i>>
        BY <2>1, <2>6, <3>1, <3>2
      <4> QED BY <2>3, <4>1
    <3>3. CASE x = id
      <4>1. Len(more) = Len(s) /\ \A j \in 1 .. Len(s) : more[j] = <<id, j>>
        BY <1>1, <2>2, <3>1, SeenWhole DEF more
      <4>2. i \in 1 .. Len(more) /\ more[i] = <<x, i>>
        BY <2>6, <3>3, <4>1
      <4> QED BY <2>3, <4>2
    <3> QED BY <1>4, <2>6, <3>2, <3>3
  <2> QED BY <2>3, <2>5, <2>6
<1> QED BY <1>2, <1>3, <1>4, <1>5, <1>6 DEF WalkInv, ids

LEMMA WalkStep ==
  ASSUME ShapeInv, StageInv, WalkInv, [CliNext]_clivars
  PROVE  WalkInv'
<1>1. CASE Open
  <2> SUFFICES ASSUME stage' = "walking" PROVE WalkInv'
    BY DEF WalkInv
  <2>1. /\ cmd \in Command /\ cmd' = cmd /\ out' = <<>> /\ ~tail'
        /\ files' = files
    BY <1>1, OpenFacts DEF Open, StageInv
  <2>2. left' = IF cmd.name = "report" THEN {} ELSE ListSegmentIds(files)
    BY <1>1, <2>1, CommandIs DEF Open
  <2>3. out' \in Seq(Nat \X Nat)
    BY <2>1
  <2> QED BY <2>1, <2>2, <2>3 DEF WalkInv
<1>2. CASE Walk
  BY <1>2, WalkSees DEF WalkInv
<1>3. CASE Decay
  <2> SUFFICES ASSUME stage = "walking" PROVE WalkInv'
    BY <1>3 DEF Decay, WalkInv
  <2>1. disturbed' /\ UNCHANGED <<cmd, stage, left, out, tail>>
    BY <1>3 DEF Decay, Holding
  <2>2. \E id \in DOMAIN files : \E i \in 1 .. Len(files[id]) : Decayed(id, i)
    BY <1>3 DEF Decay, Decayed
  <2>3. /\ DOMAIN files' = DOMAIN files
        /\ \A jd \in DOMAIN files : Len(files'[jd]) = Len(files[jd])
    BY <2>2, DecayFacts
  <2>4. /\ ListSegmentIds(files)' = ListSegmentIds(files)
        /\ \A jd \in ListSegmentIds(files) : Len(files'[jd]) = Len(files[jd])
    BY <2>3 DEF ListSegmentIds
  <2> QED BY <2>1, <2>4 DEF WalkInv
<1>4. CASE Foreign \/ Writer \/ ReadKey \/ ReadEnd \/ UNCHANGED clivars
  <2>1. \/ stage' # "walking"
        \/ UNCHANGED <<files, cmd, stage, left, out, tail, disturbed>>
    BY <1>4 DEF Foreign, Writer, ReadKey, ReadEnd, Exit, clivars, cli, kvars, vars, disk
  <2> QED BY <2>1 DEF WalkInv
<1>5. CASE stage' # "walking"
  BY <1>5 DEF WalkInv
<1> QED
  BY <1>1, <1>2, <1>3, <1>4, <1>5 DEF CliNext, Start, Locked, Create, OpenError,
     WalkError, WalkEnd, ReadKeyFails, ReadKeyError, Export, ExportError, CheckTarget, CompactTo,
     NextCommand, Killed, Exit, ExitEarly, Reset

\* The invariant of the commands.
LEMMA CliInvariant == CliSpec => [](ShapeInv /\ CliInv)
<1>1. CliInit => CliInv
  BY StageInit DEF CliInit, CliInv, HealthInv, WalkInv, AnswersInv
<1>2. ASSUME ShapeInv, CliInv, [CliNext]_clivars PROVE CliInv'
  BY <1>2, StageStep, HealthStep, WalkStep, AnswersStep DEF CliInv
<1> QED BY <1>1, <1>2, CliShape, PTL DEF CliSpec

------------------------------------------------------------------------------
(* The ends of commands *)

\* A command that is done stays as it is, until the next one.
LEMMA DoneStays ==
  ASSUME stage = "done", [CliNext]_clivars
  PROVE  NextCommand \/ UNCHANGED clivars
BY DEF CliNext, Start, Locked, Create, Open, OpenError, Walk, WalkError, WalkEnd, ReadKey,
   ReadKeyFails, ReadKeyError, ReadEnd, Export, ExportError, CheckTarget, CompactTo, Writer, Killed,
   Decay, Foreign, Holding

\* What export and check have read is all that was live.
LEMMA RowsComplete ==
  ASSUME AnswersInv, stage \in {"reading", "writing"}, DOMAIN rows = DOMAIN snap
  PROVE  rows = snap
<1>1. rows = [k \in DOMAIN rows |-> snap[k]] /\ snap \in [DOMAIN snap -> Values]
  BY DEF AnswersInv
<1> QED BY <1>1

(***************************************************************************)
(* export puts its file at the path in one step and complete, also when    *)
(* the process or the system dies meanwhile.                               *)
(***************************************************************************)
THEOREM ExportIsAtomic == CliSpec => ExportAllOrNothing
<1>1. ASSUME ShapeInv, CliInv, [CliNext]_clivars, Holding, cmd.name = "export", artefact' # artefact
      PROVE  artefact' \in {Other, snap}
  <2>1. stage = "writing" => rows = snap
    BY <1>1, RowsComplete DEF CliInv, AnswersInv
  <2>2. CASE Export \/ ExportError \/ Killed
    BY <1>1, <2>1, <2>2 DEF Export, ExportError, Killed, CliInv, StageInv
  <2>3. CASE Foreign
    BY <2>3 DEF Foreign
  <2>4. ~CompactTo
    BY <1>1 DEF CompactTo, CliInv, StageInv
  <2>5. ~(NextCommand \/ Writer)
    BY <1>1 DEF NextCommand, Writer, Holding
  <2> QED
    BY <1>1, <2>2, <2>3, <2>4, <2>5 DEF CliNext, Start, Locked, Create, Open, OpenError, Walk,
       WalkError, WalkEnd, ReadKey, ReadKeyFails, ReadKeyError, ReadEnd, CheckTarget, Decay, clivars,
       cli
<1>2. ASSUME ShapeInv /\ CliInv, [CliNext]_clivars
      PROVE  [(Holding /\ cmd.name = "export" /\ artefact' # artefact)
                => artefact' \in {Other, snap}]_clivars
  BY <1>1, <1>2
<1> QED BY <1>2, CliInvariant, PTL DEF CliSpec, ExportAllOrNothing

(***************************************************************************)
(* export and compact that succeed leave all the values that were live     *)
(* when the store was opened, and nothing else, whatever decays meanwhile; *)
(* but compact's are mixed with, or lost behind, what somebody has put     *)
(* into its target between the emptiness check of compact_to and the open. *)
(***************************************************************************)
THEOREM ArtefactsComplete == CliSpec => []ArtefactComplete
<1>1. CliInit => ArtefactComplete
  BY DEF CliInit, ArtefactComplete, Done
<1>2. ASSUME ShapeInv, CliInv, ArtefactComplete, [CliNext]_clivars
      PROVE  ArtefactComplete'
  <2> SUFFICES ASSUME stage' = "done", cmd'.name \in {"export", "compact"}, exit' = 0
               PROVE  artefact' = snap' \/ (cmd'.name = "compact" /\ artefact' = Mixed)
    BY DEF ArtefactComplete, Done
  <2>1. CASE stage = "done"
    <3>1. UNCHANGED clivars
      BY <1>2, <2>1, DoneStays DEF NextCommand, Reset
    <3> QED BY <1>2, <2>1, <3>1 DEF ArtefactComplete, Done, clivars, cli
  <2>2. CASE Export
    <3>1. rows = snap
      BY <1>2, <2>2, RowsComplete DEF CliInv, AnswersInv, Export
    <3> QED BY <2>2, <3>1 DEF Export
  <2>3. CASE CompactTo
    <3>1. /\ stage = "copying" /\ snap' = snap /\ cmd' = cmd
          /\ \A k \in DOMAIN map : Get(k) # Failed
          /\ artefact' = [k \in DOMAIN map |-> Get(k)] \/ artefact' = Mixed
      BY <2>3 DEF CompactTo, Exit
    <3>2. /\ DOMAIN map = DOMAIN snap /\ snap \in [DOMAIN snap -> Values]
          /\ \A k \in DOMAIN map : Get(k) \in {Failed, snap[k]}
      BY <1>2, <3>1 DEF CliInv, AnswersInv
    <3>3. cmd.name = "compact"
      BY <1>2, <3>1 DEF CliInv, StageInv
    <3> QED BY <3>1, <3>2, <3>3
  <2>4. ~(Walk \/ WalkError \/ WalkEnd)
    BY <1>2 DEF CliInv, StageInv, Walk, WalkError, WalkEnd
  <2>5. ~(ReadKey \/ ReadKeyFails \/ ReadKeyError \/ ReadEnd)
    BY <1>2 DEF CliInv, StageInv, ReadKey, ReadKeyFails, ReadKeyError, ReadEnd, Exit
  <2> QED
    BY <1>2, <2>1, <2>2, <2>3, <2>4, <2>5 DEF CliNext, Start, Locked, Create, Open, OpenError,
       ExportError, CheckTarget, NextCommand, Writer, Killed, Decay, Foreign, clivars, cli, Exit,
       ExitEarly, Reset, Holding
<1> QED BY <1>1, <1>2, CliInvariant, PTL DEF CliSpec

(***************************************************************************)
(* get prints the live value or says that there is none, and check has     *)
(* read every live key: neither takes damaged or stale bytes for a value,  *)
(* nor an error for a key that is not there.                               *)
(***************************************************************************)
THEOREM AnswersStayLive == CliSpec => []AnswersAreLive
<1>1. CliInit => AnswersAreLive
  BY DEF CliInit, AnswersAreLive, Done
<1>2. ASSUME ShapeInv, CliInv, AnswersAreLive, [CliNext]_clivars
      PROVE  AnswersAreLive'
  <2> SUFFICES ASSUME stage' = "done", cmd'.name \in {"get", "check"}, exit' \in {0, 2}
               PROVE  AnswersAreLive'
    BY DEF AnswersAreLive, Done
  <2>1. CASE stage = "done"
    <3>1. UNCHANGED clivars
      BY <1>2, <2>1, DoneStays DEF NextCommand, Reset
    <3> QED BY <1>2, <2>1, <3>1 DEF AnswersAreLive, Done, clivars, cli
  <2>2. CASE ReadEnd
    <3>1. /\ stage = "reading" /\ left = {} /\ UNCHANGED <<cmd, rows, snap>>
          /\ exit' = IF cmd.name = "check" /\ report.tail_truncated > 0 THEN 2 ELSE 0
      BY <2>2 DEF ReadEnd, Exit
    <3>2. /\ DOMAIN rows = IF cmd.name = "get" THEN {cmd.key} ELSE DOMAIN snap
          /\ DOMAIN rows \subseteq DOMAIN snap
          /\ rows = [k \in DOMAIN rows |-> snap[k]]
      BY <1>2, <3>1 DEF CliInv, AnswersInv
    <3>3. CASE cmd.name = "get"
      <4>1. exit' = 0
        BY <3>1, <3>3
      <4>2. cmd.key \in DOMAIN snap /\ rows[cmd.key] = snap[cmd.key]
        BY <3>2, <3>3
      <4> QED BY <3>1, <3>3, <4>1, <4>2 DEF AnswersAreLive, Done
    <3>4. CASE cmd.name = "check"
      <4>1. rows = snap
        BY <1>2, <3>1, <3>2, <3>4, RowsComplete DEF CliInv
      <4> QED BY <3>1, <3>4, <4>1 DEF AnswersAreLive, Done
    <3> QED BY <3>1, <3>3, <3>4
  <2>3. CASE ReadKeyFails
    <3>1. /\ stage = "reading" /\ left # {} /\ UNCHANGED <<cmd, rows, snap>>
          /\ cmd.name = "get" /\ Get(Min(left)) = None /\ exit' = 2
      BY <2>3 DEF ReadKeyFails, Exit
    <3>2. /\ left \subseteq Keys /\ left \subseteq {cmd.key}
          /\ DOMAIN map = DOMAIN snap /\ snap \in [DOMAIN snap -> Values]
          /\ \A k \in DOMAIN map : Get(k) \in {Failed, snap[k]}
      BY <1>2, <3>1 DEF CliInv, AnswersInv
    <3>3. Min(left) \in left
      BY <3>1, <3>2, MinIs, KeydirAssumption
    <3>4. Get(cmd.key) = None
      BY <3>1, <3>2, <3>3
    <3>5. None # Failed /\ None \notin Values
      BY CliAssumption DEF None, Failed
    <3>6. cmd.key \notin DOMAIN snap
      BY <3>2, <3>4, <3>5
    <3> QED BY <3>1, <3>6 DEF AnswersAreLive, Done
  <2>4. ~(Walk \/ WalkError \/ WalkEnd \/ Export \/ ExportError \/ CheckTarget \/ CompactTo)
    BY <1>2 DEF CliInv, StageInv, Walk, WalkError, WalkEnd, Export, ExportError, CheckTarget,
       CompactTo
  <2> QED
    BY <1>2, <2>1, <2>2, <2>3, <2>4 DEF CliNext, Start, Locked, Create, Open, OpenError, ReadKey,
       ReadKeyError, NextCommand, Writer, Killed, Decay, Foreign, clivars, cli, Exit, ExitEarly,
       Reset, Holding
<1> QED BY <1>1, <1>2, CliInvariant, PTL DEF CliSpec

(***************************************************************************)
(* verify ends with 0 only if it has seen every frame of every segment     *)
(* intact, even if frames decay after the log was opened.                  *)
(***************************************************************************)
THEOREM VerifySeesAll == CliSpec => []VerifySawAll
<1>1. CliInit => VerifySawAll
  BY DEF CliInit, VerifySawAll, Done
<1>2. ASSUME ShapeInv, CliInv, VerifySawAll, [CliNext]_clivars
      PROVE  VerifySawAll'
  <2> SUFFICES ASSUME stage' = "done", cmd'.name = "verify", exit' = 0
               PROVE  VerifySawAll'
    BY DEF VerifySawAll, Done
  <2>1. CASE stage = "done"
    <3>1. UNCHANGED clivars
      BY <1>2, <2>1, DoneStays DEF NextCommand, Reset
    <3>2. UNCHANGED <<files, out, stage, cmd, exit>>
      BY <3>1 DEF clivars, cli, kvars, vars, disk
    <3> QED BY <1>2, <2>1, <3>2 DEF VerifySawAll, Done
  <2>2. CASE WalkEnd
    <3>1. /\ stage = "walking" /\ left = {} /\ UNCHANGED <<files, cmd, out>> /\ ~tail
      BY <2>2 DEF WalkEnd, WalkExit, Exit, disk
    <3>2. \A id \in ListSegmentIds(files) : \A i \in 1 .. Len(files[id]) :
             \E n \in DOMAIN out : out[n] = <<id, i>>
      BY <1>2, <3>1 DEF CliInv, WalkInv
    <3> QED BY <3>1, <3>2 DEF VerifySawAll
  <2>3. ~Walk
    BY DEF Walk, Exit, Enough, Limited
  <2>4. ~(\/ ReadKey \/ ReadKeyFails \/ ReadKeyError \/ ReadEnd
          \/ Export \/ ExportError \/ CheckTarget \/ CompactTo)
    BY <1>2 DEF CliInv, StageInv, ReadKey, ReadKeyFails, ReadKeyError, ReadEnd, Export, ExportError,
       CheckTarget, CompactTo
  <2> QED
    BY <1>2, <2>1, <2>2, <2>3, <2>4 DEF CliNext, Start, Locked, Create, Open, OpenError,
       WalkError, NextCommand, Writer, Killed, Decay, Foreign, clivars, cli, Exit, ExitEarly,
       Reset, Holding
<1> QED BY <1>1, <1>2, CliInvariant, PTL DEF CliSpec

------------------------------------------------------------------------------
(* Health *)

(***************************************************************************)
(* Three ways to look at the health of a log that opens: every frame       *)
(* decodes, no segment has a discarded tail, the report shows none.        *)
(***************************************************************************)
LEMMA HealthIs ==
  ASSUME ShapeInv, ScanOk(files), ListSegmentIds(files) # {}
  PROVE  /\ AllIntact <=> \A id \in ListSegmentIds(files) : LogicalEnd(files[id]) = FileSize(files[id])
         /\ AllIntact <=> TailReport(files).tail_truncated = 0
         /\ TailReport(files).tail_truncated \in {0, 1}
<1> DEFINE ids == ListSegmentIds(files)
           last == ActiveSegmentId(files)
<1>1. /\ files \in [DOMAIN files -> Seq(Chunk)] /\ DOMAIN files \in SUBSET Ids
      /\ \A id \in DOMAIN files : Laid(files[id])
  BY DEF ShapeInv, TypeOK
<1>2. last \in ids /\ ids \subseteq DOMAIN files
  BY <1>1, ActiveSegmentFacts DEF ListSegmentIds
<1>3. \A id \in ids : files[id] \in Seq(Chunk) /\ Laid(files[id])
  BY <1>1, <1>2
<1>4. TailReport(files).tail_truncated
        = IF LogicalEnd(files[last]) = FileSize(files[last]) THEN 0 ELSE 1
  BY DEF TailReport
<1>5. \A id \in ids : id # last => ScanSegmentOk(files[id], FALSE)
  BY DEF ScanOk
<1> HIDE DEF ids, last
<1>6. \A id \in ids : LogicalEnd(files[id]) = FileSize(files[id])
                        <=> Replayed(files[id]) = 1 .. Len(files[id])
  BY <1>3, SeenWhole
<1>7. \A id \in ids : id # last => LogicalEnd(files[id]) = FileSize(files[id])
  BY <1>3, <1>5, StrictScan, SeenWhole
<1>8. AllIntact <=> \A id \in ids : Replayed(files[id]) = 1 .. Len(files[id])
  BY DEF AllIntact, ids
<1>9. AllIntact <=> \A id \in ids : LogicalEnd(files[id]) = FileSize(files[id])
  BY <1>6, <1>8
<1>10. AllIntact <=> TailReport(files).tail_truncated = 0
  BY <1>2, <1>4, <1>7, <1>9
<1> QED BY <1>4, <1>9, <1>10 DEF ids

\* In a log that opened and has not decayed, the walk finds no fault.
LEMMA WalkIsOk ==
  ASSUME ShapeInv, HealthInv, WalkInv, Walk, ~disturbed
  PROVE  ScanSegmentOk(files[Min(left)], left = {Min(left)})
<1> DEFINE id == Min(left)
           ids == ListSegmentIds(files)
           last == ActiveSegmentId(files)
<1>1. stage = "walking" /\ id \in left /\ left \subseteq ids
  BY WalkRound
<1>2. ScanOk(files) /\ ids # {}
  BY <1>1 DEF HealthInv
<1>3. DOMAIN files \in SUBSET Ids /\ ids \subseteq Nat
  BY DEF ShapeInv, TypeOK, ListSegmentIds, Ids
<1>4. last \in ids /\ \A x \in ids : x <= last
  BY <1>2, <1>3, ActiveSegmentFacts
<1>5. \A x \in left, below \in ids \ left : below < x
  BY <1>1 DEF WalkInv
<1>6. ScanSegmentOk(files[id], id = last)
  BY <1>1, <1>2 DEF ScanOk
<1>7. \A y \in left : id <= y
  BY WalkRound
<1> HIDE DEF id, ids, last
<1>8. last \in left
  <2> SUFFICES ASSUME last \notin left PROVE FALSE
    OBVIOUS
  <2>1. last < id
    BY <1>1, <1>4, <1>5
  <2> QED BY <1>1, <1>3, <1>4, <2>1
<1>9. left = {id} <=> id = last
  <2>1. ASSUME id = last PROVE left = {id}
    <3>1. \A y \in left : y = id
      BY <1>1, <1>3, <1>4, <1>7, <2>1
    <3> QED BY <1>1, <3>1
  <2> QED BY <1>8, <2>1
<1>10. (left = {id}) = (id = last)
  BY <1>9
<1>11. ScanSegmentOk(files[id], left = {id})
  BY <1>6, <1>10
<1> QED BY <1>11 DEF id

(***************************************************************************)
(* scan, report, verify and check agree on what is no error, over a log    *)
(* that does not change meanwhile: each ends with 0 only if all of it is   *)
(* intact, and with 2 only if a tail was discarded and nothing else is     *)
(* wrong with it.                                                          *)
(***************************************************************************)
THEOREM HealthIsAgreed == CliSpec => []HealthAgrees
<1>1. CliInit => HealthAgrees
  BY DEF CliInit, HealthAgrees, Done
<1>2. ASSUME ShapeInv, CliInv, HealthAgrees, [CliNext]_clivars
      PROVE  HealthAgrees'
  <2> SUFFICES ASSUME stage' = "done", cmd'.name \in {"scan", "report", "verify", "check"},
                      ~disturbed', exit' \in {0, 2}
               PROVE  HealthAgrees'
    BY DEF HealthAgrees, Done
  <2>1. CASE stage = "done"
    <3>1. UNCHANGED clivars
      BY <1>2, <2>1, DoneStays DEF NextCommand, Reset
    <3>2. UNCHANGED <<files, disturbed, stage, cmd, exit>>
      BY <3>1 DEF clivars, cli, kvars, vars, disk
    <3> QED BY <1>2, <2>1, <3>2 DEF HealthAgrees, Done, AllIntact
  <2>2. ASSUME stage \in {"walking", "reading"}, ~disturbed, files' = files,
               \/ exit' = IF report.tail_truncated > 0 THEN 2 ELSE 0
               \/ exit' = IF AllIntact THEN 0 ELSE 2
        PROVE  HealthAgrees'
    <3>1. ScanOk(files) /\ ListSegmentIds(files) # {} /\ report = TailReport(files)
      BY <1>2, <2>2 DEF CliInv, HealthInv
    <3>2. /\ AllIntact <=> report.tail_truncated = 0
          /\ report.tail_truncated \in {0, 1}
      BY <1>2, <3>1, HealthIs
    <3>3. AllIntact <=> ~(report.tail_truncated > 0)
      BY <3>2
    <3>4. exit' = IF AllIntact THEN 0 ELSE 2
      BY <2>2, <3>3
    <3>5. AllIntact' <=> AllIntact
      BY <2>2 DEF AllIntact
    <3> QED BY <2>2, <3>1, <3>4, <3>5 DEF HealthAgrees
  <2>3. CASE WalkEnd
    <3>1. /\ stage = "walking" /\ left = {} /\ UNCHANGED <<files, cmd, disturbed>>
          /\ exit' = WalkExit(tail)
      BY <2>3 DEF WalkEnd, Exit, disk
    <3>2. CASE cmd.name = "verify"
      <4>1. exit' = IF tail THEN 2 ELSE 0
        BY <3>1, <3>2 DEF WalkExit
      <4>2. tail <=> \E id \in ListSegmentIds(files) : LogicalEnd(files[id]) # FileSize(files[id])
        BY <1>2, <3>1, <3>2 DEF CliInv, WalkInv
      <4>3. ScanOk(files) /\ ListSegmentIds(files) # {}
        BY <1>2, <3>1 DEF CliInv, HealthInv
      <4>4. AllIntact <=> ~tail
        BY <1>2, <4>2, <4>3, HealthIs
      <4> QED BY <2>2, <3>1, <4>1, <4>4
    <3>3. CASE cmd.name # "verify"
      <4>1. exit' = IF report.tail_truncated > 0 THEN 2 ELSE 0
        BY <3>1, <3>3 DEF WalkExit
      <4> QED BY <2>2, <3>1, <4>1
    <3> QED BY <3>2, <3>3
  <2>4. CASE Walk
    <3>1. /\ stage = "walking" /\ UNCHANGED <<cmd, disturbed>>
      BY <2>4 DEF Walk
    <3>2. ScanSegmentOk(files[Min(left)], left = {Min(left)})
      BY <1>2, <2>4, <3>1, WalkIsOk DEF CliInv
    <3>3. /\ files' = files /\ Limited /\ exit' = WalkExit(tail')
      BY <2>4, <3>1, <3>2 DEF Walk, Exit, Enough, disk
    <3>4. cmd.name = "scan"
      BY <3>1, <3>3 DEF Limited
    <3>5. exit' = IF report.tail_truncated > 0 THEN 2 ELSE 0
      BY <3>3, <3>4 DEF WalkExit
    <3> QED BY <2>2, <3>1, <3>3, <3>5
  <2>5. CASE ReadEnd
    <3>1. /\ stage = "reading" /\ UNCHANGED <<files, cmd, disturbed>> /\ cmd.name = "check"
          /\ exit' = IF report.tail_truncated > 0 THEN 2 ELSE 0
      BY <1>2, <2>5 DEF ReadEnd, Exit, CliInv, StageInv, disk
    <3> QED BY <2>2, <3>1
  <2>6. CASE ReadKeyFails
    <3>1. /\ stage = "reading" /\ left # {} /\ UNCHANGED <<cmd, disturbed>> /\ cmd.name = "check"
          /\ Get(Min(left)) \in {None, Failed}
      BY <1>2, <2>6 DEF ReadKeyFails, CliInv, StageInv
    <3>2. /\ left \subseteq Keys /\ left \subseteq DOMAIN snap
          /\ DOMAIN map = DOMAIN snap /\ snap \in [DOMAIN snap -> Values]
          /\ \A k \in DOMAIN map : Get(k) = snap[k]
      BY <1>2, <3>1 DEF CliInv, AnswersInv
    <3>3. Min(left) \in left
      BY <3>1, <3>2, MinIs, KeydirAssumption
    <3>4. Get(Min(left)) \in Values
      BY <3>2, <3>3
    <3> QED BY <3>1, <3>4, CliAssumption
  <2>7. ~(Export \/ ExportError \/ CheckTarget \/ CompactTo)
    BY <1>2 DEF CliInv, StageInv, Export, ExportError, CheckTarget, CompactTo
  <2> QED
    BY <1>2, <2>1, <2>3, <2>4, <2>5, <2>6, <2>7 DEF CliNext, Start, Locked, Create, Open,
       OpenError, WalkError, ReadKey, ReadKeyError, NextCommand, Writer, Killed, Decay, Foreign, clivars, cli,
       Exit, ExitEarly, Reset, Holding
<1> QED BY <1>1, <1>2, CliInvariant, PTL DEF CliSpec

------------------------------------------------------------------------------
(* What scan and dump print *)

\* The records printed, without their order.
Items(o) == {o[n] : n \in DOMAIN o}

\* Printed in the order of the log, none twice.
Ordered(o) == \A m, n \in DOMAIN o : m < n => Before(o[m], o[n])

\* The records of the segments D that are selected.
Matching(D) == {p \in UNION {{id} \X Replayed(files[id]) : id \in D} : Selected(p[1], p[2])}

(***************************************************************************)
(* As long as nothing decays, the walk has printed exactly what is         *)
(* selected of the segments behind it, and there is room for more.         *)
(***************************************************************************)
PrintInv ==
    (stage = "walking" /\ ~disturbed /\ cmd.name \in {"scan", "dump"}) =>
        /\ out \in Seq(Nat \X Nat)
        /\ Ordered(out)
        /\ Items(out) = Matching(ListSegmentIds(files) \ left)
        /\ Limited => out = <<>> \/ Len(out) < cmd.limit

LEMMA MatchingIs ==
  ASSUME NEW D
  PROVE  /\ \A p \in Matching(D) : /\ p = <<p[1], p[2]>> /\ p[1] \in D
                                   /\ p[2] \in Replayed(files[p[1]]) /\ Selected(p[1], p[2])
         /\ \A id \in D : \A i \in Replayed(files[id]) : Selected(id, i) => <<id, i>> \in Matching(D)
<1>1. ASSUME NEW p \in Matching(D)
      PROVE  /\ p = <<p[1], p[2]>> /\ p[1] \in D
             /\ p[2] \in Replayed(files[p[1]]) /\ Selected(p[1], p[2])
  <2>1. Selected(p[1], p[2]) /\ \E id \in D : p \in {id} \X Replayed(files[id])
    BY DEF Matching
  <2> QED BY <2>1
<1>2. ASSUME NEW id \in D, NEW i \in Replayed(files[id]), Selected(id, i)
      PROVE  <<id, i>> \in Matching(D)
  <2>1. <<id, i>> \in {id} \X Replayed(files[id])
    OBVIOUS
  <2>2. <<id, i>> \in UNION {{x} \X Replayed(files[x]) : x \in D}
    BY <2>1
  <2>3. <<id, i>>[1] = id /\ <<id, i>>[2] = i
    OBVIOUS
  <2> QED BY <1>2, <2>2, <2>3 DEF Matching
<1> QED BY <1>1, <1>2

\* There are finitely many records.
LEMMA MatchingFinite ==
  ASSUME ShapeInv
  PROVE  IsFiniteSet(Matching(ListSegmentIds(files)))
<1> DEFINE ids == ListSegmentIds(files)
           S == {{id} \X Replayed(files[id]) : id \in ids}
           f == [id \in ids |-> {id} \X Replayed(files[id])]
<1>1. ids \subseteq Nat /\ ids \subseteq DOMAIN files /\ \A id \in ids : id <= MaxListedId
  BY DEF ListSegmentIds, ShapeInv, TypeOK, Ids
<1>2. IsFiniteSet(ids)
  BY <1>1, FS_BoundedSetOfNaturals, SegmentsAssumption
<1>3. \A id \in ids : IsFiniteSet({id} \X Replayed(files[id]))
  <2> TAKE id \in ids
  <2>1. Len(files[id]) \in Nat
    BY <1>1 DEF ShapeInv, TypeOK
  <2>2. IsFiniteSet(1 .. Len(files[id]))
    BY <2>1, FS_Interval
  <2>3. Replayed(files[id]) \in SUBSET (1 .. Len(files[id]))
    BY DEF Replayed
  <2>4. IsFiniteSet(Replayed(files[id])) /\ IsFiniteSet({id})
    BY <2>2, <2>3, FS_Subset, FS_Singleton
  <2> QED BY <2>4, FS_Product
<1> HIDE DEF ids
<1>4. f \in Surjection(ids, S)
  BY Fun_IsSurj
<1>5. IsFiniteSet(S)
  BY <1>2, <1>4, FS_Surjection
<1>6. IsFiniteSet(UNION S)
  BY <1>3, <1>5, FS_UNION
<1>7. Matching(ids) \in SUBSET (UNION S)
  BY DEF Matching
<1> QED BY <1>6, <1>7, FS_Subset DEF ids

\* Nothing is printed twice.
LEMMA ItemsCount ==
  ASSUME NEW o \in Seq(Nat \X Nat), Ordered(o)
  PROVE  Cardinality(Items(o)) = Len(o)
<1>1. Len(o) \in Nat /\ DOMAIN o = 1 .. Len(o) /\ o \in [1 .. Len(o) -> Nat \X Nat]
  OBVIOUS
<1>2. o \in [1 .. Len(o) -> Items(o)]
  BY <1>1 DEF Items
<1>3. \A m, n \in 1 .. Len(o) : o[m] = o[n] => m = n
  <2> SUFFICES ASSUME NEW m \in 1 .. Len(o), NEW n \in 1 .. Len(o), m < n PROVE o[m] # o[n]
    BY <1>1
  <2>1. Before(o[m], o[n])
    BY <1>1 DEF Ordered
  <2>2. o[m] \in Nat \X Nat /\ o[n] \in Nat \X Nat
    BY <1>1
  <2>3. \A x \in Nat, y \in Nat : ~Before(<<x, y>>, <<x, y>>)
    BY DEF Before
  <2>4. \A p \in Nat \X Nat : ~Before(p, p)
    BY <2>3
  <2> QED BY <2>1, <2>2, <2>4
<1>4. \A t \in Items(o) : \E n \in 1 .. Len(o) : o[n] = t
  BY <1>1 DEF Items
<1>5. o \in Bijection(1 .. Len(o), Items(o))
  BY <1>2, <1>3, <1>4, Fun_IsBij
<1> QED BY <1>1, <1>5, FS_CountingElements DEF ExistsBijection

\* r records of segment id, from the a-th on.
Lines(id, a, r) == [n \in 1 .. r |-> <<id, a + n - 1>>]
LineSet(id, a, r) == {<<id, i>> : i \in a .. (a + r - 1)}

\* t continues o, which comes in order from earlier segments, with segment id.
Continues(t, o, id, a, r) ==
    /\ o \in Seq(Nat \X Nat) /\ Ordered(o) /\ \A p \in Items(o) : p[1] < id
    /\ id \in Nat /\ a \in Nat /\ 1 <= a /\ r \in Nat
    /\ t = o \o Lines(id, a, r)

\* The next records of a later segment go to the end.
LEMMA PrintsMore ==
  ASSUME NEW t, NEW o, NEW id, NEW a, NEW r, Continues(t, o, id, a, r)
  PROVE  /\ t \in Seq(Nat \X Nat) /\ Len(t) = Len(o) + r
         /\ Ordered(t)
         /\ Items(t) = Items(o) \cup LineSet(id, a, r)
<1> DEFINE e == Lines(id, a, r)
           l == Len(o)
<1> USE DEF Continues
<1>0. o \in Seq(Nat \X Nat) /\ Ordered(o) /\ \A p \in Items(o) : p[1] < id
  OBVIOUS
<1>1. l \in Nat /\ DOMAIN o = 1 .. l /\ o \in [1 .. l -> Nat \X Nat]
  BY <1>0
<1>2. e \in Seq(Nat \X Nat) /\ Len(e) = r
  <2>1. \A n \in 1 .. r : a + n - 1 \in Nat
    OBVIOUS
  <2>2. e \in [1 .. r -> Nat \X Nat]
    BY <2>1 DEF Lines
  <2> QED BY <2>2
<1>3. \A n \in 1 .. r : e[n] = <<id, a + n - 1>>
  BY DEF Lines
<1>4. t = o \o e
  OBVIOUS
<1> HIDE DEF e
<1>5. /\ t \in Seq(Nat \X Nat) /\ Len(t) = l + r
      /\ \A n \in 1 .. l : t[n] = o[n]
      /\ \A n \in 1 .. r : t[l + n] = e[n]
  <2> DEFINE P == Nat \X Nat
  <2>1. o \in Seq(P) /\ e \in Seq(P)
    BY <1>0, <1>2
  <2> HIDE DEF P
  <2>2. /\ o \o e \in Seq(P) /\ Len(o \o e) = Len(o) + Len(e)
        /\ \A n \in 1 .. Len(o) : (o \o e)[n] = o[n]
        /\ \A n \in 1 .. Len(e) : (o \o e)[Len(o) + n] = e[n]
    BY <2>1
  <2> HIDE DEF l
  <2> QED BY <1>2, <1>4, <2>2, Zenon DEF P, l
<1>6. \A n \in 1 .. l : t[n] = o[n]
  BY <1>5
<1>7. \A n \in 1 .. r : t[l + n] = <<id, a + n - 1>>
  BY <1>3, <1>5
<1> HIDE DEF l
<1>8. DOMAIN t = 1 .. (l + r)
  BY <1>5
<1>9. ASSUME NEW n \in 1 .. (l + r)
      PROVE  n \in 1 .. l \/ \E k \in 1 .. r : n = l + k
  <2>1. n \in 1 .. l \/ (n - l \in 1 .. r /\ n = l + (n - l))
    BY <1>1
  <2> QED BY <2>1
<1>10. \A n \in 1 .. l : n \in 1 .. (l + r)
  BY <1>1
<1>11. \A n \in 1 .. r : l + n \in 1 .. (l + r)
  BY <1>1
<1>12. Ordered(t)
  <2> SUFFICES ASSUME NEW m \in 1 .. (l + r), NEW n \in 1 .. (l + r), m < n
               PROVE  Before(t[m], t[n])
    BY <1>8 DEF Ordered
  <2>1. CASE n \in 1 .. l
    <3>1. m \in 1 .. l
      BY <1>1, <2>1
    <3> QED BY <1>0, <1>1, <1>6, <2>1, <3>1 DEF Ordered
  <2>2. ASSUME m \in 1 .. l, NEW k \in 1 .. r, n = l + k PROVE Before(t[m], t[n])
    <3>1. t[m] \in Items(o)
      BY <1>1, <1>6, <2>2 DEF Items
    <3>2. t[n] = <<id, a + k - 1>>
      BY <1>7, <2>2
    <3>3. t[m][1] < id
      BY <1>0, <3>1
    <3>4. t[n][1] = id
      BY <3>2
    <3> QED BY <3>3, <3>4 DEF Before
  <2>3. ASSUME NEW j \in 1 .. r, m = l + j, NEW k \in 1 .. r, n = l + k PROVE Before(t[m], t[n])
    <3> DEFINE x == a + j - 1
               y == a + k - 1
    <3>1. t[m] = <<id, x>> /\ t[n] = <<id, y>>
      BY <1>7, <2>3
    <3>2. x < y
      BY <1>1, <2>3
    <3> HIDE DEF x, y
    <3> QED BY <3>1, <3>2 DEF Before
  <2> QED BY <1>9, <2>1, <2>2, <2>3
<1>13. ASSUME NEW p \in Items(t)
       PROVE  p \in Items(o) \cup {<<id, i>> : i \in a .. (a + r - 1)}
  <2>1. PICK n \in 1 .. (l + r) : p = t[n]
    BY <1>8 DEF Items
  <2>2. CASE n \in 1 .. l
    BY <1>1, <1>6, <2>1, <2>2 DEF Items
  <2>3. ASSUME NEW k \in 1 .. r, n = l + k
        PROVE  p \in {<<id, i>> : i \in a .. (a + r - 1)}
    <3>1. p = <<id, a + k - 1>>
      BY <1>7, <2>1, <2>3
    <3>2. a + k - 1 \in a .. (a + r - 1)
      OBVIOUS
    <3> QED BY <3>1, <3>2
  <2> QED BY <1>9, <2>2, <2>3
<1>14. ASSUME NEW p \in Items(o) PROVE p \in Items(t)
  <2>1. PICK n \in 1 .. l : p = o[n]
    BY <1>1 DEF Items
  <2> QED BY <1>6, <1>8, <1>10, <2>1 DEF Items
<1>15. ASSUME NEW i \in a .. (a + r - 1) PROVE <<id, i>> \in Items(t)
  <2> DEFINE n == i - a + 1
  <2>1. n \in 1 .. r /\ a + n - 1 = i
    OBVIOUS
  <2> HIDE DEF n
  <2>2. t[l + n] = <<id, i>> /\ l + n \in DOMAIN t
    BY <1>7, <1>8, <1>11, <2>1
  <2> QED BY <2>2 DEF Items
<1>16. Items(t) = Items(o) \cup LineSet(id, a, r)
  BY <1>13, <1>14, <1>15 DEF LineSet
<1> QED BY <1>5, <1>12, <1>16 DEF l

\* What a walk that is under way can rely on.
LEMMA PrintArguments ==
  ASSUME StageInv, PrintInv, stage = "walking", ~disturbed, cmd.name \in {"scan", "dump"}
  PROVE  /\ Walks /\ cmd.name # "verify" /\ Unlimited
         /\ cmd.limit = NoLimit \/ cmd.limit \in Nat
         /\ Limited <=> cmd.limit # NoLimit
<1>1. cmd \in Command
  BY DEF StageInv, NoCmd
<1>2. cmd.limit \in Limits /\ cmd.from \in Nat \X Nat
  BY <1>1, CliAssumption DEF Command
<1>3. cmd.limit = NoLimit \/ cmd.limit \in Nat
  BY <1>2, CliAssumption
<1>4. Limited <=> cmd.limit # NoLimit
  BY DEF Limited
<1>5. Unlimited
  BY <1>3, <1>4 DEF Unlimited, PrintInv
<1> QED BY <1>2, <1>3, <1>4, <1>5 DEF Walks

\* How many records have been printed when the limit is reached.
AtLimit == IF cmd.limit > 1 THEN cmd.limit ELSE 1

(***************************************************************************)
(* One round of the walk: the segment's selected records are printed, all  *)
(* of them or the first ones until the limit is reached.                   *)
(***************************************************************************)
LEMMA WalkPrints ==
  ASSUME ShapeInv, StageInv, WalkInv, PrintInv, Walk, ~disturbed, cmd.name \in {"scan", "dump"}
  PROVE  LET ids == ListSegmentIds(files)
         IN  /\ out' \in Seq(Nat \X Nat)
             /\ Ordered(out')
             /\ ~Enough(out') => /\ Items(out') = Matching(ids \ (left \ {Min(left)}))
                                 /\ Limited => out' = <<>> \/ Len(out') < cmd.limit
             /\ Enough(out') => /\ Len(out') = AtLimit
                                /\ Items(out') \subseteq Matching(ids)
                                /\ \A p \in Items(out') : \A q \in Matching(ids) :
                                      Before(q, p) => q \in Items(out')
<1> DEFINE id == Min(left)
           ids == ListSegmentIds(files)
           past == ids \ left
<1>1. /\ stage = "walking" /\ id \in left /\ \A y \in left : id <= y
      /\ left \subseteq ids /\ files[id] \in Seq(Chunk) /\ Laid(files[id])
  BY WalkRound
<1>2. ids \subseteq Nat
  BY DEF ListSegmentIds, ShapeInv, TypeOK, Ids
<1>3. \A x \in left, below \in past : below < x
  BY <1>1 DEF WalkInv
<1>4. /\ out \in Seq(Nat \X Nat) /\ Ordered(out) /\ Items(out) = Matching(past)
      /\ Limited => out = <<>> \/ Len(out) < cmd.limit
  BY <1>1 DEF PrintInv
<1>5. /\ Walks /\ cmd.name # "verify" /\ Unlimited
      /\ cmd.limit = NoLimit \/ cmd.limit \in Nat
      /\ Limited <=> cmd.limit # NoLimit
  BY <1>1, PrintArguments
<1>6. out' = out \o Printed(id)
  BY DEF Walk
<1>7. Len(out) \in Nat /\ id \in Nat
  BY <1>1, <1>2, <1>4
<1> HIDE DEF id, ids
<1>8. PICK m \in 0 .. Len(files[id]) : \E a \in 1 .. (m + 1) : \E r \in 0 .. (m + 1 - a) :
            /\ Replayed(files[id]) = 1 .. m
            /\ Wanted(id) = a .. m
            /\ Printed(id) = [n \in 1 .. r |-> <<id, a + n - 1>>]
            /\ r = m + 1 - a \/ (Limited /\ r = Room)
            /\ Limited => r <= Room
  BY <1>1, <1>5, <1>7, PrintedIs
<1>9. PICK a \in 1 .. (m + 1) : \E r \in 0 .. (m + 1 - a) :
            /\ Wanted(id) = a .. m
            /\ Printed(id) = Lines(id, a, r)
            /\ r = m + 1 - a \/ (Limited /\ r = Room)
            /\ Limited => r <= Room
  BY <1>8 DEF Lines
<1>10. PICK r \in 0 .. (m + 1 - a) :
            /\ Wanted(id) = a .. m
            /\ Printed(id) = Lines(id, a, r)
            /\ r = m + 1 - a \/ (Limited /\ r = Room)
            /\ Limited => r <= Room
  BY <1>9
<1>11. m \in Nat /\ a \in Nat /\ 1 <= a /\ r \in Nat /\ r <= m + 1 - a
  <2>1. Len(files[id]) \in Nat
    BY <1>1
  <2>2. m \in Nat
    BY <2>1
  <2> QED BY <2>2
<1> DEFINE new == LineSet(id, a, r)
<1>12. /\ out' \in Seq(Nat \X Nat) /\ Len(out') = Len(out) + r
       /\ Ordered(out') /\ Items(out') = Matching(past) \cup new
  <2>1. \A p \in Items(out) : p[1] < id
    BY <1>1, <1>3, <1>4, MatchingIs
  <2>2. out' = out \o Lines(id, a, r)
    BY <1>6, <1>10
  <2> DEFINE t == out'
  <2>3. Continues(t, out, id, a, r)
    BY <1>4, <1>7, <1>11, <2>1, <2>2 DEF Continues
  <2> HIDE DEF t
  <2>4. /\ t \in Seq(Nat \X Nat) /\ Len(t) = Len(out) + r
        /\ Ordered(t) /\ Items(t) = Items(out) \cup new
    BY <2>3, PrintsMore
  <2> QED BY <1>4, <2>4 DEF t
\* The records of the segment that match.
<1>13. \A i : i \in a .. m <=> i \in Replayed(files[id]) /\ Selected(id, i)
  BY <1>5, <1>10 DEF Wanted
<1>14. \A i \in a .. (a + r - 1) : i \in a .. m
  BY <1>11
<1>15. new \subseteq Matching({id})
  <2> SUFFICES ASSUME NEW i \in a .. (a + r - 1) PROVE <<id, i>> \in Matching({id})
    BY DEF LineSet
  <2> QED BY <1>13, <1>14, MatchingIs
<1>16. ASSUME r = m + 1 - a PROVE Matching({id}) = new
  <2>1. a + r - 1 = m
    BY <1>11, <1>16
  <2>2. ASSUME NEW p \in Matching({id}) PROVE p \in new
    <3>1. p = <<id, p[2]>> /\ p[2] \in Replayed(files[id]) /\ Selected(id, p[2])
      BY MatchingIs
    <3>2. p[2] \in a .. (a + r - 1)
      BY <1>13, <2>1, <3>1
    <3> QED BY <3>1, <3>2 DEF LineSet
  <2> QED BY <1>15, <2>2
<1> HIDE DEF new
<1>17. ASSUME NEW D, NEW E PROVE Matching(D \cup E) = Matching(D) \cup Matching(E)
  BY DEF Matching
\* The limit.
<1>18. ASSUME Limited
       PROVE  /\ Len(out') <= AtLimit
              /\ r = Room => Len(out') >= AtLimit
              /\ AtLimit >= 1 /\ AtLimit >= cmd.limit /\ AtLimit \in Nat
  <2> DEFINE l == Len(out)
             k == cmd.limit
  <2>1. k \in Nat /\ l \in Nat /\ (l = 0 \/ l < k) /\ Len(out') = l + r /\ r <= Room
    BY <1>4, <1>5, <1>7, <1>10, <1>12, <1>18
  <2>2. Room = IF k > l + 1 THEN k - l ELSE 1
    BY DEF Room
  <2>3. AtLimit = IF k > 1 THEN k ELSE 1
    BY DEF AtLimit
  <2> HIDE DEF l, k
  <2>4. l + Room = AtLimit /\ AtLimit >= 1 /\ AtLimit >= k /\ AtLimit \in Nat /\ Room \in Nat
    BY <2>1, <2>2, <2>3
  <2>5. l + r <= AtLimit /\ (r = Room => l + r >= AtLimit)
    BY <1>11, <2>1, <2>4
  <2> QED BY <2>1, <2>4, <2>5 DEF k
<1>19. Len(out') \in Nat /\ (out' = <<>> <=> Len(out') = 0)
  BY <1>12
<1>20. ASSUME ~Enough(out')
       PROVE  /\ Items(out') = Matching(ids \ (left \ {id}))
              /\ Limited => out' = <<>> \/ Len(out') < cmd.limit
  <2>1. Limited => out' = <<>> \/ ~(Len(out') >= cmd.limit)
    BY <1>20 DEF Enough
  <2>2. Limited => out' = <<>> \/ Len(out') < cmd.limit
    <3> SUFFICES ASSUME Limited, out' # <<>> PROVE Len(out') < cmd.limit
      OBVIOUS
    <3>1. cmd.limit \in Nat
      BY <1>5
    <3> QED BY <1>19, <2>1, <3>1
  <2>3. Limited => r # Room
    <3> SUFFICES ASSUME Limited, r = Room PROVE FALSE
      OBVIOUS
    <3>1. cmd.limit \in Nat /\ AtLimit \in Nat /\ AtLimit >= 1 /\ AtLimit >= cmd.limit
      BY <1>5, <1>18
    <3>2. Len(out') >= AtLimit
      BY <1>18
    <3>3. Len(out') >= 1 /\ Len(out') >= cmd.limit
      BY <1>19, <3>1, <3>2
    <3> QED BY <1>19, <2>1, <3>3
  <2>4. Matching({id}) = new
    BY <1>10, <1>16, <2>3
  <2>5. ids \ (left \ {id}) = past \cup {id}
    BY <1>1
  <2>6. Items(out') = Matching(past) \cup Matching({id})
    BY <1>12, <2>4
  <2> HIDE DEF past
  <2>7. Matching(past \cup {id}) = Matching(past) \cup Matching({id})
    BY <1>17
  <2> QED BY <2>2, <2>5, <2>6, <2>7
<1>21. ASSUME Enough(out') PROVE Len(out') = AtLimit
  <2>1. Limited /\ out' # <<>> /\ Len(out') >= cmd.limit
    BY <1>21 DEF Enough
  <2>2. cmd.limit \in Nat /\ Len(out') <= AtLimit
    BY <1>5, <1>18, <2>1
  <2>3. AtLimit \in {cmd.limit, 1}
    BY DEF AtLimit
  <2> QED BY <1>19, <2>1, <2>2, <2>3
<1>22. Items(out') \subseteq Matching(ids)
  <2>1. ids = (past \cup {id}) \cup ids
    BY <1>1
  <2> HIDE DEF past
  <2>2. Matching(ids) = (Matching(past) \cup Matching({id})) \cup Matching(ids)
    BY <1>17, <2>1
  <2> QED BY <1>12, <1>15, <2>2
<1>23. ASSUME NEW p \in Items(out'), NEW q \in Matching(ids), Before(q, p)
       PROVE  q \in Items(out')
  <2>1. /\ q = <<q[1], q[2]>> /\ q[1] \in ids /\ q[2] \in Replayed(files[q[1]])
        /\ Selected(q[1], q[2])
    BY MatchingIs
  <2>2. ASSUME q[1] \in past PROVE q \in Items(out')
    <3> HIDE DEF past
    <3>1. <<q[1], q[2]>> \in Matching(past)
      BY <2>1, <2>2, MatchingIs
    <3> QED BY <1>12, <2>1, <3>1
  <2>3. CASE p \in Matching(past)
    <3>1. p[1] \in past
      BY <2>3, MatchingIs
    <3>2. q[1] <= p[1]
      BY <1>2, <1>23, <2>1, <3>1 DEF Before
    <3>3. q[1] \notin left
      BY <1>2, <1>3, <2>1, <3>1, <3>2
    <3> QED BY <2>1, <2>2, <3>3
  <2>4. CASE p \in new
    <3>1. PICK j \in a .. (a + r - 1) : p = <<id, j>>
      BY <2>4 DEF new, LineSet
    <3>2. p[1] = id /\ p[2] = j
      BY <3>1
    <3>3. q[1] < id \/ (q[1] = id /\ q[2] < j)
      BY <1>23, <3>2 DEF Before
    <3>4. CASE q[1] < id
      <4>1. q[1] \notin left
        BY <1>1, <1>2, <1>7, <2>1, <3>4
      <4> QED BY <2>1, <2>2, <4>1
    <3>5. CASE q[1] = id /\ q[2] < j
      <4>1. q[2] \in a .. m
        BY <1>13, <2>1, <3>5
      <4>2. q[2] \in a .. (a + r - 1)
        BY <1>11, <3>5, <4>1
      <4> QED BY <1>12, <2>1, <3>5, <4>2 DEF new, LineSet
    <3> QED BY <3>3, <3>4, <3>5
  <2> QED BY <1>12, <2>3, <2>4
<1> QED BY <1>12, <1>20, <1>21, <1>22, <1>23 DEF ids, id

LEMMA PrintStep ==
  ASSUME ShapeInv, StageInv, WalkInv, PrintInv, [CliNext]_clivars
  PROVE  PrintInv'
<1> SUFFICES ASSUME stage' = "walking", ~disturbed', cmd'.name \in {"scan", "dump"}
             PROVE  PrintInv'
  BY DEF PrintInv
<1>1. CASE Open
  <2>1. /\ cmd' = cmd /\ out' = <<>> /\ files' = files /\ left' = ListSegmentIds(files)
    BY <1>1, OpenFacts DEF Open, StageInv
  <2>2. out' \in Seq(Nat \X Nat) /\ Ordered(out') /\ Items(out') = {}
    BY <2>1 DEF Ordered, Items
  <2>3. Matching(ListSegmentIds(files) \ left)' = {}
    BY <2>1 DEF Matching
  <2> QED BY <2>1, <2>2, <2>3 DEF PrintInv
<1>2. CASE Walk
  <2>1. /\ UNCHANGED <<files, cmd, disturbed>> /\ left' = left \ {Min(left)} /\ ~Enough(out')
    BY <1>2 DEF Walk, Exit, kvars, vars, disk
  <2>2. /\ out' \in Seq(Nat \X Nat) /\ Ordered(out')
        /\ Items(out') = Matching(ListSegmentIds(files) \ left')
        /\ Limited => out' = <<>> \/ Len(out') < cmd.limit
    BY <1>2, <2>1, WalkPrints
  <2>3. Matching(ListSegmentIds(files) \ left)' = Matching(ListSegmentIds(files) \ left')
    BY <2>1 DEF Matching, Selected
  <2>4. Limited' <=> Limited
    BY <2>1 DEF Limited
  <2>5. Ordered(out)' /\ Items(out)' = Items(out')
    BY <2>2 DEF Ordered, Items
  <2> QED BY <2>1, <2>2, <2>3, <2>4, <2>5 DEF PrintInv
<1>3. ~Decay
  BY DEF Decay, Holding
<1>4. CASE Foreign \/ Writer \/ ReadKey \/ ReadEnd \/ UNCHANGED clivars
  <2>1. UNCHANGED <<files, cmd, stage, left, out, disturbed>>
    BY <1>4 DEF Foreign, Writer, ReadKey, ReadEnd, Exit, clivars, cli, kvars, vars, disk
  <2>2. Matching(ListSegmentIds(files) \ left)' = Matching(ListSegmentIds(files) \ left)
    BY <2>1 DEF Matching, Selected
  <2> QED BY <2>1, <2>2 DEF PrintInv, Ordered, Items, Limited
<1> QED
  BY <1>1, <1>2, <1>3, <1>4 DEF CliNext, Start, Locked, Create, OpenError,
     WalkError, WalkEnd, ReadKeyFails, ReadKeyError, Export, ExportError, CheckTarget, CompactTo,
     NextCommand, Killed, Exit, ExitEarly, Reset

LEMMA PrintInvariant == CliSpec => []PrintInv
<1>1. CliInit => PrintInv
  BY DEF CliInit, PrintInv
<1>2. ASSUME ShapeInv, CliInv, PrintInv, [CliNext]_clivars PROVE PrintInv'
  BY <1>2, PrintStep DEF CliInv
<1> QED BY <1>1, <1>2, CliInvariant, PTL DEF CliSpec

\* How many of matching records a command prints.
Bounded(matching) ==
    IF cmd.limit = NoLimit THEN Cardinality(matching) ELSE Min({Cardinality(matching), AtLimit})

(***************************************************************************)
(* scan and dump print the first records of the part selected, in the      *)
(* order of the log and once each, and as many as a limit other than 0     *)
(* allows, whatever the segments, the offsets and the limit are.           *)
(***************************************************************************)
THEOREM SelectionIsPrinted == CliSpec => []PrintsSelection
<1>1. CliInit => PrintsSelection
  BY DEF CliInit, PrintsSelection, Done
<1>2. ASSUME ShapeInv, CliInv, PrintInv, PrintsSelection, [CliNext]_clivars
      PROVE  PrintsSelection'
  <2> SUFFICES ASSUME stage' = "done", cmd'.name \in {"scan", "dump"}, exit' \in {0, 2},
                      ~disturbed'
               PROVE  PrintsSelection'
    BY DEF PrintsSelection, Done
  <2> DEFINE M == Matching(ListSegmentIds(files))
  <2>1. CASE stage = "done"
    <3>1. UNCHANGED clivars
      BY <1>2, <2>1, DoneStays DEF NextCommand, Reset
    <3>2. UNCHANGED <<files, out, disturbed, stage, cmd, exit>>
      BY <3>1 DEF clivars, cli, kvars, vars, disk
    <3> QED BY <1>2, <2>1, <3>2 DEF PrintsSelection, Done
  <2>2. ASSUME UNCHANGED <<files, cmd>>, Ordered(out'), Items(out') \subseteq M,
               \A p \in Items(out') : \A q \in M : Before(q, p) => q \in Items(out'),
               cmd.limit # 0 =>
                  Len(out') = IF cmd.limit = NoLimit THEN Cardinality(M)
                              ELSE Min({Cardinality(M), cmd.limit})
        PROVE  PrintsSelection'
    <3>1. M = {p \in UNION {{id} \X Replayed(files[id]) : id \in ListSegmentIds(files)} :
                    \/ p[1] > cmd.from[1]
                    \/ p[1] = cmd.from[1] /\ files[p[1]][p[2]].at >= cmd.from[2]}
      BY Zenon DEF Matching, Selected
    <3> HIDE DEF M
    <3> QED BY <2>2, <3>1, ZenonT(60) DEF PrintsSelection, Ordered, Items
  <2>3. IsFiniteSet(M)
    BY <1>2, MatchingFinite
  <2>4. ASSUME stage = "walking", UNCHANGED <<cmd, disturbed>>
        PROVE  /\ cmd.limit = NoLimit \/ cmd.limit \in Nat
               /\ cmd.limit # NoLimit => Limited
    BY <1>2, <2>4, PrintArguments DEF CliInv
  <2> HIDE DEF M
  <2>5. Cardinality(M) \in Nat
    BY <2>3, FS_CardinalityType
  <2>6. ASSUME cmd.limit \in Nat
        PROVE  AtLimit \in Nat /\ AtLimit >= 1 /\ (cmd.limit # 0 => AtLimit = cmd.limit)
    <3> DEFINE k == cmd.limit
    <3>1. AtLimit = IF k > 1 THEN k ELSE 1
      BY DEF AtLimit
    <3>2. k \in Nat
      BY <2>6
    <3> HIDE DEF k
    <3>3. AtLimit \in Nat /\ AtLimit >= 1 /\ (k # 0 => AtLimit = k)
      BY <3>1, <3>2
    <3> QED BY <3>3 DEF k
  <2>7. ASSUME cmd.limit \in Nat, NEW n \in {Cardinality(M), AtLimit},
               n <= Cardinality(M), n <= AtLimit
        PROVE  Min({Cardinality(M), AtLimit}) = n
    <3> DEFINE S == {Cardinality(M), AtLimit}
    <3>1. S \in SUBSET Nat /\ S # {} /\ n \in S /\ \A y \in S : n <= y
      BY <2>5, <2>6, <2>7
    <3>2. Min(S) \in S /\ \A y \in S : Min(S) <= y
      BY <3>1, MinIs
    <3> HIDE DEF S
    <3> DEFINE m == Min(S)
    <3>3. m \in Nat /\ n \in Nat /\ m <= n /\ n <= m
      BY <3>1, <3>2
    <3> HIDE DEF m
    <3>4. m = n
      BY <3>3
    <3> QED BY <3>4 DEF S, m
  <2>8. CASE WalkEnd
    <3>1. /\ stage = "walking" /\ left = {} /\ UNCHANGED <<files, cmd, out, disturbed>>
      BY <2>8 DEF WalkEnd, Exit, disk
    <3>2. /\ out \in Seq(Nat \X Nat) /\ Ordered(out) /\ Items(out) = M
          /\ Limited => out = <<>> \/ Len(out) < cmd.limit
      BY <1>2, <3>1 DEF PrintInv, M
    <3>3. Cardinality(M) = Len(out)
      BY <3>2, ItemsCount
    <3>4. Len(out) = Bounded(M)
      <4>1. CASE cmd.limit = NoLimit
        BY <3>3, <4>1 DEF Bounded
      <4>2. CASE cmd.limit # NoLimit
        <5>1. cmd.limit \in Nat /\ (out = <<>> \/ Len(out) < cmd.limit)
          BY <2>4, <3>1, <3>2, <4>2
        <5>2. Len(out) <= AtLimit
          BY <2>5, <3>3, <5>1 DEF AtLimit
        <5>3. Min({Cardinality(M), AtLimit}) = Cardinality(M)
          BY <2>5, <2>7, <3>3, <5>1, <5>2
        <5> QED BY <3>3, <4>2, <5>3 DEF Bounded
      <4> QED BY <4>1, <4>2
    <3>5. cmd.limit # 0 => Len(out) = IF cmd.limit = NoLimit THEN Cardinality(M)
                                      ELSE Min({Cardinality(M), cmd.limit})
      BY <2>4, <2>6, <3>1, <3>4 DEF Bounded
    <3> QED BY <2>2, <3>1, <3>2, <3>5 DEF Ordered, Items
  <2>9. CASE Walk
    <3>1. /\ stage = "walking" /\ UNCHANGED <<files, cmd, disturbed>> /\ Enough(out')
      BY <2>9 DEF Walk, Exit, disk
    <3>2. /\ out' \in Seq(Nat \X Nat) /\ Ordered(out') /\ Len(out') = AtLimit
          /\ Items(out') \subseteq M
          /\ \A p \in Items(out') : \A q \in M : Before(q, p) => q \in Items(out')
      BY <1>2, <2>9, <3>1, WalkPrints DEF CliInv, M
    <3> DEFINE o == out'
    <3>3. Cardinality(Items(o)) = AtLimit
      BY <3>2, ItemsCount
    <3>4. Cardinality(Items(o)) <= Cardinality(M)
      BY <2>3, <3>2, FS_Subset
    <3>5. cmd.limit # NoLimit /\ cmd.limit \in Nat
      BY <2>4, <3>1 DEF Enough, Limited
    <3>6. AtLimit <= Cardinality(M) /\ AtLimit <= AtLimit
      BY <2>6, <3>3, <3>4, <3>5
    <3>7. Min({Cardinality(M), AtLimit}) = AtLimit
      BY <2>7, <3>5, <3>6
    <3>8. cmd.limit # 0 => Len(out') = Min({Cardinality(M), cmd.limit})
      BY <2>6, <3>2, <3>5, <3>7
    <3> QED BY <2>2, <3>1, <3>2, <3>5, <3>8
  <2>10. ~(\/ ReadKey \/ ReadKeyFails \/ ReadKeyError \/ ReadEnd
          \/ Export \/ ExportError \/ CheckTarget \/ CompactTo)
    BY <1>2 DEF CliInv, StageInv, ReadKey, ReadKeyFails, ReadKeyError, ReadEnd, Export, ExportError,
       CheckTarget, CompactTo
  <2> QED
    BY <1>2, <2>1, <2>8, <2>9, <2>10 DEF CliNext, Start, Locked, Create, Open, OpenError,
       WalkError, NextCommand, Writer, Killed, Decay, Foreign, clivars, cli, Exit, ExitEarly,
       Reset, Holding
<1> QED BY <1>1, <1>2, CliInvariant, PrintInvariant, PTL DEF CliSpec
=============================================================================
