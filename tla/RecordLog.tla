------------------------------ MODULE RecordLog ------------------------------
(***************************************************************************)
(* The append-only record log of record_log.rs: one RecordLog handle over  *)
(* a directory of segment files, the crashes that end the handle, and the  *)
(* I/O errors that poison it.                                              *)
(*                                                                         *)
(* A call that issues several system calls is several steps, so that a     *)
(* crash can fall between any two of them.  pc names the system call the   *)
(* handle is about to make, "idle" between calls and "closed" when no      *)
(* handle exists (DirLock lets at most one exist, see README).             *)
(*                                                                         *)
(* The disk.  `files' is what the running system reads back: every byte    *)
(* written so far, through the page cache.  Power loss keeps of it at      *)
(* least the first synced[id] chunks of each file whose directory entry is *)
(* durable (`entries'), plus an arbitrary further prefix.                  *)
(***************************************************************************)
EXTENDS Segments

CONSTANTS
    Cuts,               \* the byte counts at which a frame can be cut short
    MaxSize,            \* u64::MAX as a segment size
    CallerChecksReport, \* callers never append or rotate on a handle whose
                        \* recovery report shows a discarded tail
    DropsDirtyPages,    \* a failed sync_all may mark dirty pages clean, so
                        \* that no later sync writes them
    MaxAppends,         \* bound: frames written in a behaviour
    MaxFaults,          \* bound: crashes and I/O errors in a behaviour
    MaxSegs             \* bound: segments the caller rotates to

ASSUME RecordLogAssumption ==
    /\ Cuts \subseteq Nat \ {0}
    /\ MaxSize \in Nat
    /\ CallerChecksReport \in BOOLEAN
    /\ DropsDirtyPages \in BOOLEAN
    /\ MaxAppends \in Nat
    /\ MaxFaults \in Nat
    /\ MaxSegs \in Nat \ {0}

VARIABLES
    files,      \* segment id -> chunks, as the running system reads them
    synced,     \* segment id -> number of leading chunks that are on disk
    entries,    \* ids of the segments whose directory entry is on disk
    dropped,    \* <<id, i>>: chunk i, in the cache only, will not be written
    pc,
    active,     \* active_id, and the file open in active_file
    newId,      \* new_id, while rotate runs
    activeSize, \* active_size
    nextTxid,   \* next_txid
    poisoned,   \* poisoned.is_some()
    report,     \* last_report
    pending,    \* history: records this handle acknowledged, not yet fsynced
    durable,    \* history: records an fsync or a rotate acknowledged
    appends, faults

disk == <<files, synced, entries, dropped>>
handle == <<active, newId, activeSize, nextTxid, poisoned, report>>
history == <<pending, durable>>
vars == <<disk, pc, handle, history, appends, faults>>

Ids == Nat \ {0}

(***************************************************************************)
(* RecordRef, and for the properties: the record it was returned for, the  *)
(* chunk that holds it, and whether the handle's recovery report was clean *)
(* (no discarded tail) when it was appended.                               *)
(***************************************************************************)
Ref == [segment : Ids, offset : Nat, len : Nat,
        txid : 1 .. MaxTxid, data : Data, idx : Nat, clean : BOOLEAN]

PC == {"closed", "creating", "idle", "writing", "syncing",
       "rotating", "created", "opening"}

TypeOK ==
    /\ entries \in SUBSET Ids
    /\ DOMAIN files \in SUBSET Ids
    /\ files \in [DOMAIN files -> Seq(Chunk)]
    /\ synced \in [DOMAIN files -> Nat]
    /\ dropped \in SUBSET (Ids \X Nat)
    /\ pc \in PC
    /\ active \in Nat
    /\ newId \in Nat
    /\ activeSize \in Nat
    /\ nextTxid \in 1 .. MaxTxid
    /\ poisoned \in BOOLEAN
    /\ report \in Report
    /\ pending \in SUBSET Ref
    /\ durable \in SUBSET Ref
    /\ appends \in 0 .. MaxAppends
    /\ faults \in 0 .. MaxFaults

Init ==
    /\ files = <<>>
    /\ synced = <<>>
    /\ entries = {}
    /\ dropped = {}
    /\ pc = "closed"
    /\ active = 0
    /\ newId = 0
    /\ activeSize = 0
    /\ nextTxid = 1
    /\ poisoned = FALSE
    /\ report = NoReport
    /\ pending = {}
    /\ durable = {}
    /\ appends = 0
    /\ faults = 0

Fault == faults < MaxFaults /\ faults' = faults + 1

------------------------------------------------------------------------------
(* Opening a log *)

\* The handle is gone; the lock is released with it.
NoHandle ==
    /\ pc' = "closed"
    /\ active' = 0
    /\ newId' = 0
    /\ activeSize' = 0
    /\ nextTxid' = 1
    /\ poisoned' = FALSE
    /\ report' = NoReport
    /\ pending' = {}

(***************************************************************************)
(* The end of RecordLog::open: scan, then build the handle.  active_size   *)
(* is the logical end of the active segment; bytes past it stay in the     *)
(* file and the file is opened with O_APPEND.                              *)
(***************************************************************************)
OpenScanned ==
    /\ ScanOk(files)
    /\ pc' = "idle"
    /\ active' = ActiveSegmentId(files)
    /\ newId' = 0
    /\ activeSize' = LogicalEnd(files[ActiveSegmentId(files)])
    /\ nextTxid' = NextTxid(LastTxidSeen(files))
    /\ poisoned' = FALSE
    /\ report' = TailReport(files)
    /\ pending' = {}

\* Mutant of OpenCreate: segment 1 is created without looking for segments.
OpenCreateAlways ==
    /\ pc = "closed"
    /\ files' = [id \in DOMAIN files \cup {1} |-> IF id = 1 THEN <<>> ELSE files[id]]
    /\ synced' = [id \in DOMAIN files \cup {1} |-> IF id = 1 THEN 0 ELSE synced[id]]
    /\ pc' = "creating"
    /\ UNCHANGED <<entries, dropped, handle, history, appends, faults>>

\* File::create(1) in a directory without segments; fsync_dir comes next.
OpenCreate ==
    /\ pc = "closed"
    /\ ListSegmentIds(files) = {}
    /\ files' = [id \in DOMAIN files \cup {1} |-> IF id = 1 THEN <<>> ELSE files[id]]
    /\ synced' = [id \in DOMAIN files \cup {1} |-> IF id = 1 THEN 0 ELSE synced[id]]
    /\ pc' = "creating"
    /\ UNCHANGED <<entries, dropped, handle, history, appends, faults>>

OpenCreated ==
    /\ pc = "creating"
    /\ entries' = DOMAIN files
    /\ OpenScanned
    /\ UNCHANGED <<files, synced, dropped, durable, appends, faults>>

OpenExisting ==
    /\ pc = "closed"
    /\ ListSegmentIds(files) # {}
    /\ OpenScanned
    /\ UNCHANGED <<disk, durable, appends, faults>>

\* scan_all found damage it does not tolerate: open returns Err.
OpenRefused ==
    /\ pc = "closed"
    /\ ListSegmentIds(files) # {}
    /\ ~ScanOk(files)
    /\ UNCHANGED vars

\* Any system call of open fails: Err, and whatever was created stays.
OpenFails ==
    /\ pc \in {"closed", "creating"}
    /\ Fault
    /\ NoHandle
    /\ UNCHANGED <<disk, durable, appends>>

------------------------------------------------------------------------------
(* Mutating calls *)

\* Mutant of Ready: check_poisoned is not called.
ReadyUnchecked == pc = "idle"

\* check_poisoned passes.
Ready == pc = "idle" /\ ~poisoned

\* The caller's own discipline, on top of it.
MayWrite == Ready /\ (CallerChecksReport => report.tail_truncated = 0)

Poison ==
    /\ poisoned' = TRUE
    /\ newId' = 0
    /\ pc' = "idle"

ActiveFile == files[active]

(***************************************************************************)
(* append_record, first part: the frame is encoded with next_txid and      *)
(* write_all has put some of its bytes at the physical end of the file.    *)
(***************************************************************************)
AppendBegin(d, cut) ==
    /\ MayWrite
    /\ Encodable(d)
    /\ appends < MaxAppends
    /\ cut < FrameLen(d)
    /\ files' = [files EXCEPT ![active] =
                    Append(@, CutTo(EncodeRecord(nextTxid, d, FileSize(@)), cut))]
    /\ pc' = "writing"
    /\ appends' = appends + 1
    /\ UNCHANGED <<synced, entries, dropped, handle, history, faults>>

\* The last frame of s, completed.
Completed(s) ==
    [s EXCEPT ![Len(s)] = EncodeRecord(@.txid, @.data, @.at)]

(***************************************************************************)
(* append_record, second part: write_all succeeded.  Both overflow checks  *)
(* come after the write, and poison the handle; else the record is         *)
(* acknowledged with the offset active_size had.                           *)
(***************************************************************************)
AppendFinish ==
    /\ pc = "writing"
    /\ files' = [files EXCEPT ![active] = Completed(@)]
    /\ LET frame == Completed(ActiveFile)[Len(ActiveFile)]
           size == activeSize + frame.len
       IN  \/ /\ size > MaxSize
              /\ Poison
              /\ UNCHANGED <<activeSize, nextTxid, pending>>
           \/ /\ size <= MaxSize
              /\ activeSize' = size
              /\ nextTxid = MaxTxid
              /\ Poison
              /\ UNCHANGED <<nextTxid, pending>>
           \/ /\ size <= MaxSize
              /\ activeSize' = size
              /\ nextTxid < MaxTxid
              /\ nextTxid' = nextTxid + 1
              /\ pending' = pending \cup
                    {[segment |-> active, offset |-> activeSize, len |-> frame.len,
                      txid |-> nextTxid, data |-> frame.data,
                      idx |-> Len(ActiveFile),
                      clean |-> report.tail_truncated = 0]}
              /\ pc' = "idle"
              /\ UNCHANGED <<newId, poisoned>>
    /\ UNCHANGED <<synced, entries, dropped, active, report, durable, appends, faults>>

\* Mutant of AppendError: the handle stays usable.
AppendErrorUnpoisoned ==
    /\ pc = "writing" \/ MayWrite
    /\ Fault
    /\ pc' = "idle"
    /\ UNCHANGED <<disk, handle, history, appends>>

\* write_all failed, after some bytes or before the first one.
AppendError ==
    /\ \/ pc = "writing"
       \/ MayWrite
    /\ Fault
    /\ Poison
    /\ UNCHANGED <<disk, active, activeSize, nextTxid, report, history, appends>>

(***************************************************************************)
(* sync_all on the active file, the first system call of both fsync and    *)
(* rotate.  When it fails, any number of further chunks may have reached   *)
(* the disk, and the kernel may have given up on the others for good.      *)
(***************************************************************************)
SyncAll(next) ==
    /\ synced' = [synced EXCEPT ![active] = Len(ActiveFile)]
    /\ pc' = next
    /\ UNCHANGED <<files, entries, dropped, handle, history, appends, faults>>

\* Mutants of FsyncBegin and RotateBegin: sync_all is skipped.
FsyncBeginUnsynced ==
    /\ Ready
    /\ pc' = "syncing"
    /\ UNCHANGED <<disk, handle, history, appends, faults>>

RotateBeginUnsynced ==
    /\ MayWrite
    /\ active < MaxSegs
    /\ pc' = "rotating"
    /\ UNCHANGED <<disk, handle, history, appends, faults>>

FsyncBegin == Ready /\ SyncAll("syncing")

RotateBegin == MayWrite /\ active < MaxSegs /\ SyncAll("rotating")

SyncAllError ==
    /\ Ready
    /\ Fault
    /\ \E n \in synced[active] .. Len(ActiveFile) :
          /\ synced' = [synced EXCEPT ![active] = n]
          /\ dropped' \in {dropped} \cup
                IF DropsDirtyPages
                THEN {dropped \cup ({active} \X ((n + 1) .. Len(ActiveFile)))}
                ELSE {}
    /\ Poison
    /\ UNCHANGED <<files, entries, active, activeSize, nextTxid, report, history, appends>>

\* fsync_dir made every directory entry durable; the caller gets its Ok.
Acknowledge ==
    /\ durable' = durable \cup pending
    /\ pending' = {}

\* Mutant of FsyncFinish: the directory is not synced.
FsyncFinishWithoutDir ==
    /\ pc = "syncing"
    /\ Acknowledge
    /\ pc' = "idle"
    /\ UNCHANGED <<disk, handle, appends, faults>>

FsyncFinish ==
    /\ pc = "syncing"
    /\ entries' = DOMAIN files
    /\ Acknowledge
    /\ pc' = "idle"
    /\ UNCHANGED <<files, synced, dropped, handle, appends, faults>>

\* Mutant of DirectoryError: the handle stays usable.
DirectoryErrorUnpoisoned ==
    /\ pc \in {"syncing", "rotating", "created", "opening"}
    /\ Fault
    /\ newId' = 0
    /\ pc' = "idle"
    /\ UNCHANGED <<disk, active, activeSize, nextTxid, poisoned, report, history, appends>>

\* fsync_dir of fsync or rotate, File::create or the final open failed.
DirectoryError ==
    /\ pc \in {"syncing", "rotating", "created", "opening"}
    /\ Fault
    /\ Poison
    /\ UNCHANGED <<disk, active, activeSize, nextTxid, report, history, appends>>

\* rotate: read_dir failed.  The error is returned without poisoning.
RotateListError ==
    /\ pc = "rotating"
    /\ Fault
    /\ pc' = "idle"
    /\ UNCHANGED <<disk, handle, history, appends>>

\* rotate: list_segment_ids, next_segment_id and File::create, which
\* truncates a file that is already there.
RotateCreate ==
    /\ pc = "rotating"
    /\ LET id == NextSegmentId(ListSegmentIds(files))
       IN  \/ /\ id <= active
              /\ Poison
              /\ UNCHANGED <<files, synced, dropped>>
           \/ /\ id > active
              /\ newId' = id
              /\ files' = [i \in DOMAIN files \cup {id} |->
                              IF i = id THEN <<>> ELSE files[i]]
              /\ synced' = [i \in DOMAIN files \cup {id} |->
                              IF i = id THEN 0 ELSE synced[i]]
              /\ dropped' = {p \in dropped : p[1] # id}
              /\ pc' = "created"
              /\ UNCHANGED poisoned
    /\ UNCHANGED <<entries, active, activeSize, nextTxid, report, history, appends, faults>>

RotateSyncDir ==
    /\ pc = "created"
    /\ entries' = DOMAIN files
    /\ pc' = "opening"
    /\ UNCHANGED <<files, synced, dropped, handle, history, appends, faults>>

\* Mutant of RotateFinish: active_size is not reset.
RotateFinishKeepsSize ==
    /\ pc = "opening"
    /\ active' = newId
    /\ newId' = 0
    /\ Acknowledge
    /\ pc' = "idle"
    /\ UNCHANGED <<disk, activeSize, nextTxid, poisoned, report, appends, faults>>

\* rotate: the new segment becomes active.  The previous one was synced.
RotateFinish ==
    /\ pc = "opening"
    /\ active' = newId
    /\ newId' = 0
    /\ activeSize' = 0
    /\ Acknowledge
    /\ pc' = "idle"
    /\ UNCHANGED <<disk, nextTxid, poisoned, report, appends, faults>>

------------------------------------------------------------------------------
(* Read-only calls, the end of a handle, and crashes *)

\* scan: allowed on a poisoned handle too; it refreshes next_txid.
Scan ==
    /\ pc = "idle"
    /\ ScanOk(files)
    /\ nextTxid' = NextTxid(LastTxidSeen(files))
    /\ report' = TailReport(files)
    /\ UNCHANGED <<disk, pc, active, newId, activeSize, poisoned, history, appends, faults>>

\* close, or drop: nothing is flushed.
Close ==
    /\ pc = "idle"
    /\ NoHandle
    /\ UNCHANGED <<disk, durable, appends, faults>>

\* The process dies at any point of any call; the system keeps running.
Crash ==
    /\ pc # "closed"
    /\ Fault
    /\ NoHandle
    /\ UNCHANGED <<disk, durable, appends>>

\* What power loss can make of a chunk that was not wholly on disk.
Damaged(c) ==
    {CutTo(c, n) : n \in {m \in Cuts : m < c.len}}
      \cup {IF c.state = "torn" THEN c ELSE [c EXCEPT !.state = "crc"]}
      \cup IF ZeroTails /\ c.state = "whole" THEN {[c EXCEPT !.state = "zeros"]} ELSE {}

\* Chunks s, of which the first n are on disk, after power loss.
AfterPowerLoss(s, n) ==
    {SubSeq(s, 1, m) : m \in n .. Len(s)}
      \cup UNION {{Append(SubSeq(s, 1, m), c) : c \in Damaged(s[m + 1])} :
                     m \in n .. (Len(s) - 1)}

\* The file as the disk has it: pages the kernel gave up on are missing.
OnDisk(id) ==
    [i \in 1 .. Len(files[id]) |->
        IF <<id, i>> \in dropped /\ files[id][i].state = "whole"
        THEN [files[id][i] EXCEPT !.state = "crc"]
        ELSE files[id][i]]

(***************************************************************************)
(* Power loss.  Directory entries become durable in the order they were    *)
(* made (a journalling filesystem), so the files that are left are the     *)
(* first ones; any one of them keeps an arbitrary part of what was not yet *)
(* synced, the others lose all of it.                                      *)
(***************************************************************************)
PowerLoss ==
    /\ Fault
    /\ NoHandle
    /\ \E kept \in SUBSET DOMAIN files, lucky \in DOMAIN files :
          /\ entries \subseteq kept
          /\ \A id \in kept : \A lower \in DOMAIN files : lower < id => lower \in kept
          /\ \E image \in AfterPowerLoss(OnDisk(lucky), synced[lucky]) :
                /\ files' = [id \in kept |->
                      IF id = lucky THEN image ELSE SubSeq(OnDisk(id), 1, synced[id])]
                /\ synced' = [id \in kept |->
                      IF id = lucky THEN Len(image) ELSE synced[id]]
          /\ entries' = kept
    /\ dropped' = {}
    /\ UNCHANGED <<durable, appends>>

------------------------------------------------------------------------------
\* The steps that carry a call on to its end without an error.
Progress ==
    \/ OpenCreate
    \/ OpenCreated
    \/ OpenExisting
    \/ AppendFinish
    \/ FsyncFinish
    \/ RotateCreate
    \/ RotateSyncDir
    \/ RotateFinish

\* The steps of a running system.
Running ==
    \/ Progress
    \/ OpenRefused
    \/ OpenFails
    \/ \E d \in Data, cut \in Cuts : AppendBegin(d, cut)
    \/ AppendError
    \/ FsyncBegin
    \/ SyncAllError
    \/ RotateBegin
    \/ DirectoryError
    \/ RotateListError
    \/ Scan
    \/ Close
    \/ Crash

Next == Running \/ PowerLoss

Spec == Init /\ [][Next]_vars

(***************************************************************************)
(* A call that is under way returns, a caller without a handle opens one,  *)
(* and a caller with a poisoned handle drops it, as its error tells it to. *)
(***************************************************************************)
FairSpec == Spec /\ WF_vars(Progress) /\ WF_vars(poisoned /\ Close)

------------------------------------------------------------------------------
(* Properties *)

\* scan returns the record that r was returned for.
Returned(r) ==
    /\ ScanReturns(files, r.segment, r.idx)
    /\ files[r.segment][r.idx].txid = r.txid
    /\ files[r.segment][r.idx].data = r.data

\* The last frame of the log is one that power loss has left as zeros.
ZeroedTail ==
    /\ ListSegmentIds(files) # {}
    /\ LET s == files[ActiveSegmentId(files)]
       IN  s # <<>> /\ s[Len(s)].state = "zeros"

(***************************************************************************)
(* A directory the log has written is always one that open and scan        *)
(* accept: whatever crashed or failed, damage is confined to the tail of   *)
(* the last segment and is of a kind that scan_segment tolerates.  The one *)
(* exception is a disk that leaves zeros in place of the last frame.       *)
(***************************************************************************)
Openable == ScanOk(files) \/ ZeroedTail

(***************************************************************************)
(* The contract of fsync: a record that was appended before an fsync (or a *)
(* rotate) that returned Ok is returned by every later scan, through       *)
(* crashes, power loss and reopening.                                      *)
(***************************************************************************)
FsyncedSurvives == \A r \in durable : Returned(r)

(***************************************************************************)
(* The same for the records of handles whose recovery report was clean:    *)
(* no later misuse of a damaged log by other handles takes them away.      *)
(***************************************************************************)
CleanFsyncedSurvives == \A r \in durable : r.clean => Returned(r)

(***************************************************************************)
(* The contract of append: while the system runs, a scan returns every     *)
(* record the handle acknowledged, before any fsync.                       *)
(***************************************************************************)
AppendedRecoverable == \A r \in pending : Returned(r)

\* The bytes a RecordRef names are those of the record it was returned for.
RefersToItsFrame(r) ==
    LET frame == files[r.segment][r.idx]
    IN  frame.at = r.offset /\ frame.len = r.len

\* Every RecordRef the live handle has returned names its own frame.
RefsAccurate == \A r \in pending : RefersToItsFrame(r)

(***************************************************************************)
(* Poisoning does its job: a handle that still accepts writes, and found   *)
(* no damage when it opened, agrees with the files about the active        *)
(* segment, its size and the next txid.                                    *)
(***************************************************************************)
HandleInSync ==
    (Ready /\ report.tail_truncated = 0 /\ active \in ListSegmentIds(files))
      => /\ active = ActiveSegmentId(files)
         /\ activeSize = FileSize(ActiveFile)
         /\ nextTxid = NextTxid(LastTxidSeen(files))

(***************************************************************************)
(* The txids that a scan returns, in the order of the log, are 1, 2, 3 ... *)
(* None is reused, skipped or out of order, across any number of crashes   *)
(* and reopenings.                                                         *)
(***************************************************************************)
TxidsContiguous ==
    ScanOk(files) =>
    LET ids == ListSegmentIds(files)
    IN  /\ \A id1, id2 \in ids : \A i1 \in Replayed(files[id1]), i2 \in Replayed(files[id2]) :
              (id1 < id2 \/ (id1 = id2 /\ i1 < i2))
                => files[id1][i1].txid < files[id2][i2].txid
        /\ \A t \in 1 .. LastTxidSeen(files) :
              \E id \in ids : \E i \in Replayed(files[id]) : files[id][i].txid = t

\* Chunks 1 .. n of segment id are the same before and after a step.
Keeps(id, n) ==
    /\ id \in DOMAIN files'
    /\ n <= Len(files'[id])
    /\ \A i \in 1 .. n : files'[id][i] = files[id][i]

(***************************************************************************)
(* The log is append-only: no step changes what is on disk, not even power *)
(* loss, and no step of the program changes a record that scans return.    *)
(***************************************************************************)
AppendOnly ==
    [][/\ \A id \in entries : Keeps(id, synced[id])
       /\ faults' = faults => \A id \in DOMAIN files :
                                 Keeps(id, Cardinality(Replayed(files[id])))]_vars

(***************************************************************************)
(* Once poisoned, a handle never touches the files again, whatever the     *)
(* caller does with it.                                                    *)
(***************************************************************************)
PoisonedWritesNothing == [][poisoned /\ poisoned' => UNCHANGED disk]_vars

(***************************************************************************)
(* However often it crashes, the log comes back: again and again there is  *)
(* a handle that is not poisoned, unless the last frame is lost to zeros.  *)
(***************************************************************************)
ComesBack == []<>(Ready \/ ZeroedTail)

------------------------------------------------------------------------------
(* The inductive invariant behind the properties *)

\* The frames of a file follow one another.
Laid(s) ==
    /\ \A i \in 1 .. Len(s) : s[i].len > 0
    /\ \A i, j \in 1 .. Len(s) : i < j => s[i].at + s[i].len <= s[j].at

AllWhole(s, n) == \A i \in 1 .. n : s[i].state = "whole"

Opened == pc \notin {"closed", "creating"}

\* What the variables are, and how they fit together, in every state.
ShapeInv ==
    /\ TypeOK
    /\ entries \subseteq DOMAIN files
    /\ \A id \in DOMAIN files : Laid(files[id]) /\ synced[id] <= Len(files[id])
    /\ pc = "creating" => 1 \in DOMAIN files
    /\ ~Opened => pending = {}
    /\ Opened => active \in DOMAIN files
    /\ pc \in {"created", "opening"} => newId \in DOMAIN files
    /\ pc = "writing" => Len(ActiveFile) > 0

\* The chunk a reference stands for, and all before it in its file, are whole.
Intact(r) ==
    /\ r.segment \in DOMAIN files
    /\ r.idx \in 1 .. Len(files[r.segment])
    /\ AllWhole(files[r.segment], r.idx)
    /\ files[r.segment][r.idx].txid = r.txid
    /\ files[r.segment][r.idx].data = r.data

(***************************************************************************)
(* The part of a segment that a handle with a clean report writes to: all  *)
(* frames are whole, but for the one that is being written.                *)
(***************************************************************************)
CleanHandleInv ==
    (Opened /\ ~poisoned /\ report.tail_truncated = 0) =>
        IF pc = "writing"
        THEN /\ AllWhole(ActiveFile, Len(ActiveFile) - 1)
             /\ activeSize = ActiveFile[Len(ActiveFile)].at
        ELSE /\ AllWhole(ActiveFile, Len(ActiveFile))
             /\ activeSize = FileSize(ActiveFile)

\* Where the handle is in the directory.
RotationInv ==
    /\ \A id \in DOMAIN files : id <= MaxSegs
    /\ pc \notin {"closed", "creating", "idle"} => ~poisoned
    /\ pc = "rotating" => active < MaxSegs
    /\ (Opened /\ ~poisoned) =>
          IF pc \in {"created", "opening"}
          THEN files[newId] = <<>> /\ newId = Max(DOMAIN files)
          ELSE active = Max(DOMAIN files)

\* The frame that write_all is working on.
WritingInv ==
    pc = "writing" => LET frame == ActiveFile[Len(ActiveFile)]
                      IN  /\ frame.state = "torn"
                          /\ frame.txid = nextTxid
                          /\ synced[active] < Len(ActiveFile)

(***************************************************************************)
(* A handle whose report shows damage never loses sight of it: the damaged *)
(* frame is still there, and is not the one that is being written.         *)
(***************************************************************************)
DamageInv ==
    (Opened /\ report.tail_truncated = 1) =>
        \E id \in DOMAIN files : \E i \in 1 .. Len(files[id]) :
            /\ files[id][i].state # "whole"
            /\ ~(pc = "writing" /\ id = active /\ i = Len(ActiveFile))

PendingInv ==
    \A r \in pending : /\ r.segment = active
                       /\ r.clean => Intact(r) /\ RefersToItsFrame(r)

SyncedInv ==
    /\ pc \in {"syncing", "rotating", "created", "opening"}
          => synced[active] = Len(ActiveFile)
    /\ pc = "opening" => entries = DOMAIN files

DurableInv ==
    \A r \in durable : r.clean => /\ Intact(r)
                                  /\ r.segment \in entries
                                  /\ r.idx <= synced[r.segment]

(***************************************************************************)
(* Why an fsynced record survives: it is in a file whose directory entry   *)
(* is durable, within the synced part of it, and no frame before it in     *)
(* that file is damaged, since the handle that wrote it found none.        *)
(***************************************************************************)
LogInv ==
    /\ ShapeInv
    /\ dropped = {}
    /\ CleanHandleInv
    /\ RotationInv
    /\ WritingInv
    /\ DamageInv
    /\ PendingInv
    /\ SyncedInv
    /\ DurableInv
=============================================================================
