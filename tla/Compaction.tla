----------------------------- MODULE Compaction -----------------------------
(***************************************************************************)
(* DataWal::compact_to: a copy of the live keys of a source store, in key  *)
(* order, into a new log at an empty directory; and the swap that a caller *)
(* makes of it, as examples/soak.rs does: remove the source directory and  *)
(* rename the target to its name.  The RecordLog variables are the         *)
(* target's; of the source, which is only read, there are the live values, *)
(* and that reading one may fail.                                          *)
(*                                                                         *)
(* Nothing fsyncs the directory in which the target lies.  The changes in  *)
(* it (the target is made, the source removed, the target renamed) reach   *)
(* the disk in this order, at any time: power loss may undo the later ones.*)
(***************************************************************************)
EXTENDS RecordLog, Keydir

\* Any value may be live under any key.
ASSUME CompactionAssumption == [type : {"Put"}, key : Keys, value : Values] \subseteq Data

VARIABLES
    source,     \* the live values of the source store
    cpc,        \* where the call is: "idle", "checked", "locked", "opening",
                \* "copying", "closing", how it ended: "ok", "failed", and
                \* "reopened" when the swap is complete
    todo,       \* sorted_keys, from the loop's position on
    stats,      \* CompactionStats; live_keys is records_written
    lockFile,   \* the target directory has a .lock
    place,      \* 0: no target, 1: target made, 2: source removed, 3: renamed
    placeOnDisk,\* the part of that which power loss cannot undo
    intruder,   \* history: another process has left a "store" or a "torn"
                \* one in the target since it was found empty, or "none"
    succeeded   \* history: the last call that was not refused returned Ok

target == <<lockFile, place, placeOnDisk, intruder>>
compaction == <<source, cpc, todo, stats, target, succeeded>>
cvars == <<vars, compaction>>

CompactInit ==
    /\ Init
    /\ source \in UNION {[live -> Values] : live \in SUBSET Keys}
    /\ cpc = "idle"
    /\ todo = {}
    /\ stats = [records_written |-> 0, bytes_written |-> 0]
    /\ lockFile = FALSE
    /\ place = 0
    /\ placeOnDisk = 0
    /\ intruder = "none"
    /\ succeeded = FALSE

------------------------------------------------------------------------------
(* compact_to *)

\* read_dir yields nothing, or there is no directory.
TargetEmpty == files = <<>> /\ ~lockFile

CompactCheck ==
    /\ cpc = "idle"
    /\ TargetEmpty
    /\ cpc' = "checked"
    /\ todo' = DOMAIN source
    /\ stats' = [records_written |-> 0, bytes_written |-> 0]
    /\ intruder' = "none"
    /\ succeeded' = FALSE
    /\ UNCHANGED <<vars, source, lockFile, place, placeOnDisk>>

CompactRefused ==
    /\ cpc = "idle"
    /\ ~TargetEmpty
    /\ cpc' = "failed"
    /\ UNCHANGED <<vars, source, todo, stats, target, succeeded>>

(***************************************************************************)
(* read_dir fails; or the open does before it has the lock: the directory  *)
(* or the sentinel cannot be made, or another process holds the lock.      *)
(***************************************************************************)
CompactNotLocked ==
    /\ \/ cpc = "idle" /\ UNCHANGED <<lockFile, place>>
       \/ /\ cpc = "checked"
          /\ place' \in {place, 1}
          /\ lockFile' \in {lockFile, place' = 1}
    /\ OpenFails
    /\ cpc' = "failed"
    /\ UNCHANGED <<source, todo, stats, placeOnDisk, intruder, succeeded>>

(***************************************************************************)
(* Another process, between the check and the open: it makes a store in    *)
(* the target, writes a record, or part of one if it dies, and lets go.    *)
(***************************************************************************)
Intrude(d, whole) ==
    LET frame == EncodeRecord(1, d, 0)
    IN  /\ cpc = "checked"
        /\ intruder = "none"
        /\ files = <<>>
        /\ files' = [id \in {1} |-> <<IF whole THEN frame ELSE CutTo(frame, 1)>>]
        /\ synced' = [id \in {1} |-> 0]
        /\ lockFile' = TRUE
        /\ place' = 1
        /\ intruder' = IF whole THEN "store" ELSE "torn"
        /\ UNCHANGED <<entries, dropped, pc, handle, history, appends, faults,
                       source, cpc, todo, stats, placeOnDisk, succeeded>>

\* RecordLog::open(out_dir), in three steps: the directory and the lock, the
\* first segment, and the directory sync with the scan.
CompactLock ==
    /\ cpc = "checked"
    /\ cpc' = "locked"
    /\ lockFile' = TRUE
    /\ place' = 1
    /\ UNCHANGED <<vars, source, todo, stats, placeOnDisk, intruder, succeeded>>

CompactCreate ==
    /\ cpc = "locked"
    /\ OpenCreate
    /\ cpc' = "opening"
    /\ UNCHANGED <<source, todo, stats, target, succeeded>>

\* The open ends; it finds a segment already if there was an intruder.
CompactOpened ==
    /\ \/ cpc = "opening" /\ OpenCreated
       \/ cpc = "locked" /\ OpenExisting
    /\ cpc' = "copying"
    /\ UNCHANGED <<source, todo, stats, target, succeeded>>

CompactOpenFails ==
    /\ cpc \in {"locked", "opening"}
    /\ OpenFails
    /\ cpc' = "failed"
    /\ UNCHANGED <<source, todo, stats, target, succeeded>>

\* Mutant of NextKey: the keys are not sorted.
NextKeyUnsorted == Max(todo)

NextKey == Min(todo)

\* get of the next key succeeded, and its Put is being written.
CopyBegin(cut) ==
    /\ cpc = "copying"
    /\ todo # {}
    /\ AppendBegin([type |-> "Put", key |-> NextKey, value |-> source[NextKey]], cut)
    /\ UNCHANGED compaction

\* Mutant of CopyFinish: bytes_written leaves out the frame headers.
CopyFinishWithoutHeaders ==
    /\ cpc = "copying"
    /\ AppendFinish
    /\ IF poisoned' THEN UNCHANGED <<todo, stats>>
       ELSE /\ todo' = todo \ {NextKey}
            /\ stats' = [records_written |-> stats.records_written + 1,
                         bytes_written |-> stats.bytes_written + activeSize' - activeSize - HeaderLen]
    /\ UNCHANGED <<source, cpc, target, succeeded>>

CopyFinish ==
    /\ cpc = "copying"
    /\ AppendFinish
    /\ IF poisoned' THEN UNCHANGED <<todo, stats>>
       ELSE /\ todo' = todo \ {NextKey}
            /\ stats' = [records_written |-> stats.records_written + 1,
                         bytes_written |-> stats.bytes_written + activeSize' - activeSize]
    /\ UNCHANGED <<source, cpc, target, succeeded>>

\* Mutant of FsyncOut: the log is closed without fsync.
FsyncOutSkipped ==
    /\ cpc = "copying"
    /\ todo = {}
    /\ Ready
    /\ cpc' = "closing"
    /\ UNCHANGED <<vars, source, todo, stats, target, succeeded>>

FsyncOut ==
    /\ cpc = "copying"
    /\ todo = {}
    /\ FsyncBegin
    /\ UNCHANGED compaction

FsyncOutFinish ==
    /\ cpc = "copying"
    /\ FsyncFinish
    /\ cpc' = "closing"
    /\ UNCHANGED <<source, todo, stats, target, succeeded>>

\* An I/O error of the target log, which poisons its handle.
TargetError ==
    /\ cpc = "copying"
    /\ AppendError \/ (todo = {} /\ SyncAllError) \/ DirectoryError
    /\ UNCHANGED compaction

\* An error is returned, the target's or, before that, one of reading the
\* source; the target handle is dropped as it is.
CompactAborts ==
    /\ cpc = "copying"
    /\ pc = "idle"
    /\ \/ poisoned /\ UNCHANGED faults
       \/ ~poisoned /\ todo # {} /\ Fault
    /\ NoHandle
    /\ cpc' = "failed"
    /\ UNCHANGED <<disk, durable, appends, source, todo, stats, target, succeeded>>

CompactClose ==
    /\ cpc = "closing"
    /\ Close
    /\ cpc' = "ok"
    /\ succeeded' = TRUE
    /\ UNCHANGED <<source, todo, stats, target>>

------------------------------------------------------------------------------
(* The caller's swap *)

\* Somebody calls compact_to again with the same target, or swaps it in.
CompactAgain ==
    /\ cpc \in {"ok", "failed"}
    /\ place <= 1
    /\ cpc' = "idle"
    /\ UNCHANGED <<vars, source, todo, stats, target, succeeded>>

NoFiles ==
    /\ files' = <<>>
    /\ synced' = <<>>
    /\ entries' = {}
    /\ dropped' = {}

\* The target is removed before the next attempt.
RemoveTarget ==
    /\ cpc \in {"idle", "failed"}
    /\ place = 1
    /\ NoFiles
    /\ cpc' = "idle"
    /\ lockFile' = FALSE
    /\ place' = 0
    /\ placeOnDisk' = 0
    /\ intruder' = "none"
    /\ succeeded' = FALSE
    /\ durable' = {}
    /\ UNCHANGED <<pc, handle, pending, appends, faults, source, todo, stats>>

\* Mutant of RemoveSource: the source goes before the copy is complete.
RemoveSourceEarly ==
    /\ cpc \in {"copying", "ok"}
    /\ place = 1
    /\ place' = 2
    /\ UNCHANGED <<vars, source, cpc, todo, stats, lockFile, placeOnDisk, intruder, succeeded>>

\* compact_to returned Ok: the source directory is removed, file by file.
RemoveSource ==
    /\ cpc = "ok"
    /\ place = 1
    /\ place' = 2
    /\ UNCHANGED <<vars, source, cpc, todo, stats, lockFile, placeOnDisk, intruder, succeeded>>

RenameTarget ==
    /\ cpc = "ok"
    /\ place = 2
    /\ place' = 3
    /\ UNCHANGED <<vars, source, cpc, todo, stats, lockFile, placeOnDisk, intruder, succeeded>>

\* DataWal::open where the source was.
ReopenSwapped ==
    /\ cpc = "ok"
    /\ place = 3
    /\ OpenExisting
    /\ cpc' = "reopened"
    /\ UNCHANGED <<source, todo, stats, target, succeeded>>

------------------------------------------------------------------------------
(* Crashes *)

\* Where a call is when its process has died.
Interrupted == IF cpc \in {"idle", "ok"} THEN cpc ELSE "failed"

CompactCrash ==
    /\ Crash
    /\ cpc' = Interrupted
    /\ UNCHANGED <<source, todo, stats, target, succeeded>>

\* Power loss, after which the target directory is there.
CompactPowerLoss ==
    /\ PowerLoss
    /\ cpc' = Interrupted
    /\ lockFile' \in {FALSE, lockFile}
    /\ \E p \in (placeOnDisk .. place) \ {0} : place' = p /\ placeOnDisk' = p
    /\ UNCHANGED <<source, todo, stats, intruder, succeeded>>

\* Power loss, after which it is not there, whatever was fsynced inside it:
\* create_dir_all does not make the entry in the parent durable.
TargetLost ==
    /\ place # 0
    /\ placeOnDisk = 0
    /\ Fault
    /\ NoHandle
    /\ NoFiles
    /\ cpc' = Interrupted
    /\ lockFile' = FALSE
    /\ place' = 0
    /\ UNCHANGED <<durable, appends, source, todo, stats, placeOnDisk, intruder, succeeded>>

CompactNext ==
    \/ CompactCheck
    \/ CompactRefused
    \/ CompactNotLocked
    \/ \E d \in Data, whole \in BOOLEAN : Intrude(d, whole)
    \/ CompactLock
    \/ CompactCreate
    \/ CompactOpened
    \/ CompactOpenFails
    \/ \E cut \in Cuts : CopyBegin(cut)
    \/ CopyFinish
    \/ FsyncOut
    \/ FsyncOutFinish
    \/ TargetError
    \/ CompactAborts
    \/ CompactClose
    \/ CompactAgain
    \/ RemoveTarget
    \/ RemoveSource
    \/ RenameTarget
    \/ ReopenSwapped
    \/ CompactCrash
    \/ CompactPowerLoss
    \/ TargetLost

CompactSpec == CompactInit /\ [][CompactNext]_cvars

------------------------------------------------------------------------------
(* Properties *)

\* How many records a scan of the target returns.
RecordCount ==
    Cardinality(UNION {{id} \X Replayed(files[id]) : id \in ListSegmentIds(files)})

\* The target shows every live key of the source with its value.
Covers ==
    /\ ScanOk(files)
    /\ \A k \in DOMAIN source : k \in LiveKeys(files) /\ Projection(files)[k] = source[k]

(***************************************************************************)
(* After compact_to has returned Ok, and for as long as the target         *)
(* directory is there, it has one Put for each live key, with its value,   *)
(* whatever power loss leaves of its files, and nothing else; a store that *)
(* another process put into it between the check and the open adds to      *)
(* that, and hides no live key.  Two cases are left out: the directory     *)
(* itself may be lost, which CompactedSurvives is about, and behind a torn *)
(* record of another process the copy cannot be read.                      *)
(***************************************************************************)
CompactedEqualsSource ==
    (succeeded /\ place # 0) =>
        /\ intruder # "torn" => Covers
        /\ intruder = "none" => /\ LiveKeys(files) = DOMAIN source
                                /\ RecordCount = Cardinality(DOMAIN source)

(***************************************************************************)
(* The contract of fsync, for a copy: what compact_to has fsynced survives *)
(* power loss.  Violated: nothing fsyncs the directory in which open has   *)
(* made the target's.                                                      *)
(***************************************************************************)
CompactedSurvives == (succeeded /\ intruder = "none") => Covers

(***************************************************************************)
(* What an interrupted compaction leaves behind, at any point of it, opens *)
(* cleanly and is the beginning of the complete copy.                      *)
(***************************************************************************)
LeftoverIsPrefix ==
    intruder = "none" =>
        /\ ScanOk(files)
        /\ \A k \in LiveKeys(files) :
              /\ k \in DOMAIN source
              /\ Projection(files)[k] = source[k]
              /\ \A j \in DOMAIN source : j < k => j \in LiveKeys(files)

(***************************************************************************)
(* The statistics that a successful call returns are those of the target:  *)
(* its number of records and, to the byte, its size.                       *)
(***************************************************************************)
StatsDescribeTarget ==
    (cpc = "ok" /\ intruder = "none" /\ place # 0) =>
        /\ stats.records_written = RecordCount
        /\ stats.bytes_written = FileSize(files[1])

(***************************************************************************)
(* The swap never has the data nowhere: once the source is being removed,  *)
(* the target is a complete copy, whatever crash or power loss comes next  *)
(* and though nobody fsyncs the directory they are in.                     *)
(***************************************************************************)
SwapKeepsData == (place >= 2 /\ intruder # "torn") => Covers
=============================================================================
