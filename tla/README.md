# datawal: a TLA+ verification of the log, its readers and its store

datawal (`src/crates/datawal-core`) is an append-only, CRC-framed record log in
segment files, with a bytes-only key-value store on top of it. This project
models its core in TLA+, checks it with TLC on small instances, and proves its
main guarantees with TLAPS for every instance. What a definition models is
listed in `PROJECT.json` (`map`), line by line.

## 1. The system: inventory

| Part | State it keeps | Operations | Interacts with |
|---|---|---|---|
| Wire format (`format.rs`) | none | `encode_record`, `decode_next` | called by the log, the scans, `get` |
| Segments (`segment.rs`) | the directory | `list_segment_ids`, `active_segment_id`, `next_segment_id` | called by open, rotate, scan, readers |
| `RecordLog` (`record_log.rs`) | active segment, its size, next txid, recovery report, poison flag; the files | `open`, `append`, `append_record`, `fsync`, `rotate`, `scan`, `close` | holds `DirLock`; writes what readers read |
| Recovery (`scan_segment`, `scan_all`) | none | longest valid prefix of the last segment, strictness before it | used by `open` and `scan` |
| `RecordLogReader`, `RecordIter` (`record_log_reader.rs`, `record_log.rs`) | snapshot of ids, one loaded segment, cursor, report | `open`, `scan_iter`, `next`, `recovery_report` | reads files that a writer of another process appends to; no lock |
| `DataWal` (`datawal.rs`) | keydir (key to `RecordRef`), descriptor pool | `open`, `get`, `put`, `delete`, `fsync`, `items`, `compact_to`, `export_jsonl` | owns a `RecordLog`; `get` reads files through `FdPool`; `compact_to` drives a second `RecordLog` |
| `FdPool` (`fd_pool.rs`) | LRU of read-only descriptors | `read_at` | used by `get` |
| `DirLock` (`lock.rs`) | flock on `<dir>/.lock` | `acquire`, drop | contended by processes |
| Command line (`datawal-cli`) | none | scan, get, report, verify, dump, export, compact, check | opens stores like a writer does; export and compact write an artefact |
| Power-loss harness (`examples/power_loss_*.rs`) | loop counter, oracle file | the workload's put/delete, fsync, oracle line; the validator's replay and comparison | two processes that share a store and a file, with a fault in between |
| Soak driver (`examples/soak.rs`) | expected map | puts, deletes, compact and swap | calls `compact_to`, replaces the store by its copy |

What is hard here, and hard to test: a crash or power loss between any two
system calls; a write, sync or directory operation that fails after it has done
half its work; a handle that goes on after damage; a reader that looks at a
file while it is written; two implementations of recovery that must agree;
numbers at their limits. `PROJECT.json` lists these hazards at their lines with
the properties that would catch them.

What makes each part correct: the log returns every fsynced record for ever and
can always be opened; a reader sees a prefix of the log, and all of what was
there when it opened; the keydir is the last-write-wins replay of the log; a
compacted copy is equal to its source, and replacing the source by it never
leaves less than either; a command's exit code and output describe the store as
it is, and leave it as it was; the harness's oracle claims nothing that is not
durable; the lock has one holder.

## 2. Modules

```
Wire <- Segments <- RecordLog <- RecordLogProofs
           ^            ^------- LogRefinement --INSTANCE--> AbstractLog
           |            ^------- Reader
           |            ^------- Compaction
           |            ^------- DataWal <- Cli, PowerLossHarness
           +-- Keydir <-- DataWal, Compaction
LogRefinement, RecordLogProofs <- LogOrderProofs
Reader,  LogOrderProofs <- ReaderProofs
DataWal, LogOrderProofs <- DataWalProofs
Cli,     DataWalProofs  <- CliProofs
PowerLossHarness, DataWalProofs <- HarnessProofs
Compaction, RecordLogProofs <- CompactionProofs
FdPool, DirLock <- Resources <- ResourceProofs
```

An arrow points to the module that is extended. `MC*` modules give constants
their values for TLC.

**Wire** models a segment file as the sequence of the chunks that `write_all`
put at its end. A chunk is a frame: whole, cut short, or damaged after its
header, or (with `ZeroTails`) zeroed by power loss; it has an offset, a length
and the record. `DecodeNext` is
`decode_next`, and says what decoding a cut frame together with the bytes that
happen to follow it gives: a cut inside the header may splice to a header that
is refused (`StructuralCuts`) or to one that passes and then fails its checksum.
CRC collisions are ignored.

**Segments** is discovery and recovery as functions of a directory:
`ScanOk` (scan_all returns Ok), `ScanReturns` (it returns this record),
`TailReport`, `LogicalEnd`, `NextTxid`.

**RecordLog** is the state machine. A call that makes several system calls is
several steps:

| Call | Steps |
|---|---|
| `open` | `OpenCreate`, `OpenCreated` or `OpenExisting`; `OpenRefused`, `OpenFails` |
| `append_record` | `AppendBegin` (part of the frame is in the file), `AppendFinish` (the rest, both overflow checks, the acknowledgement); `AppendError` |
| `fsync` | `FsyncBegin` (sync_all), `FsyncFinish` (fsync_dir); `SyncAllError`, `DirectoryError` |
| `rotate` | `RotateBegin`, `RotateCreate`, `RotateSyncDir`, `RotateFinish`; the same errors and `RotateListError` |
| `scan`, `close` | `Scan`, `Close` |
| environment | `Crash` (the process), `PowerLoss` (the machine) |

The disk is modelled in two layers: `files` is what the page cache shows, and
`synced`, `entries` say which leading chunks and which directory entries are on
disk. Power loss keeps these, and of the rest an arbitrary prefix, possibly
with its last frame cut, corrupted or, with `ZeroTails`, replaced by zeros. Assumptions about the platform: directory
entries become durable in the order they were made; one file at a time keeps
unsynced data; with `DropsDirtyPages` a failed sync loses pages for good while
the page cache goes on showing them. `CallerChecksReport` says whether callers
write through a handle whose recovery report shows a discarded tail. The code
lets them. `pending` and `durable` are history: the records acknowledged
by append, and those acknowledged by fsync or rotate. There is one handle at a
time; **DirLock** shows why.

**AbstractLog** says what all this promises in four actions over a sequence:
append at the end, acknowledge, let go of the handle, lose an unacknowledged end
to power failure. **LogRefinement** maps `RecordLog` to it: the abstract log is
the data of the replayed frames in the order of their txids, the acknowledged
part is given by the highest txid in `durable`. Segments, frames, handles, torn
tails and recovery disappear; a process crash must map to a step that loses
nothing, and every recovery to a stutter.

**Reader** adds a lock-free `RecordLogReader` and its `RecordIter` to the log;
each file load and each decoded frame is a step, so a writer acts in between;
listing the segments and loading one may fail (`ReaderOpenFails`, `LoadFails`).
`RecordLog::scan_iter` is the special case in which the writer is still.

**Keydir** is the meaning of replay for keys; **DataWal** adds the keydir, `put`,
`delete`, `get` and the rebuild at open; plain `RecordLog` handles use the same
directory at other times, which is how a store comes to have several segments.
`get` is an operator (`Get`), since it changes only the descriptor pool, which
is **FdPool**.

**Compaction** drives a `RecordLog` as `compact_to` does, `CompactionStats`
included, and goes on to the swap of `soak.rs`: remove the source, rename the
target, reopen. `Intrude` is another process that uses the target between the
check that it is empty and its open; the check and the lock may also fail
(`CompactNotLocked`). Nothing in the code fsyncs the parent
directory, so `place` says how far the changes in it have got and `placeOnDisk`
how much of that is durable; power loss goes back to any point in between, and
may take the target's own entry with all that was fsynced behind it
(`TargetLost`): a call that had returned Ok has still done so
(`succeeded`), and the run LostDirectory is about that.

**Cli** is one command process at a time over a `DataWal` store, between
commands used by writers through every action of `DataWal`. A command is
several steps: start (with the checks before the store is touched), open, one
step per segment walked or key read, the artefact, exit. `Decay` damages a frame
at any time, also while a command runs; `Foreign` makes a file at its output
path or in its target directory. `compact_to` is two steps here, as far as others
can interfere: it finds the target empty (`CheckTarget`), and opens and fills it
(`CompactTo`); what was put there in between makes it fail or leaves the copy
`Mixed` with that. Printed output is the sequence of records
or the values; the two renderings of it are left out. `write_atomic` is external
and replaces a file in one step.

**PowerLossHarness** is the workload and the validator. The workload's operation
is a function of its loop counter (`OpOf`), as in the code. An oracle line is
first in the file in part (`LineBegin`), then synced (`LineFinish`). A run can be
killed or lose power between any two steps, fail with an I/O error, be followed
by the validator and by another run over the same store, whose oracle starts
anew.

**FdPool** and **DirLock** are what an open store holds besides its files.
DirLock keeps the name `.lock` and the inodes apart, because the lock is on
the inode. **Resources** puts them together: whoever has the lock reads through a
pool of its own, which goes with the store or with its process.

Definitions marked `Mutant of X` are deliberate bugs, used in place of X to see
that a property notices (`PROJECT.json`, `mutants`).

## 3. What is checked

Frames have 5 or 6 bytes and a header of 3 in the instances, so that a frame can
be cut within the header (two ways) and after it.

| Run | Bounds | Shows |
|---|---|---|
| Log | 2 record sizes, 3 appends, 3 faults, 3 segments, zeroed tails | Callers who heed the report: the directory opens unless its last frame is zeros, nothing fsynced is lost, acknowledged records can be scanned, references are exact, a usable handle agrees with the files, txids are 1, 2, 3..., nothing on disk is overwritten, a poisoned handle writes nothing, a usable handle comes back after failures; and the log implements `AbstractLog` |
| Reader | 3 appends, 2 faults, 2 segments, any caller, zeroed tails | A reader fails only on a log that open refuses, never because of what a writer is in the middle of; it sees a prefix of the log and all that was there when it opened; `RecordIter` agrees with `scan_all`, on damaged logs and in its errors too. Of the log under callers who ignore the report: what handles with a clean report fsynced is never lost, whatever other handles do later; the inductive invariant of the proofs |
| DataWal | 3 appends, 2 faults, 2 segments | get returns the last write; the live keydir is the one a reopen rebuilds; fsynced puts and deletes hold |
| Compaction | every store of up to 3 keys and 2 values, 5 appends, 3 faults, dropped pages | As long as its directory is there, a finished copy has every live value of the source and nothing else but what an intruder put there; an interrupted one is a prefix and opens; the statistics describe the target; from the removal of the source on, the target has all its data, except after an intruder's torn tail |
| Cli | 2 keys, one of them deleted, 2 appends, 2 faults, 2 segments, limits 0, 1 and none | Of the four commands that judge a store, those that end with 0 or 2 agree; verify's 0 means that it saw every frame intact; scan and dump print what was selected; get and check report no damaged or stale value; an export or compaction that ends with 0 is complete, if nobody else used the target of the compaction; an interrupted export leaves nothing; the store is left alone |
| Harness | 4 operations on 2 keys, every third a delete, 3 workload runs, 8 appends, 3 faults, txid limit 5, size limit 37, zeroed tails, `--sample` 0 and 5 | The store is what the oracle says or one operation ahead; after a clean exit the validator accepts; each verdict is explained; the types, with txids that wrap and sizes that overflow |
| Resources | 3 processes; 5 segments, capacity 0 to 3, 7 reads | Mutual exclusion, the pid in the sentinel, no stale lock; the pool is an LRU for every capacity but 0 |

The bounds are enough for the interesting cases: two faults give a torn tail and
a second crash during or after its recovery; three appends put records before,
in and behind a tear; two segments give one that is sealed. Bounds
(`MaxAppends`, `MaxFaults`, `MaxSegs`, `MaxCalls`, `MaxRuns`) are in the guards.
Five appends let `compact_to` of two keys be repeated once from the start and that
of three be interrupted and begun again. In Harness a whole run is four
appends; the second can meet the txid limit, and the third then starts again at 1
and goes on appending until its frames no longer fit the segment. The real workload has 4096 keys and
deletes at every 23rd operation, which changes only how soon a key is
overwritten and deleted. Compaction and Harness may stop when their bounds are
used up, and do not check for deadlock.

Fairness (`FairSpec`, run Log): a call under way returns and a caller
without a handle opens one (`WF(Progress)`), and the holder of a poisoned handle
drops it (`WF(poisoned /\ Close)`), which is what the error text tells it to do.
No fairness is assumed of appends, syncs or scans.

### Disagreements between the code and its documentation

Five are runs that TLC ends with a counterexample; `PROJECT.json` quotes the
statements that are contradicted.

- **LostAppends, WrongValue**: one cause. `open` neither
  truncates nor skips a torn tail, and the file is opened with O_APPEND. Records
  appended afterwards lie behind bytes that no scan gets past, so they are lost
  though fsynced; a cut header can turn into a structural error, or rotate can
  seal the damage, so that open refuses the directory (`Openable` fails under
  LostAppends' constants too); offsets are counted from
  the logical end, so the returned `RecordRef`s are wrong, and `get`, which does
  not compare the key, can return another key's value. All of it needs a caller
  that writes through a handle whose report shows `tail_truncated`; runs Log and
  DataWal and the theorems show that callers who do not are safe.
- **DroppedPages**: after a failed sync_all, reopening reads the page cache and
  cannot see what the disk lost.
- **VerifyCode**: verify ends with 1, not 3, over a CRC failure in a sealed segment,
  because open refuses the log before the walk. The passing run says nothing of
  error codes: `HealthAgrees` is about 0 and 2.
- **LostDirectory**: `open` makes the log's directory and nothing fsyncs the one
  above it, so that a copy that `compact_to` has fsynced can be gone after power
  loss. `RecordLog` and the modules over it assume that the directory of the log is
  durable.

Smaller ones follow from the same definitions. They are in the model; a property
that stops short of one says so in its comment:

- After txid `u64::MAX` a reopened log goes on with 1 (`NextTxid`), where
  `docs/canon.md` says "monotonic from 1"; after one more append a reopening
  starts at 1 again, and `HandleInSync` and `TxidsContiguous` are no longer true.
  They are checked and proved below the limit.
- Segment 100000000 is written and never listed (`ListSegmentIds`): records
  fsynced there are lost. `MaxListedId` below `MaxSegs` gives the counterexample
  to `FsyncedSurvives`; the runs stay below.
- A reader returns records that were appended after it opened, since only the
  ids are snapshotted; `formal/README.md` says that it never yields beyond its
  snapshot.
- A log whose last frame power loss has replaced by zeros is refused
  (`ZeroedTail`), where the repository's README says that a truncated tail is
  not fatal; nothing fsynced is lost, but it takes somebody to cut the file.
- `compact_to` succeeds in a directory that was filled after it had looked:
  behind a store that another process left it appends its copy, behind a torn
  tail the copy cannot be read (`Intrude`). `CompactedEqualsSource`,
  `SwapKeepsData` and `ArtefactComplete` leave that tail out by name.
- A command in a directory without segments creates one (`Create`), where
  `commands.rs:6` says "never write to the source store".
- export replaces a file that appeared after its check (`Foreign`, `Export`),
  where the comment at `commands.rs:380` expects `export_jsonl` to fail.
  `ExportAllOrNothing` is about part of a file, not about whose it was.
- `--limit 0` prints one record, where the help says "Stop after emitting this many
  records"; `PrintsSelection` says how many for the other limits. dump, get, export
  and compact end with 0 over a discarded tail.
- The validator rejects a store that is right when the workload was killed
  between an append and its oracle line; `power_loss_validate.rs:33` calls the
  extra key a bug of recovery. It accepts a store that lacks live keys of the
  oracle, where lines 24 to 26 require them. With `--sample 0` it accepts wrong
  values; `VerdictExplained` says what acceptance means for a sample above 0. A line
  that does not parse gives code 1, where the header says 2 for
  an unreadable oracle. (The script runs the validator only after a clean exit,
  where `AcceptsCleanRun` holds.)
- A descriptor pool of capacity 0 keeps the last descriptor and finds it again,
  where `fd_pool.rs:19` says "open on every call, never cache";
  `PoolHoldsMostRecent` is about the other capacities.

## 4. What is proved

| Theorem | Says | Assumes |
|---|---|---|
| `TypeCorrect` | `Spec => []TypeOK` | nothing |
| `PoisonedStops` | `Spec => PoisonedWritesNothing` | nothing |
| `LogInvariant` | `Spec => []LogInv` | `Platform` |
| `FsyncContract` | `Spec => []CleanFsyncedSurvives` | `Platform` |
| `LogIsAppendOnly` | `Spec => AppendOnly` | `Platform` |
| `AlwaysOpens` | `Spec => []Openable` | `Platform`, `CallerChecksReport` |
| `AlwaysOpensWithoutZeros` | `Spec => []ScanOk(files)` | `Platform`, `CallerChecksReport`, `~ZeroTails` |
| `FsyncContractForAll` | `Spec => []FsyncedSurvives` | `Platform`, `CallerChecksReport` |
| `AppendContract` | `Spec => []AppendedRecoverable` | `Platform`, `CallerChecksReport` |
| `RefsContract` | `Spec => []RefsAccurate` | `Platform`, `CallerChecksReport` |
| `HandleStaysInSync` | `Spec => []HandleInSync` | `Disciplined` |
| `TxidsStayContiguous` | `Spec => []TxidsContiguous` | `Disciplined` |
| `LogRefinesAbstractLog` | `Spec => ImplementsAbstractLog` | `Disciplined` |
| `StoreTypeCorrect` | `DataWalSpec => []DataWalTypeOK` | nothing |
| `GetContract` | `DataWalSpec => []GetReturnsLatest` | `Platform`, `CallerChecksReport` |
| `FsyncedValuesStay` | `DataWalSpec => []KvReflectsDurable` | `Disciplined` |
| `ReopenContract` | `DataWalSpec => []ReopenAgrees` | `Disciplined`, `RoomForAll` |
| `ReaderTypeCorrect` | `ReaderSpec => []ReaderTypeOK` | nothing |
| `IterIsScan` | `ReaderSpec => []IterMatchesScan` | nothing |
| `ReaderFailsOnlyIfRefused` | `ReaderSpec => []ReaderNeverFails` | `Platform` |
| `ReaderMissesNothing` | `ReaderSpec => []ReaderCoversOpening` | `Platform` |
| `ReaderReturnsPrefix` | `ReaderSpec => []ReaderInOrder` | `Disciplined` |
| `ExportIsAtomic` | `CliSpec => ExportAllOrNothing` | nothing |
| `ArtefactsComplete` | `CliSpec => []ArtefactComplete` | nothing |
| `AnswersStayLive` | `CliSpec => []AnswersAreLive` | nothing |
| `VerifySeesAll` | `CliSpec => []VerifySawAll` | nothing |
| `HealthIsAgreed` | `CliSpec => []HealthAgrees` | nothing |
| `SelectionIsPrinted` | `CliSpec => []PrintsSelection` | nothing |
| `CompactionIsFaithful` | `CompactSpec => []CompactedEqualsSource` | nothing |
| `SwapIsSafe` | `CompactSpec => []SwapKeepsData` | nothing |
| `StatsAreExact` | `CompactSpec => []StatsDescribeTarget` | nothing |
| `InterruptedCopyIsPrefix` | `CompactSpec => []LeftoverIsPrefix` | `~ZeroTails` |
| `OracleIsDurable` | `HarnessSpec => []StoreMatchesOracle` | `Platform` |
| `CleanRunsAreAccepted` | `HarnessSpec => []AcceptsCleanRun` | `Platform` |
| `VerdictsAreExplained` | `HarnessSpec => []VerdictExplained` | `Platform` |
| `PoolIsLru` | `ResourceSpec => []PoolHoldsMostRecent` | nothing |
| `LockExcludes` | `ResourceSpec => []Exclusive` | nothing |
| `LockNamesHolder` | `ResourceSpec => []HolderNamed` | nothing |
| `LockNeverStale` | `ResourceSpec => []NoStaleLock` | nothing |

"Nothing" means nothing beyond the `ASSUME`s on the types of the constants. The
number of records, segments, faults, processes, keys and capacities, the record
sizes, the cuts and the way cut headers decode are arbitrary, and so are the limits
and starting points of scan and the length and keys of the workload. The
inductive invariants named below stand at the head of the proofs modules, except
`LogInv`, which run Reader checks; TLC checked each one before it was proved.

### The assumptions

`Platform` is `~DropsDirtyPages /\ MaxSegs <= MaxListedId`: the run DroppedPages
and the nine-digit ids above show that both halves are needed.
`CallerChecksReport` says that callers do not write through a handle whose report
shows a discarded tail; LostAppends and WrongValue show that it is needed.
`Disciplined` adds `MaxAppends < MaxTxid`, fewer records than the 2^64 - 1 txids:
past them next_txid starts again at 1, and neither `HandleInSync` nor
`TxidsContiguous` is true. `RoomForAll` says that the records fit the largest
size a segment may have: the code checks the size after it has written the frame,
so that a record whose append fails with this overflow is in the file but not in
the keydir, and `ReopenAgrees` does not hold of the poisoned handle.
`~ZeroTails` excludes disks that show zeros for data they lost, a frame of which
open refuses. `ReaderReturnsPrefix` is proved for writers who heed the report; run Reader checks
the same property on its instance for writers who do not.

### The argument

*Durability.* That a durable record is returned is not inductive: it must be
known why nothing before it in its file is damaged. `LogInv` says: a handle with
a clean report knows its segment exactly (`CleanHandleInv`), writes to the last
segment (`RotationInv`), an unfinished frame is not synced (`WritingInv`),
reported damage does not go away (`DamageInv`, so a handle cannot become clean by
scanning again), acknowledged records of clean handles are intact
(`PendingInv`), what fsync and rotate have synced stays synced (`SyncedInv`), so
a durable record lies in the synced part of a file with a durable entry behind
whole frames only (`DurableInv`). `ShapeInv` is the type invariant with what ties
the variables together. `SealedInv`, for callers who heed the report, adds that
all frames but the last of the last segment are whole, and gives `Openable`,
with its exception for a last frame of zeros. `AppendOnly` follows from `LogInv`
action by action: the only frame a step changes is the last one of the active
segment, which is cut and not synced.

*Order.* `TxidInv` says that the frames carry txids 1, 2, 3, ... in the order of
segments and positions (`TxidsOrdered`), without a gap (`TxidsDense`), that
next_txid follows the greatest of them in a handle that found no damage
(`NextTxidFollows`), and that the last record such a handle has acknowledged is
the last of the log (`PendingLast`). With `SealedInv` this gives
`TxidsContiguous` and `HandleInSync`.

*Refinement.* Given that order the abstract log is the sequence whose n-th
element is the data of the frame with txid n. Finishing a frame is `Append`, the
acknowledgement of fsync or rotate moves the mark to the greatest txid, a crash
ends the handle, power loss cuts the sequence behind the mark; every other step
leaves both as they are.

*Store.* `KeydirInv` says that each keydir entry names a frame that scans return
with the key's value, which is what `get` reads, and that the keydir of a handle
that is not poisoned is the one a reopen would build; `SizeInv` bounds the end of
every frame by the number of appends, which excludes the overflow that parts the
two. `ReflectsInv` says that the value of a key comes from a frame whose txid is
not below those of its fsynced records.

*Reader.* `IterInv` says that the iterator is at a certain place of the scan of
the bytes it has read (`PlaceInv`), that it has returned all before it and
nothing else (`TakenInv`) and counted that (`CountInv`); at the end this is
`IterMatchesScan`, with no assumption about the writer. `BesideInv` ties the bytes
read to the files of now: the records that were there at opening still are, and
bytes that a scan would refuse were read only from a directory that open refuses,
which lasts (lemma `BrokenStays`). `SnapshotInv` says that the snapshot is the
first segments of the log and that all of them but the last were complete, so that
the order of the files is the order of what was read.

*Commands.* `Decay` damages synced frames, which `LogInv` excludes, so the proofs
about the commands rest on `ShapeInv` alone, which decay keeps (`DecayKeepsShape`).
`AnswersInv` says that whatever decays after the open, a keydir entry finds the
value that was live then or nothing, since no two frames start at the same byte
and a decayed frame does not decode (`DecayedAnswers`); and that the rows read so
far are such values. `WalkInv` says that the walk goes up the segments and that
verify has counted every frame of those behind it unless it has seen a tail;
`HealthInv`, that what the open reported is still so as long as nothing decays.
`StageInv` says which commands each stage belongs to. Lemma `HealthIs` then shows
the three ways of judging a log that opens to be the same: every frame decodes,
no segment ends in a discarded tail, the report shows none. The four parts are
`CliInv`. `PrintInv` says of scan and dump that as long as nothing decays they have
printed, in order, exactly what is selected of the segments behind the walk, and
have not reached the limit. What is selected of a segment is the end of what a scan
returns of it, because offsets grow (`WantedIs`), so that what is printed of it is an
interval (`PrintedIs`) that goes behind all that was printed (`PrintsMore`); the
count of `PrintsSelection` follows from a bijection of positions and records
(`ItemsCount`).

*Compaction.* Other processes and the swap change or remove the target's files
otherwise than the log does, so that of the log's invariants only `ShapeInv`
carries over; and only three steps of a call write to the one segment of the
target, which makes a direct account possible. `CallInv` ties the place of the
call to that of its handle and to what it found in the directory; `DroppedInv`
says that pages given up by the kernel belong to a target given up by the call,
so that no platform assumption is needed. `CopyInv` says that the segment, unless
another process was there, is at all times a beginning of the copy (`Copied`:
the records of the first live keys in key order) of which only the last frame may
be cut, and is what power loss cannot break. `LoopInv` says of the loop that the
keys behind it have their records in place, with nothing of the same key after
them (`Placed`), that the others have none, and that the counts are those of the
file; `CompleteInv`, that a call which returned Ok has left all records placed,
whole, synced and behind a durable entry, for as long as the target directory is
there, and that the source is removed only then. That the number of records is that of the keys follows from a bijection of
positions and keys. The parts are `CompactInv`.

*Harness.* Callers ignore the report here, and txids may overflow, so that only
`LogInv` of the log's invariants is there to be used; the rest is an account of what
this one caller does. `StepInv` ties the place of the workload to the state of its
handle; `OracleInv` says that the oracle's lines are the first operations in order
and that only the last can be cut short. `RunInv` is the core: as long as the run
opened its store without a discarded tail (`intact`), its operations lie
one after the other behind the n frames that it found (`RunAt`), and those of the
oracle's lines are synced in a file with a durable entry (`RunOnDisk`), which power
loss cannot undo. `PairedOps` says that each delete was written right behind a put
of another key, as the workload's keys have it, so that a log with frames has a live
key, and a run that found no key found no frame. `ComparingInv` says that the validator compares the keydir of the files of
now. Lemmas `ReplayAppend` and `ReplayTwice` say what replaying one more operation,
and one run behind another, does; they hold because `Replay` is defined by the last
operation on each key and not as a fold. `HarnessConstants` and `OpsAssumption`
say what the code has: at least two keys, a delete at most at every second
operation. Different operations may have the same value, as with a short
`--value-len`. `StoreMatchesOracle` is about runs that found no discarded tail:
one that did appends behind it, with the consequences of LostAppends.
`VerdictExplained` is about stores that began empty and a `--sample` above 0.

*Pool and lock.* `FdPoolInv` adds to the property that the history of uses, kept
with each segment at its last use, has no repeats, so that moving a segment to
the back of both leaves the pool its end; a new holder starts with both empty.
`LockInv` says that there is at most one inode, because the sentinel is never
removed, and that holders own its lock.

### Only model-checked

- `ComesBack`: liveness under fairness is out of the prover's reach.
- `StoreUntouched`: a check of the commands' steps, which leave the disk alone one by
  one.

## 5. Not modelled

- CRC collisions; frames whose bytes happen to look like other frames.
- Rendering (`output.rs`, `bytes_render.rs`) and argument parsing: pure
  functions from what Cli keeps to text, and the clap library.
- The rest of the soak driver (fixtures, counters, CSV), the demos, benchmarks,
  fuzz targets and fixture generators: straight-line callers of the library
  whose sequences of calls are among those the modules allow.
- The validator's and the workload's argument parsing, the bits of the random
  generator (`ValueFor` is any function), log messages. Keys are assumed to
  be long enough to differ, which a `--key-len` of a few bytes does not give.
- The entry of the log's own directory in the one above it, but for the target
  of `compact_to` (`TargetLost`).
- Processes that do not honour the lock.
- Memory limits; read errors beyond `OpenFails`, `ReaderOpenFails`, `LoadFails`,
  `WalkError` and `ReadKeyError`.
- Accessors (`len`, `contains_key`, `dir`, ...) and the test hook that poisons a
  handle.

Every operation of the library and of the command line that changes state is an
action of some module.

## 6. Plan

Done: all modules of section 2; the proofs of section 4, which state every
invariant and action property that the passing runs check but `StoreUntouched`.
Liveness (`ComesBack`) stays with TLC.
