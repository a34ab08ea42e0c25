------------------------------- MODULE Reader -------------------------------
(***************************************************************************)
(* RecordLogReader and its RecordIter beside a live writer: the reader     *)
(* takes no lock, snapshots the segment ids when it opens, and reads each  *)
(* segment file whole when the iteration reaches it, while the RecordLog   *)
(* of another process appends, rotates, fails, crashes and reopens.        *)
(*                                                                         *)
(* RecordLog::scan_iter makes the same RecordIter; its borrow of the log   *)
(* keeps the writer still meanwhile, which is one of the interleavings.    *)
(***************************************************************************)
EXTENDS RecordLog

VARIABLES
    rpc,        \* "none", "open", "iterating", "done" (exhausted), "failed"
    snapshot,   \* snapshot_ids
    left,       \* the ids from cur_idx on
    loaded,     \* cur_loaded
    buf,        \* cur_buf: the chunks of the current segment
    pos,        \* cur_offset, as the number of chunks decoded
    yielded,    \* the records next() has returned, as <<segment, index>>
    iterReport, \* report
    damage,     \* the error next() returned was a decode error, not I/O
    atOpen,     \* history: the records a scan would have returned when the
                \* reader opened, as <<segment, index>>
    read        \* history: segment id -> the chunks that were loaded

iterator == <<left, loaded, buf, pos, yielded, iterReport, damage, read>>
reader == <<rpc, snapshot, atOpen, iterator>>
rvars == <<vars, reader>>

IterReport == [files_scanned : Nat, records_replayed : Nat,
               last_txid_seen : Nat, tail_truncated : Nat,
               tail_bytes_discarded : Nat]

NoRecords == [files_scanned |-> 0, records_replayed |-> 0, last_txid_seen |-> 0,
              tail_truncated |-> 0, tail_bytes_discarded |-> 0]

\* The reader's variables keep to their types.
ReaderTypeOK ==
    /\ rpc \in {"none", "open", "iterating", "done", "failed"}
    /\ snapshot \subseteq Ids
    /\ left \subseteq snapshot
    /\ loaded \in BOOLEAN
    /\ buf \in Seq(Chunk)
    /\ pos \in Nat
    /\ loaded => pos <= Len(buf)
    /\ \A n \in DOMAIN yielded : yielded[n][1] \in DOMAIN read
    /\ iterReport \in IterReport
    /\ damage \in BOOLEAN
    /\ DOMAIN read \subseteq snapshot

FreshIterator(ids) ==
    /\ left' = ids
    /\ loaded' = FALSE
    /\ buf' = <<>>
    /\ pos' = 0
    /\ yielded' = <<>>
    /\ iterReport' = NoRecords
    /\ damage' = FALSE
    /\ read' = <<>>

NoReader ==
    /\ rpc' = "none"
    /\ snapshot' = {}
    /\ atOpen' = {}
    /\ FreshIterator({})

ReaderInit ==
    /\ Init
    /\ rpc = "none"
    /\ snapshot = {}
    /\ left = {}
    /\ loaded = FALSE
    /\ buf = <<>>
    /\ pos = 0
    /\ yielded = <<>>
    /\ iterReport = NoRecords
    /\ damage = FALSE
    /\ atOpen = {}
    /\ read = <<>>

------------------------------------------------------------------------------
\* RecordLogReader::open: list_segment_ids, and no lock.
ReaderOpen ==
    /\ rpc = "none"
    /\ rpc' = "open"
    /\ snapshot' = ListSegmentIds(files)
    /\ atOpen' = UNION {{id} \X Replayed(files[id]) : id \in ListSegmentIds(files)}
    /\ UNCHANGED <<vars, iterator>>

\* The directory cannot be listed, or is not there: no reader is made.
ReaderOpenFails ==
    /\ rpc = "none"
    /\ Fault
    /\ UNCHANGED <<disk, pc, handle, history, appends, reader>>

\* RecordLogReader::scan_iter: any number of times, over the same snapshot.
ScanIter ==
    /\ rpc \in {"open", "done", "failed"}
    /\ rpc' = "iterating"
    /\ FreshIterator(snapshot)
    /\ UNCHANGED <<vars, snapshot, atOpen>>

\* Mutant of Cur: the ids are not in ascending order.
CurDescending == Max(left)

\* ids[cur_idx]
Cur == Min(left)

\* Mutant of IsLast: what is active now counts, not what was snapshotted.
IsLastOnDisk == Cur = ActiveSegmentId(files)

\* cur_idx + 1 == ids.len()
IsLast == left = {Cur}

\* Mutant of Load: cur_offset is not reset.
LoadKeepsOffset ==
    /\ rpc = "iterating"
    /\ left # {} /\ ~loaded
    /\ buf' = files[Cur]
    /\ loaded' = TRUE
    /\ iterReport' = [iterReport EXCEPT !.files_scanned = @ + 1]
    /\ read' = [id \in DOMAIN read \cup {Cur} |-> IF id = Cur THEN files[Cur] ELSE read[id]]
    /\ UNCHANGED <<vars, rpc, snapshot, atOpen, left, pos, yielded, damage>>

\* next, ensure_loaded: the whole file, as the page cache has it now.
Load ==
    /\ rpc = "iterating"
    /\ left # {} /\ ~loaded
    /\ buf' = files[Cur]
    /\ pos' = 0
    /\ loaded' = TRUE
    /\ iterReport' = [iterReport EXCEPT !.files_scanned = @ + 1]
    /\ read' = [id \in DOMAIN read \cup {Cur} |-> IF id = Cur THEN files[Cur] ELSE read[id]]
    /\ UNCHANGED <<vars, rpc, snapshot, atOpen, left, yielded, damage>>

\* next, ensure_loaded: File::open or read_to_end failed.
LoadFails ==
    /\ rpc = "iterating"
    /\ left # {} /\ ~loaded
    /\ Fault
    /\ rpc' = "failed"
    /\ UNCHANGED <<disk, pc, handle, history, appends, snapshot, atOpen, iterator>>

Decoding == rpc = "iterating" /\ loaded

\* try_next_in_segment decoded a frame, and next() returns its record.
Yield ==
    /\ Decoding
    /\ pos < Len(buf)
    /\ DecodeNext(buf, pos + 1) = "Ok"
    /\ pos' = pos + 1
    /\ yielded' = Append(yielded, <<Cur, pos + 1>>)
    /\ iterReport' = [iterReport EXCEPT
                         !.records_replayed = @ + 1,
                         !.last_txid_seen = Max({@, buf[pos + 1].txid})]
    /\ UNCHANGED <<vars, rpc, snapshot, atOpen, left, loaded, buf, damage, read>>

\* next: on to the following segment.
Advance ==
    /\ left' = left \ {Cur}
    /\ loaded' = FALSE
    /\ buf' = <<>>
    /\ UNCHANGED <<vars, rpc, snapshot, atOpen, pos, yielded, damage, read>>

\* try_next_in_segment is at the end of the file.
SegmentEnd ==
    /\ Decoding
    /\ pos = Len(buf)
    /\ Advance
    /\ UNCHANGED iterReport

\* Mutant of Tolerated: structural damage of the last segment passes too.
ToleratedStructural(outcome) == IsLast /\ outcome # "Ok"

\* The decode outcomes that end the last segment quietly.
Tolerated(outcome) == IsLast /\ outcome \in {"Truncated", "CrcMismatch"}

\* try_next_in_segment discards the tail of the last segment.
TailEnd ==
    /\ Decoding
    /\ pos < Len(buf)
    /\ Tolerated(DecodeNext(buf, pos + 1))
    /\ iterReport' = [iterReport EXCEPT
                         !.tail_truncated = @ + 1,
                         !.tail_bytes_discarded = @ + FileSize(buf) - buf[pos + 1].at]
    /\ Advance

\* try_next_in_segment fails: next() returns the error, then only None.
DecodeFails ==
    /\ Decoding
    /\ pos < Len(buf)
    /\ DecodeNext(buf, pos + 1) # "Ok"
    /\ ~Tolerated(DecodeNext(buf, pos + 1))
    /\ rpc' = "failed"
    /\ damage' = TRUE
    /\ UNCHANGED <<vars, snapshot, atOpen, left, loaded, buf, pos, yielded,
                   iterReport, read>>

\* next() returns None.
Exhausted ==
    /\ rpc = "iterating"
    /\ left = {}
    /\ rpc' = "done"
    /\ UNCHANGED <<vars, snapshot, atOpen, iterator>>

ReaderDrop ==
    /\ rpc # "none"
    /\ NoReader
    /\ UNCHANGED vars

ReaderNext ==
    \/ ReaderOpen
    \/ ReaderOpenFails
    \/ ScanIter
    \/ Load
    \/ LoadFails
    \/ Yield
    \/ SegmentEnd
    \/ TailEnd
    \/ DecodeFails
    \/ Exhausted
    \/ ReaderDrop
    \/ PowerLoss /\ NoReader
    \/ Running /\ UNCHANGED reader

ReaderSpec == ReaderInit /\ [][ReaderNext]_rvars

------------------------------------------------------------------------------
(* Properties *)

(***************************************************************************)
(* A writer at work never makes a reader fail: whatever the writer is in   *)
(* the middle of when a segment is loaded, the iterator finds damage only  *)
(* if the log as it is now is one that open itself refuses.                *)
(***************************************************************************)
ReaderNeverFails == damage => ~ScanOk(files)

(***************************************************************************)
(* What the reader returns is a prefix of the log: txids 1, 2, 3 ..., none *)
(* missing or twice, though the segments were read at different times.     *)
(***************************************************************************)
ReaderInOrder ==
    \A n \in DOMAIN yielded : read[yielded[n][1]][yielded[n][2]].txid = n

\* The records next() has returned.
Yielded == {yielded[n] : n \in DOMAIN yielded}

(***************************************************************************)
(* An iteration that ends has returned every record that a scan would have *)
(* returned when the reader opened.                                        *)
(***************************************************************************)
ReaderCoversOpening == rpc = "done" => atOpen \subseteq Yielded

(***************************************************************************)
(* RecordIter and scan_all, two implementations of one recovery, agree on  *)
(* the bytes that were read: on success or failure, the records and their  *)
(* order, and the report.                                                  *)
(***************************************************************************)
IterMatchesScan ==
    /\ rpc = "done" =>
          LET tail == TailReport(read)
          IN  /\ ScanOk(read)
              /\ Yielded =
                    UNION {{id} \X Replayed(read[id]) : id \in snapshot}
              /\ \A m, n \in DOMAIN yielded : m < n =>
                    \/ yielded[m][1] < yielded[n][1]
                    \/ yielded[m][1] = yielded[n][1] /\ yielded[m][2] < yielded[n][2]
              /\ iterReport = [files_scanned |-> Cardinality(snapshot),
                               records_replayed |-> Len(yielded),
                               last_txid_seen |-> tail.last_txid_seen,
                               tail_truncated |-> tail.tail_truncated,
                               tail_bytes_discarded |-> tail.tail_bytes_discarded]
    /\ damage => \E id \in DOMAIN read : ~ScanSegmentOk(read[id], id = Max(snapshot))
=============================================================================
