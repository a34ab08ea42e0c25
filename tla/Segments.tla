------------------------------ MODULE Segments ------------------------------
(***************************************************************************)
(* Segment discovery (segment.rs) and recovery (scan_segment and scan_all  *)
(* of record_log.rs) as functions of a directory F, which maps the id of   *)
(* each segment file to its chunks.  There is no manifest: the log is what *)
(* these operators make of the files.                                      *)
(***************************************************************************)
EXTENDS Wire

CONSTANT MaxListedId   \* largest id whose name parse_segment_filename takes:
                       \* 99999999, the last one of eight digits

ASSUME SegmentsAssumption == MaxListedId \in Nat \ {0}

(***************************************************************************)
(* list_segment_ids.  segment_path pads to eight digits and writes longer  *)
(* ids in full; parse_segment_filename takes eight digits exactly, so such *)
(* files are not listed.                                                   *)
(***************************************************************************)
ListSegmentIds(F) == {id \in DOMAIN F : id <= MaxListedId}

ActiveSegmentId(F) == Max(ListSegmentIds(F))

\* next_segment_id; its u32 overflow needs a listed id of ten digits.
NextSegmentId(ids) == IF ids = {} THEN 1 ELSE Max(ids) + 1

\* The chunks scan_segment replays: every frame up to them decodes.
Replayed(s) == {i \in 1 .. Len(s) : \A j \in 1 .. i : DecodeNext(s, j) = "Ok"}

\* Mutant of ScanSegmentOk: the last segment gets no tolerance.
ScanSegmentOkStrict(s, isLast) == Replayed(s) = 1 .. Len(s)

(***************************************************************************)
(* scan_segment returns Ok: the frame at which it stops, if any, is a      *)
(* problem it tolerates, and only in the last segment.                     *)
(***************************************************************************)
ScanSegmentOk(s, isLast) ==
    \A i \in 1 .. Len(s) :
        (\A j \in 1 .. (i - 1) : DecodeNext(s, j) = "Ok")
          => \/ DecodeNext(s, i) = "Ok"
             \/ isLast /\ DecodeNext(s, i) \in {"Truncated", "CrcMismatch"}

\* The offset at which scan_segment stops: the end of the last valid frame.
LogicalEnd(s) ==
    IF \A i \in 1 .. Len(s) : DecodeNext(s, i) = "Ok"
    THEN FileSize(s)
    ELSE s[CHOOSE i \in 1 .. Len(s) :
              /\ DecodeNext(s, i) # "Ok"
              /\ \A j \in 1 .. (i - 1) : DecodeNext(s, j) = "Ok"].at

\* scan_all returns Ok: earlier segments are clean, the last one tolerable.
ScanOk(F) ==
    \A id \in ListSegmentIds(F) :
        ScanSegmentOk(F[id], id = ActiveSegmentId(F))

\* A successful scan_all returns the record of chunk i of segment id.
ScanReturns(F, id, i) == id \in ListSegmentIds(F) /\ i \in Replayed(F[id])

LastTxidSeen(F) ==
    Max({0} \cup UNION {{F[id][i].txid : i \in Replayed(F[id])} :
                           id \in ListSegmentIds(F)})

\* The part of the RecoveryReport that callers act on.
Report == [tail_truncated : {0, 1}, tail_bytes_discarded : Nat,
           last_txid_seen : Nat]

\* What scan_all returns for a directory without segments.
NoReport == [tail_truncated |-> 0, tail_bytes_discarded |-> 0,
             last_txid_seen |-> 0]

\* Mutant of TailReport: a discarded tail is not reported.
TailReportSilent(F) ==
    IF ListSegmentIds(F) = {} THEN NoReport
    ELSE [NoReport EXCEPT !.last_txid_seen = LastTxidSeen(F)]

TailReport(F) ==
    LET s == F[ActiveSegmentId(F)]
    IN  IF ListSegmentIds(F) = {} THEN NoReport
        ELSE [tail_truncated |-> IF LogicalEnd(s) = FileSize(s) THEN 0 ELSE 1,
              tail_bytes_discarded |-> FileSize(s) - LogicalEnd(s),
              last_txid_seen |-> LastTxidSeen(F)]

\* Mutants of NextTxid: the last txid is used again; it runs past u64::MAX.
NextTxidReused(last) == Max({1, last})
NextTxidUnwrapped(last) == last + 1

\* last_txid_seen.checked_add(1).unwrap_or(1)
NextTxid(last) == IF last = MaxTxid THEN 1 ELSE last + 1
=============================================================================
