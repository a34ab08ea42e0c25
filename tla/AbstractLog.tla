----------------------------- MODULE AbstractLog -----------------------------
(***************************************************************************)
(* What a RecordLog promises those who use it, without segments, frames,   *)
(* system calls or recovery: a sequence of records that only grows at its  *)
(* end, of which power loss can take the end away, but never a record that *)
(* an fsync or a rotate has acknowledged.  A process that merely dies      *)
(* takes nothing away.                                                     *)
(***************************************************************************)
EXTENDS Integers, Sequences

CONSTANT Records

VARIABLES
    log,    \* the records, in the order of a scan
    acked,  \* an fsync has acknowledged the first acked of them
    fresh   \* the handle has appended since its last fsync

avars == <<log, acked, fresh>>

Init ==
    /\ log = <<>>
    /\ acked = 0
    /\ fresh = FALSE

\* A record gets into the log; the caller is told, or not if append fails
\* after the write.
Append1 ==
    /\ \E d \in Records : log' = Append(log, d)
    /\ fresh' \in {fresh, TRUE}
    /\ UNCHANGED acked

(***************************************************************************)
(* fsync, or rotate, returns Ok.  If the handle has appended, all there is *)
(* is acknowledged with it, what earlier handles left behind included.     *)
(***************************************************************************)
Sync ==
    /\ fresh
    /\ acked' = Len(log)
    /\ fresh' = FALSE
    /\ UNCHANGED log

\* The handle is closed or dropped, or its process dies.
HandleGone ==
    /\ fresh' = FALSE
    /\ UNCHANGED <<log, acked>>

PowerFails ==
    /\ \E n \in acked .. Len(log) : log' = SubSeq(log, 1, n)
    /\ fresh' = FALSE
    /\ UNCHANGED acked

Next == Append1 \/ Sync \/ HandleGone \/ PowerFails

Spec == Init /\ [][Next]_avars
=============================================================================
