---------------------------- MODULE LogRefinement ----------------------------
(***************************************************************************)
(* RecordLog implements AbstractLog.  The txids number the records of the  *)
(* log from 1 on, so the abstract log is what the replayed frames carry,   *)
(* by txid; no order of segments or frames enters the mapping, and none of *)
(* the handle's own counters.                                              *)
(***************************************************************************)
EXTENDS RecordLog

\* The data of the records with txid t that a scan of F returns.
DataOf(F, t) ==
    {F[p[1]][p[2]].data :
        p \in {q \in UNION {{id} \X Replayed(F[id]) : id \in ListSegmentIds(F)} :
                  F[q[1]][q[2]].txid = t}}

\* What a scan of F returns, by txid.
LogOf(F) == [t \in 1 .. LastTxidSeen(F) |-> CHOOSE d \in DataOf(F, t) : TRUE]

MappedLog == LogOf(files)

MappedAcked == Max({0} \cup {r.txid : r \in durable})

Abstract == INSTANCE AbstractLog WITH
    Records <- Data,
    log <- MappedLog,
    acked <- MappedAcked,
    fresh <- pending # {}

(***************************************************************************)
(* For callers who heed the report, opening, writing, syncing, rotating,   *)
(* failing, crashing and recovering look from outside like a sequence that *)
(* grows at its end and keeps what was acknowledged.                       *)
(***************************************************************************)
ImplementsAbstractLog == Abstract!Spec
=============================================================================
