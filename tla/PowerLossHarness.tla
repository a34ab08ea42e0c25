-------------------------- MODULE PowerLossHarness --------------------------
(***************************************************************************)
(* The power-loss harness of the examples: power_loss_workload drives a    *)
(* store and notes in an oracle file, on another file system, each         *)
(* operation it has seen fsynced; power_loss_validate opens the store      *)
(* after the fault and compares it with the oracle.                        *)
(*                                                                         *)
(* One program runs at a time.  Either can be killed and the power can     *)
(* fail between any two steps; the workload may be run again over what is  *)
(* there, and the validator at any time in between.                        *)
(***************************************************************************)
EXTENDS DataWal, SequencesExt

CONSTANTS
    Ops,            \* --ops, the operation budget
    DeleteEvery,    \* DELETE_EVERY
    Universe,       \* the number of keys that key_for returns
    ValueFor,       \* value_for: the value of each loop index
    Samples,        \* the values of the validator's --sample
    MaxRuns         \* bound: how often the workload is started

ASSUME HarnessConstants ==
    /\ Ops \in Nat
    /\ {DeleteEvery, Universe} \subseteq Nat \ {0, 1}
    /\ MaxRuns \in Nat \ {0}
    /\ 0 .. Universe - 1 \subseteq Keys
    /\ Samples \subseteq Nat
    /\ ValueFor \in [0 .. Ops -> Values]
    /\ {None, Failed} \cap Values = {}

VARIABLES
    step,       \* where the program that runs is, or "off"
    seq,        \* the workload's loop counter
    oracle,     \* the oracle file: a sequence of lines
    runs,       \* how often the workload was started
    clean,      \* the last workload to be started exited with code 0
    base,       \* history: the live keys that workload found
    intact,     \* history: its store opened without a discarded tail
    verdict,    \* what the validator said last, of this oracle and this store
    sampled     \* history: the --sample of its last comparison

harness == <<step, seq, oracle, runs, clean, base, intact, verdict, sampled>>
hvars == <<kvars, harness>>

HarnessInit ==
    /\ DataWalInit
    /\ step = "off"
    /\ seq = 0
    /\ oracle = <<>>
    /\ runs = 0
    /\ clean = FALSE
    /\ base = <<>>
    /\ intact = FALSE
    /\ verdict = "none"
    /\ sampled = 0

------------------------------------------------------------------------------
(* The workload *)

(***************************************************************************)
(* The operation of loop index n.  key_for multiplies by an odd number     *)
(* modulo the size of its universe, a permutation of it, so that a key     *)
(* comes back after Universe operations.  The keys are taken to be long    *)
(* enough to differ; nothing is assumed of the values.                     *)
(***************************************************************************)
OpOf(n) ==
    [type |-> IF n % DeleteEvery = DeleteEvery - 1 THEN "Delete" ELSE "Put",
     key |-> n % Universe,
     value |-> ValueFor[n]]

ASSUME OpsAssumption == \A n \in 0 .. Ops - 1 : OpOf(n) \in Data

\* The oracle is truncated before the store is opened.
WorkloadStart ==
    /\ step = "off"
    /\ runs < MaxRuns
    /\ runs' = runs + 1
    /\ seq' = 0
    /\ oracle' = <<>>
    /\ clean' = FALSE
    /\ verdict' = "none"
    /\ base' = <<>>
    /\ intact' = FALSE
    /\ step' = "opening"
    /\ UNCHANGED <<kvars, sampled>>

Opens == step \in {"opening", "inspecting", "reopening"}

\* File::create(1), in whichever program opens an empty directory.
OpenCreates ==
    /\ Opens
    /\ OpenCreate
    /\ UNCHANGED <<store, harness>>

WorkloadOpened ==
    /\ step = "opening"
    /\ DataWalOpen
    /\ wal'
    /\ base' = kv'
    /\ intact' = (report'.tail_truncated = 0)
    /\ step' = "loop"
    /\ UNCHANGED <<seq, oracle, runs, clean, verdict, sampled>>

\* put or delete.
WorkloadAppend(cut) ==
    /\ step = "loop"
    /\ seq < Ops
    /\ StoreAppend(OpOf(seq), cut)
    /\ step' = "appending"
    /\ UNCHANGED <<seq, oracle, runs, clean, base, intact, verdict, sampled>>

\* Mutant of WorkloadAppended: the line is written before the fsync.
WorkloadAppendedUnsynced ==
    /\ step = "appending"
    /\ StoreAppended
    /\ step' = "line"
    /\ UNCHANGED <<seq, oracle, runs, clean, base, intact, verdict, sampled>>

\* A record that is written may still be refused, by the overflow checks.
WorkloadAppended ==
    /\ step = "appending"
    /\ StoreAppended
    /\ step' = IF poisoned' THEN "failed" ELSE "appended"
    /\ UNCHANGED <<seq, oracle, runs, clean, base, intact, verdict, sampled>>

\* fsync of the operation, or the last one once either budget is used up.
WorkloadFsync ==
    /\ \/ step = "appended" /\ step' = "fsyncing"
       \/ step = "loop" /\ step' = "ending"
    /\ FsyncBegin
    /\ UNCHANGED <<store, seq, oracle, runs, clean, base, intact, verdict, sampled>>

WorkloadFsynced ==
    /\ \/ step = "fsyncing" /\ step' = "line"
       \/ step = "ending" /\ step' = "ended"
    /\ FsyncFinish
    /\ UNCHANGED <<store, seq, oracle, runs, clean, base, intact, verdict, sampled>>

\* write_oracle_line: the bytes are in the file, perhaps not all of them.
LineBegin ==
    /\ step = "line"
    /\ \E parses \in BOOLEAN :
          oracle' = Append(oracle, [op |-> OpOf(seq), parses |-> parses])
    /\ step' = "line begun"
    /\ UNCHANGED <<kvars, seq, runs, clean, base, intact, verdict, sampled>>

\* Mutant of LineFinish: the loop goes on before the line has been written.
LineFinishForgets ==
    /\ step = "line begun"
    /\ oracle' = Front(oracle)
    /\ seq' = seq + 1
    /\ step' = "loop"
    /\ UNCHANGED <<kvars, runs, clean, base, intact, verdict, sampled>>

\* write_oracle_line: sync_data returned; the loop goes on.
LineFinish ==
    /\ step = "line begun"
    /\ oracle' = Append(Front(oracle), [op |-> OpOf(seq), parses |-> TRUE])
    /\ seq' = seq + 1
    /\ step' = "loop"
    /\ UNCHANGED <<kvars, runs, clean, base, intact, verdict, sampled>>

WorkloadEnd ==
    /\ step = "ended"
    /\ Close
    /\ NoStore
    /\ clean' = TRUE
    /\ step' = "off"
    /\ UNCHANGED <<seq, oracle, runs, base, intact, verdict, sampled>>

\* A call on the store fails.
StoreError ==
    /\ \/ step \in {"loop", "appending"} /\ seq < Ops /\ AppendError
       \/ step \in {"loop", "appended"} /\ SyncAllError
       \/ step \in {"fsyncing", "ending"} /\ DirectoryError
    /\ step' = "failed"
    /\ UNCHANGED <<store, seq, oracle, runs, clean, base, intact, verdict, sampled>>

\* Exit code 1 after it, or because the oracle cannot be written or synced.
WorkloadFails ==
    /\ step \in {"failed", "line", "line begun", "ended"}
    /\ Close
    /\ NoStore
    /\ step' = "off"
    /\ UNCHANGED <<seq, oracle, runs, clean, base, intact, verdict, sampled>>

------------------------------------------------------------------------------
(* The validator *)

\* Where a sequence of operations touches key k.
OpsOn(ops, k) == {i \in 1 .. Len(ops) : ops[i].key = k}

\* Mutant of Replay: the first line of a key counts.
ReplayFirst(f, ops) ==
    LET Decides(k) == ops[Min(OpsOn(ops, k))]
        live == {k \in DOMAIN f : OpsOn(ops, k) = {}}
                  \cup {k \in Keys : OpsOn(ops, k) # {} /\ Decides(k).type = "Put"}
    IN  [k \in live |-> IF OpsOn(ops, k) = {} THEN f[k] ELSE Decides(k).value]

\* The live keys after a sequence of operations on f: the last one on a key
\* decides.
Replay(f, ops) ==
    LET Decides(k) == ops[Max(OpsOn(ops, k))]
        live == {k \in DOMAIN f : OpsOn(ops, k) = {}}
                  \cup {k \in Keys : OpsOn(ops, k) # {} /\ Decides(k).type = "Put"}
    IN  [k \in live |-> IF OpsOn(ops, k) = {} THEN f[k] ELSE Decides(k).value]

Claimed == [i \in 1 .. Len(oracle) |-> oracle[i].op]

\* load_oracle: the keys that are live after its last line.
OracleLive == Replay(<<>>, Claimed)

\* load_oracle fails at a line that does not parse.
ValidateStart ==
    /\ step = "off"
    /\ runs > 0
    /\ \/ /\ \E i \in 1 .. Len(oracle) : ~oracle[i].parses
          /\ verdict' = "unparsed"
          /\ UNCHANGED step
       \/ /\ \A i \in 1 .. Len(oracle) : oracle[i].parses
          /\ step' = "inspecting"
          /\ UNCHANGED verdict
    /\ UNCHANGED <<kvars, seq, oracle, runs, clean, base, intact, sampled>>

\* RecordLog::open, for its recovery report; mid_stream_errors is always 0.
Inspected ==
    /\ step = "inspecting"
    /\ DataWalOpen
    /\ ~wal'
    /\ step' = "inspected"
    /\ UNCHANGED <<seq, oracle, runs, clean, base, intact, verdict, sampled>>

InspectorDropped ==
    /\ step = "inspected"
    /\ Close
    /\ NoStore
    /\ step' = "reopening"
    /\ UNCHANGED <<seq, oracle, runs, clean, base, intact, verdict, sampled>>

Reopened ==
    /\ step = "reopening"
    /\ DataWalOpen
    /\ wal'
    /\ step' = "comparing"
    /\ UNCHANGED <<seq, oracle, runs, clean, base, intact, verdict, sampled>>

Extras == DOMAIN map \ DOMAIN OracleLive
Answers == {Get(k) : k \in DOMAIN OracleLive}
Tolerated(k) == Get(k) \in {OracleLive[k], None}

(***************************************************************************)
(* The comparison: no further key is live, and every live key of the       *)
(* oracle has its value or is missing.  Up to --sample keys with another   *)
(* value are kept, and there being one of them is what ends the run with   *)
(* code 1.  get may return an error.                                       *)
(***************************************************************************)
Judgement(sample) ==
    IF Extras # {} THEN "extras"
    ELSE IF Failed \in Answers THEN "error"
    ELSE IF sample > 0 /\ \E k \in DOMAIN OracleLive : ~Tolerated(k) THEN "differs"
    ELSE "ok"

Compared(sample) ==
    /\ step = "comparing"
    /\ verdict' = Judgement(sample)
    /\ sampled' = sample
    /\ Close
    /\ NoStore
    /\ step' = "off"
    /\ UNCHANGED <<seq, oracle, runs, clean, base, intact>>

\* Either program ends because the store does not open; the validator's
\* exit code says so.
OpenReturnsErr ==
    /\ Opens
    /\ \E why \in {"refused", "error"} :
          /\ IF why = "refused" THEN OpenRefused ELSE OpenFails
          /\ verdict' = IF step = "opening" THEN verdict ELSE why
    /\ NoStore
    /\ step' = "off"
    /\ UNCHANGED <<seq, oracle, runs, clean, base, intact, sampled>>

------------------------------------------------------------------------------
(* Faults *)

\* The program that runs is killed; a line it was writing stays as it is.
HarnessKilled ==
    /\ Crash
    /\ NoStore
    /\ step' = "off"
    /\ UNCHANGED <<seq, oracle, runs, clean, base, intact, verdict, sampled>>

\* Power loss takes the store's device; a line that is not synced may go too.
HarnessPowerLoss ==
    /\ PowerLoss
    /\ NoStore
    /\ step' = "off"
    /\ oracle' \in {oracle} \cup IF step = "line begun" THEN {Front(oracle)} ELSE {}
    /\ verdict' = "none"
    /\ UNCHANGED <<seq, runs, clean, base, intact, sampled>>

HarnessNext ==
    \/ WorkloadStart
    \/ OpenCreates
    \/ WorkloadOpened
    \/ \E cut \in Cuts : WorkloadAppend(cut)
    \/ WorkloadAppended
    \/ WorkloadFsync
    \/ WorkloadFsynced
    \/ LineBegin
    \/ LineFinish
    \/ WorkloadEnd
    \/ StoreError
    \/ WorkloadFails
    \/ ValidateStart
    \/ Inspected
    \/ InspectorDropped
    \/ Reopened
    \/ \E sample \in Samples : Compared(sample)
    \/ OpenReturnsErr
    \/ HarnessKilled
    \/ HarnessPowerLoss

HarnessSpec == HarnessInit /\ [][HarnessNext]_hvars

------------------------------------------------------------------------------
(* Properties *)

\* The workload has opened its store and found nothing discarded there.
Begun == intact /\ step # "opening"

(***************************************************************************)
(* What the oracle says is in the store, whatever failed since: at any     *)
(* moment a scan of the files gives what the workload had found, with all  *)
(* the operations of the oracle's lines applied, or these and the one the  *)
(* workload was at.  So no line claims what is not durable, and the store  *)
(* is ahead of the oracle by one operation at most.  (What the workload    *)
(* found in a used store is durable with its first line, not before.)      *)
(***************************************************************************)
StoreMatchesOracle ==
    Begun /\ ScanOk(files) /\ (oracle # <<>> \/ base = <<>>) =>
        Projection(files) \in {Replay(base, Claimed),
                               Replay(base, Append(Claimed, OpOf(seq)))}

(***************************************************************************)
(* After a workload that began with an empty store and exited with code 0, *)
(* the validator accepts the store, unless it cannot read it at all, even  *)
(* when power failed in between or it was itself interrupted before.       *)
(***************************************************************************)
AcceptsCleanRun ==
    clean /\ intact /\ base = <<>> => verdict \in {"none", "ok", "error"}

(***************************************************************************)
(* What a verdict on a store that began empty means.  Accepted, with a     *)
(* --sample that lets it see differences at all: the store is what the     *)
(* oracle says, or lacks the one key whose delete was interrupted.         *)
(* Rejected: no workload ended cleanly, and the store has the put that was *)
(* interrupted, which the oracle has not.                                  *)
(***************************************************************************)
VerdictExplained ==
    intact /\ base = <<>> =>
        LET ahead == Replay(<<>>, Append(Claimed, OpOf(seq)))
        IN  /\ verdict = "ok" /\ sampled > 0 =>
                  \/ Projection(files) = Replay(<<>>, Claimed)
                  \/ OpOf(seq).type = "Delete" /\ Projection(files) = ahead
            /\ verdict \in {"extras", "differs"} =>
                  /\ ~clean
                  /\ OpOf(seq).type = "Put"
                  /\ Projection(files) = ahead
=============================================================================
