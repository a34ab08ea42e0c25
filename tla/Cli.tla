--------------------------------- MODULE Cli ---------------------------------
(***************************************************************************)
(* The command line tool over a store that others write: a command is a    *)
(* process that opens the log or the store under the directory lock, reads *)
(* it, and ends with an exit code.  What a command prints is abstracted to *)
(* the records and values it prints.                                       *)
(*                                                                         *)
(* A writer works on the store when no command holds it; and, which is     *)
(* what verify and check are for, any frame may decay at any time.         *)
(***************************************************************************)
EXTENDS DataWal

CONSTANTS
    Limits,     \* the values of --limit, with NoLimit when it is not given
    NoLimit,
    Absent, Other, Partial, \* no artefact, somebody else's, an incomplete one,
    Mixed,                  \* a copy written into what somebody else has put there
    Undecodable,            \* a key argument that is not base64 or hex
    Froms       \* <<--from-segment, --from-offset>>; <<0, 0>> if not given

\* What get returns besides values is told apart from them, and no limit
\* from limits.
ASSUME CliAssumption ==
    /\ {None, Failed} \cap Values = {}
    /\ NoLimit \notin Nat
    /\ Limits \subseteq Nat \cup {NoLimit}
    /\ Froms \subseteq Nat \X Nat

VARIABLES
    cmd,        \* the command and its arguments
    stage,      \* "none", "started", "creating", "walking" (segments),
                \* "reading" (keys), "writing" (the artefact), "copying"
                \* (into a target found empty), "done"
    exit,       \* the exit code
    left,       \* the segments to walk, or the keys to read
    out,        \* the records printed or counted, as <<segment, index>>
    tail,       \* the iterator's report shows a discarded tail
    rows,       \* the values read, by key
    artefact,   \* at the output path of export and compact: Absent,
                \* Other, Partial, Mixed, or values by key
    snap,       \* history: what was live when the command opened the store
    disturbed   \* history: while the command ran, a frame decayed or a file
                \* could not be read

cli == <<cmd, stage, exit, left, out, tail, rows, artefact, snap, disturbed>>
clivars == <<kvars, cli>>

NoCmd == [name |-> "none"]
Unset == 9

Command ==
    [name : {"report", "verify", "check", "export", "compact"}]
      \cup [name : {"get"}, key : Keys \cup {Undecodable}]
      \cup [name : {"scan"}, limit : Limits, from : Froms]
      \cup [name : {"dump"}, limit : Limits, from : {<<0, 0>>}]

CliInit ==
    /\ DataWalInit
    /\ cmd = NoCmd
    /\ stage = "none"
    /\ exit = Unset
    /\ left = {}
    /\ out = <<>>
    /\ tail = FALSE
    /\ rows = <<>>
    /\ artefact = Absent
    /\ snap = <<>>
    /\ disturbed = FALSE

\* The commands that use the key-value view.
OnStore == cmd.name \in {"get", "check", "export", "compact"}

\* The command has the lock.
Holding == stage \in {"creating", "walking", "reading", "writing", "copying"}

------------------------------------------------------------------------------
(* The start and the end of a command *)

\* main: the process ends, and with it the handle.
Exit(code) ==
    /\ stage' = "done"
    /\ exit' = code
    /\ NoHandle
    /\ NoStore
    /\ UNCHANGED <<disk, durable, appends>>

\* The same before the store is opened.
ExitEarly(code) ==
    /\ stage' = "done"
    /\ exit' = code
    /\ UNCHANGED kvars

\* Refused before the store is touched: a key that does not decode, and for
\* export a path, for compact a directory, that is taken.
Unacceptable(c) ==
    \/ c.name = "get" /\ c.key = Undecodable
    \/ c.name \in {"export", "compact"} /\ artefact # Absent

\* dispatch
Start(c) ==
    /\ stage = "none"
    /\ cmd' = c
    /\ IF Unacceptable(c)
       THEN ExitEarly(1)
       ELSE stage' = "started" /\ UNCHANGED <<kvars, exit>>
    /\ UNCHANGED <<left, out, tail, rows, artefact, snap, disturbed>>

\* A writer has the lock.
Locked ==
    /\ stage = "started"
    /\ pc # "closed"
    /\ ExitEarly(1)
    /\ UNCHANGED <<cmd, left, out, tail, rows, artefact, snap, disturbed>>

\* open makes the first segment of an empty directory, for a command too.
Create ==
    /\ stage = "started"
    /\ OpenCreate
    /\ stage' = "creating"
    /\ UNCHANGED <<store, cmd, exit, left, out, tail, rows, artefact, snap, disturbed>>

\* RecordLog::open or DataWal::open returns; report prints what it says.
Open ==
    /\ \/ stage = "started" /\ OpenExisting
       \/ stage = "creating" /\ OpenCreated
    /\ wal' = OnStore
    /\ map' = IF OnStore THEN Rebuild(files) ELSE <<>>
    /\ kv' = IF OnStore THEN Projection(files) ELSE <<>>
    /\ stage' = CASE cmd.name = "compact" -> "writing"
                  [] cmd.name \in {"get", "check", "export"} -> "reading"
                  [] OTHER -> "walking"
    /\ left' = CASE cmd.name = "get" -> {cmd.key}
                 [] cmd.name \in {"check", "export"} -> LiveKeys(files)
                 [] cmd.name \in {"compact", "report"} -> {}
                 [] OTHER -> ListSegmentIds(files)
    /\ snap' = Projection(files)
    /\ UNCHANGED <<cmd, exit, out, tail, rows, artefact, disturbed>>

\* open finds damage it does not tolerate, or cannot read, or compact cannot
\* look at its target before it: main exits with 1.
OpenError ==
    /\ \/ stage = "started" /\ OpenRefused /\ UNCHANGED store
       \/ stage \in {"started", "creating"} /\ OpenFails /\ NoStore
    /\ stage' = "done"
    /\ exit' = 1
    /\ UNCHANGED <<cmd, left, out, tail, rows, artefact, snap, disturbed>>

------------------------------------------------------------------------------
(* scan, dump and verify: one segment after the other *)

\* Mutant of Selected: the offset applies to the later segments too.
SelectedByOffset(id, i) == id >= cmd.from[1] /\ files[id][i].at >= cmd.from[2]

\* --from-segment and --from-offset
Selected(id, i) ==
    \/ id > cmd.from[1]
    \/ id = cmd.from[1] /\ files[id][i].at >= cmd.from[2]

Limited == cmd.name \in {"scan", "dump"} /\ cmd.limit # NoLimit

\* The n-th smallest of a set of numbers.
Nth(S, n) == CHOOSE i \in S : Cardinality({j \in S : j < i}) = n - 1

(***************************************************************************)
(* The records of segment id that are printed: the limit is looked at      *)
(* after a record has been printed.                                        *)
(***************************************************************************)
Printed(id) ==
    LET wanted == {i \in Replayed(files[id]) : cmd.name = "verify" \/ Selected(id, i)}
        room == IF Limited THEN Max({1, cmd.limit - Len(out)}) ELSE Cardinality(wanted)
    IN  [n \in 1 .. Min({room, Cardinality(wanted)}) |-> <<id, Nth(wanted, n)>>]

\* The loop was left because of the limit.
Enough(printed) == Limited /\ printed # <<>> /\ Len(printed) >= cmd.limit

\* Mutant of WalkExit: verify relies on the report of the open.
WalkExitFromOpen(tailSeen) ==
    IF cmd.name # "dump" /\ report.tail_truncated > 0 THEN 2 ELSE 0

\* scan and report look at the report of the open, verify at the iterator's.
WalkExit(tailSeen) ==
    CASE cmd.name = "dump" -> 0
      [] cmd.name = "verify" -> IF tailSeen THEN 2 ELSE 0
      [] OTHER -> IF report.tail_truncated > 0 THEN 2 ELSE 0

Walk ==
    /\ stage = "walking"
    /\ left # {}
    /\ LET id == Min(left)
           s == files[id]
       IN  /\ out' = out \o Printed(id)
           /\ tail' = (tail \/ LogicalEnd(s) # FileSize(s))
           /\ \/ /\ Enough(out')
                 /\ Exit(WalkExit(tail'))
                 /\ UNCHANGED <<faults, left>>
              \/ /\ ~Enough(out')
                 /\ ScanSegmentOk(s, left = {id})
                 /\ left' = left \ {id}
                 /\ UNCHANGED <<kvars, stage, exit>>
              \/ /\ ~Enough(out')
                 /\ ~ScanSegmentOk(s, left = {id})
                 /\ Exit(3)
                 /\ UNCHANGED <<faults, left>>
    /\ UNCHANGED <<cmd, rows, artefact, snap, disturbed>>

\* The segment file cannot be read; or, before the first, scan_iter cannot
\* list the segments.
WalkError ==
    /\ stage = "walking"
    /\ left # {}
    /\ Fault
    /\ \/ Exit(3)
       \/ left = ListSegmentIds(files) /\ Exit(1)
    /\ disturbed' = TRUE
    /\ UNCHANGED <<cmd, left, out, tail, rows, artefact, snap>>

WalkEnd ==
    /\ stage = "walking"
    /\ left = {}
    /\ Exit(WalkExit(tail))
    /\ UNCHANGED <<faults, cmd, left, out, tail, rows, artefact, snap, disturbed>>

------------------------------------------------------------------------------
(* get, check and export: one key after the other *)

\* A value is read; it is printed, only looked at, or kept for the file.
ReadKey ==
    /\ stage = "reading"
    /\ left # {}
    /\ LET k == Min(left)
       IN  /\ Get(k) \notin {Failed, None}
           /\ rows' = With(rows, k, Get(k))
           /\ left' = left \ {k}
    /\ UNCHANGED <<kvars, cmd, stage, exit, out, tail, artefact, snap, disturbed>>

\* Mutant of ReadKeyFails: check goes on with the next key.
ReadKeyFailsSkips ==
    /\ stage = "reading"
    /\ left # {}
    /\ Get(Min(left)) \in {None, Failed}
    /\ IF cmd.name = "check"
       THEN left' = left \ {Min(left)} /\ UNCHANGED <<kvars, stage, exit>>
       ELSE Exit(1) /\ UNCHANGED <<faults, left>>
    /\ UNCHANGED <<cmd, out, tail, rows, artefact, snap, disturbed>>

\* get, in all of them, returns None or an error.
ReadKeyFails ==
    /\ stage = "reading"
    /\ left # {}
    /\ \/ /\ Get(Min(left)) = None
          /\ Exit([get |-> 2, check |-> 3, export |-> 1][cmd.name])
       \/ /\ Get(Min(left)) = Failed
          /\ Exit(IF cmd.name = "check" THEN 3 ELSE 1)
    /\ UNCHANGED <<faults, cmd, left, out, tail, rows, artefact, snap, disturbed>>

\* The value is there and cannot be read.
ReadKeyError ==
    /\ stage = "reading"
    /\ left # {}
    /\ Min(left) \in DOMAIN map
    /\ Fault
    /\ Exit(IF cmd.name = "check" THEN 3 ELSE 1)
    /\ disturbed' = TRUE
    /\ UNCHANGED <<cmd, left, out, tail, rows, artefact, snap>>

ReadEnd ==
    /\ stage = "reading"
    /\ left = {}
    /\ IF cmd.name \in {"get", "check"}
       THEN /\ Exit(IF cmd.name = "check" /\ report.tail_truncated > 0 THEN 2 ELSE 0)
            /\ UNCHANGED faults
       ELSE /\ stage' = "writing"
            /\ UNCHANGED <<kvars, exit>>
    /\ UNCHANGED <<cmd, left, out, tail, rows, artefact, snap, disturbed>>

\* Mutant of Export: rows are written as they are read.
ExportAsRead ==
    /\ stage \in {"reading", "writing"}
    /\ cmd.name = "export"
    /\ artefact' = rows
    /\ Exit(0)
    /\ UNCHANGED <<faults, cmd, left, out, tail, rows, snap, disturbed>>

\* write_atomic replaces whatever is at the path by the complete file.
Export ==
    /\ stage = "writing"
    /\ cmd.name = "export"
    /\ artefact' = rows
    /\ Exit(0)
    /\ UNCHANGED <<faults, cmd, left, out, tail, rows, snap, disturbed>>

\* create_dir_all or write_atomic fails, and leaves the path as it was; or
\* the file that was written cannot be looked at for its size.
ExportError ==
    /\ stage = "writing"
    /\ cmd.name = "export"
    /\ Fault
    /\ artefact' \in {artefact, rows}
    /\ Exit(1)
    /\ UNCHANGED <<cmd, left, out, tail, rows, snap, disturbed>>

\* compact_to looks at the target again.
CheckTarget ==
    /\ stage = "writing"
    /\ cmd.name = "compact"
    /\ \/ /\ artefact = Absent
          /\ stage' = "copying"
          /\ UNCHANGED <<kvars, exit>>
       \/ /\ artefact # Absent
          /\ Exit(1)
          /\ UNCHANGED faults
       \/ /\ Fault
          /\ Exit(1)
    /\ UNCHANGED <<cmd, left, out, tail, rows, artefact, snap, disturbed>>

(***************************************************************************)
(* The rest of compact_to in one step (see Compaction), from the open of   *)
(* the target on.  What somebody has put there since the check is refused, *)
(* if it is in use or is no log that opens, or the copy is added to it.    *)
(***************************************************************************)
CompactTo ==
    /\ stage = "copying"
    /\ \/ /\ artefact = Other
          /\ Exit(1)
          /\ UNCHANGED <<faults, artefact>>
       \/ /\ \A k \in DOMAIN map : Get(k) # Failed
          /\ artefact' = IF artefact = Absent THEN [k \in DOMAIN map |-> Get(k)] ELSE Mixed
          /\ Exit(0)
          /\ UNCHANGED faults
       \/ /\ IF \E k \in DOMAIN map : Get(k) = Failed THEN UNCHANGED faults ELSE Fault
          /\ artefact' = IF artefact = Absent THEN Partial ELSE Mixed
          /\ Exit(1)
    /\ UNCHANGED <<cmd, left, out, tail, rows, snap, disturbed>>

------------------------------------------------------------------------------
(* Everything else that happens *)

Reset ==
    /\ cmd' = NoCmd
    /\ stage' = "none"
    /\ exit' = Unset
    /\ left' = {}
    /\ out' = <<>>
    /\ tail' = FALSE
    /\ rows' = <<>>
    /\ snap' = <<>>
    /\ disturbed' = FALSE

\* The next command; its output path may be taken, by an earlier one or not.
NextCommand ==
    /\ stage = "done"
    /\ Reset
    /\ artefact' \in {Absent, Other}
    /\ UNCHANGED kvars

\* The store is used by somebody else.
Writer ==
    /\ stage = "none"
    /\ DataWalNext
    /\ UNCHANGED cli

\* The command's process dies, or the system.
Killed ==
    /\ Holding
    /\ Crash \/ PowerLoss
    /\ NoStore
    /\ Reset
    /\ \/ artefact' = artefact
       \/ stage = "writing" /\ cmd.name = "export" /\ artefact' = rows
       \/ stage = "copying" /\ artefact' = IF artefact = Absent THEN Partial ELSE Mixed

\* A frame that was written loses its integrity.
Decay ==
    /\ stage = "none" \/ Holding
    /\ Fault
    /\ \E id \in DOMAIN files : \E i \in 1 .. Len(files[id]) :
          /\ files[id][i].state = "whole"
          /\ files' = [files EXCEPT ![id][i].state = "crc"]
    /\ disturbed' = (disturbed \/ Holding)
    /\ UNCHANGED <<synced, entries, dropped, pc, handle, history, appends, store,
                   cmd, stage, exit, left, out, tail, rows, artefact, snap>>

\* Another process puts something at the output path.
Foreign ==
    /\ stage = "started" \/ Holding
    /\ cmd.name \in {"export", "compact"}
    /\ artefact = Absent
    /\ artefact' = Other
    /\ UNCHANGED <<kvars, cmd, stage, exit, left, out, tail, rows, snap, disturbed>>

CliNext ==
    \/ \E c \in Command : Start(c)
    \/ Locked
    \/ Create
    \/ Open
    \/ OpenError
    \/ Walk
    \/ WalkError
    \/ WalkEnd
    \/ ReadKey
    \/ ReadKeyFails
    \/ ReadKeyError
    \/ ReadEnd
    \/ Export
    \/ ExportError
    \/ CheckTarget
    \/ CompactTo
    \/ NextCommand
    \/ Writer
    \/ Killed
    \/ Decay
    \/ Foreign

CliSpec == CliInit /\ [][CliNext]_clivars

------------------------------------------------------------------------------
(* Properties *)

Done(names) == stage = "done" /\ cmd.name \in names

\* Every byte of the log belongs to a frame that decodes.
AllIntact == \A id \in ListSegmentIds(files) : Replayed(files[id]) = 1 .. Len(files[id])

(***************************************************************************)
(* scan, report, verify and check, which look at the log in four different *)
(* ways, agree on what is no error, over a log that does not change        *)
(* meanwhile: 0 only if all of it is intact, and 2 only if a tail was      *)
(* discarded and nothing else is wrong.                                    *)
(***************************************************************************)
HealthAgrees ==
    (Done({"scan", "report", "verify", "check"}) /\ ~disturbed /\ exit \in {0, 2}) =>
        /\ ScanOk(files)
        /\ exit = IF AllIntact THEN 0 ELSE 2

\* A frame of a segment other than the last fails its CRC.
SealedDamage ==
    \E id, later \in ListSegmentIds(files) : \E i \in 1 .. Len(files[id]) :
        id < later /\ files[id][i].state = "crc"

(***************************************************************************)
(* verify ends with 3 for a CRC failure in a sealed segment, as its help   *)
(* says (where nothing else goes wrong: no writer holds the store, and the *)
(* damage is the only fault).  Violated: open has scanned the segments     *)
(* before verify walks them, and its refusal ends the command with 1.      *)
(***************************************************************************)
VerifyReportsDamage == (Done({"verify"}) /\ pc = "closed" /\ SealedDamage) => exit = 3

(***************************************************************************)
(* verify ends with 0 only if it has seen every frame of every segment     *)
(* intact, even if frames decay after the log was opened.                  *)
(***************************************************************************)
VerifySawAll ==
    (Done({"verify"}) /\ exit = 0) =>
        \A id \in ListSegmentIds(files) : \A i \in 1 .. Len(files[id]) :
            \E n \in DOMAIN out : out[n] = <<id, i>>

(***************************************************************************)
(* scan and dump print, in the order of the log and once each, the first   *)
(* records of the part selected, and as many as there are or, if it is     *)
(* given and not 0, the limit allows.                                      *)
(***************************************************************************)
PrintsSelection ==
    (Done({"scan", "dump"}) /\ exit \in {0, 2} /\ ~disturbed) =>
        LET matching == {p \in UNION {{id} \X Replayed(files[id]) : id \in ListSegmentIds(files)} :
                            \/ p[1] > cmd.from[1]
                            \/ p[1] = cmd.from[1] /\ files[p[1]][p[2]].at >= cmd.from[2]}
            printed == {out[n] : n \in DOMAIN out}
        IN  /\ \A m, n \in DOMAIN out : m < n => Before(out[m], out[n])
            /\ printed \subseteq matching
            /\ \A p \in printed : \A q \in matching : Before(q, p) => q \in printed
            /\ cmd.limit # 0 =>
                  Len(out) = IF cmd.limit = NoLimit THEN Cardinality(matching)
                             ELSE Min({Cardinality(matching), cmd.limit})

(***************************************************************************)
(* get and check never take damaged or stale bytes for a value: get ends   *)
(* with 0 and the live value, or 2 for a key that is not live; check ends  *)
(* with 0 or 2 only after it has read every live key.                      *)
(***************************************************************************)
AnswersAreLive ==
    /\ (Done({"get"}) /\ exit = 0) => cmd.key \in DOMAIN snap /\ rows[cmd.key] = snap[cmd.key]
    /\ (Done({"get"}) /\ exit = 2) => cmd.key \notin DOMAIN snap
    /\ (Done({"check"}) /\ exit \in {0, 2}) => rows = snap

(***************************************************************************)
(* export and compact that end with 0 have left the live values, all of    *)
(* them and nothing else, as they were when the store was opened; for      *)
(* compact unless somebody has put something into the target after         *)
(* compact_to found it empty and before it opened it, where the copy is    *)
(* mixed with that, or lost behind it.                                     *)
(***************************************************************************)
ArtefactComplete ==
    (Done({"export", "compact"}) /\ exit = 0) =>
        \/ artefact = snap
        \/ cmd.name = "compact" /\ artefact = Mixed

(***************************************************************************)
(* What is at export's output path changes in one step, to the complete    *)
(* file, also when its process or the system dies.                         *)
(***************************************************************************)
ExportAllOrNothing ==
    [][(Holding /\ cmd.name = "export" /\ artefact' # artefact)
          => artefact' \in {Other, snap}]_clivars

(***************************************************************************)
(* No command changes the store, also when it ends with an error or is     *)
(* killed: it finds the bytes and leaves them, and at most makes the first *)
(* segment of a directory that had none.                                   *)
(***************************************************************************)
StoreUntouched ==
    [][(stage # "none" /\ ~PowerLoss /\ ~Decay) =>
          \/ files' = files
          \/ ListSegmentIds(files) = {} /\ files'[1] = <<>>]_clivars
=============================================================================
