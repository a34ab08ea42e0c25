------------------------------- MODULE FdPool -------------------------------
(***************************************************************************)
(* The pool of read-only descriptors of fd_pool.rs that DataWal::get reads *)
(* through: at most `capacity' segments, least recently used first.        *)
(*                                                                         *)
(* A descriptor is the segment it was opened for: a segment file is never  *)
(* replaced while a store has it open.                                     *)
(***************************************************************************)
EXTENDS Integers, Sequences, SequencesExt

CONSTANTS
    SegmentIds,
    MaxCapacity,\* bound: the capacities tried are 0 .. MaxCapacity
    MaxCalls    \* bound: calls of read_at in a behaviour

ASSUME FdPoolAssumption == MaxCapacity \in Nat /\ MaxCalls \in Nat

VARIABLES
    capacity,   \* capacity: fixed by with_capacity
    entries,    \* entries: most recently used at the back
    recent,     \* history: every segment whose file was ever available to a
                \* call, the one used last at the back
    calls       \* history: calls that got a file

fvars == <<capacity, entries, recent, calls>>

FdPoolInit ==
    /\ capacity \in 0 .. MaxCapacity
    /\ entries = <<>>
    /\ recent = <<>>
    /\ calls = 0

\* The entry at the first position of id goes to the back; a segment that has
\* no entry gets one there.
MoveToBack(s, id) == Append(RemoveFirst(s, id), id)

Used(id) ==
    /\ recent' = MoveToBack(recent, id)
    /\ calls < MaxCalls
    /\ calls' = calls + 1
    /\ UNCHANGED capacity

\* Mutant of Hit: the order is not touched.
HitUntouched(id) ==
    /\ Contains(entries, id)
    /\ Used(id)
    /\ UNCHANGED entries

\* touch_or_open finds the descriptor.
Hit(id) ==
    /\ Contains(entries, id)
    /\ entries' = MoveToBack(entries, id)
    /\ Used(id)

\* touch_or_open: the entries that stay when a new one is pushed.
Room ==
    IF capacity = 0 THEN <<>>
    ELSE IF Len(entries) >= capacity THEN Tail(entries)
    ELSE entries

\* touch_or_open opens the segment.
Miss(id) ==
    /\ ~Contains(entries, id)
    /\ entries' = Append(Room, id)
    /\ Used(id)

\* File::open fails on a miss: read_at returns the error.
MissFails(id) ==
    /\ ~Contains(entries, id)
    /\ UNCHANGED fvars

FdPoolNext == \E id \in SegmentIds : Hit(id) \/ Miss(id) \/ MissFails(id)

FdPoolSpec == FdPoolInit /\ [][FdPoolNext]_fvars

------------------------------------------------------------------------------
(* Properties *)

(***************************************************************************)
(* A pool that has a capacity is an LRU: it holds as many segments, those  *)
(* used last, in the order of their last use, and so never too many        *)
(* descriptors.                                                            *)
(***************************************************************************)
PoolHoldsMostRecent ==
    capacity > 0 =>
        entries = SubSeq(recent,
                         IF Len(recent) > capacity THEN Len(recent) - capacity + 1 ELSE 1,
                         Len(recent))
=============================================================================
