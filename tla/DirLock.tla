------------------------------- MODULE DirLock -------------------------------
(***************************************************************************)
(* The directory lock of lock.rs: processes that open the sentinel file    *)
(* `.lock', try to flock it, use the directory, and drop the lock or die.  *)
(* Together with RecordLog, whose pc is "closed" or that of one handle, it *)
(* says that a directory has at most one RecordLog handle at a time.       *)
(*                                                                         *)
(* A name is not a file: `sentinel' is the inode the name leads to, fd[p]  *)
(* the inode that p has open, and the kernel's lock is on the inode.       *)
(***************************************************************************)
EXTENDS Naturals

CONSTANTS Procs, Nobody

ASSUME DirLockAssumption == Nobody \notin Procs

VARIABLES
    sentinel,   \* inode of <dir>/.lock, 0 when there is none
    inodes,     \* inodes in use: 1 .. inodes
    fd,         \* fd[p]: the inode p has open, 0 when none
    state,      \* state[p]
    owner,      \* owner[i]: who holds the flock on inode i
    pid         \* the process the sentinel names

lvars == <<sentinel, inodes, fd, state, owner, pid>>

\* "held": locked, pid not written yet; "ready" and "unnamed": acquire has
\* returned, after writing the pid or failing to.
Holding == {"held", "ready", "unnamed"}

DirLockTypeOK ==
    /\ inodes \in Nat
    /\ sentinel \in 0 .. inodes
    /\ fd \in [Procs -> 0 .. inodes]
    /\ state \in [Procs -> {"out", "opened"} \cup Holding]
    /\ owner \in [1 .. inodes -> Procs \cup {Nobody}]
    /\ pid \in Procs \cup {Nobody}

DirLockInit ==
    /\ sentinel = 0
    /\ inodes = 0
    /\ fd = [p \in Procs |-> 0]
    /\ state = [p \in Procs |-> "out"]
    /\ owner = <<>>
    /\ pid = Nobody

\* The sentinel exists after this step: a new inode, or the one there is.
EnsureSentinel ==
    IF sentinel = 0
    THEN /\ inodes' = inodes + 1
         /\ sentinel' = inodes + 1
         /\ owner' = [i \in 1 .. (inodes + 1) |-> IF i <= inodes THEN owner[i] ELSE Nobody]
    ELSE UNCHANGED <<sentinel, inodes, owner>>

\* Mutant of OpenSentinel: opened with truncate(true).
OpenSentinelTruncating(p) ==
    /\ state[p] = "out"
    /\ EnsureSentinel
    /\ fd' = [fd EXCEPT ![p] = sentinel']
    /\ state' = [state EXCEPT ![p] = "opened"]
    /\ pid' = Nobody

\* acquire: create_dir_all and open with create(true).truncate(false).
OpenSentinel(p) ==
    /\ state[p] = "out"
    /\ EnsureSentinel
    /\ fd' = [fd EXCEPT ![p] = sentinel']
    /\ state' = [state EXCEPT ![p] = "opened"]
    /\ UNCHANGED pid

\* acquire: try_lock_exclusive succeeded.
TryLock(p) ==
    /\ state[p] = "opened"
    /\ owner[fd[p]] = Nobody
    /\ owner' = [owner EXCEPT ![fd[p]] = p]
    /\ state' = [state EXCEPT ![p] = "held"]
    /\ UNCHANGED <<sentinel, inodes, fd, pid>>

\* acquire: it failed, because the lock is taken or for another reason; the
\* error is returned at once and the file closed.
TryLockFails(p) ==
    /\ state[p] = "opened"
    /\ fd' = [fd EXCEPT ![p] = 0]
    /\ state' = [state EXCEPT ![p] = "out"]
    /\ UNCHANGED <<sentinel, inodes, owner, pid>>

\* acquire: set_len and writeln, whose errors are ignored one by one.
WritePid(p) ==
    /\ state[p] = "held"
    /\ \/ pid' = p /\ state' = [state EXCEPT ![p] = "ready"]
       \/ pid' \in {pid, Nobody} /\ state' = [state EXCEPT ![p] = "unnamed"]
    /\ UNCHANGED <<sentinel, inodes, fd, owner>>

\* p's descriptor is closed; the kernel releases the lock it held.
Release(p) ==
    /\ fd' = [fd EXCEPT ![p] = 0]
    /\ state' = [state EXCEPT ![p] = "out"]
    /\ owner' = [i \in DOMAIN owner |-> IF owner[i] = p THEN Nobody ELSE owner[i]]

\* Mutant of Drop: no unlock, and the file is leaked.
DropLeaking(p) ==
    /\ state[p] \in {"ready", "unnamed"}
    /\ fd' = [fd EXCEPT ![p] = 0]
    /\ state' = [state EXCEPT ![p] = "out"]
    /\ UNCHANGED <<sentinel, inodes, owner, pid>>

\* Mutant of Drop: the sentinel is removed with the lock.
DropUnlinking(p) ==
    /\ state[p] \in {"ready", "unnamed"}
    /\ Release(p)
    /\ sentinel' = 0
    /\ UNCHANGED <<inodes, pid>>

\* drop: unlock, and close with the File.  The sentinel stays.
Drop(p) ==
    /\ state[p] \in {"ready", "unnamed"}
    /\ Release(p)
    /\ UNCHANGED <<sentinel, inodes, pid>>

\* p crashes or is killed.
Die(p) ==
    /\ state[p] # "out"
    /\ Release(p)
    /\ UNCHANGED <<sentinel, inodes, pid>>

DirLockNext ==
    \E p \in Procs :
        \/ OpenSentinel(p)
        \/ TryLock(p)
        \/ TryLockFails(p)
        \/ WritePid(p)
        \/ Drop(p)
        \/ Die(p)

DirLockSpec == DirLockInit /\ [][DirLockNext]_lvars

------------------------------------------------------------------------------
(* Properties *)

\* Never two holders: RecordLog::open relies on it for its single writer.
Exclusive ==
    \A p, q \in Procs : (state[p] \in Holding /\ state[q] \in Holding) => p = q

(***************************************************************************)
(* Once acquire has written its pid, the sentinel names the holder until   *)
(* the lock is dropped, whatever others try meanwhile.                     *)
(***************************************************************************)
HolderNamed == \A p \in Procs : state[p] = "ready" => pid = p

(***************************************************************************)
(* There is no stale lock: when the lock is taken, some live process that  *)
(* has acquired it and not dropped it has it, however others ended.        *)
(***************************************************************************)
NoStaleLock == \A i \in 1 .. inodes : owner[i] # Nobody => state[owner[i]] \in Holding
=============================================================================
