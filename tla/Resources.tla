------------------------------ MODULE Resources ------------------------------
(***************************************************************************)
(* What an open store holds besides its files: the directory lock and the  *)
(* descriptors of its pool.  Whoever has the lock reads through a pool of  *)
(* its own, which goes when the store is dropped or its process dies; the  *)
(* next holder, who may find another store in that place, starts anew.     *)
(***************************************************************************)
EXTENDS FdPool, DirLock

rvars == <<fvars, lvars>>

ResourceInit == FdPoolInit /\ DirLockInit

\* acquire has returned to this process.
HasStore(p) == state[p] \in {"ready", "unnamed"}

\* The holder is gone, and with it the fields of its DataWal.
PoolGone ==
    /\ entries' = <<>>
    /\ recent' = <<>>
    /\ UNCHANGED <<capacity, calls>>

\* A step of acquire, of drop, or a death.
LockStep ==
    /\ DirLockNext
    /\ IF \E p \in Procs : HasStore(p) /\ ~HasStore(p)' THEN PoolGone ELSE UNCHANGED fvars

\* get, in the process that has the store.
PoolStep ==
    /\ \E p \in Procs : HasStore(p)
    /\ FdPoolNext
    /\ UNCHANGED lvars

ResourceNext == LockStep \/ PoolStep

ResourceSpec == ResourceInit /\ [][ResourceNext]_rvars
=============================================================================
