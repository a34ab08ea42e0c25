----------------------------- MODULE MCDataWal -----------------------------
(* Constant values for model checking DataWal. *)
EXTENDS DataWal

CONSTANTS a, b, one, two, long

PutOf(k, v) == [type |-> "Put", key |-> k, value |-> v]

(***************************************************************************)
(* Values of different sizes, a tombstone and a Raw record under one key,  *)
(* so that all that happens concerns it.                                   *)
(***************************************************************************)
MCData == {PutOf(a, one), PutOf(a, long),
           [type |-> "Delete", key |-> a, value |-> one],
           [type |-> "Raw", key |-> a, value |-> one]}

\* Two keys with values of one size, and a longer record to be cut short.
MCTwoKeys == {PutOf(a, one), PutOf(b, two), PutOf(b, long)}

MCDataSize == [d \in Data |-> IF d.value = long THEN 2 ELSE 1]

\* The cut of 5 leaves as many bytes as a short frame has.
MCCuts == {1, 4}
MCLongCuts == {1, 4, 5}
MCStructuralCuts == {1}
=============================================================================
