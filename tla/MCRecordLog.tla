----------------------------- MODULE MCRecordLog -----------------------------
(* Constant values for model checking RecordLog. *)
EXTENDS LogRefinement

CONSTANTS small, large   \* records of two sizes

MCDataSize == [d \in Data |-> IF d = small THEN 1 ELSE 2]

(***************************************************************************)
(* Frames of 5 and 6 bytes with a header of 3.  Of the cuts, 1 splices to  *)
(* a header that is refused, 2 to one that passes, 4 is after the header.  *)
(***************************************************************************)
MCCuts == {1, 2, 4}
MCStructuralCuts == {1}
==============================================================================
