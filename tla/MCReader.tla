------------------------------ MODULE MCReader ------------------------------
(* Constant values for model checking Reader, as in MCRecordLog. *)
EXTENDS Reader

CONSTANTS small, large

MCDataSize == [d \in Data |-> IF d = small THEN 1 ELSE 2]
MCCuts == {1, 2, 4}
MCStructuralCuts == {1}
=============================================================================
