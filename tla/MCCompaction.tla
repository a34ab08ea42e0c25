---------------------------- MODULE MCCompaction ----------------------------
(* Constant values for model checking Compaction: three keys, values of two *)
(* sizes.                                                                   *)
EXTENDS Compaction

CONSTANTS short, long

MCData == [type : {"Put"}, key : Keys, value : Values]
MCDataSize == [d \in Data |-> IF d.value = short THEN 1 ELSE 2]
MCCuts == {1, 2, 4}
MCStructuralCuts == {1}
=============================================================================
