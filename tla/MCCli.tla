------------------------------- MODULE MCCli -------------------------------
(* Constant values for model checking Cli: two keys, one of them deleted. *)
EXTENDS Cli

CONSTANTS a, b, one, long

MCData == {[type |-> "Put", key |-> a, value |-> one],
           [type |-> "Put", key |-> b, value |-> long],
           [type |-> "Delete", key |-> a, value |-> one]}

MCDataSize == [d \in Data |-> IF d.value = long THEN 2 ELSE 1]

MCCuts == {4}
MCStructuralCuts == {1}

\* The second starts behind the first short frame of the first segment.
MCFroms == {<<0, 0>>, <<1, 5>>}
=============================================================================
