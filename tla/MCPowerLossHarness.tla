------------------------- MODULE MCPowerLossHarness -------------------------
(* Constant values for model checking PowerLossHarness: four operations on *)
(* two keys, the third of them a delete of the first key.                  *)
EXTENDS PowerLossHarness

CONSTANTS v0, v1, v2, v3, v4

MCValueFor == [n \in 0 .. Ops |-> <<v0, v1, v2, v3, v4>>[n + 1]]
MCData == {OpOf(n) : n \in 0 .. (Ops - 1)}
MCDataSize == [d \in Data |-> 1]
MCCuts == {1, 4}
MCStructuralCuts == {1}
=============================================================================
