--------------------------- MODULE MCSidecarBridge ---------------------------
(* SidecarBridge for TLC: calls are interchangeable.                       *)
EXTENDS SidecarBridge, TLC

Symmetry == Permutations(Calls)
=============================================================================
