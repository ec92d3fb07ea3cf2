---------------------------- MODULE MCClaudeTurn ----------------------------
(* ClaudeTurn for TLC: message ids are interchangeable, and states that    *)
(* differ in the resting flag only are one, since no handler but the one   *)
(* that reports it reads it.                                               *)
EXTENDS ClaudeTurn, TLC

Symmetry == Permutations(Msgs)
View == <<sdk, sessVars, callVars, queueVars, streaming, status, convVars, controlVars, liveVars>>
=============================================================================
