-------------------------- MODULE MCPtyLifecycle --------------------------
(* PtyLifecycle for TLC: sessions, callers and ids are interchangeable.    *)
EXTENDS PtyLifecycle, TLC

Symmetry == Permutations(Ids) \cup Permutations(Callers)

\* Keeps the run small: only the first session writes, and only its shutdown may
\* run into the deadline, so only its threads outlive it.
FirstIsLate == \A g \in Gens : late[g] \/ written[g] > 0 => g = 1
===========================================================================
