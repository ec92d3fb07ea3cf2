---- MODULE MCCodexTurn ----
EXTENDS CodexTurn, TLC
Symmetric == Permutations(Callers) \cup Permutations(Sessions)
\* A second process or thread only while one session is there and one call is
\* under way.
Busy == {c \in Callers : ~At(c, "idle")}
Focused == \/ conns < 2 /\ threads < 2
           \/ events < 4 /\ Cardinality(Present) < 2 /\ Cardinality(Busy) < 2
====
