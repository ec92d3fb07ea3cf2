-------------------------- MODULE MCAccountSwitch --------------------------
(* AccountSwitch for TLC: clients and accounts are interchangeable.        *)
EXTENDS AccountSwitch, TLC

Symmetry == Permutations(Accounts) \cup Permutations(Clients)

\* Keeps the run small: one kind of trouble is followed at a time, and none that
\* every property leaves out; one account is given one credential at most.
OneTrouble ==
    /\ Cardinality(trouble) <= 1 /\ Without({"update", "race", "expired"})
    /\ \E a \in Accounts : issued[a] <= 1

\* What a call has read and will not use any more makes no difference.
Relevant(x) ==
    CASE x.pc = "release" -> <<x.pc, x.login>>
      [] x.pc \in {"restore", "clear"} -> <<x.pc, x.login, x.op \in LoginOps>>
      [] x.op = "switch" /\ x.pc \in {"incoming", "save"} -> <<x.op, x.pc, x.to, x.idx>>
      [] x.op \in {"list", "activate"} /\ x.pc = "activate" -> <<x.op, x.pc, x.acct, x.login>>
      [] x.op \in {"list", "activate"} -> <<x.op, x.pc, x.acct, x.login, x.idx>>
      [] OTHER -> x
View == <<[c \in Clients |-> Relevant(call[c])],
          hostVars, providerVars, loginVars, mutex, trouble, faults>>
=============================================================================
