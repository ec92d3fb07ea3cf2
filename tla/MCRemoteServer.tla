--------------------------- MODULE MCRemoteServer ---------------------------
(* RemoteServer on small instances.                                        *)
EXTENDS RemoteServer

CONSTANT Budget     \* bound: what happens besides the first server and token

Happened(pcs) == Cardinality({x \in DOMAIN pcs : pcs[x] \notin {"unborn", "none"}})
Budgeted ==
    LET conns == Happened([c \in Conns |-> conn[c].pc])
        events == Happened([n \in Events |-> cast[n].pc])
        invokes == Happened([i \in Invokes |-> invoke[i].pc])
    IN /\ started + issued + conns + events + invokes <= Budget + 2
       /\ conns > 1 => invokes <= 1 /\ (invokes = 0 \/ events = 0)
       /\ conns > 2 => invokes + events = 0
=============================================================================
