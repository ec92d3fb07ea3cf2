------------------------- MODULE MCRemoteClientPool -------------------------
(* RemoteClientPool on small instances.                                    *)
EXTENDS RemoteClientPool, FiniteSets

CONSTANTS w1, k1, t1    \* the first window, host and worker

Busy == {t \in Tasks : task[t].pc # "idle"}
Seats == UNION {referrers[c] : c \in Conns} \cup ({task[t].win : t \in Tasks} \ {NoWin})
         \cup {w \in Windows : bindings[w] # NoKey}
Hosts == ({keyOf[c] : c \in Conns} \cup {task[t].want : t \in Tasks}
          \cup {bindings[w] : w \in Windows}) \ {NoKey}

\* Two workers overlap at one window and one host; once there are two windows or
\* two hosts, one worker does everything.  The first window and host come first.
\* Only a command leads out of this, and no fairness asks for commands: the
\* liveness properties hold of whatever is commanded within it.
OneOverlap ==
    /\ Cardinality(Seats) > 1 \/ Cardinality(Hosts) > 1 => Busy \subseteq {t1}
    /\ Hosts # {} => k1 \in Hosts
    /\ Seats # {} => w1 \in Seats \/ \E c \in Conns : loop[c] # "none"
=============================================================================
