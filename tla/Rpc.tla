--------------------------------- MODULE Rpc ---------------------------------
(* What a remote procedure call of the host promises, whoever carries it:  *)
(* a request is executed at most once, a reply is the reply to this very   *)
(* request, and a call that was refused is never executed.  A call that    *)
(* was lost (the other side died, or the caller lost patience) may have    *)
(* been executed, and may still be.                                        *)
EXTENDS Naturals

CONSTANTS Calls, NoCall

VARIABLES progress,     \* idle, open, or how it ended: replied, refused, lost
          executed,     \* how often the other side carried a call out
          answer        \* the call whose reply a call returned with, or NoCall

vars == <<progress, executed, answer>>

Init ==
    /\ progress = [c \in Calls |-> "idle"]
    /\ executed = [c \in Calls |-> 0]
    /\ answer = [c \in Calls |-> NoCall]

Ask(c) ==
    /\ progress[c] = "idle"
    /\ progress' = [progress EXCEPT ![c] = "open"]
    /\ UNCHANGED <<executed, answer>>

Execute(c) ==
    /\ progress[c] \in {"open", "lost"} /\ executed[c] = 0
    /\ executed' = [executed EXCEPT ![c] = 1]
    /\ UNCHANGED <<progress, answer>>

Reply(c) ==
    /\ progress[c] = "open" /\ executed[c] = 1
    /\ progress' = [progress EXCEPT ![c] = "replied"]
    /\ answer' = [answer EXCEPT ![c] = c]
    /\ UNCHANGED executed

Refuse(c) ==
    /\ progress[c] \in {"idle", "open"} /\ executed[c] = 0
    /\ progress' = [progress EXCEPT ![c] = "refused"]
    /\ UNCHANGED <<executed, answer>>

Lose(c) ==
    /\ progress[c] = "open"
    /\ progress' = [progress EXCEPT ![c] = "lost"]
    /\ UNCHANGED <<executed, answer>>

Next == \E c \in Calls : Ask(c) \/ Execute(c) \/ Reply(c) \/ Refuse(c) \/ Lose(c)

Spec == Init /\ [][Next]_vars
=============================================================================
