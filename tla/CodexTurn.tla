------------------------------ MODULE CodexTurn ------------------------------
(* Turns of Codex sessions: codex_app_server.rs.                            *)
(*                                                                          *)
(* All sessions share one codex app-server, a child process that is spawned *)
(* when somebody needs it and given up when it is idle or outdated.  Calls  *)
(* of the renderer run on threads of their own; those that start or end a   *)
(* turn take the lock of their session.  The reader of a process applies    *)
(* its notifications without that lock.                                     *)
(*                                                                          *)
(* A turn has the number of the send that asked for it.  A session that     *)
(* shows it is at the stage `sent' (the local key of the turn), `known'     *)
(* (the id from the response) or `begun' (turn/started); it is running if   *)
(* and only if it shows a turn.                                             *)
(*                                                                          *)
(* Merged: the sections of one operation that nothing reads in between (the *)
(* sessions and thread_to_session when a thread changes hands, the last     *)
(* remembered turns and the start of the next).  Left out: what a switch of *)
(* accounts does to the sessions, the texts of a turn, the limit of sixteen *)
(* ignored turns, and abort_requested, which nothing sets.                  *)
EXTENDS Naturals, FiniteSets, Sequences

CONSTANTS Sessions,     \* session ids of the renderer
          Callers,      \* threads that execute its calls
          NoSession, NoCaller,
          MaxTurns,     \* bound: sends that reach turn/start
          MaxThreads,   \* bound: threads the app-server makes
          MaxConns,     \* bound: app-server processes
          MaxAsks,      \* bound: approvals a process asks for
          MaxLocks,     \* bound: lock objects of a session
          MaxEvents     \* bound: calls of the renderer, crashes, timeouts and errors

ASSUME NoneAssumption == NoSession \notin Sessions /\ NoCaller \notin Callers
ASSUME BoundAssumption == /\ MaxTurns \in Nat /\ MaxThreads \in Nat /\ MaxConns \in Nat
                          /\ MaxAsks \in Nat /\ MaxLocks \in Nat
                          /\ MaxEvents \in Nat

Turns == 1 .. MaxTurns
Threads == 1 .. MaxThreads
Conns == 1 .. MaxConns
Asks == 1 .. MaxAsks
None == 0       \* no turn, no thread, no process

VARIABLES
    sess,       \* sessions: what the host knows of a session
    owner,      \* thread_to_session
    prompts,    \* pending_approvals, by the id of the request
    lock,       \* turn_operation_locks: which lock object the map has
    call,       \* the call a thread executes
    slot,       \* connection: the process in use
    reaping,    \* whether the idle reaper has found the process idle
    conns,      \* how many processes were spawned
    live,       \* the processes that run
    reader,     \* the processes whose output is still read
    wire,       \* the output of a process that was not read yet
    requests,   \* the requests that were not served yet
    threads,    \* how many threads were made
    loaded,     \* the threads a process knows
    turn,       \* a turn, as the process has it
    asked,      \* the approvals a process asked for: the turn of each
    answers,    \* how often an approval was answered
    fate,       \* history: whether a turn was taken over, left or let go
    events      \* how many calls and faults there were

hostVars == <<sess, owner, prompts, fate>>
linkVars == <<slot, reaping, conns, live, reader>>
pipeVars == <<wire, requests>>
serverVars == <<threads, loaded, turn, asked>>
vars == <<hostVars, lock, call, linkVars, pipeVars, serverVars, answers, events>>

Session == [here : BOOLEAN, thread : {None} \cup Threads, used : BOOLEAN,
            turn : {None} \cup Turns, stage : {"none", "sent", "known", "begun"},
            ignored : SUBSET Turns]
Running(e) == e.stage # "none"
Absent == [here |-> FALSE, thread |-> None, used |-> FALSE, turn |-> None, stage |-> "none",
           ignored |-> {}]
Fresh == [Absent EXCEPT !.here = TRUE]

\* A message of a process: a notification about a thread or a turn, a question,
\* or the answer to the request of a caller.
Message == [kind : {"thread", "started", "completed", "failed", "ask", "ok", "found", "none",
                    "missing", "error"},
            by : Callers \cup {NoCaller}, turn : {None} \cup Turns,
            thread : {None} \cup Threads, ask : {None} \cup Asks]
Says(kind, r, t) == [kind |-> kind, by |-> NoCaller, turn |-> r, thread |-> t, ask |-> None]
Lost == Says("error", None, None)
Replies == {"ok", "found", "none", "missing", "error"}

Request == [by : Callers \cup {NoCaller}, conn : Conns, turn : {None} \cup Turns,
            for : {"thread", "resume", "turn", "interrupt"}, thread : {None} \cup Threads]

\* A call: its operation and how far it is; its lock object, process and
\* thread; the turn it starts or interrupts, and for which one (from); the
\* turns still to be interrupted and those that were; what it remembers; the
\* request it waits for and the answer.
Idle == [op |-> "none", pc |-> "idle", s |-> NoSession, gate |-> 0, conn |-> None,
         thread |-> None, turn |-> None, from |-> None, todo |-> {}, seen |-> {},
         notes |-> {}, for |-> "turn", answer |-> Lost]
Locked == {"send", "abort", "stop", "reset"}
Calls == [op : Locked \cup {"none", "start", "resume"},
          pc : {"idle", "gate", "enter", "wait", "link", "relink", "spawn", "own", "clear",
                "pending", "asked", "answered"},
          s : Sessions \cup {NoSession}, gate : 0 .. MaxLocks, conn : {None} \cup Conns,
          thread : {None} \cup Threads, turn : {None} \cup Turns, from : {None} \cup Turns,
          todo : SUBSET Turns, seen : SUBSET Turns,
          notes : SUBSET {"made", "used", "found", "hit", "again"},
          for : {"thread", "resume", "turn", "interrupt"}, answer : Message]

Turn == [at : {"unborn", "asked", "accepted", "active", "over"}, conn : {None} \cup Conns,
         thread : {None} \cup Threads, home : Sessions \cup {NoSession}]
Prompt == [s : Sessions \cup {NoSession}, conn : {None} \cup Conns]
NoPrompt == [s |-> NoSession, conn |-> None]

TypeOK ==
    /\ sess \in [Sessions -> Session]
    /\ \A s \in Sessions : sess[s].turn = None <=> ~Running(sess[s])
    /\ owner \in [Threads -> Sessions \cup {NoSession}]
    /\ prompts \in [Asks -> Prompt]
    /\ lock \in [Sessions -> 0 .. MaxLocks]
    /\ call \in [Callers -> Calls]
    /\ slot \in {None} \cup Conns /\ reaping \in BOOLEAN
    /\ conns \in 0 .. MaxConns /\ live \subseteq Conns /\ reader \subseteq Conns
    /\ wire \in [Conns -> Seq(Message)]
    /\ requests \subseteq Request
    /\ threads \in 0 .. MaxThreads /\ loaded \in [Conns -> SUBSET Threads]
    /\ turn \in [Turns -> Turn]
    /\ asked \in [Conns -> [Asks -> {None} \cup Turns]]
    /\ answers \in [Conns -> [Asks -> Nat]]
    /\ fate \in [Turns -> {"ours", "taken", "left", "loose"}]
    /\ events \in 0 .. MaxEvents

Init ==
    /\ sess = [s \in Sessions |-> Absent]
    /\ owner = [t \in Threads |-> NoSession]
    /\ prompts = [n \in Asks |-> NoPrompt]
    /\ lock = [s \in Sessions |-> 0]
    /\ call = [c \in Callers |-> Idle]
    /\ slot = None /\ reaping = FALSE
    /\ conns = 0 /\ live = {} /\ reader = {}
    /\ wire = [k \in Conns |-> <<>>]
    /\ requests = {}
    /\ threads = 0 /\ loaded = [k \in Conns |-> {}]
    /\ turn = [r \in Turns |-> [at |-> "unborn", conn |-> None, thread |-> None,
                                home |-> NoSession]]
    /\ asked = [k \in Conns |-> [n \in Asks |-> None]]
    /\ answers = [k \in Conns |-> [n \in Asks |-> 0]]
    /\ fate = [r \in Turns |-> "ours"]
    /\ events = 0

-----------------------------------------------------------------------------
(* Steps the operations share *)

\* An event is counted: a call, or something that goes wrong.
Counts(bad) == IF bad THEN events < MaxEvents /\ events' = events + 1 ELSE UNCHANGED events

At(c, pc) == call[c].pc = pc
Of(c) == sess[call[c].s]
Goes(c, pc) == call' = [call EXCEPT ![c].pc = pc]
Returns(c) == call' = [call EXCEPT ![c] = Idle]
Answered(c, op, for, kinds) == /\ call[c].pc = "answered" /\ call[c].op = op
                               /\ call[c].for = for /\ call[c].answer.kind \in kinds

\* The Arc of a process: the place in use and the calls that work with it.
Held(k) == slot = k \/ \E c \in Callers : call[c].conn = k

Interruptible(e) == e.stage \in {"known", "begun"}
Present == {s \in Sessions : sess[s].here}
\* Mutant: the turn is not forgotten.
EndedButShown(e) == [e EXCEPT !.stage = "none"]
Ended(e) == [e EXCEPT !.turn = None, !.stage = "none"]

\* What becomes of turns: they are let go, or taken over, or left by a session
\* that goes on in another process or thread.
LetGo(R) == fate' = [r \in Turns |-> IF r \in R THEN "loose" ELSE fate[r]]
StillRuns(r) == turn[r].at \in {"accepted", "active"}
Place(c, r) == turn[r].conn = call[c].conn /\ turn[r].thread = call[c].thread
GoesOn(c) == fate' = [r \in Turns |->
    IF r # Of(c).turn THEN fate[r]
    ELSE IF r \notin call[c].seen THEN "loose"
    ELSE IF fate[r] = "ours" /\ StillRuns(r) /\ ~Place(c, r) THEN "left" ELSE fate[r]]

\* CodexConnection::request: written now, answered by the reader, given up
\* after a timeout.
Writes(c, for, t, r) ==
    /\ requests' = requests \cup {[by |-> c, conn |-> call[c].conn, for |-> for, thread |-> t,
                                   turn |-> r]}
    /\ UNCHANGED wire
TimesOut(c) ==
    /\ At(c, "asked")
    /\ call' = [call EXCEPT ![c].pc = "answered", ![c].answer = Lost]
    /\ requests' = {[q EXCEPT !.by = IF @ = c THEN NoCaller ELSE @] : q \in requests}
    /\ wire' = [k \in Conns |-> [i \in DOMAIN wire[k] |->
                   [wire[k][i] EXCEPT !.by = IF @ = c THEN NoCaller ELSE @]]]
    /\ UNCHANGED <<hostVars, lock, linkVars, serverVars, answers>>
    /\ Counts(TRUE)
\* The process is dead: nothing can be written to it.
Refused(c) ==
    \E q \in requests :
        /\ q.by = c /\ q.conn \notin live
        /\ requests' = requests \ {q}
        /\ call' = [call EXCEPT ![c].pc = "answered", ![c].answer = Lost]
        /\ UNCHANGED <<hostVars, lock, linkVars, wire, serverVars, answers, events>>

\* A call begins.  Those that are serialized fetch the lock object of their
\* session first, then wait for it.
Begin(c, op, s) ==
    /\ At(c, "idle") /\ op \in Locked
    /\ call' = [call EXCEPT ![c] = [Idle EXCEPT !.op = op, !.pc = "gate", !.s = s,
                                                !.gate = lock[s]]]
    /\ UNCHANGED <<hostVars, lock, linkVars, pipeVars, serverVars, answers>>
    /\ Counts(TRUE)
Enter(c) ==
    /\ At(c, "gate")
    /\ \A d \in Callers : (call[d].s = call[c].s /\ call[d].gate = call[c].gate) =>
                              (call[d].op \notin Locked \/ At(d, "gate"))
    /\ Goes(c, "enter")
    /\ UNCHANGED <<hostVars, lock, linkVars, pipeVars, serverVars, answers, events>>

\* cancel_pending_approvals: every approval of the session is answered, if its
\* process is still held.
\* Mutant: they stay in the table.
CancelledInPlace(P) == prompts
Cancelled(P) == [n \in Asks |-> IF n \in P THEN NoPrompt ELSE prompts[n]]
Replied(P) == [k \in Conns |-> [n \in Asks |-> answers[k][n] +
                                    (IF n \in P /\ prompts[n].conn = k /\ Held(k) THEN 1 ELSE 0)]]
PromptsOf(s) == {n \in Asks : prompts[n] # NoPrompt /\ prompts[n].s = s}
CancelPrompts(s) == prompts' = Cancelled(PromptsOf(s)) /\ answers' = Replied(PromptsOf(s))

\* take_thread_ownership: every other session on the thread ends what it shows,
\* which both sessions will ignore from now on.
Others(S, t, s) == {o \in Sessions \ {s} : S[o].here /\ S[o].thread = t}
Taken(S, t, s) == {S[o].turn : o \in {p \in Others(S, t, s) : Interruptible(S[p])}}
TakeThread(S, t, s) == [o \in Sessions |->
    IF o = s /\ S[o].here THEN [S[o] EXCEPT !.thread = t, !.ignored = @ \cup Taken(S, t, s)]
    ELSE IF o \notin Others(S, t, s) THEN S[o]
    ELSE [Ended(S[o]) EXCEPT !.ignored = IF Interruptible(S[o]) THEN @ \cup {S[o].turn} ELSE @]]
TakeOwnership(S, t, s) ==
    /\ sess' = TakeThread(S, t, s)
    /\ owner' = [owner EXCEPT ![t] = s]
\* The turns that are taken over, and those let go because they have no id yet.
Unseen(S, t, s) == {S[o].turn : o \in {p \in Others(S, t, s) : S[p].stage = "sent"}}
FateOf(R, t, s, S) == fate' = [r \in Turns |->
    IF r \in R \cup Unseen(S, t, s) THEN "loose"
    ELSE IF r \in Taken(S, t, s) /\ fate[r] = "ours" THEN "taken" ELSE fate[r]]

\* fail_turn
FailTurn(s) ==
    /\ CancelPrompts(s)
    /\ sess' = [sess EXCEPT ![s] = Ended(@)]
    /\ LetGo({sess[s].turn})
    /\ UNCHANGED owner

-----------------------------------------------------------------------------
(* The process in use: ensure_connection, the idle reaper *)

\* Where an operation goes once it has a process.
Linked(c, k) ==
    LET e == call[c]
        asks == CASE e.op = "start" \/ e.op = "reset" -> "thread"
                  [] e.op = "resume" -> "resume"
                  [] e.op = "send" /\ e.thread = None -> "thread"
                  [] OTHER -> "none"
    IN IF asks = "none"
       THEN /\ call' = [call EXCEPT ![c].conn = k,
                                    ![c].pc = IF e.op = "send" THEN "own" ELSE "clear"]
            /\ UNCHANGED pipeVars
       ELSE /\ call' = [call EXCEPT ![c].conn = k, ![c].pc = "asked", ![c].for = asks]
            /\ requests' = requests \cup {[by |-> c, conn |-> k, for |-> asks,
                                           thread |-> e.thread, turn |-> None]}
            /\ UNCHANGED wire
Unlinked(c) == UNCHANGED <<lock, serverVars, answers, prompts, owner>>

\* reuse_or_recycle_connection: the process is used, or found outdated and then
\* taken away.  It is when the account on disk has changed, whatever runs, or
\* the binary has while no turn runs; so it may be at any time.
Reuse(c) ==
    /\ At(c, "link") /\ slot # None
    /\ Linked(c, slot)
    /\ UNCHANGED <<sess, fate, linkVars>> /\ Unlinked(c)
    /\ UNCHANGED events
Outdated(c) ==
    /\ At(c, "link") /\ slot # None
    /\ Goes(c, "relink")
    /\ UNCHANGED <<hostVars, lock, linkVars, pipeVars, serverVars, answers>>
    /\ Counts(TRUE)
Recycle(c) ==
    /\ \/ At(c, "relink")
       \/ At(c, "link") /\ slot = None
    /\ slot' = None
    /\ Goes(c, "spawn")
    /\ UNCHANGED <<hostVars, lock, reaping, conns, live, reader, pipeVars, serverVars, answers, events>>
\* The new process is put in place, whatever is there by now.
Spawn(c) ==
    /\ At(c, "spawn") /\ conns < MaxConns
    /\ conns' = conns + 1 /\ slot' = conns + 1
    /\ live' = live \cup {conns + 1} /\ reader' = reader \cup {conns + 1}
    /\ Linked(c, conns + 1)
    /\ UNCHANGED <<sess, fate, reaping>> /\ Unlinked(c)
    /\ UNCHANGED events
SpawnFails(c) ==
    /\ At(c, "spawn")
    /\ IF call[c].op = "start" \/ (call[c].op = "send" /\ call[c].thread = None)
       THEN /\ sess' = [sess EXCEPT ![call[c].s] = Absent]
            /\ LetGo({Of(c).turn} \cup Of(c).ignored)
       ELSE UNCHANGED <<sess, fate>>
    /\ Returns(c)
    /\ UNCHANGED <<linkVars, pipeVars>> /\ Unlinked(c)
    /\ Counts(TRUE)

\* The reaper looks, then takes the process away.  It wants five minutes
\* without a call that used the process, which is longer than a call takes.
ReaperLooks ==
    /\ ~reaping /\ slot # None
    /\ \A c \in Callers : call[c].conn = None
    /\ \A s \in Sessions : ~Running(sess[s])
    /\ \A n \in Asks : prompts[n] = NoPrompt
    /\ reaping' = TRUE
    /\ UNCHANGED <<hostVars, lock, call, slot, conns, live, reader, pipeVars, serverVars, answers, events>>
Reap ==
    /\ reaping /\ reaping' = FALSE /\ slot' = None
    /\ UNCHANGED <<hostVars, lock, call, conns, live, reader, pipeVars, serverVars, answers, events>>

\* A process ends: it crashes, or nobody holds it any more and it is killed.
Dies(k) ==
    /\ k \in live /\ live' = live \ {k}
    /\ turn' = [r \in Turns |-> IF turn[r].conn = k /\ turn[r].at # "unborn"
                                THEN [turn[r] EXCEPT !.at = "over"] ELSE turn[r]]
    /\ UNCHANGED <<hostVars, lock, call, slot, reaping, conns, reader, pipeVars, threads, loaded,
                   asked, answers>>
    /\ Counts(Held(k))

-----------------------------------------------------------------------------
(* Sessions: start_session, resume_session, reset_session, stop_session,    *)
(* rest_session                                                             *)

Start(c, s) ==
    /\ At(c, "idle")
    /\ sess' = [sess EXCEPT ![s] = Fresh]
    /\ LetGo({sess[s].turn} \cup sess[s].ignored)
    /\ call' = [call EXCEPT ![c] = [Idle EXCEPT !.op = "start", !.pc = "link", !.s = s]]
    /\ UNCHANGED <<owner, prompts, lock, linkVars, pipeVars, serverVars, answers>>
    /\ Counts(TRUE)
Started(c) ==
    /\ Answered(c, "start", "thread", {"ok"})
    /\ TakeOwnership(sess, call[c].answer.thread, call[c].s)
    /\ FateOf({}, call[c].answer.thread, call[c].s, sess)
    /\ Returns(c)
    /\ UNCHANGED <<prompts, lock, linkVars, pipeVars, serverVars, answers, events>>
StartFails(c) ==
    /\ Answered(c, "start", "thread", Replies \ {"ok"})
    /\ sess' = [sess EXCEPT ![call[c].s] = Absent]
    /\ LetGo({Of(c).turn} \cup Of(c).ignored)
    /\ Returns(c)
    /\ UNCHANGED <<owner, prompts, lock, linkVars, pipeVars, serverVars, answers, events>>

Resume(c, s, t) ==
    /\ At(c, "idle") /\ t <= threads
    /\ call' = [call EXCEPT ![c] = [Idle EXCEPT !.op = "resume", !.pc = "link", !.s = s,
                                                !.thread = t]]
    /\ UNCHANGED <<hostVars, lock, linkVars, pipeVars, serverVars, answers>>
    /\ Counts(TRUE)
Resumed(c) ==
    LET e == call[c]
        S == [sess EXCEPT ![e.s] = [Fresh EXCEPT !.thread = e.thread, !.used = TRUE]]
    IN /\ Answered(c, "resume", "resume", {"ok"})
       /\ TakeOwnership(S, e.thread, e.s)
       /\ FateOf({Of(c).turn} \cup Of(c).ignored, e.thread, e.s, S)
       /\ call' = [call EXCEPT ![c].pc = "clear", ![c].todo = Taken(S, e.thread, e.s)]
       /\ UNCHANGED <<prompts, lock, linkVars, pipeVars, serverVars, answers>>
    /\ UNCHANGED events
ResumeFails(c) ==
    /\ Answered(c, "resume", "resume", Replies \ {"ok"})
    /\ Returns(c)
    /\ UNCHANGED <<hostVars, lock, linkVars, pipeVars, serverVars, answers, events>>
ResumeEnds(c) ==
    /\ At(c, "clear") /\ call[c].op = "resume" /\ call[c].todo = {}
    /\ sess' = [sess EXCEPT ![call[c].s].ignored = IF Of(c).here THEN @ \cup call[c].seen ELSE @]
    /\ Returns(c)
    /\ UNCHANGED <<owner, prompts, fate, lock, linkVars, pipeVars, serverVars, answers, events>>

Reset(c) ==
    LET s == call[c].s t == sess[s].thread IN
    /\ At(c, "enter") /\ call[c].op = "reset"
    /\ owner' = [u \in Threads |-> IF sess[s].here /\ u = t /\ owner[u] = s THEN NoSession
                                   ELSE owner[u]]
    /\ IF sess[s].here THEN Goes(c, "link") ELSE Returns(c)
    /\ UNCHANGED <<sess, prompts, fate, lock, linkVars, pipeVars, serverVars, answers, events>>
ResetEnds(c) ==
    LET e == call[c] IN
    /\ Answered(c, "reset", "thread", Replies)
    /\ IF e.answer.kind = "ok" /\ Of(c).here
       THEN /\ sess' = [sess EXCEPT ![e.s] = [Ended(@) EXCEPT !.thread = e.answer.thread,
                                                             !.used = FALSE]]
            /\ owner' = [owner EXCEPT ![e.answer.thread] = e.s]
            /\ LetGo({Of(c).turn})
       ELSE UNCHANGED <<sess, owner, fate>>
    /\ Returns(c)
    /\ UNCHANGED <<prompts, lock, linkVars, pipeVars, serverVars, answers, events>>

\* The lock object is removed too, while others may wait for it.
Stop(c) ==
    LET s == call[c].s IN
    /\ At(c, "enter") /\ call[c].op = "stop" /\ lock[s] < MaxLocks
    /\ sess' = [sess EXCEPT ![s] = Absent]
    /\ owner' = [t \in Threads |-> IF t = sess[s].thread /\ owner[t] = s THEN NoSession ELSE owner[t]]
    /\ LetGo({sess[s].turn} \cup sess[s].ignored)
    /\ lock' = [lock EXCEPT ![s] = @ + 1]
    /\ Returns(c)
    /\ UNCHANGED <<prompts, linkVars, pipeVars, serverVars, answers, events>>
Rest(s) ==
    /\ Running(sess[s])
    /\ sess' = [sess EXCEPT ![s] = Ended(@)]
    /\ LetGo({sess[s].turn})
    /\ UNCHANGED <<owner, prompts, lock, call, linkVars, pipeVars, serverVars, answers>>
    /\ Counts(TRUE)

-----------------------------------------------------------------------------
(* send_message *)

Send(c) ==
    LET s == call[c].s e == sess[s] IN
    /\ At(c, "enter") /\ call[c].op = "send"
    /\ IF ~e.here \/ (e.thread # None /\ e.stage = "sent")
              \/ (e.thread = None /\ "made" \in call[c].notes)
       THEN Returns(c)
       ELSE call' = [call EXCEPT ![c].pc = "link", ![c].thread = e.thread,
                ![c].todo = IF e.thread # None /\ Interruptible(e) THEN {e.turn} ELSE {},
                ![c].notes = IF e.used THEN {"used"} ELSE {}]
    /\ UNCHANGED <<hostVars, lock, linkVars, pipeVars, serverVars, answers, events>>
\* build_turn_input: a picture cannot be used, which fails whatever turn runs.
BadInput(c) ==
    /\ At(c, "enter") /\ call[c].op = "send" /\ "made" \notin call[c].notes
    /\ FailTurn(call[c].s)
    /\ Returns(c)
    /\ UNCHANGED <<lock, linkVars, pipeVars, serverVars>>
    /\ Counts(TRUE)
\* ensure_thread_for_session
ThreadMade(c) ==
    LET e == call[c] t == e.answer.thread IN
    /\ Answered(c, "send", "thread", {"ok"}) /\ e.turn = None
    /\ sess' = [sess EXCEPT ![e.s] = IF @.here THEN [@ EXCEPT !.thread = t, !.used = FALSE] ELSE @]
    /\ owner' = [owner EXCEPT ![t] = e.s]
    /\ call' = [call EXCEPT ![c].pc = "enter", ![c].conn = None, ![c].notes = {"made"}]
    /\ UNCHANGED <<prompts, fate, lock, linkVars, pipeVars, serverVars, answers, events>>
NoThread(c) ==
    /\ Answered(c, "send", "thread", Replies \ {"ok"}) /\ call[c].turn = None
    /\ Returns(c)
    /\ UNCHANGED <<hostVars, lock, linkVars, pipeVars, serverVars, answers, events>>
Own(c) ==
    LET e == call[c] IN
    /\ At(c, "own")
    /\ TakeOwnership(sess, e.thread, e.s)
    /\ FateOf({}, e.thread, e.s, sess)
    /\ call' = [call EXCEPT ![c].pc = "clear", ![c].todo = @ \cup Taken(sess, e.thread, e.s)]
    /\ UNCHANGED <<prompts, lock, linkVars, pipeVars, serverVars, answers, events>>

\* The turns to be replaced are over: the new one is asked for.
Unborn(r) == turn[r].at = "unborn" /\ \A q \in Turns : q < r => turn[q].at # "unborn"
Mark(c) ==
    LET e == call[c] IN
    /\ At(c, "clear") /\ e.op = "send" /\ e.todo = {}
    /\ \/ /\ ~Of(c).here
          /\ Returns(c)
          /\ UNCHANGED <<sess, fate, turn, pipeVars>>
       \/ /\ Of(c).here
          /\ \E r \in Turns :
                /\ Unborn(r)
                /\ sess' = [sess EXCEPT ![e.s].turn = r, ![e.s].stage = "sent",
                                        ![e.s].ignored = @ \cup e.seen]
                /\ GoesOn(c)
                /\ turn' = [turn EXCEPT ![r] = [at |-> "asked", conn |-> e.conn,
                                                thread |-> e.thread, home |-> e.s]]
                /\ call' = [call EXCEPT ![c].pc = "asked", ![c].for = "turn", ![c].turn = r]
                /\ Writes(c, "turn", e.thread, r)
    /\ UNCHANGED <<owner, prompts, lock, linkVars, threads, loaded, asked, answers, events>>

\* apply_turn_start_response
Apply(c) ==
    LET e == call[c] IN
    /\ Answered(c, "send", "turn", {"ok"})
    /\ sess' = [sess EXCEPT ![e.s].used = Of(c).here \/ @,
                            ![e.s].stage = IF Of(c).here /\ Of(c).turn = e.turn /\ @ = "sent"
                                           THEN "known" ELSE @]
    /\ Returns(c)
    /\ UNCHANGED <<owner, prompts, fate, lock, linkVars, pipeVars, serverVars, answers, events>>
\* The process does not know the thread: it is resumed, or if it was never
\* used replaced, and the turn is asked for once more.
NotFound(c) ==
    /\ Answered(c, "send", "turn", {"missing"}) /\ "again" \notin call[c].notes
    /\ call' = [call EXCEPT ![c].pc = "asked", ![c].for = "resume"]
    /\ Writes(c, "resume", call[c].thread, None)
    /\ UNCHANGED <<hostVars, lock, linkVars, serverVars, answers, events>>
AskAgain(c, t) ==
    LET e == call[c] IN
    /\ call' = [call EXCEPT ![c].pc = "asked", ![c].for = "turn", ![c].thread = t,
                            ![c].notes = @ \cup {"again"}]
    /\ turn' = [turn EXCEPT ![e.turn] = [@ EXCEPT !.at = "asked", !.thread = t]]
    /\ Writes(c, "turn", t, e.turn)
    /\ UNCHANGED <<prompts, lock, linkVars, threads, loaded, asked, answers>>
ThreadResumed(c) ==
    /\ Answered(c, "send", "resume", {"ok"})
    /\ TakeOwnership(sess, call[c].thread, call[c].s)
    /\ FateOf({}, call[c].thread, call[c].s, sess)
    /\ AskAgain(c, call[c].thread)
    /\ UNCHANGED events
Unpersisted(c) ==
    /\ Answered(c, "send", "resume", {"missing"}) /\ "used" \notin call[c].notes
    /\ call' = [call EXCEPT ![c].pc = "asked", ![c].for = "thread"]
    /\ Writes(c, "thread", None, None)
    /\ UNCHANGED <<hostVars, lock, linkVars, serverVars, answers, events>>
\* replace_unpersisted_thread
Replaceable(c) == Of(c).here /\ Of(c).thread = call[c].thread
Replaced(c) ==
    LET e == call[c] new == e.answer.thread IN
    /\ Answered(c, "send", "thread", {"ok"}) /\ e.turn # None /\ Replaceable(c)
    /\ sess' = [sess EXCEPT ![e.s].thread = new, ![e.s].used = FALSE]
    /\ owner' = [t \in Threads |-> IF t = new THEN e.s
                                   ELSE IF t = e.thread /\ owner[t] = e.s THEN NoSession
                                   ELSE owner[t]]
    /\ AskAgain(c, new)
    /\ UNCHANGED fate
    /\ UNCHANGED events
SendFails(c) ==
    LET e == call[c] IN
    /\ \/ Answered(c, "send", "turn", {"error"})
       \/ Answered(c, "send", "turn", {"missing"}) /\ "again" \in e.notes
       \/ Answered(c, "send", "resume", {"error"})
       \/ Answered(c, "send", "resume", {"missing"}) /\ "used" \in e.notes
       \/ Answered(c, "send", "thread", {"ok"}) /\ e.turn # None /\ ~Replaceable(c)
       \/ Answered(c, "send", "thread", {"error"}) /\ e.turn # None
    /\ FailTurn(e.s)
    /\ Returns(c)
    /\ UNCHANGED <<lock, linkVars, pipeVars, serverVars, events>>

-----------------------------------------------------------------------------
(* abort_session *)

\* The approvals of the session are cancelled, then its turn is looked up.
Abort(c) ==
    LET s == call[c].s e == sess[s] IN
    /\ At(c, "enter") /\ call[c].op = "abort"
    /\ CancelPrompts(s)
    /\ IF ~e.here \/ ~Running(e) \/ (Interruptible(e) /\ e.thread = None) THEN Returns(c)
       ELSE call' = [call EXCEPT ![c].thread = e.thread,
                ![c].pc = IF Interruptible(e) THEN "link" ELSE "wait",
                ![c].todo = IF Interruptible(e) THEN {e.turn} ELSE {}]
    /\ UNCHANGED <<sess, owner, fate, lock, linkVars, pipeVars, serverVars, events>>
\* wait_for_active_turn_id: it comes, the turn ends, or time runs out.
Wait(c) ==
    /\ At(c, "wait")
    /\ \/ Interruptible(Of(c)) /\ call[c].thread # None
          /\ call' = [call EXCEPT ![c].pc = "link", ![c].todo = {Of(c).turn}]
          /\ Counts(FALSE)
       \/ Returns(c) /\ Counts(Running(Of(c)))
    /\ UNCHANGED <<hostVars, lock, linkVars, pipeVars, serverVars, answers>>
AbortEnds(c) ==
    LET e == call[c] IN
    /\ At(c, "clear") /\ e.op = "abort" /\ e.todo = {}
    /\ IF "hit" \in e.notes /\ Interruptible(Of(c)) /\ Of(c).turn \in e.seen
       THEN /\ sess' = [sess EXCEPT ![e.s] = [Ended(@) EXCEPT !.ignored = Of(c).ignored \cup e.seen]]
            /\ GoesOn(c)
       ELSE UNCHANGED <<sess, fate>>
    /\ Returns(c)
    /\ UNCHANGED <<owner, prompts, lock, linkVars, pipeVars, serverVars, answers, events>>

-----------------------------------------------------------------------------
(* interrupt_turn_for_replacement *)

Interrupt(c) ==
    \E r \in call[c].todo :
        /\ At(c, "clear")
        /\ call' = [call EXCEPT ![c].pc = "asked", ![c].for = "interrupt", ![c].turn = r,
                                ![c].from = r, ![c].notes = @ \ {"found"}]
        /\ Writes(c, "interrupt", call[c].thread, r)
        /\ UNCHANGED <<hostVars, lock, linkVars, serverVars, answers>>
    /\ UNCHANGED events
InterruptAgain(c, r, notes) ==
    /\ call' = [call EXCEPT ![c].pc = "asked", ![c].for = "interrupt", ![c].turn = r,
                            ![c].notes = @ \cup notes]
    /\ Writes(c, "interrupt", call[c].thread, r)
    /\ UNCHANGED <<hostVars, lock, linkVars, serverVars, answers>>
\* The turn is over: interrupted, or it had ended.
Resolved(c, notes) ==
    /\ call' = [call EXCEPT ![c].pc = "clear", ![c].todo = @ \ {call[c].from},
                            ![c].seen = @ \cup {call[c].from, call[c].turn},
                            ![c].turn = None, ![c].notes = @ \cup notes]
    /\ UNCHANGED <<hostVars, lock, linkVars, pipeVars, serverVars, answers>>
\* It is not known to be over; a resume goes on regardless.
Unresolved(c) ==
    /\ IF call[c].op = "resume"
       THEN call' = [call EXCEPT ![c].pc = "clear", ![c].todo = @ \ {call[c].from}]
       ELSE Returns(c)
    /\ UNCHANGED <<hostVars, lock, linkVars, pipeVars, serverVars, answers>>
Interrupts(c, kinds) == Answered(c, call[c].op, "interrupt", kinds)

\* local_turn_state
\* Mutant: a turn that has not begun counts as over.
LocalStateByActive(e, r) == CASE ~e.here \/ e.stage # "begun" -> "finished"
                              [] e.turn = r -> "started"
                              [] OTHER -> "different"
LocalState(e, r) == CASE ~e.here \/ ~Running(e) -> "finished"
                      [] e.stage = "sent" \/ (e.turn = r /\ e.stage = "known") -> "pending"
                      [] e.turn = r /\ e.stage = "begun" -> "started"
                      [] OTHER -> "different"
Interrupted(c) == Interrupts(c, {"ok"}) /\ Resolved(c, {"hit"})
    /\ UNCHANGED events
FoundAnother(c) ==
    /\ Interrupts(c, {"found"}) /\ "found" \notin call[c].notes
    /\ InterruptAgain(c, call[c].answer.turn, {"found"})
    /\ UNCHANGED events
NoneActive(c) ==
    LET state == LocalState(Of(c), call[c].turn) IN
    /\ Interrupts(c, {"none"})
    /\ \/ /\ state = "pending"      \* wait_for_pending_turn_start
          /\ Goes(c, "pending")
          /\ UNCHANGED <<hostVars, lock, linkVars, pipeVars, serverVars, answers>>
          /\ Counts(FALSE)
       \/ state = "started" /\ InterruptAgain(c, call[c].turn, {}) /\ Counts(FALSE)
       \/ state = "finished" /\ Resolved(c, {}) /\ Counts(FALSE)
       \/ state \in {"started", "different"} /\ Unresolved(c) /\ Counts(state = "started")
PendingEnds(c) ==
    LET state == LocalState(Of(c), call[c].turn) IN
    /\ At(c, "pending")
    /\ \/ state = "started" /\ InterruptAgain(c, call[c].turn, {}) /\ Counts(FALSE)
       \/ state = "finished" /\ Resolved(c, {}) /\ Counts(FALSE)
       \/ state \in {"different", "pending"} /\ Unresolved(c) /\ Counts(state = "pending")
InterruptFails(c) ==
    /\ \/ Interrupts(c, {"missing", "error"})
       \/ Interrupts(c, {"found"}) /\ "found" \in call[c].notes
    /\ Unresolved(c)
    /\ UNCHANGED events

-----------------------------------------------------------------------------
(* The app-server, an external program *)

Output(k, s) == wire' = [wire EXCEPT ![k] = @ \o s]
Reply(q, kind, r, t) == [kind |-> kind, by |-> q.by, turn |-> r, thread |-> t, ask |-> None]
ActiveOn(k, t) == {r \in Turns : turn[r].conn = k /\ turn[r].thread = t /\ turn[r].at = "active"}
BusyOn(k, t) == {r \in Turns : turn[r].conn = k /\ turn[r].thread = t
                                   /\ turn[r].at \in {"accepted", "active"}}
Blocked(r) == \E k \in Conns, n \in Asks : asked[k][n] = r /\ answers[k][n] = 0
Over(R) == [r \in Turns |-> IF r \in R THEN [turn[r] EXCEPT !.at = "over"] ELSE turn[r]]

Serve(q) == q.conn \in live /\ requests' = requests \ {q}
\* The thread that was made or resumed may be announced, before the reply or
\* after it.
Announced(reply, t) == LET news == Says("thread", None, t)
                       IN {<<reply>>, <<reply, news>>, <<news, reply>>}
ServeThread(q) ==
    /\ Serve(q) /\ q.for = "thread"
    /\ \/ /\ threads < MaxThreads
          /\ threads' = threads + 1
          /\ loaded' = [loaded EXCEPT ![q.conn] = @ \cup {threads + 1}]
          /\ \E said \in Announced(Reply(q, "ok", None, threads + 1), threads + 1) :
                Output(q.conn, said)
          /\ Counts(FALSE)
       \/ /\ Output(q.conn, <<Reply(q, "error", None, None)>>)
          /\ UNCHANGED <<threads, loaded>>
          /\ Counts(TRUE)
    /\ UNCHANGED <<turn, asked, hostVars, lock, call, linkVars, answers>>
\* Only a thread that was made can be resumed.
ServeResume(q) ==
    /\ Serve(q) /\ q.for = "resume"
    /\ \E kind \in {"ok", "missing", "error"} :
          /\ kind = "ok" => q.thread \in 1 .. threads
          /\ IF kind = "ok"
             THEN \E said \in Announced(Reply(q, kind, None, None), q.thread) : Output(q.conn, said)
             ELSE Output(q.conn, <<Reply(q, kind, None, None)>>)
          /\ loaded' = IF kind = "ok" THEN [loaded EXCEPT ![q.conn] = @ \cup {q.thread}] ELSE loaded
          /\ Counts(kind # "ok")
    /\ UNCHANGED <<turn, threads, asked, hostVars, lock, call, linkVars, answers>>
\* One turn runs on a thread: a new one ends the one before.
ServeTurn(q) ==
    LET before == BusyOn(q.conn, q.thread) IN
    /\ Serve(q) /\ q.for = "turn"
    /\ IF q.thread \in loaded[q.conn]
       THEN \/ /\ turn' = [Over(before) EXCEPT ![q.turn].at = "accepted"]
               /\ \E ends \in {s \in [1 .. Cardinality(before) -> before] :
                                   \A r \in before : \E i \in DOMAIN s : s[i] = r} :
                      Output(q.conn, [i \in DOMAIN ends |-> Says("completed", ends[i], q.thread)]
                                       \o <<Reply(q, "ok", q.turn, None)>>)
               /\ Counts(FALSE)
            \/ /\ turn' = Over({q.turn})
               /\ Output(q.conn, <<Reply(q, "error", None, None)>>)
               /\ Counts(TRUE)
       ELSE /\ Output(q.conn, <<Reply(q, "missing", None, None)>>)
            /\ UNCHANGED turn
            /\ Counts(FALSE)
    /\ UNCHANGED <<threads, loaded, asked, hostVars, lock, call, linkVars, answers>>
\* Only a turn that has begun can be interrupted.
ServeInterrupt(q) ==
    LET active == ActiveOn(q.conn, q.thread)
        done == Says("completed", q.turn, q.thread) IN
    /\ Serve(q) /\ q.for = "interrupt"
    /\ \/ /\ q.turn \in active
          /\ turn' = Over({q.turn})
          /\ \E order \in {<<done, Reply(q, "ok", None, None)>>, <<Reply(q, "ok", None, None), done>>} :
                Output(q.conn, order)
       \/ /\ active # {} /\ q.turn \notin active
          /\ \E r \in active : Output(q.conn, <<Reply(q, "found", r, None)>>)
          /\ UNCHANGED turn
       \/ /\ active = {}
          /\ Output(q.conn, <<Reply(q, IF q.thread \in loaded[q.conn] THEN "none" ELSE "missing",
                                    None, None)>>)
          /\ UNCHANGED turn
    /\ UNCHANGED <<threads, loaded, asked, hostVars, lock, call, linkVars, answers, events>>

Activates(r) ==
    /\ turn[r].at = "accepted"
    /\ turn' = [turn EXCEPT ![r].at = "active"]
    /\ Output(turn[r].conn, <<Says("started", r, turn[r].thread)>>)
    /\ UNCHANGED <<requests, threads, loaded, asked, hostVars, lock, call, linkVars, answers, events>>
\* A turn ends, perhaps after an error.
Ends(r) ==
    LET done == Says("completed", r, turn[r].thread)
        failed == Says("failed", r, turn[r].thread) IN
    /\ turn[r].at = "active" /\ ~Blocked(r)
    /\ turn' = Over({r})
    /\ \E end \in {<<done>>, <<failed, done>>} :
          Output(turn[r].conn, end) /\ Counts(end # <<done>>)
    /\ UNCHANGED <<requests, threads, loaded, asked, hostVars, lock, call, linkVars, answers>>
AsksApproval(r) ==
    LET k == turn[r].conn IN
    /\ turn[r].at = "active"
    /\ \E n \in Asks :
          /\ asked[k][n] = None /\ \A m \in Asks : m < n => asked[k][m] # None
          /\ asked' = [asked EXCEPT ![k][n] = r]
          /\ Output(k, <<[Says("ask", r, turn[r].thread) EXCEPT !.ask = n]>>)
    /\ UNCHANGED <<requests, threads, loaded, turn, hostVars, lock, call, linkVars, answers, events>>

-----------------------------------------------------------------------------
(* The reader of a process: handle_server_message *)

\* session_id_for_notification
Route(t) == IF t \in Threads /\ owner[t] # NoSession THEN {owner[t]}
            ELSE IF Cardinality(Present) = 1 THEN Present ELSE {}
\* stale_turn_notification
\* Mutant: the turns to ignore are not looked at.
StaleById(e, m) == m.kind # "started" /\ Interruptible(e) /\ e.turn # m.turn
Stale(e, m) == \/ m.turn \in e.ignored
               \/ m.kind # "started" /\ Interruptible(e) /\ e.turn # m.turn
Read(k, kinds) == /\ k \in reader /\ wire[k] # <<>> /\ Head(wire[k]).kind \in kinds
                  /\ wire' = [wire EXCEPT ![k] = Tail(@)]
Receivers(m) == {s \in Route(m.thread) : sess[s].here /\ ~Stale(sess[s], m)}

ReadReply(k) ==
    LET m == Head(wire[k]) IN
    /\ Read(k, Replies)
    /\ call' = [c \in Callers |-> IF c = m.by THEN [call[c] EXCEPT !.pc = "answered", !.answer = m]
                                  ELSE call[c]]
    /\ UNCHANGED <<requests, hostVars, lock, linkVars, serverVars, answers, events>>
\* handle_notification, thread/started: its thread may be found or not, and is
\* then taken to be that of the only session.
ReadThread(k) ==
    LET t == Head(wire[k]).thread IN
    /\ Read(k, {"thread"})
    /\ \E S \in {Route(t), Route(None)} :
        \/ \E s \in S :
              /\ owner' = [owner EXCEPT ![t] = s]
              /\ sess' = IF sess[s].here THEN [sess EXCEPT ![s].thread = t] ELSE sess
        \/ S = {} /\ UNCHANGED <<owner, sess>>
    /\ UNCHANGED <<requests, prompts, fate, lock, call, linkVars, serverVars, answers, events>>
\* handle_notification, turn/started
ReadStarted(k) ==
    LET m == Head(wire[k]) S == Receivers(m) IN
    /\ Read(k, {"started"})
    /\ sess' = [s \in Sessions |-> IF s \in S THEN [sess[s] EXCEPT !.turn = m.turn, !.stage = "begun"]
                                   ELSE sess[s]]
    /\ LetGo({sess[s].turn : s \in S} \ {m.turn})
    /\ UNCHANGED <<requests, owner, prompts, lock, call, linkVars, serverVars, answers, events>>
\* handle_turn_completed; an error that is not retried, which is fail_turn
ReadEnd(k) ==
    LET m == Head(wire[k]) S == Receivers(m)
        P == UNION {PromptsOf(s) : s \in {o \in Route(m.thread) : ~Stale(sess[o], m)}} IN
    /\ Read(k, {"completed", "failed"})
    /\ prompts' = Cancelled(P) /\ answers' = Replied(P)
    /\ sess' = [s \in Sessions |-> IF s \in S THEN Ended(sess[s]) ELSE sess[s]]
    /\ LetGo({sess[s].turn : s \in S})
    /\ UNCHANGED <<requests, owner, lock, call, linkVars, serverVars, events>>
\* handle_approval_request: declined without a session, cancelled when it is
\* late, else shown.
ReadAsk(k) ==
    LET m == Head(wire[k]) IN
    /\ Read(k, {"ask"})
    /\ \/ /\ Route(m.thread) = {} \/ \E s \in Route(m.thread) : Stale(sess[s], m)
          /\ answers' = IF Held(k) THEN [answers EXCEPT ![k][m.ask] = @ + 1] ELSE answers
          /\ UNCHANGED prompts
       \/ \E s \in Route(m.thread) :
             /\ ~Stale(sess[s], m)
             /\ prompts' = [prompts EXCEPT ![m.ask] = [s |-> s, conn |-> k]]
             /\ UNCHANGED answers
    /\ UNCHANGED <<requests, sess, owner, fate, lock, call, linkVars, serverVars, events>>
\* The output ends: every open request is refused, the prompts of processes
\* nobody holds are dropped, and the place of the process is cleared.
ReaderEnds(k) ==
    /\ k \in reader \ live /\ wire[k] = <<>>
    /\ reader' = reader \ {k}
    /\ call' = [c \in Callers |-> IF call[c].pc = "asked" /\ call[c].conn = k
                                  THEN [call[c] EXCEPT !.pc = "answered", !.answer = Lost] ELSE call[c]]
    /\ requests' = {q \in requests : q.conn # k}
    /\ prompts' = [n \in Asks |-> IF prompts[n] # NoPrompt /\ ~Held(prompts[n].conn) THEN NoPrompt
                                  ELSE prompts[n]]
    /\ slot' = IF slot = k THEN None ELSE slot
    /\ UNCHANGED <<sess, owner, fate, lock, reaping, conns, live, wire, serverVars, answers, events>>
\* resolve_permission: the user answers.
ResolvePermission(n) ==
    /\ prompts[n] # NoPrompt
    /\ prompts' = [prompts EXCEPT ![n] = NoPrompt]
    /\ answers' = IF Held(prompts[n].conn) THEN [answers EXCEPT ![prompts[n].conn][n] = @ + 1]
                  ELSE answers
    /\ UNCHANGED <<sess, owner, fate, lock, call, linkVars, pipeVars, serverVars, events>>

-----------------------------------------------------------------------------
Call(c) ==
    \/ \E s \in Sessions : \/ \E op \in Locked : Begin(c, op, s)
                           \/ Start(c, s)
                           \/ \E t \in Threads : Resume(c, s, t)
    \/ Enter(c) \/ TimesOut(c) \/ Refused(c)
    \/ Reuse(c) \/ Outdated(c) \/ Recycle(c) \/ Spawn(c) \/ SpawnFails(c)
    \/ Started(c) \/ StartFails(c) \/ Resumed(c) \/ ResumeFails(c) \/ ResumeEnds(c)
    \/ Reset(c) \/ ResetEnds(c) \/ Stop(c)
    \/ Send(c) \/ BadInput(c) \/ ThreadMade(c) \/ NoThread(c) \/ Own(c) \/ Mark(c) \/ Apply(c)
    \/ NotFound(c) \/ ThreadResumed(c) \/ Unpersisted(c) \/ Replaced(c) \/ SendFails(c)
    \/ Abort(c) \/ Wait(c) \/ AbortEnds(c)
    \/ Interrupt(c) \/ Interrupted(c) \/ FoundAnother(c) \/ NoneActive(c) \/ PendingEnds(c)
    \/ InterruptFails(c)
Server ==
    \/ \E q \in requests : ServeThread(q) \/ ServeResume(q) \/ ServeTurn(q) \/ ServeInterrupt(q)
    \/ \E r \in Turns : Activates(r) \/ Ends(r) \/ AsksApproval(r)
    \/ \E k \in Conns : Dies(k)
Reader == \E k \in Conns : ReadReply(k) \/ ReadThread(k) \/ ReadStarted(k) \/ ReadEnd(k) \/ ReadAsk(k)
                           \/ ReaderEnds(k)

Next ==
    \/ \E c \in Callers : Call(c)
    \/ \E s \in Sessions : Rest(s)
    \/ \E n \in Asks : ResolvePermission(n)
    \/ ReaperLooks \/ Reap \/ Server \/ Reader

Spec == Init /\ [][Next]_vars

-----------------------------------------------------------------------------
(* Properties *)

\* A late end of a turn never ends the next turn of its session: as long as
\* the host has not let go of a turn (its end was shown, or its session was
\* replaced or put to rest), its session shows that turn or no other, or
\* refuses what is late (stale_turn_notification, remember_ignored_turn).
NextTurnIsSafe ==
    \A k \in reader : wire[k] # <<>> =>
        LET m == Head(wire[k]) e == sess[turn[m.turn].home] IN
        (m.kind \in {"completed", "failed"} /\ fate[m.turn] # "loose")
            => (e.turn \in {None, m.turn} \/ Stale(e, m))

\* When a session asks for a turn in place of an own one, the one replaced has
\* ended: what it does not know it waits for (interrupt_turn_for_replacement).
\* One that runs in another process or thread is left there.
Replaces(c) == call[c].op = "send" /\ call[c].for = "turn" /\ call[c].pc \in {"asked", "answered"}
OwnTurnIsOver ==
    \A c \in Callers : Replaces(c) =>
        \A r \in call[c].seen : ~(fate[r] = "ours" /\ StillRuns(r))

\* An approval is answered once, whoever is first: the user, an abort, the end
\* of the turn or the refusal of what is late.
AnsweredOnce == \A k \in Conns, n \in Asks : answers[k][n] <= 1

\* Once the idle reaper has found the process idle it takes it away without
\* another look, so no turn that a session shows may run in it by then: the
\* reaper never interrupts live work (ensure_idle_reaper).
ReaperSparesTurns ==
    reaping => \A r \in Turns : (StillRuns(r) /\ \E s \in Sessions : sess[s].turn = r)
                                   => turn[r].conn # slot
=============================================================================
