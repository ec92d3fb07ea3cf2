--------------------------- MODULE CodexTurnProofs ---------------------------
(* Safety properties of CodexTurn, for every number of sessions, callers, *)
(* turns, threads, processes and approvals.                               *)
EXTENDS CodexTurn, FiniteSetTheorems, SequenceTheorems, TLAPS

-----------------------------------------------------------------------------
(* The invariant *)

\* A session, and whether it shows a turn.
SessOK(e) == e \in Session /\ (e.turn = None <=> ~Running(e))
SessType == sess \in [Sessions -> Session] /\ \A s \in Sessions : SessOK(sess[s])
HostType ==
    /\ owner \in [Threads -> Sessions \cup {NoSession}]
    /\ fate \in [Turns -> {"ours", "taken", "left", "loose"}]
LockType == lock \in [Sessions -> 0 .. MaxLocks]
PromptType == prompts \in [Asks -> Prompt]

\* A call has a session, and once it works with a process it has that; a call that
\* interrupts knows which turn and for which one.
Interrupting(x) == x.pc \in {"asked", "answered", "pending"} /\ x.for = "interrupt"
CallOK(x) ==
    /\ x \in Calls
    /\ x.pc # "idle" => x.s \in Sessions
    /\ x.pc \in {"own", "clear", "asked", "answered", "pending"} => x.conn \in Conns
    /\ x.pc = "pending" => x.for = "interrupt"
    /\ Interrupting(x) => x.from \in Turns /\ x.turn \in Turns
    /\ x.answer.kind = "found" => x.answer.turn \in Turns
CallType == call \in [Callers -> Calls] /\ \A c \in Callers : CallOK(call[c])

LinkType ==
    /\ slot \in {None} \cup Conns /\ reaping \in BOOLEAN
    /\ conns \in 0 .. MaxConns /\ live \subseteq Conns /\ reader \subseteq Conns

\* What a message carries; only a reply is for a caller.
MsgOK(m) ==
    /\ m \in Message
    /\ m.kind \in {"started", "completed", "failed", "ask", "found"} => m.turn \in Turns
    /\ m.kind = "ask" => m.ask \in Asks
    /\ m.kind = "thread" => m.thread \in Threads
    /\ m.kind \notin Replies => m.by = NoCaller
WireType ==
    /\ wire \in [Conns -> Seq(Message)]
    /\ \A k \in Conns : \A i \in 1 .. Len(wire[k]) : MsgOK(wire[k][i])
RequestType == requests \subseteq Request
ServerType ==
    /\ threads \in 0 .. MaxThreads /\ loaded \in [Conns -> SUBSET Threads]
    /\ asked \in [Conns -> [Asks -> {None} \cup Turns]]
AnswerType == answers \in [Conns -> [Asks -> Nat]]
EventType == events \in 0 .. MaxEvents

\* A turn that was asked for has a process; a call or a request for a turn is
\* for one that was asked for.
TurnType == turn \in [Turns -> Turn] /\ \A r \in Turns : turn[r].at # "unborn" => turn[r].conn \in Conns
BornCalls == \A c \in Callers :
    call[c].op = "send" /\ ~Interrupting(call[c]) /\ call[c].turn # None => turn[call[c].turn].at # "unborn"
BornRequests == \A q \in requests : q.for = "turn" /\ q.turn # None => turn[q.turn].at # "unborn"

TypeInv == /\ SessType /\ HostType /\ LockType /\ PromptType
           /\ CallType /\ LinkType /\ WireType /\ RequestType
           /\ ServerType /\ AnswerType /\ EventType
           /\ TurnType /\ BornCalls /\ BornRequests

\* A caller that waits has one request, or its answer, at its own process; one that
\* does not wait has neither.
RequestsOwn == \A q \in requests : q.by \in Callers =>
                   call[q.by].pc = "asked" /\ call[q.by].conn = q.conn
RequestsOne == \A p, q \in requests : p.by \in Callers /\ p.by = q.by => p = q
RepliesOwn == \A k \in Conns : \A i \in 1 .. Len(wire[k]) :
                  LET c == wire[k][i].by IN
                  c \in Callers => /\ call[c].pc = "asked" /\ call[c].conn = k
                                   /\ \A q \in requests : q.by # c
RepliesOne == \A k \in Conns : \A i, j \in 1 .. Len(wire[k]) :
                  wire[k][i].by \in Callers /\ wire[k][i].by = wire[k][j].by => i = j
ReplyInv == RequestsOwn /\ RequestsOne /\ RepliesOwn /\ RepliesOne

\* An approval is on its way to the host, or shown, or answered.
Comes(k, n, i) == i \in 1 .. Len(wire[k]) /\ wire[k][i].kind = "ask" /\ wire[k][i].ask = n
AskOK(k, n) ==
    /\ answers[k][n] = 0 \/ answers[k][n] = 1
    /\ answers[k][n] = 1 => asked[k][n] # None /\ prompts[n].conn # k
    /\ prompts[n].conn = k => asked[k][n] # None
    /\ \A i \in 1 .. Len(wire[k]) : Comes(k, n, i) =>
           /\ asked[k][n] # None /\ answers[k][n] = 0 /\ prompts[n].conn # k
           /\ \A j \in 1 .. Len(wire[k]) : Comes(k, n, j) => i = j
AskInv == \A k \in Conns, n \in Asks : AskOK(k, n)

Inv == TypeInv /\ ReplyInv /\ AskInv

-----------------------------------------------------------------------------
(* Lemmas *)

LEMMA Nulls == /\ None \notin Turns /\ None \notin Threads /\ None \notin Conns /\ None \notin Asks
               /\ NoCaller \notin Callers /\ NoSession \notin Sessions
BY NoneAssumption DEF None, Turns, Threads, Conns, Asks

LEMMA TypesImply == TypeInv => TypeOK
BY DEF TypeInv, TypeOK, SessType, SessOK, HostType, LockType, PromptType, CallType, LinkType, WireType,
       RequestType, ServerType, AnswerType, EventType, TurnType

LEMMA AsksImply == AskInv => AnsweredOnce
<1> SUFFICES ASSUME AskInv, NEW k \in Conns, NEW n \in Asks PROVE answers[k][n] <= 1
  BY DEF AnsweredOnce
<1>1. answers[k][n] = 0 \/ answers[k][n] = 1
  BY DEF AskInv, AskOK
<1> QED BY <1>1

\* What is left alone keeps its type.
LEMMA Frames ==
    ASSUME TypeInv
    PROVE  /\ UNCHANGED sess => SessType'
           /\ UNCHANGED <<owner, fate>> => HostType'
           /\ UNCHANGED lock => LockType'
           /\ UNCHANGED prompts => PromptType'
           /\ UNCHANGED call => CallType'
           /\ UNCHANGED linkVars => LinkType'
           /\ UNCHANGED wire => WireType'
           /\ UNCHANGED requests => RequestType'
           /\ UNCHANGED <<threads, loaded, asked>> => ServerType'
           /\ UNCHANGED answers => AnswerType'
           /\ UNCHANGED events => EventType'
           /\ UNCHANGED turn => TurnType'
           /\ UNCHANGED <<call, turn>> => BornCalls'
           /\ UNCHANGED <<requests, turn>> => BornRequests'
<1>1. UNCHANGED sess => SessType'
  BY DEF TypeInv, SessType
<1>2. UNCHANGED <<owner, fate>> => HostType'
  BY DEF TypeInv, HostType
<1>3. UNCHANGED lock => LockType'
  BY DEF TypeInv, LockType
<1>4. UNCHANGED prompts => PromptType'
  BY DEF TypeInv, PromptType
<1>5. UNCHANGED call => CallType'
  BY DEF TypeInv, CallType
<1>6. UNCHANGED linkVars => LinkType'
  BY DEF TypeInv, LinkType, linkVars
<1>7. UNCHANGED wire => WireType'
  BY DEF TypeInv, WireType
<1>8. UNCHANGED requests => RequestType'
  BY DEF TypeInv, RequestType
<1>9. UNCHANGED <<threads, loaded, asked>> => ServerType'
  BY DEF TypeInv, ServerType
<1>10. UNCHANGED answers => AnswerType'
  BY DEF TypeInv, AnswerType
<1>11. UNCHANGED events => EventType'
  BY DEF TypeInv, EventType
<1>12. UNCHANGED turn => TurnType'
  BY DEF TypeInv, TurnType
<1>13. UNCHANGED <<call, turn>> => BornCalls'
  BY DEF TypeInv, BornCalls
<1>14. UNCHANGED <<requests, turn>> => BornRequests'
  BY DEF TypeInv, BornRequests
<1> QED BY <1>1, <1>2, <1>3, <1>4, <1>5, <1>6, <1>7, <1>8, <1>9, <1>10, <1>11, <1>12, <1>13, <1>14

LEMMA IdleOK == /\ Lost \in Message /\ Lost.kind = "error"
                /\ CallOK(Idle) /\ Idle.pc = "idle" /\ Idle.turn = None
<1>1. Lost \in Message /\ Lost.kind = "error"
  BY DEF Lost, Says, Message
<1> QED BY <1>1, BoundAssumption DEF CallOK, Idle, Calls, Interrupting

LEMMA InitInv == Init => Inv
<1> SUFFICES ASSUME Init PROVE Inv
  OBVIOUS
<1> USE Nulls
<1>1. SessType
  BY DEF Init, SessType, SessOK, Session, Absent, Running
<1>2. HostType /\ AnswerType /\ PromptType
  BY DEF Init, HostType, PromptType, Prompt, NoPrompt, AnswerType
<1>3. 0 \in 0 .. MaxLocks /\ 0 \in 0 .. MaxEvents /\ 0 \in 0 .. MaxConns /\ 0 \in 0 .. MaxThreads
  BY BoundAssumption
<1>4. LockType /\ EventType
  BY <1>3 DEF Init, LockType, EventType
<1>5. LinkType /\ ServerType
  <2>1. loaded \in [Conns -> SUBSET Threads] /\ asked \in [Conns -> [Asks -> {None} \cup Turns]]
    BY DEF Init
  <2>2. reaping \in BOOLEAN /\ slot = None
    BY DEF Init
  <2> QED BY <1>3, <2>1, <2>2 DEF Init, LinkType, ServerType
<1>6. CallType
  BY IdleOK DEF Init, CallType, CallOK
<1>7. WireType /\ RequestType
  BY DEF Init, WireType, RequestType
<1>8. TurnType
  BY DEF Init, TurnType, Turn
<1>9. BornCalls /\ BornRequests
  BY DEF Init, BornCalls, BornRequests, Idle
<1>10. ReplyInv
  BY DEF Init, ReplyInv, RequestsOwn, RequestsOne, RepliesOwn, RepliesOne
<1>11. AskInv
  <2> SUFFICES ASSUME NEW k \in Conns, NEW n \in Asks PROVE AskOK(k, n)
    BY DEF AskInv
  <2>1. answers[k][n] = 0 /\ prompts[n].conn = None /\ wire[k] = <<>>
    BY DEF Init, NoPrompt
  <2> QED BY <2>1 DEF AskOK
<1> QED BY <1>1, <1>2, <1>4, <1>5, <1>6, <1>7, <1>8, <1>9, <1>10, <1>11 DEF Inv, TypeInv

-----------------------------------------------------------------------------
(* Sessions *)

LEMMA SessStep ==
    ASSUME TypeInv, NEW s \in Sessions, NEW e, SessOK(e), sess' = [sess EXCEPT ![s] = e]
    PROVE  SessType'
BY DEF TypeInv, SessType, SessOK

LEMMA EndedOK ==
    ASSUME NEW e, SessOK(e), NEW R \in SUBSET Turns
    PROVE  SessOK(Ended(e)) /\ SessOK([Ended(e) EXCEPT !.ignored = @ \cup R])
BY DEF SessOK, Ended, Session, Running

LEMMA ShownTurn ==
    ASSUME NEW e, SessOK(e)
    PROVE  /\ e.turn \in {None} \cup Turns /\ e.ignored \in SUBSET Turns /\ e.thread \in {None} \cup Threads
           /\ Interruptible(e) => e.turn \in Turns
BY DEF SessOK, Session, Running, Interruptible

\* Whoever loses a thread shows no turn any more.
LEMMA TakeOK ==
    ASSUME NEW S \in [Sessions -> Session], \A o \in Sessions : SessOK(S[o]),
           NEW t \in {None} \cup Threads, NEW s \in Sessions
    PROVE  /\ Taken(S, t, s) \in SUBSET Turns
           /\ TakeThread(S, t, s) \in [Sessions -> Session]
           /\ \A o \in Sessions : SessOK(TakeThread(S, t, s)[o])
<1>1. Taken(S, t, s) \in SUBSET Turns
  BY ShownTurn DEF Taken, Others
<1>2. ASSUME NEW o \in Sessions PROVE SessOK(TakeThread(S, t, s)[o])
  <2>1. CASE o = s /\ S[o].here
    <3>1. SessOK([S[o] EXCEPT !.thread = t, !.ignored = @ \cup Taken(S, t, s)])
      BY <1>1 DEF SessOK, Session, Running
    <3> QED BY <2>1, <3>1 DEF TakeThread
  <2>2. CASE ~(o = s /\ S[o].here) /\ o \notin Others(S, t, s)
    BY <2>2 DEF TakeThread
  <2>3. CASE ~(o = s /\ S[o].here) /\ o \in Others(S, t, s)
    <3>1. SessOK([Ended(S[o]) EXCEPT !.ignored = @])
      BY DEF SessOK, Ended, Session, Running
    <3>2. Interruptible(S[o]) => SessOK([Ended(S[o]) EXCEPT !.ignored = @ \cup {S[o].turn}])
      BY EndedOK, ShownTurn
    <3>3. TakeThread(S, t, s)[o] =
              [Ended(S[o]) EXCEPT !.ignored = IF Interruptible(S[o]) THEN @ \cup {S[o].turn} ELSE @]
      BY <2>3 DEF TakeThread
    <3> QED BY <3>1, <3>2, <3>3
  <2> QED BY <2>1, <2>2, <2>3
<1>3. TakeThread(S, t, s) \in [Sessions -> Session]
  BY <1>2 DEF TakeThread, SessOK
<1> QED BY <1>1, <1>2, <1>3

LEMMA TakeTypes ==
    ASSUME TypeInv, NEW S \in [Sessions -> Session], \A o \in Sessions : SessOK(S[o]),
           NEW t \in {None} \cup Threads, NEW s \in Sessions, TakeOwnership(S, t, s)
    PROVE  SessType' /\ owner' \in [Threads -> Sessions \cup {NoSession}]
<1>1. SessType'
  BY TakeOK DEF TakeOwnership, SessType
<1> QED BY <1>1 DEF TakeOwnership, TypeInv, HostType

LEMMA FateTypes ==
    ASSUME TypeInv
    PROVE  /\ \A R : LetGo(R) => fate' \in [Turns -> {"ours", "taken", "left", "loose"}]
           /\ \A R, t, s, S : FateOf(R, t, s, S) => fate' \in [Turns -> {"ours", "taken", "left", "loose"}]
           /\ \A c : GoesOn(c) => fate' \in [Turns -> {"ours", "taken", "left", "loose"}]
BY DEF LetGo, FateOf, GoesOn, TypeInv, HostType

-----------------------------------------------------------------------------
(* Calls *)

LEMMA CallStep ==
    ASSUME TypeInv, NEW c \in Callers, NEW x, CallOK(x), call' = [call EXCEPT ![c] = x]
    PROVE  CallType' /\ call'[c] = x /\ \A d \in Callers \ {c} : call'[d] = call[d]
BY DEF TypeInv, CallType, CallOK

LEMMA ThisCall ==
    ASSUME TypeInv, NEW c \in Callers
    PROVE  CallOK(call[c]) /\ call[c] \in Calls /\ call \in [Callers -> Calls]
BY DEF TypeInv, CallType

LEMMA ReturnsOK ==
    ASSUME TypeInv, NEW c \in Callers, Returns(c)
    PROVE  CallType' /\ call'[c] = Idle /\ \A d \in Callers \ {c} : call'[d] = call[d]
BY CallStep, IdleOK DEF Returns

\* What a thread has when its call moves on.
LEMMA GoesOK ==
    ASSUME TypeInv, NEW c \in Callers, NEW pc \in {"enter", "relink", "spawn", "link", "pending"}, Goes(c, pc),
           call[c].pc # "idle",
           pc = "pending" => call[c].pc \in {"asked", "answered"} /\ call[c].for = "interrupt"
    PROVE  /\ CallType' /\ \A d \in Callers \ {c} : call'[d] = call[d]
           /\ call'[c].op = call[c].op /\ call'[c].turn = call[c].turn
           /\ Interrupting(call'[c]) <=> pc = "pending"
<1> DEFINE x == [call[c] EXCEPT !.pc = pc]
<1>1. CallOK(x) /\ x.op = call[c].op /\ x.turn = call[c].turn /\ (Interrupting(x) <=> pc = "pending")
  BY ThisCall DEF CallOK, Calls, Interrupting
<1>2. call' = [call EXCEPT ![c] = x]
  BY DEF Goes
<1> HIDE DEF x
<1> QED BY <1>1, <1>2, CallStep

\* Turns that were asked for remain so.
Older == \A r \in Turns : turn[r].at # "unborn" => turn'[r].at # "unborn"
FineCall(c) == call'[c].op = "send" /\ ~Interrupting(call'[c]) /\ call'[c].turn # None
                   => turn'[call'[c].turn].at # "unborn"

LEMMA BornStep ==
    ASSUME TypeInv, NEW c \in Callers, \A d \in Callers \ {c} : call'[d] = call[d], Older, FineCall(c)
    PROVE  BornCalls'
<1> SUFFICES ASSUME NEW d \in Callers, call'[d].op = "send", ~Interrupting(call'[d]), call'[d].turn # None
             PROVE  turn'[call'[d].turn].at # "unborn"
  BY DEF BornCalls
<1>1. CASE d = c
  BY <1>1 DEF FineCall
<1>2. CASE d # c
  <2>1. call'[d] = call[d] /\ call[d].turn \in Turns
    BY <1>2, ThisCall DEF Calls
  <2>2. turn[call[d].turn].at # "unborn"
    BY <2>1 DEF TypeInv, BornCalls
  <2> QED BY <2>1, <2>2 DEF Older
<1> QED BY <1>1, <1>2

\* The same turn, of a call that did not interrupt.
LEMMA FineSame ==
    ASSUME TypeInv, NEW c \in Callers, Older, ~Interrupting(call[c]),
           call'[c].op = call[c].op, call'[c].turn = call[c].turn
    PROVE  FineCall(c)
<1> SUFFICES ASSUME call[c].op = "send", call[c].turn # None PROVE turn'[call'[c].turn].at # "unborn"
  BY DEF FineCall
<1>1. call[c].turn \in Turns /\ turn[call[c].turn].at # "unborn"
  BY ThisCall DEF Calls, TypeInv, BornCalls
<1> QED BY <1>1 DEF Older

\* One call moves on, and is fine.
OneMoves(c) == CallType' /\ (\A d \in Callers \ {c} : call'[d] = call[d]) /\ FineCall(c)

LEMMA StaysFine ==
    ASSUME TypeInv, NEW c \in Callers, NEW x, CallOK(x), call' = [call EXCEPT ![c] = x], Older,
           \/ x.op # "send" \/ x.turn = None \/ Interrupting(x)
           \/ x.op = call[c].op /\ x.turn = call[c].turn /\ ~Interrupting(call[c])
           \/ turn'[x.turn].at # "unborn"
    PROVE  OneMoves(c)
<1>1. CallType' /\ call'[c] = x /\ \A d \in Callers \ {c} : call'[d] = call[d]
  BY CallStep
<1> QED BY <1>1, FineSame DEF OneMoves, FineCall

LEMMA ReturnsFine ==
    ASSUME TypeInv, NEW c \in Callers, Returns(c), Older
    PROVE  OneMoves(c)
BY StaysFine, IdleOK DEF Returns

LEMMA GoesFine ==
    ASSUME TypeInv, NEW c \in Callers, NEW pc \in {"enter", "relink", "spawn", "link", "pending"}, Goes(c, pc),
           call[c].pc # "idle", pc # "pending" => ~Interrupting(call[c]),
           pc = "pending" => call[c].pc \in {"asked", "answered"} /\ call[c].for = "interrupt", Older
    PROVE  OneMoves(c)
<1>1. /\ CallType' /\ \A d \in Callers \ {c} : call'[d] = call[d]
      /\ call'[c].op = call[c].op /\ call'[c].turn = call[c].turn
      /\ Interrupting(call'[c]) <=> pc = "pending"
  BY GoesOK
<1>2. FineCall(c)
  BY <1>1, FineSame DEF FineCall
<1> QED BY <1>1, <1>2 DEF OneMoves

\* A call begins.
LEMMA BeginFine ==
    ASSUME TypeInv, NEW c \in Callers, Older,
           \/ \E s \in Sessions, op \in Locked : Begin(c, op, s)
           \/ \E s \in Sessions : Start(c, s)
           \/ \E s \in Sessions, t \in Threads : Resume(c, s, t)
    PROVE  OneMoves(c)
<1>1. PICK z \in Calls : z = Idle /\ CallOK(z)
  BY IdleOK DEF CallOK
<1>2. ASSUME NEW s \in Sessions, NEW op \in Locked, Begin(c, op, s) PROVE OneMoves(c)
  <2>1. PICK x : x = [z EXCEPT !.op = op, !.pc = "gate", !.s = s, !.gate = lock[s]]
    OBVIOUS
  <2>2. lock[s] \in 0 .. MaxLocks
    BY DEF TypeInv, LockType
  <2>3. x \in Calls
    BY <2>1, <2>2 DEF Calls, Locked
  <2>4. CallOK(x) /\ x.turn = None
    BY <1>1, <2>1, <2>3, IdleOK DEF CallOK, Calls, Interrupting
  <2>5. call' = [call EXCEPT ![c] = x]
    BY <1>1, <1>2, <2>1 DEF Begin
  <2> QED BY <2>4, <2>5, StaysFine
<1>3. ASSUME NEW s \in Sessions, Start(c, s) PROVE OneMoves(c)
  <2>1. PICK x : x = [z EXCEPT !.op = "start", !.pc = "link", !.s = s]
    OBVIOUS
  <2>2. x \in Calls
    BY <2>1 DEF Calls
  <2>3. CallOK(x) /\ x.turn = None
    BY <1>1, <2>1, <2>2, IdleOK DEF CallOK, Calls, Interrupting
  <2>4. call' = [call EXCEPT ![c] = x]
    BY <1>1, <1>3, <2>1 DEF Start
  <2> QED BY <2>3, <2>4, StaysFine
<1>4. ASSUME NEW s \in Sessions, NEW t \in Threads, Resume(c, s, t) PROVE OneMoves(c)
  <2>1. PICK x : x = [z EXCEPT !.op = "resume", !.pc = "link", !.s = s, !.thread = t]
    OBVIOUS
  <2>2. x \in Calls
    BY <2>1 DEF Calls
  <2>3. CallOK(x) /\ x.turn = None
    BY <1>1, <2>1, <2>2, IdleOK DEF CallOK, Calls, Interrupting
  <2>4. call' = [call EXCEPT ![c] = x]
    BY <1>1, <1>4, <2>1 DEF Resume
  <2> QED BY <2>3, <2>4, StaysFine
<1> QED BY <1>2, <1>3, <1>4

\* A call that got a process.
LEMMA LinkedFine ==
    ASSUME TypeInv, NEW c \in Callers, NEW k \in Conns, call[c].pc \in {"link", "spawn"}, Linked(c, k), Older
    PROVE  OneMoves(c)
<1>1. PICK z \in Calls : z = call[c] /\ CallOK(z)
  BY ThisCall
<1>2. PICK pc \in {"own", "clear"} : pc = IF call[c].op = "send" THEN "own" ELSE "clear"
  OBVIOUS
<1>3. CASE call' = [call EXCEPT ![c].conn = k, ![c].pc = pc]
  <2>1. PICK x : x = [z EXCEPT !.conn = k, !.pc = pc]
    OBVIOUS
  <2>2. x \in Calls
    BY <2>1 DEF Calls
  <2>3. CallOK(x) /\ x.op = call[c].op /\ x.turn = call[c].turn /\ ~Interrupting(call[c])
    BY <1>1, <2>1, <2>2 DEF CallOK, Calls, Interrupting
  <2> QED BY <1>1, <1>3, <2>1, <2>3, StaysFine
<1>4. ASSUME NEW for \in {"thread", "resume"}, call' = [call EXCEPT ![c].conn = k, ![c].pc = "asked", ![c].for = for]
      PROVE  OneMoves(c)
  <2>1. PICK x : x = [z EXCEPT !.conn = k, !.pc = "asked", !.for = for]
    OBVIOUS
  <2>2. x \in Calls
    BY <2>1 DEF Calls
  <2>3. CallOK(x) /\ x.op = call[c].op /\ x.turn = call[c].turn /\ ~Interrupting(call[c])
    BY <1>1, <2>1, <2>2 DEF CallOK, Calls, Interrupting
  <2> QED BY <1>1, <1>4, <2>1, <2>3, StaysFine
<1>5. \/ call' = [call EXCEPT ![c].conn = k, ![c].pc = IF call[c].op = "send" THEN "own" ELSE "clear"]
      \/ \E for \in {"thread", "resume"} : call' = [call EXCEPT ![c].conn = k, ![c].pc = "asked", ![c].for = for]
  BY DEF Linked
<1> QED BY <1>2, <1>3, <1>4, <1>5

\* The steps of a send, a resume and an abort that ask for nothing.
LEMMA ProceedsFine ==
    ASSUME TypeInv, NEW c \in Callers, Older,
           Resumed(c) \/ Send(c) \/ ThreadMade(c) \/ Own(c) \/ Abort(c) \/ Wait(c)
    PROVE  OneMoves(c)
<1>1. /\ call[c].pc # "idle" => call[c].s \in Sessions
      /\ call[c].thread \in {None} \cup Threads
  BY ThisCall DEF CallOK, Calls
<1>2. PICK z \in Calls : z = call[c] /\ CallOK(z)
  BY ThisCall
<1>3. CASE Resumed(c)
  <2> DEFINE e == call[c]
             S == [sess EXCEPT ![e.s] = [Fresh EXCEPT !.thread = e.thread, !.used = TRUE]]
  <2>1. e.s \in Sessions /\ e.thread \in {None} \cup Threads /\ e.op = "resume" /\ e.pc = "answered"
    BY <1>1, <1>3 DEF Resumed, Answered
  <2>2. SessOK([Fresh EXCEPT !.thread = e.thread, !.used = TRUE])
    BY <2>1 DEF SessOK, Fresh, Absent, Session, Running
  <2>3. S \in [Sessions -> Session] /\ \A o \in Sessions : SessOK(S[o])
    BY <2>1, <2>2 DEF TypeInv, SessType, SessOK
  <2>4. Taken(S, e.thread, e.s) \in SUBSET Turns
    BY <2>1, <2>3, TakeOK
  <2>5. PICK T \in SUBSET Turns : T = Taken(S, e.thread, e.s)
    BY <2>4
  <2>6. call' = [call EXCEPT ![c].pc = "clear", ![c].todo = T]
    BY <1>3, <2>5 DEF Resumed
  <2>7. PICK x : x = [z EXCEPT !.pc = "clear", !.todo = T]
    OBVIOUS
  <2>8. x \in Calls
    BY <2>7 DEF Calls
  <2>9. CallOK(x) /\ x.op # "send"
    BY <1>2, <2>1, <2>7, <2>8 DEF CallOK, Calls, Interrupting
  <2> QED BY <1>2, <2>6, <2>7, <2>9, StaysFine
<1>4. CASE Send(c)
  <2> DEFINE e == sess[call[c].s]
  <2>1. call[c].s \in Sessions /\ call[c].pc = "enter"
    BY <1>1, <1>4 DEF Send, At
  <2>2. SessOK(e)
    BY <2>1 DEF TypeInv, SessType
  <2>3. PICK todo \in SUBSET Turns : todo = IF e.thread # None /\ Interruptible(e) THEN {e.turn} ELSE {}
    BY <2>2, ShownTurn
  <2>4. PICK notes \in SUBSET {"used"} : notes = IF e.used THEN {"used"} ELSE {}
    OBVIOUS
  <2>5. PICK t \in {None} \cup Threads : t = e.thread
    BY <2>2, ShownTurn
  <2>6. Returns(c) \/ call' = [call EXCEPT ![c].pc = "link", ![c].thread = t, ![c].todo = todo, ![c].notes = notes]
    BY <1>4, <2>3, <2>4, <2>5 DEF Send
  <2>7. PICK x : x = [z EXCEPT !.pc = "link", !.thread = t, !.todo = todo, !.notes = notes]
    OBVIOUS
  <2>8. x \in Calls
    BY <2>7 DEF Calls
  <2>9. x.pc = "link" /\ x.s = z.s /\ x.op = z.op /\ x.turn = z.turn /\ x.answer = z.answer
    BY <2>7 DEF Calls
  <2>10. CallOK(x) /\ x.op = call[c].op /\ x.turn = call[c].turn /\ ~Interrupting(call[c])
    BY <1>2, <2>1, <2>8, <2>9 DEF CallOK, Interrupting
  <2>11. Returns(c) \/ call' = [call EXCEPT ![c] = x]
    BY <1>2, <2>6, <2>7
  <2> QED BY <2>10, <2>11, StaysFine, ReturnsFine
<1>5. CASE ThreadMade(c)
  <2>1. call[c].pc = "answered" /\ call[c].for = "thread"
    BY <1>5 DEF ThreadMade, Answered
  <2>2. PICK x : x = [z EXCEPT !.pc = "enter", !.conn = None, !.notes = {"made"}]
    OBVIOUS
  <2>3. x \in Calls
    BY <2>2 DEF Calls
  <2>4. CallOK(x) /\ x.op = call[c].op /\ x.turn = call[c].turn /\ ~Interrupting(call[c])
    BY <1>2, <2>1, <2>2, <2>3 DEF CallOK, Calls, Interrupting
  <2> QED BY <1>2, <1>5, <2>2, <2>4, StaysFine DEF ThreadMade
<1>6. CASE Own(c)
  <2>1. call[c].pc = "own" /\ call[c].s \in Sessions
    BY <1>1, <1>6 DEF Own, At
  <2>2. PICK T \in SUBSET Turns : T = Taken(sess, call[c].thread, call[c].s)
    BY <1>1, <2>1, TakeOK DEF TypeInv, SessType
  <2>3. call' = [call EXCEPT ![c].pc = "clear", ![c].todo = @ \cup T]
    BY <1>6, <2>2 DEF Own
  <2>4. PICK x : x = [z EXCEPT !.pc = "clear", !.todo = @ \cup T]
    OBVIOUS
  <2>5. x \in Calls
    BY <2>4 DEF Calls
  <2>6. CallOK(x) /\ x.op = call[c].op /\ x.turn = call[c].turn /\ ~Interrupting(call[c])
    BY <1>2, <2>1, <2>4, <2>5 DEF CallOK, Calls, Interrupting
  <2> QED BY <1>2, <2>3, <2>4, <2>6, StaysFine
<1>7. CASE Abort(c)
  <2> DEFINE e == sess[call[c].s]
  <2>1. call[c].s \in Sessions /\ call[c].pc = "enter" /\ call[c].op = "abort"
    BY <1>1, <1>7 DEF Abort, At
  <2>2. SessOK(e)
    BY <2>1 DEF TypeInv, SessType
  <2>3. PICK todo \in SUBSET Turns : todo = IF Interruptible(e) THEN {e.turn} ELSE {}
    BY <2>2, ShownTurn
  <2>4. PICK pc \in {"link", "wait"} : pc = IF Interruptible(e) THEN "link" ELSE "wait"
    OBVIOUS
  <2>5. PICK t \in {None} \cup Threads : t = e.thread
    BY <2>2, ShownTurn
  <2>6. Returns(c) \/ call' = [call EXCEPT ![c].thread = t, ![c].pc = pc, ![c].todo = todo]
    BY <1>7, <2>3, <2>4, <2>5 DEF Abort
  <2>7. PICK x : x = [z EXCEPT !.thread = t, !.pc = pc, !.todo = todo]
    OBVIOUS
  <2>8. x \in Calls
    BY <2>7 DEF Calls
  <2>9. x.pc = pc /\ x.s = z.s /\ x.op = z.op /\ x.answer = z.answer
    BY <2>7 DEF Calls
  <2>10. CallOK(x) /\ x.op # "send"
    BY <1>2, <2>1, <2>8, <2>9 DEF CallOK, Interrupting
  <2>11. Returns(c) \/ call' = [call EXCEPT ![c] = x]
    BY <1>2, <2>6, <2>7
  <2> QED BY <2>10, <2>11, StaysFine, ReturnsFine
<1>8. CASE Wait(c)
  <2>1. call[c].s \in Sessions /\ call[c].pc = "wait"
    BY <1>1, <1>8 DEF Wait, At
  <2>2. SessOK(Of(c))
    BY <2>1 DEF TypeInv, SessType, Of
  <2>3. Returns(c) \/ \E r \in Turns : call' = [call EXCEPT ![c].pc = "link", ![c].todo = {r}]
    BY <1>8, <2>2, ShownTurn DEF Wait
  <2>4. ASSUME NEW r \in Turns, call' = [call EXCEPT ![c].pc = "link", ![c].todo = {r}]
        PROVE  OneMoves(c)
    <3>1. PICK x : x = [z EXCEPT !.pc = "link", !.todo = {r}]
      OBVIOUS
    <3>2. x \in Calls
      BY <3>1 DEF Calls
    <3>3. CallOK(x) /\ x.op = call[c].op /\ x.turn = call[c].turn /\ ~Interrupting(call[c])
      BY <1>2, <2>1, <3>1, <3>2 DEF CallOK, Calls, Interrupting
    <3> QED BY <1>2, <2>4, <3>1, <3>3, StaysFine
  <2> QED BY <2>3, <2>4, ReturnsFine
<1> QED BY <1>3, <1>4, <1>5, <1>6, <1>7, <1>8

\* The steps that ask for a turn.
LEMMA AsksFine ==
    ASSUME TypeInv, NEW c \in Callers, Older,
           Mark(c) \/ NotFound(c) \/ Unpersisted(c) \/ ThreadResumed(c) \/ Replaced(c)
    PROVE  OneMoves(c)
<1>1. PICK z \in Calls : z = call[c] /\ CallOK(z)
  BY ThisCall
<1>2. CASE Mark(c)
  <2>1. z.pc = "clear" /\ z.op = "send"
    BY <1>1, <1>2 DEF Mark, At
  <2>2. ASSUME NEW r \in Turns, turn' = [turn EXCEPT ![r] = [at |-> "asked", conn |-> call[c].conn,
                                                             thread |-> call[c].thread, home |-> call[c].s]],
               call' = [call EXCEPT ![c].pc = "asked", ![c].for = "turn", ![c].turn = r]
        PROVE  OneMoves(c)
    <3>1. PICK x : x = [z EXCEPT !.pc = "asked", !.for = "turn", !.turn = r]
      OBVIOUS
    <3>2. x \in Calls
      BY <3>1 DEF Calls
    <3>3. CallOK(x) /\ x.turn = r
      BY <1>1, <2>1, <3>1, <3>2 DEF CallOK, Calls, Interrupting
    <3>4. turn'[r].at = "asked"
      BY <2>2 DEF TypeInv, TurnType
    <3>5. call' = [call EXCEPT ![c] = x]
      BY <1>1, <2>2, <3>1
    <3> QED BY <3>3, <3>4, <3>5, StaysFine
  <2>3. \/ Returns(c)
        \/ \E r \in Turns : /\ turn' = [turn EXCEPT ![r] = [at |-> "asked", conn |-> call[c].conn,
                                                            thread |-> call[c].thread, home |-> call[c].s]]
                            /\ call' = [call EXCEPT ![c].pc = "asked", ![c].for = "turn", ![c].turn = r]
    BY <1>2 DEF Mark
  <2> QED BY <2>2, <2>3, ReturnsFine
<1>3. CASE NotFound(c) \/ Unpersisted(c)
  <2>1. z.pc = "answered" /\ z.op = "send" /\ z.for \in {"turn", "resume"}
    BY <1>1, <1>3 DEF NotFound, Unpersisted, Answered
  <2>2. PICK for \in {"resume", "thread"} : call' = [call EXCEPT ![c].pc = "asked", ![c].for = for]
    BY <1>3 DEF NotFound, Unpersisted
  <2>3. PICK x : x = [z EXCEPT !.pc = "asked", !.for = for]
    OBVIOUS
  <2>4. x \in Calls
    BY <2>3 DEF Calls
  <2>5. CallOK(x) /\ x.op = call[c].op /\ x.turn = call[c].turn /\ ~Interrupting(call[c])
    BY <1>1, <2>1, <2>3, <2>4 DEF CallOK, Calls, Interrupting
  <2> QED BY <1>1, <2>2, <2>3, <2>5, StaysFine
<1>4. CASE ThreadResumed(c) \/ Replaced(c)
  <2>1. /\ z.pc = "answered" /\ z.op = "send" /\ z.for \in {"resume", "thread"}
        /\ z.thread \in {None} \cup Threads /\ z.answer.thread \in {None} \cup Threads
    BY <1>1, <1>4 DEF ThreadResumed, Replaced, Answered, Calls, Message
  <2>2. PICK t \in {None} \cup Threads :
            call' = [call EXCEPT ![c].pc = "asked", ![c].for = "turn", ![c].thread = t, ![c].notes = @ \cup {"again"}]
    BY <1>1, <1>4, <2>1 DEF ThreadResumed, Replaced, AskAgain
  <2>3. PICK x : x = [z EXCEPT !.pc = "asked", !.for = "turn", !.thread = t, !.notes = @ \cup {"again"}]
    OBVIOUS
  <2>4. x \in Calls
    BY <2>3 DEF Calls
  <2>5. /\ x.pc = "asked" /\ x.for = "turn" /\ x.op = z.op /\ x.turn = z.turn /\ x.s = z.s
        /\ x.conn = z.conn /\ x.answer = z.answer
    BY <2>3 DEF Calls
  <2>6. CallOK(x) /\ x.op = call[c].op /\ x.turn = call[c].turn /\ ~Interrupting(call[c])
    BY <1>1, <2>1, <2>4, <2>5 DEF CallOK, Interrupting
  <2>7. call' = [call EXCEPT ![c] = x]
    BY <1>1, <2>2, <2>3
  <2> QED BY <2>6, <2>7, StaysFine
<1> QED BY <1>2, <1>3, <1>4

\* The steps of an interrupt.
LEMMA InterruptFine ==
    ASSUME TypeInv, NEW c \in Callers, Older,
           \/ Interrupt(c) \/ Interrupted(c) \/ FoundAnother(c) \/ NoneActive(c) \/ PendingEnds(c)
           \/ InterruptFails(c)
    PROVE  OneMoves(c)
<1>1. PICK z \in Calls : z = call[c] /\ CallOK(z)
  BY ThisCall
<1>2. ASSUME NEW r \in Turns, NEW notes \in SUBSET {"found"}, z.pc \in {"answered", "pending"}, z.for = "interrupt",
             InterruptAgain(c, r, notes)
      PROVE  OneMoves(c)
  <2>1. call' = [call EXCEPT ![c].pc = "asked", ![c].for = "interrupt", ![c].turn = r, ![c].notes = @ \cup notes]
    BY <1>2 DEF InterruptAgain
  <2>2. PICK x : x = [z EXCEPT !.pc = "asked", !.for = "interrupt", !.turn = r, !.notes = @ \cup notes]
    OBVIOUS
  <2>3. x \in Calls
    BY <2>2 DEF Calls
  <2>4. /\ x.pc = "asked" /\ x.for = "interrupt" /\ x.turn = r /\ x.from = z.from /\ x.s = z.s /\ x.conn = z.conn
        /\ x.answer = z.answer
    BY <2>2 DEF Calls
  <2>5. CallOK(x) /\ Interrupting(x)
    BY <1>1, <1>2, <2>3, <2>4 DEF CallOK, Interrupting
  <2>6. call' = [call EXCEPT ![c] = x]
    BY <1>1, <2>1, <2>2
  <2> QED BY <2>5, <2>6, StaysFine
<1>3. ASSUME NEW notes \in SUBSET {"hit"}, z.pc \in {"answered", "pending"}, z.for = "interrupt", Resolved(c, notes)
      PROVE  OneMoves(c)
  <2>1. z.from \in Turns /\ z.turn \in Turns
    BY <1>1, <1>3 DEF CallOK, Interrupting
  <2>2. PICK a \in SUBSET Turns, b \in SUBSET Turns : a = z.todo \ {z.from} /\ b = z.seen \cup {z.from, z.turn}
    BY <2>1 DEF Calls
  <2>3. call' = [call EXCEPT ![c].pc = "clear", ![c].todo = a, ![c].seen = b, ![c].turn = None,
                             ![c].notes = @ \cup notes]
    BY <1>1, <1>3, <2>2 DEF Resolved
  <2>4. PICK x : x = [z EXCEPT !.pc = "clear", !.todo = a, !.seen = b, !.turn = None, !.notes = @ \cup notes]
    OBVIOUS
  <2>5. x \in Calls
    BY <2>4 DEF Calls
  <2>6. x.pc = "clear" /\ x.turn = None /\ x.s = z.s /\ x.conn = z.conn /\ x.answer = z.answer
    BY <2>4 DEF Calls
  <2>7. CallOK(x)
    BY <1>1, <1>3, <2>5, <2>6 DEF CallOK, Interrupting
  <2>8. call' = [call EXCEPT ![c] = x]
    BY <1>1, <2>3, <2>4
  <2> QED BY <2>6, <2>7, <2>8, StaysFine
<1>4. ASSUME z.pc \in {"answered", "pending"}, z.for = "interrupt", Unresolved(c)
      PROVE  OneMoves(c)
  <2>1. CASE z.op = "resume"
    <3>1. PICK a \in SUBSET Turns : a = z.todo \ {z.from}
      BY DEF Calls
    <3>2. call' = [call EXCEPT ![c].pc = "clear", ![c].todo = a]
      BY <1>1, <1>4, <2>1, <3>1 DEF Unresolved
    <3>3. PICK x : x = [z EXCEPT !.pc = "clear", !.todo = a]
      OBVIOUS
    <3>4. x \in Calls
      BY <3>3 DEF Calls
    <3>5. CallOK(x) /\ x.op # "send"
      BY <1>1, <1>4, <2>1, <3>3, <3>4 DEF CallOK, Calls, Interrupting
    <3>6. call' = [call EXCEPT ![c] = x]
      BY <1>1, <3>2, <3>3
    <3> QED BY <3>5, <3>6, StaysFine
  <2>2. CASE z.op # "resume"
    BY <1>1, <1>4, <2>2, ReturnsFine DEF Unresolved
  <2> QED BY <2>1, <2>2
<1>5. CASE Interrupt(c)
  <2>1. z.pc = "clear"
    BY <1>1, <1>5 DEF Interrupt, At
  <2>2. PICK r \in call[c].todo :
            call' = [call EXCEPT ![c].pc = "asked", ![c].for = "interrupt", ![c].turn = r, ![c].from = r,
                                 ![c].notes = @ \ {"found"}]
    BY <1>5 DEF Interrupt
  <2>3. r \in Turns
    BY <1>1 DEF Calls
  <2>4. PICK x : x = [z EXCEPT !.pc = "asked", !.for = "interrupt", !.turn = r, !.from = r, !.notes = @ \ {"found"}]
    OBVIOUS
  <2>5. x \in Calls
    BY <2>3, <2>4 DEF Calls
  <2>6. /\ x.pc = "asked" /\ x.for = "interrupt" /\ x.turn = r /\ x.from = r /\ x.s = z.s /\ x.conn = z.conn
        /\ x.answer = z.answer
    BY <2>4 DEF Calls
  <2>7. CallOK(x) /\ Interrupting(x)
    BY <1>1, <2>1, <2>3, <2>5, <2>6 DEF CallOK, Interrupting
  <2>8. call' = [call EXCEPT ![c] = x]
    BY <1>1, <2>2, <2>4
  <2> QED BY <2>7, <2>8, StaysFine
<1>6. CASE Interrupted(c) \/ FoundAnother(c) \/ NoneActive(c) \/ InterruptFails(c)
  <2>1. z.pc = "answered" /\ z.for = "interrupt" /\ z.turn \in Turns
    BY <1>1, <1>6 DEF Interrupted, FoundAnother, NoneActive, InterruptFails, Interrupts, Answered, CallOK, Interrupting
  <2>2. CASE Interrupted(c)
    BY <1>3, <2>1, <2>2 DEF Interrupted
  <2>3. CASE FoundAnother(c)
    <3>1. z.answer.turn \in Turns
      BY <1>1, <2>3 DEF FoundAnother, Interrupts, Answered, CallOK
    <3> QED BY <1>1, <1>2, <2>1, <2>3, <3>1 DEF FoundAnother
  <2>4. CASE NoneActive(c)
    <3>1. Goes(c, "pending") => OneMoves(c)
      BY <1>1, <2>1, GoesFine
    <3>2. InterruptAgain(c, call[c].turn, {}) => OneMoves(c)
      BY <1>1, <1>2, <2>1
    <3>3. Resolved(c, {}) => OneMoves(c)
      BY <1>3, <2>1
    <3> QED BY <1>4, <2>1, <2>4, <3>1, <3>2, <3>3 DEF NoneActive
  <2>5. CASE InterruptFails(c)
    BY <1>4, <2>1, <2>5 DEF InterruptFails
  <2> QED BY <1>6, <2>2, <2>3, <2>4, <2>5
<1>7. CASE PendingEnds(c)
  <2>1. z.pc = "pending" /\ z.for = "interrupt" /\ z.turn \in Turns
    BY <1>1, <1>7 DEF PendingEnds, At, CallOK, Interrupting
  <2>2. InterruptAgain(c, call[c].turn, {}) => OneMoves(c)
    BY <1>1, <1>2, <2>1
  <2>3. Resolved(c, {}) => OneMoves(c)
    BY <1>3, <2>1
  <2> QED BY <1>4, <1>7, <2>1, <2>2, <2>3 DEF PendingEnds
<1> QED BY <1>5, <1>6, <1>7

\* The steps of a call, but those in which its request comes to nothing.
Begins(c) ==
    \/ \E s \in Sessions, op \in Locked : Begin(c, op, s)
    \/ \E s \in Sessions : Start(c, s)
    \/ \E s \in Sessions, t \in Threads : Resume(c, s, t)
Steps(c) ==
    \/ Begins(c)
    \/ Enter(c) \/ Reuse(c) \/ Outdated(c) \/ Recycle(c) \/ Spawn(c) \/ SpawnFails(c)
    \/ Started(c) \/ StartFails(c) \/ Resumed(c) \/ ResumeFails(c) \/ ResumeEnds(c) \/ Reset(c)
    \/ ResetEnds(c) \/ Stop(c) \/ Send(c) \/ ThreadMade(c) \/ NoThread(c) \/ Own(c)
    \/ Mark(c) \/ Apply(c) \/ NotFound(c) \/ ThreadResumed(c) \/ Unpersisted(c) \/ Replaced(c)
    \/ BadInput(c) \/ SendFails(c) \/ Abort(c) \/ Wait(c) \/ AbortEnds(c) \/ Interrupt(c) \/ Interrupted(c)
    \/ FoundAnother(c) \/ NoneActive(c) \/ PendingEnds(c) \/ InterruptFails(c)

LEMMA CallSteps ==
    ASSUME NEW c \in Callers, Call(c)
    PROVE  Steps(c) \/ TimesOut(c) \/ Refused(c)
BY DEF Call, Steps, Begins

\* Only the steps that ask for a turn change one.
LEMMA TurnSteps ==
    ASSUME TypeInv, NEW c \in Callers, Steps(c)
    PROVE  Older /\ TurnType'
<1>1. CASE Mark(c)
  <2>1. call[c].conn \in Conns /\ call[c].s \in Sessions /\ call[c].thread \in {None} \cup Threads
    BY <1>1, ThisCall DEF Mark, At, CallOK, Calls
  <2>2. UNCHANGED turn \/ \E r \in Turns : turn' = [turn EXCEPT ![r] = [at |-> "asked", conn |-> call[c].conn,
                                                        thread |-> call[c].thread, home |-> call[c].s]]
    BY <1>1 DEF Mark
  <2>3. [at |-> "asked", conn |-> call[c].conn, thread |-> call[c].thread, home |-> call[c].s] \in Turn
    BY <2>1 DEF Turn
  <2> QED BY <2>1, <2>2, <2>3 DEF Older, TypeInv, TurnType
<1>2. ASSUME NEW t \in {None} \cup Threads, AskAgain(c, t), call[c].op = "send", ~Interrupting(call[c])
      PROVE  Older /\ TurnType'
  <2>1. turn' = [turn EXCEPT ![call[c].turn] = [@ EXCEPT !.at = "asked", !.thread = t]]
    BY <1>2 DEF AskAgain
  <2>2. CASE call[c].turn = None
    BY <2>1, <2>2, Nulls DEF Older, TypeInv, TurnType
  <2>3. CASE call[c].turn # None
    <3>1. call[c].turn \in Turns /\ turn[call[c].turn].at # "unborn"
      BY <1>2, <2>3, ThisCall DEF Calls, TypeInv, BornCalls
    <3>2. PICK r \in Turns : r = call[c].turn
      BY <3>1
    <3>3. PICK y : y = [turn[r] EXCEPT !.at = "asked", !.thread = t]
      OBVIOUS
    <3>4. y \in Turn /\ y.at = "asked" /\ y.conn = turn[r].conn
      BY <3>3 DEF Turn, TypeInv, TurnType
    <3>5. turn' = [turn EXCEPT ![r] = y]
      BY <2>1, <3>2, <3>3
    <3> QED BY <3>1, <3>2, <3>4, <3>5 DEF Older, TypeInv, TurnType
  <2> QED BY <2>2, <2>3
<1>3. CASE ThreadResumed(c) \/ Replaced(c)
  <2>1. call[c].thread \in {None} \cup Threads /\ call[c].answer.thread \in {None} \cup Threads
    BY ThisCall DEF Calls, Message
  <2>2. call[c].op = "send" /\ ~Interrupting(call[c])
    BY <1>3 DEF ThreadResumed, Replaced, Answered, Interrupting
  <2> QED BY <1>2, <1>3, <2>1, <2>2 DEF ThreadResumed, Replaced
<1>4. CASE UNCHANGED turn
  BY <1>4, Frames DEF Older
<1>5. CASE \/ Begins(c)
           \/ Enter(c) \/ Reuse(c) \/ Outdated(c) \/ Recycle(c) \/ Spawn(c) \/ SpawnFails(c)
           \/ Started(c) \/ StartFails(c) \/ Resumed(c) \/ ResumeFails(c) \/ ResumeEnds(c) \/ Reset(c)
           \/ ResetEnds(c) \/ Stop(c) \/ Send(c) \/ ThreadMade(c) \/ NoThread(c) \/ Own(c)
           \/ Apply(c) \/ NotFound(c) \/ Unpersisted(c) \/ SendFails(c) \/ BadInput(c) \/ Abort(c) \/ Wait(c)
           \/ AbortEnds(c) \/ Interrupt(c) \/ Interrupted(c) \/ FoundAnother(c) \/ NoneActive(c) \/ PendingEnds(c)
           \/ InterruptFails(c)
  BY <1>4, <1>5
  DEF Begins, Begin, Start, Resume, Unlinked, InterruptAgain, Resolved, Unresolved, serverVars, Enter, Reuse,
  Outdated, Recycle, Spawn, SpawnFails, Started, StartFails, Resumed, ResumeFails, ResumeEnds, Reset,
  ResetEnds, Stop, Send, ThreadMade, NoThread, Own, Apply, NotFound, Unpersisted, SendFails, BadInput, Abort, Wait,
  AbortEnds, Interrupt, Interrupted, FoundAnother, NoneActive, PendingEnds, InterruptFails
<1> QED BY <1>1, <1>3, <1>5 DEF Steps

LEMMA CallFine ==
    ASSUME TypeInv, NEW c \in Callers, Steps(c)
    PROVE  OneMoves(c)
<1>1. Older
  BY TurnSteps
<1>2. CASE Begins(c)
  BY <1>1, <1>2, BeginFine DEF Begins
<1>3. CASE Reuse(c) \/ Spawn(c)
  <2>1. slot \in {None} \cup Conns /\ conns \in Nat
    BY BoundAssumption DEF TypeInv, LinkType
  <2>2. Spawn(c) => conns + 1 \in Conns
    BY <2>1, BoundAssumption DEF Spawn, TypeInv, LinkType, Conns
  <2>3. call[c].pc \in {"link", "spawn"} /\ \E k \in Conns : Linked(c, k)
    BY <1>3, <2>1, <2>2 DEF Reuse, Spawn, At
  <2> QED BY <1>1, <2>3, LinkedFine
<1>4. CASE Enter(c) \/ Outdated(c) \/ Recycle(c)
  <2>1. \E pc \in {"enter", "relink", "spawn"} : Goes(c, pc)
    BY <1>4 DEF Enter, Outdated, Recycle
  <2>2. call[c].pc \in {"gate", "link", "relink"}
    BY <1>4 DEF Enter, Outdated, Recycle, At
  <2> QED BY <1>1, <2>1, <2>2, GoesFine DEF Interrupting
<1>5. CASE Reset(c)
  <2>1. call[c].pc = "enter" /\ (Goes(c, "link") \/ Returns(c))
    BY <1>5 DEF Reset, At
  <2> QED BY <1>1, <2>1, GoesFine, ReturnsFine DEF Interrupting
<1>6. CASE \/ SpawnFails(c) \/ Started(c) \/ StartFails(c) \/ ResumeFails(c) \/ ResumeEnds(c) \/ ResetEnds(c)
           \/ Stop(c) \/ NoThread(c) \/ Apply(c) \/ SendFails(c) \/ BadInput(c) \/ AbortEnds(c)
  <2>1. Returns(c)
    BY <1>6
    DEF SpawnFails, Started, StartFails, ResumeFails, ResumeEnds, ResetEnds, Stop, NoThread, Apply, SendFails, BadInput, AbortEnds
  <2> QED BY <1>1, <2>1, ReturnsFine
<1> QED BY <1>1, <1>2, <1>3, <1>4, <1>5, <1>6, ProceedsFine, AsksFine, InterruptFine DEF Steps

\* What a step of a call does to the sessions.
LEMMA SessSteps ==
    ASSUME TypeInv, NEW c \in Callers, Steps(c)
    PROVE  SessType' /\ HostType'
<1> DEFINE s == call[c].s
<1>1. /\ call[c].pc # "idle" => s \in Sessions
      /\ call[c].thread \in {None} \cup Threads /\ call[c].answer.thread \in {None} \cup Threads
      /\ call[c].seen \in SUBSET Turns
  BY ThisCall DEF CallOK, Calls, Message
<1>2. /\ sess \in [Sessions -> Session] /\ \A o \in Sessions : SessOK(sess[o])
      /\ owner \in [Threads -> Sessions \cup {NoSession}]
      /\ fate \in [Turns -> {"ours", "taken", "left", "loose"}]
  BY DEF TypeInv, SessType, HostType
<1>3. /\ SessOK(Absent) /\ SessOK(Fresh)
      /\ \A t \in {None} \cup Threads : SessOK([Fresh EXCEPT !.thread = t, !.used = TRUE])
  BY DEF SessOK, Absent, Fresh, Session, Running
<1>4. CASE UNCHANGED <<sess, owner, fate>>
  BY <1>4, Frames
<1>5. ASSUME NEW o \in Sessions, Start(c, o) PROVE SessType' /\ HostType'
  <2>1. SessType'
    BY <1>3, <1>5, SessStep DEF Start
  <2> QED BY <1>2, <1>5, <2>1, FateTypes DEF Start, HostType
<1>6. CASE SpawnFails(c) \/ StartFails(c) \/ Stop(c)
  <2>1. s \in Sessions
    BY <1>1, <1>6 DEF SpawnFails, StartFails, Stop, At, Answered
  <2>2. SessType'
    BY <1>3, <1>6, <2>1, SessStep, Frames DEF SpawnFails, StartFails, Stop
  <2>3. owner' \in [Threads -> Sessions \cup {NoSession}]
    BY <1>2, <1>6 DEF SpawnFails, StartFails, Stop, Unlinked
  <2>4. fate' \in [Turns -> {"ours", "taken", "left", "loose"}]
    BY <1>2, <1>6, FateTypes DEF SpawnFails, StartFails, Stop
  <2> QED BY <2>2, <2>3, <2>4 DEF HostType
<1>7. CASE Started(c) \/ Own(c) \/ ThreadResumed(c) \/ Resumed(c)
  <2>1. s \in Sessions
    BY <1>1, <1>7 DEF Started, Own, ThreadResumed, Resumed, At, Answered
  <2>2. PICK t \in {None} \cup Threads : t \in {call[c].thread, call[c].answer.thread}
                                         /\ (TakeOwnership(sess, t, s) \/ Resumed(c))
    BY <1>1, <1>7 DEF Started, Own, ThreadResumed
  <2>3. ASSUME TakeOwnership(sess, t, s) PROVE SessType' /\ owner' \in [Threads -> Sessions \cup {NoSession}]
    BY <1>2, <2>1, <2>3, TakeTypes
  <2>4. ASSUME Resumed(c) PROVE SessType' /\ owner' \in [Threads -> Sessions \cup {NoSession}]
    <3> DEFINE S == [sess EXCEPT ![s] = [Fresh EXCEPT !.thread = call[c].thread, !.used = TRUE]]
    <3>1. S \in [Sessions -> Session] /\ \A o \in Sessions : SessOK(S[o])
      BY <1>1, <1>2, <1>3, <2>1 DEF SessOK
    <3>2. TakeOwnership(S, call[c].thread, s)
      BY <2>4 DEF Resumed
    <3> HIDE DEF S
    <3> QED BY <1>1, <2>1, <3>1, <3>2, TakeTypes
  <2>5. fate' \in [Turns -> {"ours", "taken", "left", "loose"}]
    BY <1>7, FateTypes DEF Started, Own, ThreadResumed, Resumed
  <2> QED BY <2>2, <2>3, <2>4, <2>5 DEF HostType
<1>8. CASE Reset(c)
  <2>1. s \in Sessions
    BY <1>1, <1>8 DEF Reset, At
  <2> QED BY <1>2, <1>8, <2>1, Frames DEF Reset, HostType
<1>9. CASE \/ ResumeEnds(c) \/ ResetEnds(c) \/ ThreadMade(c) \/ Mark(c)
          \/ Apply(c) \/ Replaced(c) \/ SendFails(c) \/ BadInput(c) \/ AbortEnds(c)
  <2>1. s \in Sessions
    BY <1>1, <1>9 DEF ResumeEnds, ResetEnds, ThreadMade, Mark, Apply, Replaced, SendFails, BadInput, AbortEnds, At, Answered
  <2>2. SessOK(sess[s])
    BY <1>2, <2>1
  <2>3. SessType'
    <3>1. CASE ResumeEnds(c)
      <4>1. PICK R \in SUBSET Turns : R = IF sess[s].here THEN sess[s].ignored \cup call[c].seen ELSE sess[s].ignored
        BY <1>1, <2>2, ShownTurn
      <4>2. SessOK([sess[s] EXCEPT !.ignored = R])
        BY <2>2 DEF SessOK, Session, Running
      <4>3. sess' = [sess EXCEPT ![s] = [sess[s] EXCEPT !.ignored = R]]
        BY <3>1, <4>1 DEF ResumeEnds, Of
      <4> QED BY <2>1, <4>2, <4>3, SessStep
    <3>2. CASE ResetEnds(c)
      <4>1. SessOK([Ended(sess[s]) EXCEPT !.thread = call[c].answer.thread, !.used = FALSE])
        BY <1>1, <2>2 DEF SessOK, Session, Running, Ended
      <4> QED BY <2>1, <3>2, <4>1, SessStep, Frames DEF ResetEnds
    <3>3. CASE ThreadMade(c)
      <4>1. SessOK([sess[s] EXCEPT !.thread = call[c].answer.thread, !.used = FALSE])
        BY <1>1, <2>2 DEF SessOK, Session, Running
      <4>2. \E e \in {sess[s], [sess[s] EXCEPT !.thread = call[c].answer.thread, !.used = FALSE]} :
                sess' = [sess EXCEPT ![s] = e]
        BY <3>3 DEF ThreadMade
      <4> QED BY <2>1, <2>2, <4>1, <4>2, SessStep
    <3>4. CASE Mark(c)
      <4>1. PICK R \in SUBSET Turns : R = sess[s].ignored \cup call[c].seen
        BY <1>1, <2>2, ShownTurn
      <4>2. ASSUME NEW r \in Turns,
                   sess' = [sess EXCEPT ![s].turn = r, ![s].stage = "sent", ![s].ignored = @ \cup call[c].seen]
            PROVE  SessType'
        <5>1. PICK e : e = [sess[s] EXCEPT !.turn = r, !.stage = "sent", !.ignored = R]
          OBVIOUS
        <5>2. SessOK(e)
          BY <2>2, <5>1, Nulls DEF SessOK, Session, Running
        <5>3. sess' = [sess EXCEPT ![s] = e]
          BY <4>1, <4>2, <5>1
        <5> QED BY <2>1, <5>2, <5>3, SessStep
      <4>3. UNCHANGED sess \/ \E r \in Turns :
                sess' = [sess EXCEPT ![s].turn = r, ![s].stage = "sent", ![s].ignored = @ \cup call[c].seen]
        BY <3>4 DEF Mark
      <4> QED BY <4>2, <4>3, Frames
    <3>5. CASE Apply(c)
      <4>1. PICK stage, used : /\ used = (sess[s].here \/ sess[s].used)
                               /\ stage = IF sess[s].here /\ sess[s].turn = call[c].turn /\ sess[s].stage = "sent"
                                          THEN "known" ELSE sess[s].stage
        OBVIOUS
      <4>2. PICK e : e = [sess[s] EXCEPT !.used = used, !.stage = stage]
        OBVIOUS
      <4>3. SessOK(e)
        BY <2>2, <4>1, <4>2 DEF SessOK, Session, Running
      <4>4. sess' = [sess EXCEPT ![s].used = used, ![s].stage = stage]
        BY <3>5, <4>1 DEF Apply, Of
      <4>5. sess' = [sess EXCEPT ![s] = e]
        BY <4>2, <4>4
      <4> QED BY <2>1, <4>3, <4>5, SessStep
    <3>6. CASE Replaced(c)
      <4>1. SessOK([sess[s] EXCEPT !.thread = call[c].answer.thread, !.used = FALSE])
        BY <1>1, <2>2 DEF SessOK, Session, Running
      <4>2. sess' = [sess EXCEPT ![s] = [sess[s] EXCEPT !.thread = call[c].answer.thread, !.used = FALSE]]
        BY <3>6 DEF Replaced
      <4> QED BY <2>1, <4>1, <4>2, SessStep
    <3>7. CASE SendFails(c) \/ BadInput(c)
      BY <2>1, <2>2, <3>7, SessStep, EndedOK DEF SendFails, BadInput, FailTurn
    <3>8. CASE AbortEnds(c)
      <4>1. SessOK([Ended(sess[s]) EXCEPT !.ignored = sess[s].ignored \cup call[c].seen])
        BY <1>1, <2>2 DEF SessOK, Session, Running, Ended
      <4>2. \/ UNCHANGED sess
            \/ sess' = [sess EXCEPT ![s] = [Ended(@) EXCEPT !.ignored = sess[s].ignored \cup call[c].seen]]
        BY <3>8 DEF AbortEnds, Of
      <4> QED BY <2>1, <4>1, <4>2, SessStep, Frames
    <3> QED BY <1>9, <3>1, <3>2, <3>3, <3>4, <3>5, <3>6, <3>7, <3>8
  <2>4. owner' \in [Threads -> Sessions \cup {NoSession}]
    BY <1>1, <1>2, <1>9, <2>1
    DEF ResumeEnds, ResetEnds, ThreadMade, Mark, Apply, Replaced, SendFails, BadInput, AbortEnds, FailTurn
  <2>5. fate' \in [Turns -> {"ours", "taken", "left", "loose"}]
    BY <1>2, <1>9, FateTypes
    DEF ResumeEnds, ResetEnds, ThreadMade, Mark, Apply, Replaced, SendFails, BadInput, AbortEnds, FailTurn
  <2> QED BY <2>3, <2>4, <2>5 DEF HostType
<1>10. CASE \/ Enter(c) \/ Reuse(c) \/ Outdated(c) \/ Recycle(c) \/ Spawn(c) \/ ResumeFails(c)
           \/ Send(c) \/ NoThread(c) \/ NotFound(c) \/ Unpersisted(c) \/ Abort(c) \/ Wait(c)
           \/ Interrupt(c) \/ Interrupted(c) \/ FoundAnother(c) \/ NoneActive(c) \/ PendingEnds(c) \/ InterruptFails(c)
  <2>1. CASE \/ Enter(c) \/ Reuse(c) \/ Outdated(c) \/ Recycle(c) \/ Spawn(c) \/ ResumeFails(c)
            \/ Send(c) \/ NoThread(c) \/ NotFound(c) \/ Unpersisted(c)
    <3>1. CASE \/ Enter(c) \/ Reuse(c) \/ Outdated(c) \/ Recycle(c) \/ Spawn(c)
      <4>1. UNCHANGED <<sess, owner, fate>>
        <5>1. CASE Enter(c) \/ Outdated(c) \/ Recycle(c)
          BY <5>1 DEF hostVars, Enter, Outdated, Recycle
        <5>2. CASE Reuse(c)
          BY <5>2 DEF Reuse, Unlinked
        <5>3. CASE Spawn(c)
          BY <5>3 DEF Spawn, Unlinked
        <5> QED BY <3>1, <5>1, <5>2, <5>3
      <4> QED BY <1>4, <4>1
    <3>2. CASE ResumeFails(c) \/ Send(c) \/ NoThread(c) \/ NotFound(c) \/ Unpersisted(c)
      <4>1. UNCHANGED <<sess, owner, fate>>
        BY <3>2 DEF hostVars, ResumeFails, Send, NoThread, NotFound, Unpersisted
      <4> QED BY <1>4, <4>1
    <3> QED BY <2>1, <3>1, <3>2
  <2>2. CASE \/ Abort(c) \/ Wait(c) \/ Interrupt(c) \/ Interrupted(c)
            \/ FoundAnother(c) \/ NoneActive(c) \/ PendingEnds(c) \/ InterruptFails(c)
    <3>1. UNCHANGED <<sess, owner, fate>>
      BY <2>2
      DEF InterruptAgain, Resolved, Unresolved, hostVars, Abort, Wait, Interrupt, Interrupted, FoundAnother,
      NoneActive, PendingEnds, InterruptFails
    <3> QED BY <1>4, <3>1
  <2> QED BY <1>10, <2>1, <2>2
<1>11. CASE Begins(c)
  <2>1. CASE \E o \in Sessions : Start(c, o)
    BY <1>5, <2>1
  <2>2. CASE \/ \E o \in Sessions, op \in Locked : Begin(c, op, o)
            \/ \E o \in Sessions, t \in Threads : Resume(c, o, t)
    <3>1. UNCHANGED <<sess, owner, fate>>
      BY <2>2 DEF Begin, Resume, Unlinked, hostVars
    <3> QED BY <1>4, <3>1
  <2> QED BY <1>11, <2>1, <2>2 DEF Begins
<1> QED BY <1>6, <1>7, <1>8, <1>9, <1>10, <1>11 DEF Steps

\* A call that asks: one more request, its own, for the process it works with.
AskedFor(c, q) ==
    /\ q \in Request /\ q.by = c /\ requests' = requests \cup {q}
    /\ call'[c].pc = "asked" /\ call'[c].conn = q.conn
    /\ q.for = "turn" /\ q.turn # None => turn'[q.turn].at # "unborn"
PipeStep(c) ==
    /\ call[c].pc # "asked" /\ UNCHANGED wire
    /\ UNCHANGED requests \/ \E q \in Request : AskedFor(c, q)

LEMMA WritesOK ==
    ASSUME TypeInv, NEW c \in Callers, NEW for \in {"thread", "resume", "turn", "interrupt"},
           NEW t \in {None} \cup Threads, NEW r \in {None} \cup Turns, Writes(c, for, t, r),
           call[c].pc \in {"clear", "answered", "pending"},
           call'[c].pc = "asked", call'[c].conn = call[c].conn,
           for = "turn" /\ r # None => turn'[r].at # "unborn"
    PROVE  PipeStep(c)
<1>1. PICK q : q = [by |-> c, conn |-> call[c].conn, for |-> for, thread |-> t, turn |-> r]
  OBVIOUS
<1>2. call[c].conn \in Conns
  BY ThisCall DEF CallOK
<1>3. q \in Request /\ q.by = c /\ q.conn = call[c].conn /\ q.for = for /\ q.turn = r
  BY <1>1, <1>2 DEF Request
<1>4. requests' = requests \cup {q} /\ UNCHANGED wire
  BY <1>1 DEF Writes
<1> QED BY <1>3, <1>4 DEF PipeStep, AskedFor

LEMMA LinkedPipes ==
    ASSUME TypeInv, NEW c \in Callers, NEW k \in Conns, call[c].pc \in {"link", "spawn"}, Linked(c, k)
    PROVE  PipeStep(c)
<1>1. call[c] \in Calls /\ call \in [Callers -> Calls]
  BY ThisCall
<1>2. CASE UNCHANGED pipeVars
  BY <1>2 DEF PipeStep, pipeVars
<1>3. ASSUME NEW for \in {"thread", "resume"}, call' = [call EXCEPT ![c].conn = k, ![c].pc = "asked", ![c].for = for],
             requests' = requests \cup {[by |-> c, conn |-> k, for |-> for, thread |-> call[c].thread, turn |-> None]},
             UNCHANGED wire
      PROVE  PipeStep(c)
  <2>1. PICK q : q = [by |-> c, conn |-> k, for |-> for, thread |-> call[c].thread, turn |-> None]
    OBVIOUS
  <2>2. call[c].thread \in {None} \cup Threads
    BY <1>1 DEF Calls
  <2>3. q \in Request /\ q.by = c /\ q.conn = k /\ q.for = for
    BY <2>1, <2>2 DEF Request
  <2>4. call'[c].pc = "asked" /\ call'[c].conn = k
    BY <1>1, <1>3 DEF Calls
  <2> QED BY <1>3, <2>1, <2>3, <2>4 DEF PipeStep, AskedFor
<1>4. \/ UNCHANGED pipeVars
      \/ \E for \in {"thread", "resume"} :
            /\ call' = [call EXCEPT ![c].conn = k, ![c].pc = "asked", ![c].for = for]
            /\ requests' = requests \cup {[by |-> c, conn |-> k, for |-> for, thread |-> call[c].thread, turn |-> None]}
            /\ UNCHANGED wire
  BY DEF Linked
<1> QED BY <1>2, <1>3, <1>4

\* What a step of a call does to the requests and to the output.
LEMMA PipeSteps ==
    ASSUME TypeInv, NEW c \in Callers, Steps(c)
    PROVE  PipeStep(c)
<1>1. /\ call \in [Callers -> Calls] /\ call[c] \in Calls /\ CallOK(call[c])
      /\ call[c].thread \in {None} \cup Threads /\ call[c].answer.thread \in {None} \cup Threads
      /\ call[c].turn \in {None} \cup Turns /\ call[c].todo \in SUBSET Turns
  BY ThisCall DEF Calls, Message
<1>2. Older
  BY TurnSteps
<1>3. CASE Reuse(c) \/ Spawn(c)
  <2>1. slot \in {None} \cup Conns /\ conns \in Nat
    BY BoundAssumption DEF TypeInv, LinkType
  <2>2. Spawn(c) => conns + 1 \in Conns
    BY <2>1, BoundAssumption DEF Spawn, TypeInv, LinkType, Conns
  <2>3. call[c].pc \in {"link", "spawn"} /\ \E k \in Conns : Linked(c, k)
    BY <1>3, <2>1, <2>2 DEF Reuse, Spawn, At
  <2> QED BY <2>3, LinkedPipes
<1>4. CASE Mark(c)
  <2>1. call[c].pc = "clear"
    BY <1>4 DEF Mark, At
  <2>2. ASSUME NEW r \in Turns, turn' = [turn EXCEPT ![r] = [at |-> "asked", conn |-> call[c].conn,
                                                             thread |-> call[c].thread, home |-> call[c].s]],
               call' = [call EXCEPT ![c].pc = "asked", ![c].for = "turn", ![c].turn = r],
               Writes(c, "turn", call[c].thread, r)
        PROVE  PipeStep(c)
    <3>1. call'[c].pc = "asked" /\ call'[c].conn = call[c].conn
      BY <1>1, <2>2 DEF Calls
    <3>2. turn'[r].at # "unborn"
      BY <2>2 DEF TypeInv, TurnType
    <3> QED BY <1>1, <2>1, <2>2, <3>1, <3>2, WritesOK
  <2>3. \/ UNCHANGED pipeVars
        \/ \E r \in Turns : /\ turn' = [turn EXCEPT ![r] = [at |-> "asked", conn |-> call[c].conn,
                                                            thread |-> call[c].thread, home |-> call[c].s]]
                            /\ call' = [call EXCEPT ![c].pc = "asked", ![c].for = "turn", ![c].turn = r]
                            /\ Writes(c, "turn", call[c].thread, r)
    BY <1>4 DEF Mark
  <2> QED BY <2>1, <2>2, <2>3 DEF PipeStep, pipeVars
<1>5. CASE NotFound(c) \/ Unpersisted(c)
  <2>1. call[c].pc = "answered"
    BY <1>5 DEF NotFound, Unpersisted, Answered
  <2>2. \E for \in {"thread", "resume"} : call' = [call EXCEPT ![c].pc = "asked", ![c].for = for]
    BY <1>5 DEF NotFound, Unpersisted
  <2>3. call'[c].pc = "asked" /\ call'[c].conn = call[c].conn
    BY <1>1, <2>2 DEF Calls
  <2>4. Writes(c, "resume", call[c].thread, None) \/ Writes(c, "thread", None, None)
    BY <1>5 DEF NotFound, Unpersisted
  <2> QED BY <1>1, <2>1, <2>3, <2>4, WritesOK
<1>6. CASE ThreadResumed(c) \/ Replaced(c)
  <2>1. call[c].pc = "answered" /\ call[c].op = "send" /\ ~Interrupting(call[c])
    BY <1>6 DEF ThreadResumed, Replaced, Answered, Interrupting
  <2>2. PICK t \in {None} \cup Threads : AskAgain(c, t)
    BY <1>1, <1>6 DEF ThreadResumed, Replaced
  <2>3. call'[c].pc = "asked" /\ call'[c].conn = call[c].conn
    BY <1>1, <2>2 DEF AskAgain, Calls
  <2>4. call[c].turn # None => turn'[call[c].turn].at # "unborn"
    BY <1>1, <1>2, <2>1 DEF TypeInv, BornCalls, Older
  <2> QED BY <1>1, <2>1, <2>2, <2>3, <2>4, WritesOK DEF AskAgain
<1>7. ASSUME NEW r \in Turns, NEW notes, InterruptAgain(c, r, notes), call[c].pc \in {"answered", "pending"}
      PROVE  PipeStep(c)
  <2>1. call'[c].pc = "asked" /\ call'[c].conn = call[c].conn
    BY <1>1, <1>7 DEF InterruptAgain, Calls
  <2> QED BY <1>1, <1>7, <2>1, WritesOK DEF InterruptAgain
<1>8. CASE Interrupt(c)
  <2>1. call[c].pc = "clear"
    BY <1>8 DEF Interrupt, At
  <2>2. PICK r \in call[c].todo :
            /\ call' = [call EXCEPT ![c].pc = "asked", ![c].for = "interrupt", ![c].turn = r, ![c].from = r,
                                    ![c].notes = @ \ {"found"}]
            /\ Writes(c, "interrupt", call[c].thread, r)
    BY <1>8 DEF Interrupt
  <2>3. call'[c].pc = "asked" /\ call'[c].conn = call[c].conn
    BY <1>1, <2>2 DEF Calls
  <2>4. r \in Turns
    BY <1>1
  <2> QED BY <1>1, <2>1, <2>2, <2>3, <2>4, WritesOK
<1>9. CASE Interrupted(c) \/ FoundAnother(c) \/ NoneActive(c) \/ InterruptFails(c) \/ PendingEnds(c)
  <2>1. call[c].pc \in {"answered", "pending"} /\ call[c].for = "interrupt"
    BY <1>1, <1>9
    DEF Interrupted, FoundAnother, NoneActive, InterruptFails, PendingEnds, At, Interrupts, Answered, CallOK
  <2>2. call[c].turn \in Turns
    BY <1>1, <2>1 DEF CallOK, Interrupting
  <2>3. FoundAnother(c) => call[c].answer.turn \in Turns
    BY <1>1 DEF FoundAnother, Interrupts, Answered, CallOK
  <2>4. UNCHANGED pipeVars \/ \E r \in Turns, notes \in SUBSET {"found"} : InterruptAgain(c, r, notes)
    BY <1>9, <2>2, <2>3
    DEF Interrupted, FoundAnother, NoneActive, InterruptFails, PendingEnds, Resolved, Unresolved
  <2> QED BY <1>7, <2>1, <2>4 DEF PipeStep, pipeVars
<1>10. CASE \/ Begins(c)
           \/ Enter(c) \/ Outdated(c) \/ Recycle(c) \/ SpawnFails(c)
           \/ Started(c) \/ StartFails(c) \/ Resumed(c) \/ ResumeFails(c) \/ ResumeEnds(c) \/ Reset(c)
           \/ ResetEnds(c) \/ Stop(c) \/ Send(c) \/ ThreadMade(c) \/ NoThread(c) \/ Own(c)
           \/ Apply(c) \/ SendFails(c) \/ BadInput(c) \/ Abort(c) \/ Wait(c) \/ AbortEnds(c)
  <2>1. UNCHANGED pipeVars
    BY <1>10
    DEF Begins, Begin, Start, Resume, Enter, Outdated, Recycle, SpawnFails, Started, StartFails, Resumed,
    ResumeFails, ResumeEnds, Reset, ResetEnds, Stop, Send, ThreadMade, NoThread, Own, Apply, SendFails, BadInput, Abort,
    Wait, AbortEnds
  <2>2. call[c].pc # "asked"
    BY <1>10
    DEF Begins, Begin, Start, Resume, Enter, Outdated, Recycle, SpawnFails, Started, StartFails, Resumed,
    ResumeFails, ResumeEnds, Reset, ResetEnds, Stop, Send, ThreadMade, NoThread, Own, Apply, SendFails, BadInput, Abort,
    Wait, AbortEnds, At, Answered
  <2> QED BY <2>1, <2>2 DEF PipeStep, pipeVars
<1> QED BY <1>3, <1>4, <1>5, <1>6, <1>8, <1>9, <1>10 DEF Steps

LEMMA CountsOK == ASSUME TypeInv, NEW bad, Counts(bad) PROVE EventType'
BY BoundAssumption DEF TypeInv, EventType, Counts

\* Approvals of a set that are cancelled.
Cancels(P) == prompts' = Cancelled(P) /\ answers' = Replied(P)
LEMMA CancelTypes ==
    ASSUME TypeInv, NEW P, Cancels(P)
    PROVE  PromptType' /\ AnswerType'
<1>1. PromptType'
  BY DEF TypeInv, PromptType, Cancels, Cancelled, NoPrompt, Prompt
<1>2. \A k \in Conns, n \in Asks : answers[k][n] \in Nat
  BY DEF TypeInv, AnswerType
<1>3. \A k \in Conns, n \in Asks : answers'[k][n] \in Nat
  BY <1>2 DEF Cancels, Replied
<1>4. answers' = [k \in Conns |-> [n \in Asks |-> answers'[k][n]]]
  BY DEF Cancels, Replied
<1>5. AnswerType'
  BY <1>3, <1>4 DEF AnswerType
<1> QED BY <1>1, <1>5

\* What a step of a call does to the rest.
LEMMA RestSteps ==
    ASSUME TypeInv, NEW c \in Callers, Steps(c)
    PROVE  /\ LockType' /\ LinkType' /\ EventType'
           /\ UNCHANGED <<threads, loaded, asked>>
           /\ UNCHANGED <<prompts, answers>> \/ \E P \in SUBSET Asks : Cancels(P)
<1>1. call[c].pc # "idle" => call[c].s \in Sessions
  BY ThisCall DEF CallOK
<1>2. UNCHANGED <<threads, loaded, asked>>
  BY DEF Steps, Begins, Begin, Start, Resume, Enter, Reuse, Outdated, Recycle, Spawn, SpawnFails, Started, StartFails,
  Resumed, ResumeFails, ResumeEnds, Reset, ResetEnds, Stop, Send, ThreadMade, NoThread, Own, Mark, Apply, NotFound,
  ThreadResumed, Unpersisted, Replaced, SendFails, BadInput, Abort, Wait, AbortEnds, Interrupt, Interrupted, FoundAnother,
  NoneActive, PendingEnds, InterruptFails, Unlinked, InterruptAgain, Resolved, Unresolved, AskAgain, serverVars
<1>3. LockType'
  <2>1. CASE Stop(c)
    <3>1. call[c].s \in Sessions /\ lock[call[c].s] < MaxLocks
      BY <1>1, <2>1 DEF Stop, At
    <3>2. PICK s \in Sessions : s = call[c].s
      BY <3>1
    <3>3. lock[s] + 1 \in 0 .. MaxLocks
      BY <3>1, <3>2, BoundAssumption DEF TypeInv, LockType
    <3>4. lock' = [lock EXCEPT ![s] = lock[s] + 1]
      BY <2>1, <3>2 DEF Stop
    <3> QED BY <3>3, <3>4 DEF TypeInv, LockType
  <2>2. CASE ~Stop(c)
    <3>1. UNCHANGED lock
      BY <2>2
      DEF Steps, Begins, Begin, Start, Resume, Enter, Reuse, Outdated, Recycle, Spawn, SpawnFails, Started,
      StartFails, Resumed, ResumeFails, ResumeEnds, Reset, ResetEnds, Send, ThreadMade, NoThread, Own, Mark, Apply,
      NotFound, ThreadResumed, Unpersisted, Replaced, SendFails, BadInput, Abort, Wait, AbortEnds, Interrupt, Interrupted,
      FoundAnother, NoneActive, PendingEnds, InterruptFails, Unlinked, InterruptAgain, Resolved, Unresolved, AskAgain
    <3> QED BY <3>1, Frames
  <2> QED BY <2>1, <2>2
<1>4. LinkType'
  <2>1. CASE Recycle(c)
    BY <2>1 DEF Recycle, TypeInv, LinkType
  <2>2. CASE Spawn(c)
    <3>1. conns \in Nat /\ conns + 1 \in Conns /\ conns + 1 \in 0 .. MaxConns
      BY <2>2, BoundAssumption DEF Spawn, TypeInv, LinkType, Conns
    <3> QED BY <2>2, <3>1 DEF Spawn, TypeInv, LinkType
  <2>3. CASE ~Recycle(c) /\ ~Spawn(c)
    <3>1. UNCHANGED linkVars
      BY <2>3
      DEF Steps, Begins, Begin, Start, Resume, Enter, Reuse, Outdated, SpawnFails, Started,
      StartFails, Resumed, ResumeFails, ResumeEnds, Reset, ResetEnds, Stop, Send, ThreadMade, NoThread, Own, Mark,
      Apply, NotFound, ThreadResumed, Unpersisted, Replaced, SendFails, BadInput, Abort, Wait, AbortEnds, Interrupt,
      Interrupted, FoundAnother, NoneActive, PendingEnds, InterruptFails, InterruptAgain, Resolved, Unresolved,
      AskAgain
    <3> QED BY <3>1, Frames
  <2> QED BY <2>1, <2>2, <2>3
<1>5. EventType'
  <2>1. CASE NoneActive(c) \/ PendingEnds(c) \/ Wait(c)
    <3>1. \E bad \in BOOLEAN : Counts(bad)
      BY <2>1 DEF NoneActive, PendingEnds, Wait, Counts
    <3> QED BY <3>1, CountsOK
  <2>2. CASE Begins(c) \/ Outdated(c) \/ SpawnFails(c) \/ BadInput(c)
    <3>1. Counts(TRUE)
      BY <2>2 DEF Begins, Begin, Start, Resume, Outdated, SpawnFails, BadInput
    <3> QED BY <3>1, CountsOK
  <2>3. CASE ~(Begins(c) \/ Outdated(c) \/ SpawnFails(c) \/ BadInput(c)) /\ ~(NoneActive(c) \/ PendingEnds(c) \/ Wait(c))
    <3>1. UNCHANGED events
      BY <2>3
      DEF Steps, Enter, Reuse, Recycle, Spawn, Started, StartFails, Resumed, ResumeFails, ResumeEnds, Reset,
      ResetEnds, Stop, Send, ThreadMade, NoThread, Own, Mark, Apply, NotFound, ThreadResumed, Unpersisted, Replaced,
      SendFails, Abort, AbortEnds, Interrupt, Interrupted, FoundAnother, InterruptFails
    <3> QED BY <3>1, Frames
  <2> QED BY <2>1, <2>2, <2>3
<1>6. UNCHANGED <<prompts, answers>> \/ \E P \in SUBSET Asks : Cancels(P)
  <2>1. CASE SendFails(c) \/ BadInput(c) \/ Abort(c)
    <3>1. CancelPrompts(call[c].s)
      BY <2>1 DEF SendFails, BadInput, Abort, FailTurn
    <3> QED BY <3>1 DEF CancelPrompts, Cancels, PromptsOf
  <2>2. CASE ~(SendFails(c) \/ BadInput(c) \/ Abort(c))
    BY <2>2
    DEF Steps, Begins, Begin, Start, Resume, Enter, Reuse, Outdated, Recycle, Spawn, SpawnFails, Started,
    StartFails, Resumed, ResumeFails, ResumeEnds, Reset, ResetEnds, Stop, Send, ThreadMade, NoThread, Own, Mark, Apply,
    NotFound, ThreadResumed, Unpersisted, Replaced, Wait, AbortEnds, Interrupt, Interrupted,
    FoundAnother, NoneActive, PendingEnds, InterruptFails, Unlinked, InterruptAgain, Resolved, Unresolved, AskAgain,
    hostVars
  <2> QED BY <2>1, <2>2
<1> QED BY <1>2, <1>3, <1>4, <1>5, <1>6

LEMMA StepTypes ==
    ASSUME TypeInv, NEW c \in Callers, Steps(c)
    PROVE  TypeInv'
<1>1. Older /\ TurnType'
  BY TurnSteps
<1>2. CallType' /\ BornCalls'
  BY <1>1, CallFine, BornStep DEF OneMoves
<1>3. SessType' /\ HostType'
  BY SessSteps
<1>4. LockType' /\ LinkType' /\ EventType' /\ ServerType' /\ PromptType' /\ AnswerType'
  BY RestSteps, CancelTypes, Frames
<1>5. WireType' /\ RequestType' /\ BornRequests'
  <2>1. PipeStep(c)
    BY PipeSteps
  <2>2. WireType'
    BY <2>1, Frames DEF PipeStep
  <2>3. \A q \in requests : q \in Request /\ (q.for = "turn" /\ q.turn # None => turn'[q.turn].at # "unborn")
    BY <1>1 DEF TypeInv, RequestType, BornRequests, Older, Request
  <2>4. \A q \in requests' : q \in Request /\ (q.for = "turn" /\ q.turn # None => turn'[q.turn].at # "unborn")
    BY <2>1, <2>3 DEF PipeStep, AskedFor
  <2>5. RequestType'
    BY <2>4 DEF RequestType
  <2>6. BornRequests'
    BY <2>4 DEF BornRequests
  <2> QED BY <2>2, <2>5, <2>6
<1> QED BY <1>1, <1>2, <1>3, <1>4, <1>5 DEF TypeInv

-----------------------------------------------------------------------------
(* The other steps: the request of a call, the app-server, the reader *)

\* A call that gets its answer.
Given(z, m) == [z EXCEPT !.pc = "answered", !.answer = m]
LEMMA GivenOK ==
    ASSUME TypeInv, NEW c \in Callers, call[c].pc = "asked", NEW m, MsgOK(m)
    PROVE  /\ CallOK(Given(call[c], m)) /\ Given(call[c], m).pc = "answered"
           /\ Given(call[c], m).op = call[c].op /\ Given(call[c], m).turn = call[c].turn
           /\ Interrupting(Given(call[c], m)) <=> Interrupting(call[c])
<1>1. PICK z \in Calls : z = call[c] /\ CallOK(z)
  BY ThisCall
<1>2. PICK x : x = [z EXCEPT !.pc = "answered", !.answer = m]
  OBVIOUS
<1>3. x \in Calls
  BY <1>2 DEF Calls, MsgOK
<1>4. /\ x.pc = "answered" /\ x.answer = m /\ x.op = z.op /\ x.s = z.s /\ x.conn = z.conn /\ x.for = z.for
      /\ x.from = z.from /\ x.turn = z.turn
  BY <1>2 DEF Calls
<1>5. CallOK(x) /\ (Interrupting(x) <=> Interrupting(z))
  BY <1>1, <1>3, <1>4 DEF CallOK, Interrupting, MsgOK
<1>6. x = Given(call[c], m)
  BY <1>1, <1>2 DEF Given
<1> QED BY <1>1, <1>4, <1>5, <1>6

LEMMA LostOK == MsgOK(Lost) /\ Lost.by = NoCaller
BY IdleOK DEF MsgOK, Lost, Says, Replies

\* Calls that get an answer, and others that are left alone.
LEMMA AnswersFine ==
    ASSUME TypeInv, UNCHANGED turn, NEW M \in [Callers -> Message],
           \A c \in Callers : \/ call'[c] = call[c]
                              \/ call[c].pc = "asked" /\ MsgOK(M[c]) /\ call'[c] = Given(call[c], M[c]),
           call' = [c \in Callers |-> call'[c]]
    PROVE  CallType' /\ BornCalls'
<1>1. ASSUME NEW c \in Callers
      PROVE  /\ CallOK(call'[c]) /\ call'[c].op = call[c].op /\ call'[c].turn = call[c].turn
             /\ Interrupting(call'[c]) <=> Interrupting(call[c])
  BY GivenOK, ThisCall
<1>2. CallType'
  <2>1. \A c \in Callers : call'[c] \in Calls
    BY <1>1 DEF CallOK
  <2> QED BY <1>1, <2>1 DEF CallType
<1>3. BornCalls'
  <2> SUFFICES ASSUME NEW c \in Callers, call'[c].op = "send", ~Interrupting(call'[c]), call'[c].turn # None
               PROVE  turn'[call'[c].turn].at # "unborn"
    BY DEF BornCalls
  <2>1. call[c].op = "send" /\ ~Interrupting(call[c]) /\ call[c].turn # None /\ call'[c].turn = call[c].turn
    BY <1>1
  <2> QED BY <2>1 DEF TypeInv, BornCalls
<1> QED BY <1>2, <1>3

\* Output: what was there stays, what is new comes after it.
OutputIs(k, ms) ==
    /\ wire' \in [Conns -> Seq(Message)]
    /\ \A j \in Conns \ {k} : wire'[j] = wire[j]
    /\ Len(wire[k]) \in Nat /\ Len(wire'[k]) = Len(wire[k]) + Len(ms)
    /\ \A i \in 1 .. Len(wire'[k]) : \/ i \in 1 .. Len(wire[k]) /\ wire'[k][i] = wire[k][i]
                                     \/ /\ i - Len(wire[k]) \in 1 .. Len(ms)
                                        /\ wire'[k][i] = ms[i - Len(wire[k])]
LEMMA OutputStep ==
    ASSUME TypeInv, NEW k \in Conns, NEW ms \in Seq(Message), Output(k, ms)
    PROVE  OutputIs(k, ms)
<1>1. wire \in [Conns -> Seq(Message)] /\ wire[k] \in Seq(Message)
  BY DEF TypeInv, WireType
<1>2. PICK w : w = wire[k] \o ms
  OBVIOUS
<1>3. /\ w \in Seq(Message) /\ Len(w) = Len(wire[k]) + Len(ms)
      /\ \A i \in 1 .. Len(wire[k]) + Len(ms) : w[i] = IF i <= Len(wire[k]) THEN wire[k][i] ELSE ms[i - Len(wire[k])]
  BY <1>1, <1>2, ConcatProperties
<1>4. wire' = [wire EXCEPT ![k] = w]
  BY <1>2 DEF Output
<1>5. wire' \in [Conns -> Seq(Message)] /\ wire'[k] = w /\ \A j \in Conns \ {k} : wire'[j] = wire[j]
  BY <1>1, <1>3, <1>4
<1>6. Len(wire[k]) \in Nat /\ Len(ms) \in Nat
  BY <1>1, LenProperties
<1>7. ASSUME NEW i \in 1 .. Len(w)
      PROVE  \/ i \in 1 .. Len(wire[k]) /\ w[i] = wire[k][i]
             \/ i - Len(wire[k]) \in 1 .. Len(ms) /\ w[i] = ms[i - Len(wire[k])]
  BY <1>3, <1>6
<1> QED BY <1>3, <1>5, <1>6, <1>7 DEF OutputIs

\* What a process writes: sound messages, none of them a question, at most one for
\* a caller, which is d.
Outs(ms, d) ==
    /\ ms \in Seq(Message)
    /\ \A i \in 1 .. Len(ms) : MsgOK(ms[i]) /\ ms[i].kind # "ask" /\ ms[i].by \in {NoCaller, d}
    /\ \A i, j \in 1 .. Len(ms) : ms[i].by \in Callers /\ ms[j].by \in Callers => i = j

LEMMA OutputTypes ==
    ASSUME TypeInv, NEW k \in Conns, NEW ms, OutputIs(k, ms), \A i \in 1 .. Len(ms) : MsgOK(ms[i])
    PROVE  WireType'
<1> SUFFICES ASSUME NEW j \in Conns, NEW i \in 1 .. Len(wire'[j]) PROVE MsgOK(wire'[j][i])
  BY DEF WireType, OutputIs
<1>1. \A h \in 1 .. Len(wire[j]) : MsgOK(wire[j][h])
  BY DEF TypeInv, WireType
<1>2. CASE j = k
  BY <1>1, <1>2 DEF OutputIs
<1>3. CASE j # k
  BY <1>1, <1>3 DEF OutputIs
<1> QED BY <1>2, <1>3

\* What is left of the output: all of it, or all but the first.
Shifts(k, d) == \A i \in 1 .. Len(wire'[k]) : i + d \in 1 .. Len(wire[k]) /\ wire'[k][i] = wire[k][i + d]
Shorter == wire' \in [Conns -> Seq(Message)] /\ \A k \in Conns : \E d \in {0, 1} : Shifts(k, d)

LEMMA SameOutput == ASSUME TypeInv, UNCHANGED wire PROVE Shorter
<1>1. \A k \in Conns : Shifts(k, 0)
  <2> SUFFICES ASSUME NEW k \in Conns, NEW i \in 1 .. Len(wire'[k])
               PROVE  i + 0 \in 1 .. Len(wire[k]) /\ wire'[k][i] = wire[k][i + 0]
    BY DEF Shifts
  <2>1. i + 0 = i
    OBVIOUS
  <2> QED BY <2>1
<1> QED BY <1>1 DEF Shorter, TypeInv, WireType

LEMMA ReadStep ==
    ASSUME TypeInv, NEW k \in Conns, NEW kinds, Read(k, kinds)
    PROVE  /\ Shorter /\ Shifts(k, 1) /\ (\A j \in Conns \ {k} : wire'[j] = wire[j])
           /\ 1 \in 1 .. Len(wire[k]) /\ Head(wire[k]) = wire[k][1] /\ MsgOK(wire[k][1])
           /\ wire[k][1].kind \in kinds
<1>1. wire \in [Conns -> Seq(Message)] /\ wire[k] \in Seq(Message) /\ wire[k] # <<>>
  BY DEF TypeInv, WireType, Read
<1>2. PICK w : w = Tail(wire[k])
  OBVIOUS
<1>3. w \in Seq(Message) /\ Len(w) = Len(wire[k]) - 1 /\ \A i \in 1 .. Len(w) : w[i] = wire[k][i + 1]
  BY <1>1, <1>2, HeadTailProperties
<1>4. wire' = [wire EXCEPT ![k] = w]
  BY <1>2 DEF Read
<1>5. wire' \in [Conns -> Seq(Message)] /\ wire'[k] = w /\ \A j \in Conns \ {k} : wire'[j] = wire[j]
  BY <1>1, <1>3, <1>4
<1>6. Len(wire[k]) \in Nat /\ Len(wire[k]) >= 1
  BY <1>1, EmptySeq, LenProperties
<1>7. Shifts(k, 1)
  BY <1>3, <1>5, <1>6 DEF Shifts
<1>8. \A j \in Conns \ {k} : Shifts(j, 0)
  <2> SUFFICES ASSUME NEW j \in Conns \ {k}, NEW i \in 1 .. Len(wire'[j])
               PROVE  i + 0 \in 1 .. Len(wire[j]) /\ wire'[j][i] = wire[j][i + 0]
    BY DEF Shifts
  <2>1. i + 0 = i
    OBVIOUS
  <2> QED BY <1>5, <2>1
<1>9. 1 \in 1 .. Len(wire[k]) /\ Head(wire[k]) = wire[k][1]
  BY <1>1, <1>6
<1>10. MsgOK(wire[k][1]) /\ wire[k][1].kind \in kinds
  BY <1>9 DEF TypeInv, WireType, Read
<1> QED BY <1>5, <1>7, <1>8, <1>9, <1>10 DEF Shorter

LEMMA ShorterTypes == ASSUME TypeInv, Shorter PROVE WireType'
BY DEF TypeInv, WireType, Shorter, Shifts

-----------------------------------------------------------------------------
(* One request and one reply *)

\* A reply takes the place of its request.
LEMMA OutputReplies ==
    ASSUME TypeInv, ReplyInv, UNCHANGED call, NEW k \in Conns, NEW d, NEW ms, Outs(ms, d), OutputIs(k, ms),
           requests' \subseteq requests,
           d \in Callers => \E q \in requests \ requests' : q.by = d /\ q.conn = k
    PROVE  ReplyInv'
<1>1. RequestsOwn' /\ RequestsOne'
  BY DEF ReplyInv, RequestsOwn, RequestsOne
<1>2. ASSUME NEW j \in Conns, NEW i \in 1 .. Len(wire'[j]), wire'[j][i].by \in Callers
      PROVE  \/ i \in 1 .. Len(wire[j]) /\ wire'[j][i] = wire[j][i]
             \/ /\ j = k /\ i - Len(wire[k]) \in 1 .. Len(ms) /\ wire'[j][i].by = d
                /\ wire'[j][i] = ms[i - Len(wire[k])] /\ Len(wire[k]) \in Nat
  <2>1. CASE j # k
    BY <2>1 DEF OutputIs
  <2>2. CASE j = k
    <3>1. \/ i \in 1 .. Len(wire[j]) /\ wire'[j][i] = wire[j][i]
          \/ i - Len(wire[k]) \in 1 .. Len(ms) /\ wire'[j][i] = ms[i - Len(wire[k])] /\ Len(wire[k]) \in Nat
      BY <2>2 DEF OutputIs
    <3>2. CASE i - Len(wire[k]) \in 1 .. Len(ms) /\ wire'[j][i] = ms[i - Len(wire[k])] /\ Len(wire[k]) \in Nat
      <4>1. ms[i - Len(wire[k])].by \in {NoCaller, d}
        BY <3>2 DEF Outs
      <4> QED BY <1>2, <2>2, <3>2, <4>1, Nulls
    <3> QED BY <3>1, <3>2
  <2> QED BY <2>1, <2>2
<1>3. d \in Callers => /\ call[d].pc = "asked" /\ call[d].conn = k
                       /\ \A q \in requests' : q.by # d
  BY DEF ReplyInv, RequestsOwn, RequestsOne
<1>4. \A j \in Conns : \A i \in 1 .. Len(wire[j]) : wire[j][i].by \in Callers =>
          /\ call[wire[j][i].by].pc = "asked" /\ call[wire[j][i].by].conn = j
          /\ \A q \in requests : q.by # wire[j][i].by
  BY DEF ReplyInv, RepliesOwn
<1>5. RepliesOwn'
  <2> SUFFICES ASSUME NEW j \in Conns, NEW i \in 1 .. Len(wire'[j]), wire'[j][i].by \in Callers
               PROVE  /\ call'[wire'[j][i].by].pc = "asked" /\ call'[wire'[j][i].by].conn = j
                      /\ \A q \in requests' : q.by # wire'[j][i].by
    BY DEF RepliesOwn
  <2> QED BY <1>2, <1>3, <1>4
<1>6. RepliesOne'
  <2> SUFFICES ASSUME NEW j \in Conns, NEW i \in 1 .. Len(wire'[j]), NEW h \in 1 .. Len(wire'[j]),
                      wire'[j][i].by \in Callers, wire'[j][i].by = wire'[j][h].by
               PROVE  i = h
    BY DEF RepliesOne
  <2>1. CASE i \in 1 .. Len(wire[j]) /\ wire'[j][i] = wire[j][i] /\ h \in 1 .. Len(wire[j]) /\ wire'[j][h] = wire[j][h]
    BY <2>1 DEF ReplyInv, RepliesOne
  <2>2. d \in Callers => \A g \in 1 .. Len(wire[j]) : wire[j][g].by # d
    BY <1>4
  <2>3. CASE ~(i \in 1 .. Len(wire[j]) /\ wire'[j][i] = wire[j][i])
    <3>1. wire'[j][i].by = d /\ i - Len(wire[k]) \in 1 .. Len(ms) /\ wire'[j][i] = ms[i - Len(wire[k])]
          /\ Len(wire[k]) \in Nat
      BY <1>2, <2>3
    <3>2. d \in Callers /\ wire'[j][h].by = d
      BY <3>1
    <3>3. ~(h \in 1 .. Len(wire[j]) /\ wire'[j][h] = wire[j][h])
      BY <2>2, <3>2
    <3>4. h - Len(wire[k]) \in 1 .. Len(ms) /\ wire'[j][h] = ms[h - Len(wire[k])]
      <4>1. wire'[j][h].by \in Callers
        BY <3>2
      <4>2. \/ h \in 1 .. Len(wire[j]) /\ wire'[j][h] = wire[j][h]
            \/ h - Len(wire[k]) \in 1 .. Len(ms) /\ wire'[j][h] = ms[h - Len(wire[k])]
        BY <1>2, <4>1
      <4> QED BY <3>3, <4>2, Zenon
    <3>5. i - Len(wire[k]) = h - Len(wire[k])
      BY <3>1, <3>4 DEF Outs
    <3> QED BY <3>1, <3>5
  <2>4. CASE ~(h \in 1 .. Len(wire[j]) /\ wire'[j][h] = wire[j][h])
    <3>1. wire'[j][h].by = d /\ h - Len(wire[k]) \in 1 .. Len(ms) /\ wire'[j][h] = ms[h - Len(wire[k])]
          /\ Len(wire[k]) \in Nat
      BY <1>2, <2>4
    <3>2. d \in Callers /\ wire'[j][i].by = d
      BY <3>1
    <3>3. ~(i \in 1 .. Len(wire[j]) /\ wire'[j][i] = wire[j][i])
      BY <2>2, <3>2
    <3>4. i - Len(wire[k]) \in 1 .. Len(ms) /\ wire'[j][i] = ms[i - Len(wire[k])]
      <4>1. wire'[j][i].by \in Callers
        BY <3>2
      <4>2. \/ i \in 1 .. Len(wire[j]) /\ wire'[j][i] = wire[j][i]
            \/ i - Len(wire[k]) \in 1 .. Len(ms) /\ wire'[j][i] = ms[i - Len(wire[k])]
        BY <1>2, <4>1
      <4> QED BY <3>3, <4>2, Zenon
    <3>5. i - Len(wire[k]) = h - Len(wire[k])
      <4> DEFINE a == i - Len(wire[k])
                 b == h - Len(wire[k])
      <4>1. a \in 1 .. Len(ms) /\ b \in 1 .. Len(ms) /\ ms[a].by = d /\ ms[b].by = d
        BY <3>1, <3>2, <3>4
      <4> HIDE DEF a, b
      <4>2. a = b
        BY <3>2, <4>1 DEF Outs
      <4> QED BY <4>2 DEF a, b
    <3> QED BY <3>1, <3>5
  <2> QED BY <2>1, <2>3, <2>4
<1> QED BY <1>1, <1>5, <1>6 DEF ReplyInv

\* A step of a call that does not wait.
LEMMA StepReplies ==
    ASSUME TypeInv, ReplyInv, NEW c \in Callers, PipeStep(c), \A d \in Callers \ {c} : call'[d] = call[d]
    PROVE  ReplyInv'
<1>1. UNCHANGED wire /\ call[c].pc # "asked"
  BY DEF PipeStep
<1>2. \A q \in requests : q.by # c
  BY <1>1 DEF ReplyInv, RequestsOwn
<1>3. \A k \in Conns : \A i \in 1 .. Len(wire[k]) : wire[k][i].by # c
  BY <1>1 DEF ReplyInv, RepliesOwn
<1>4. CASE UNCHANGED requests
  BY <1>1, <1>2, <1>3, <1>4 DEF ReplyInv, RequestsOwn, RequestsOne, RepliesOwn, RepliesOne
<1>5. ASSUME NEW q \in Request, AskedFor(c, q) PROVE ReplyInv'
  <2>1. requests' = requests \cup {q} /\ q.by = c /\ call'[c].pc = "asked" /\ call'[c].conn = q.conn
    BY <1>5 DEF AskedFor
  <2>2. RequestsOwn'
    BY <1>2, <2>1 DEF ReplyInv, RequestsOwn
  <2>3. RequestsOne'
    BY <1>2, <2>1 DEF ReplyInv, RequestsOne
  <2>4. RepliesOwn'
    BY <1>1, <1>3, <2>1 DEF ReplyInv, RepliesOwn
  <2>5. RepliesOne'
    BY <1>1 DEF ReplyInv, RepliesOne
  <2> QED BY <2>2, <2>3, <2>4, <2>5 DEF ReplyInv
<1> QED BY <1>4, <1>5 DEF PipeStep

\* A message is read that is for nobody who waits, or nothing is.
LEMMA ReadReplies ==
    ASSUME TypeInv, ReplyInv, Shorter, requests' \subseteq requests,
           \A k \in Conns : \A i \in 1 .. Len(wire'[k]) :
               wire'[k][i].by \in Callers => call'[wire'[k][i].by] = call[wire'[k][i].by],
           \A q \in requests' : q.by \in Callers => call'[q.by] = call[q.by]
    PROVE  ReplyInv'
<1>1. RequestsOwn' /\ RequestsOne'
  BY DEF ReplyInv, RequestsOwn, RequestsOne
<1>2. RepliesOwn'
  <2> SUFFICES ASSUME NEW k \in Conns, NEW i \in 1 .. Len(wire'[k]), wire'[k][i].by \in Callers
               PROVE  /\ call'[wire'[k][i].by].pc = "asked" /\ call'[wire'[k][i].by].conn = k
                      /\ \A q \in requests' : q.by # wire'[k][i].by
    BY DEF RepliesOwn
  <2>1. PICK d \in {0, 1} : Shifts(k, d)
    BY DEF Shorter
  <2>2. i + d \in 1 .. Len(wire[k]) /\ wire'[k][i] = wire[k][i + d]
    BY <2>1 DEF Shifts
  <2> QED BY <2>2 DEF ReplyInv, RepliesOwn
<1>3. RepliesOne'
  <2> SUFFICES ASSUME NEW k \in Conns, NEW i \in 1 .. Len(wire'[k]), NEW h \in 1 .. Len(wire'[k]),
                      wire'[k][i].by \in Callers, wire'[k][i].by = wire'[k][h].by
               PROVE  i = h
    BY DEF RepliesOne
  <2>1. PICK d \in {0, 1} : Shifts(k, d)
    BY DEF Shorter
  <2>2. /\ i + d \in 1 .. Len(wire[k]) /\ wire'[k][i] = wire[k][i + d]
        /\ h + d \in 1 .. Len(wire[k]) /\ wire'[k][h] = wire[k][h + d]
    BY <2>1 DEF Shifts
  <2>3. i + d = h + d
    BY <2>2 DEF ReplyInv, RepliesOne
  <2> QED BY <2>3
<1> QED BY <1>1, <1>2, <1>3 DEF ReplyInv

-----------------------------------------------------------------------------
(* Approvals *)

\* Approvals that are no longer shown, and those of them that are answered.
Settles ==
    \A n \in Asks :
        /\ prompts'[n] = prompts[n] \/ prompts'[n] = NoPrompt
        /\ \A k \in Conns : \/ answers'[k][n] = answers[k][n]
                            \/ prompts[n].conn = k /\ prompts'[n] = NoPrompt /\ answers'[k][n] = answers[k][n] + 1

LEMMA CancelsSettle == ASSUME TypeInv, NEW P, Cancels(P) PROVE Settles
<1> SUFFICES ASSUME NEW n \in Asks
             PROVE  /\ prompts'[n] = prompts[n] \/ prompts'[n] = NoPrompt
                    /\ \A k \in Conns :
                          \/ answers'[k][n] = answers[k][n]
                          \/ prompts[n].conn = k /\ prompts'[n] = NoPrompt /\ answers'[k][n] = answers[k][n] + 1
  BY DEF Settles
<1>1. prompts'[n] = IF n \in P THEN NoPrompt ELSE prompts[n]
  BY DEF Cancels, Cancelled
<1>2. \A k \in Conns : answers'[k][n] = answers[k][n] + (IF n \in P /\ prompts[n].conn = k /\ Held(k) THEN 1 ELSE 0)
  BY DEF Cancels, Replied
<1>3. \A k \in Conns : answers[k][n] \in Nat
  BY DEF TypeInv, AnswerType
<1> QED BY <1>1, <1>2, <1>3

LEMMA SameSettle == ASSUME UNCHANGED <<prompts, answers>> PROVE Settles
BY DEF Settles

\* Messages that are read or given up: no question is new.
FewerAsks == \A k \in Conns : \E d \in {0, 1} : \A i \in 1 .. Len(wire'[k]) :
    /\ i + d \in 1 .. Len(wire[k])
    /\ wire'[k][i].kind = wire[k][i + d].kind /\ wire'[k][i].ask = wire[k][i + d].ask

LEMMA ShorterAsks == ASSUME Shorter PROVE FewerAsks
BY DEF Shorter, Shifts, FewerAsks

LEMMA AsksMove ==
    ASSUME TypeInv, AskInv, UNCHANGED asked, Settles, FewerAsks
    PROVE  AskInv'
<1> SUFFICES ASSUME NEW k \in Conns, NEW n \in Asks PROVE AskOK(k, n)'
  BY DEF AskInv
<1>1. AskOK(k, n)
  BY DEF AskInv
<1>2. NoPrompt.conn \notin Conns
  BY Nulls DEF NoPrompt
<1>3. /\ prompts'[n] = prompts[n] \/ prompts'[n].conn # k
      /\ \/ answers'[k][n] = answers[k][n]
         \/ prompts[n].conn = k /\ prompts'[n].conn # k /\ answers'[k][n] = answers[k][n] + 1
  BY <1>2 DEF Settles
<1>4. PICK d \in {0, 1} : \A i \in 1 .. Len(wire'[k]) :
          /\ i + d \in 1 .. Len(wire[k])
          /\ wire'[k][i].kind = wire[k][i + d].kind /\ wire'[k][i].ask = wire[k][i + d].ask
  BY DEF FewerAsks
<1>5. ASSUME NEW i \in 1 .. Len(wire'[k]), wire'[k][i].kind = "ask", wire'[k][i].ask = n
      PROVE  /\ i + d \in 1 .. Len(wire[k]) /\ Comes(k, n, i + d)
             /\ asked[k][n] # None /\ answers[k][n] = 0 /\ prompts[n].conn # k
  BY <1>1, <1>4, <1>5 DEF Comes, AskOK
<1>6. answers'[k][n] = 0 \/ answers'[k][n] = 1
  BY <1>1, <1>3 DEF AskOK
<1>7. answers'[k][n] = 1 => asked'[k][n] # None /\ prompts'[n].conn # k
  BY <1>1, <1>3 DEF AskOK
<1>8. prompts'[n].conn = k => asked'[k][n] # None
  BY <1>1, <1>3 DEF AskOK
<1>9. ASSUME NEW i \in 1 .. Len(wire'[k]), wire'[k][i].kind = "ask", wire'[k][i].ask = n
      PROVE  asked'[k][n] # None /\ answers'[k][n] = 0 /\ prompts'[n].conn # k
  BY <1>3, <1>5, <1>9
<1>10. ASSUME NEW i \in 1 .. Len(wire'[k]), wire'[k][i].kind = "ask", wire'[k][i].ask = n,
              NEW j \in 1 .. Len(wire'[k]), wire'[k][j].kind = "ask", wire'[k][j].ask = n
       PROVE  i = j
  <2>1. i + d \in 1 .. Len(wire[k]) /\ Comes(k, n, i + d) /\ j + d \in 1 .. Len(wire[k]) /\ Comes(k, n, j + d)
    BY <1>5, <1>10
  <2>2. i + d = j + d
    BY <1>1, <2>1 DEF AskOK
  <2> QED BY <2>2
<1> QED BY <1>6, <1>7, <1>8, <1>9, <1>10 DEF AskOK, Comes

\* The process writes, but asks nothing.
LEMMA AsksOutput ==
    ASSUME TypeInv, AskInv, UNCHANGED <<asked, answers, prompts>>,
           NEW k \in Conns, NEW ms, NEW d, Outs(ms, d), OutputIs(k, ms)
    PROVE  AskInv'
<1> SUFFICES ASSUME NEW j \in Conns, NEW n \in Asks PROVE AskOK(j, n)'
  BY DEF AskInv
<1>1. AskOK(j, n)
  BY DEF AskInv
<1>2. ASSUME NEW i \in 1 .. Len(wire'[j]), wire'[j][i].kind = "ask"
      PROVE  i \in 1 .. Len(wire[j]) /\ wire'[j][i] = wire[j][i]
  <2>1. CASE j # k
    BY <2>1 DEF OutputIs
  <2>2. CASE j = k
    <3>1. \/ i \in 1 .. Len(wire[j]) /\ wire'[j][i] = wire[j][i]
          \/ i - Len(wire[k]) \in 1 .. Len(ms) /\ wire'[j][i] = ms[i - Len(wire[k])]
      BY <2>2 DEF OutputIs
    <3> QED BY <1>2, <3>1 DEF Outs
  <2> QED BY <2>1, <2>2
<1>3. ASSUME NEW i \in 1 .. Len(wire'[j]), wire'[j][i].kind = "ask", wire'[j][i].ask = n
      PROVE  /\ i \in 1 .. Len(wire[j]) /\ Comes(j, n, i)
             /\ asked[j][n] # None /\ answers[j][n] = 0 /\ prompts[n].conn # j
  BY <1>1, <1>2, <1>3 DEF Comes, AskOK
<1>4. ASSUME NEW i \in 1 .. Len(wire'[j]), wire'[j][i].kind = "ask", wire'[j][i].ask = n,
             NEW h \in 1 .. Len(wire'[j]), wire'[j][h].kind = "ask", wire'[j][h].ask = n
      PROVE  i = h
  <2>1. i \in 1 .. Len(wire[j]) /\ Comes(j, n, i) /\ h \in 1 .. Len(wire[j]) /\ Comes(j, n, h)
    BY <1>3, <1>4
  <2> QED BY <1>1, <2>1 DEF AskOK
<1> QED BY <1>1, <1>3, <1>4 DEF AskOK, Comes

-----------------------------------------------------------------------------
(* Every step keeps the invariant *)

LEMMA StepInv ==
    ASSUME Inv, NEW c \in Callers, Steps(c)
    PROVE  Inv'
<1> USE DEF Inv
<1>1. TypeInv'
  BY StepTypes
<1>2. ReplyInv'
  BY PipeSteps, CallFine, StepReplies DEF OneMoves
<1>3. AskInv'
  <2>1. FewerAsks
    BY PipeSteps, SameOutput, ShorterAsks DEF PipeStep
  <2>2. UNCHANGED asked /\ Settles
    BY RestSteps, SameSettle, CancelsSettle
  <2> QED BY <2>1, <2>2, AsksMove
<1> QED BY <1>1, <1>2, <1>3

\* Steps of others that leave the calls and the output alone.
LEMMA QuietInv ==
    ASSUME Inv, TypeInv', UNCHANGED <<call, pipeVars, asked, prompts, answers>>
    PROVE  Inv'
<1> USE DEF Inv, pipeVars
<1>1. Shorter /\ FewerAsks
  BY SameOutput, ShorterAsks
<1>2. ReplyInv'
  BY <1>1, ReadReplies
<1>3. AskInv'
  BY <1>1, SameSettle, AsksMove
<1> QED BY <1>2, <1>3

LEMMA RestInv ==
    ASSUME Inv, NEW s \in Sessions, Rest(s)
    PROVE  Inv'
<1>1. TypeInv
  BY DEF Inv
<1>2. UNCHANGED <<owner, prompts, lock, call, linkVars, pipeVars, serverVars, answers>>
  BY DEF Rest
<1>3. SessType'
  <2>1. SessOK(sess[s])
    BY <1>1 DEF TypeInv, SessType
  <2>2. SessOK(Ended(sess[s])) /\ sess' = [sess EXCEPT ![s] = Ended(sess[s])]
    BY <2>1, EndedOK DEF Rest
  <2> QED BY <1>1, <2>2, SessStep
<1>4. HostType'
  BY <1>1, <1>2, FateTypes DEF Rest, HostType, TypeInv
<1>5. EventType'
  BY <1>1, CountsOK DEF Rest
<1>6. TypeInv'
  BY <1>1, <1>2, <1>3, <1>4, <1>5, Frames DEF TypeInv, pipeVars, serverVars
<1> QED BY <1>2, <1>6, QuietInv DEF serverVars

LEMMA ReapInv ==
    ASSUME Inv, ReaperLooks \/ Reap
    PROVE  Inv'
<1>1. TypeInv
  BY DEF Inv
<1>2. UNCHANGED <<hostVars, lock, call, pipeVars, serverVars, answers, events>>
  BY DEF ReaperLooks, Reap
<1>3. LinkType'
  BY <1>1 DEF ReaperLooks, Reap, TypeInv, LinkType
<1>4. TypeInv'
  BY <1>1, <1>2, <1>3, Frames DEF TypeInv, hostVars, pipeVars, serverVars
<1> QED BY <1>2, <1>4, QuietInv DEF hostVars, serverVars

\* A turn that was asked for stays so when a process or a turn ends.
LEMMA BornStays ==
    ASSUME TypeInv, Older, UNCHANGED call, requests' \subseteq requests
    PROVE  BornCalls' /\ BornRequests' /\ RequestType'
<1>1. BornCalls'
  <2> SUFFICES ASSUME NEW c \in Callers, call[c].op = "send", ~Interrupting(call[c]), call[c].turn # None
               PROVE  turn'[call[c].turn].at # "unborn"
    BY DEF BornCalls
  <2>1. call[c].turn \in Turns /\ turn[call[c].turn].at # "unborn"
    BY ThisCall DEF Calls, TypeInv, BornCalls
  <2> QED BY <2>1 DEF Older
<1>2. BornRequests'
  <2> SUFFICES ASSUME NEW q \in requests, q.for = "turn", q.turn # None PROVE turn'[q.turn].at # "unborn"
    BY DEF BornRequests
  <2>1. q.turn \in Turns /\ turn[q.turn].at # "unborn"
    BY DEF TypeInv, RequestType, Request, BornRequests
  <2> QED BY <2>1 DEF Older
<1> QED BY <1>1, <1>2 DEF TypeInv, RequestType

LEMMA OverOK ==
    ASSUME TypeInv, NEW R, \A r \in Turns : r \in R => turn[r].at # "unborn", turn' = Over(R)
    PROVE  TurnType' /\ Older
<1>1. ASSUME NEW r \in Turns
      PROVE  /\ turn'[r] \in Turn /\ turn'[r].conn = turn[r].conn
             /\ turn'[r].at = (IF r \in R THEN "over" ELSE turn[r].at)
  <2>1. turn[r] \in Turn
    BY DEF TypeInv, TurnType
  <2>2. turn'[r] = IF r \in R THEN [turn[r] EXCEPT !.at = "over"] ELSE turn[r]
    BY DEF Over
  <2> QED BY <2>1, <2>2 DEF Turn
<1>2. turn' \in [Turns -> Turn]
  BY <1>1 DEF Over
<1> QED BY <1>1, <1>2 DEF TypeInv, TurnType, Older

LEMMA DiesInv ==
    ASSUME Inv, NEW k \in Conns, Dies(k)
    PROVE  Inv'
<1>1. TypeInv
  BY DEF Inv
<1>2. UNCHANGED <<hostVars, lock, call, pipeVars, threads, loaded, asked, answers>>
  BY DEF Dies
<1>3. LinkType'
  BY <1>1 DEF Dies, TypeInv, LinkType
<1>4. TurnType' /\ Older
  <2> DEFINE R == {r \in Turns : turn[r].conn = k /\ turn[r].at # "unborn"}
  <2>1. turn' = Over(R)
    BY DEF Dies, Over
  <2>2. \A r \in Turns : r \in R => turn[r].at # "unborn"
    OBVIOUS
  <2> HIDE DEF R
  <2> QED BY <1>1, <2>1, <2>2, OverOK
<1>5. EventType'
  BY <1>1, CountsOK DEF Dies
<1>6. TypeInv'
  BY <1>1, <1>2, <1>3, <1>4, <1>5, Frames, BornStays DEF TypeInv, hostVars, pipeVars
<1> QED BY <1>2, <1>6, QuietInv DEF hostVars

\* A message or a request whose caller no longer waits.
Forget(m, c) == [m EXCEPT !.by = IF @ = c THEN NoCaller ELSE @]
LEMMA Forgotten ==
    ASSUME NEW c \in Callers, NEW m \in Message, MsgOK(m)
    PROVE  /\ MsgOK(Forget(m, c)) /\ Forget(m, c).kind = m.kind /\ Forget(m, c).ask = m.ask
           /\ Forget(m, c).by # c /\ (Forget(m, c).by \in Callers => Forget(m, c).by = m.by)
<1>1. PICK x : x = Forget(m, c)
  OBVIOUS
<1>2. PICK b \in Callers \cup {NoCaller} : b = IF m.by = c THEN NoCaller ELSE m.by
  BY DEF Message
<1>3. x = [m EXCEPT !.by = b]
  BY <1>1, <1>2 DEF Forget
<1>4. /\ x \in Message /\ x.by = b /\ x.kind = m.kind /\ x.ask = m.ask /\ x.turn = m.turn
      /\ x.thread = m.thread
  BY <1>3 DEF Message
<1>5. MsgOK(x) /\ x.by # c /\ (x.by \in Callers => x.by = m.by)
  BY <1>2, <1>4, Nulls DEF MsgOK
<1> QED BY <1>1, <1>4, <1>5

LEMMA TimesOutInv ==
    ASSUME Inv, NEW c \in Callers, TimesOut(c)
    PROVE  Inv'
<1>1. TypeInv /\ ReplyInv /\ AskInv
  BY DEF Inv
<1>2. UNCHANGED <<hostVars, lock, linkVars, serverVars, answers>>
  BY DEF TimesOut
<1>3. call'[c] = Given(call[c], Lost) /\ \A d \in Callers \ {c} : call'[d] = call[d]
  BY <1>1, ThisCall DEF TimesOut, Given
<1>4. call' = [d \in Callers |-> call'[d]]
  BY <1>1, ThisCall DEF TimesOut
<1>5. CallType' /\ BornCalls'
  <2>1. PICK M : M = [d \in Callers |-> Lost]
    OBVIOUS
  <2>2. M \in [Callers -> Message]
    BY <2>1, IdleOK
  <2>3. \A d \in Callers : \/ call'[d] = call[d]
                           \/ call[d].pc = "asked" /\ MsgOK(M[d]) /\ call'[d] = Given(call[d], M[d])
    BY <1>3, <2>1, LostOK DEF TimesOut, At
  <2> QED BY <1>1, <1>2, <1>4, <2>2, <2>3, AnswersFine DEF serverVars
<1>6. ASSUME NEW k \in Conns
      PROVE  /\ wire'[k] \in Seq(Message)
             /\ \A i \in 1 .. Len(wire'[k]) :
                   /\ i \in 1 .. Len(wire[k]) /\ MsgOK(wire'[k][i])
                   /\ wire'[k][i].kind = wire[k][i].kind /\ wire'[k][i].ask = wire[k][i].ask
                   /\ wire'[k][i].by # c /\ (wire'[k][i].by \in Callers => wire'[k][i].by = wire[k][i].by)
  <2>1. wire[k] \in Seq(Message) /\ \A i \in 1 .. Len(wire[k]) : MsgOK(wire[k][i])
    BY <1>1 DEF TypeInv, WireType
  <2>2. /\ Len(wire[k]) \in Nat /\ DOMAIN wire[k] = 1 .. Len(wire[k])
        /\ \A i \in 1 .. Len(wire[k]) : wire[k][i] \in Message
    BY <2>1, LenProperties, ElementOfSeq
  <2>3. PICK w : w = wire'[k]
    OBVIOUS
  <2>4. w = [i \in 1 .. Len(wire[k]) |-> Forget(wire[k][i], c)]
    BY <2>2, <2>3 DEF TimesOut, Forget
  <2>5. ASSUME NEW i \in 1 .. Len(wire[k])
        PROVE  /\ MsgOK(w[i]) /\ w[i].kind = wire[k][i].kind /\ w[i].ask = wire[k][i].ask
               /\ w[i].by # c /\ (w[i].by \in Callers => w[i].by = wire[k][i].by)
    <3>1. wire[k][i] \in Message /\ MsgOK(wire[k][i]) /\ w[i] = Forget(wire[k][i], c)
      BY <2>1, <2>2, <2>4
    <3> QED BY <3>1, Forgotten
  <2>6. \A i \in 1 .. Len(wire[k]) : w[i] \in Message
    BY <2>5 DEF MsgOK
  <2>7. w \in [1 .. Len(wire[k]) -> Message]
    BY <2>4, <2>6
  <2>8. w \in Seq(Message) /\ Len(w) = Len(wire[k])
    BY <2>2, <2>7, SeqDef, LenProperties
  <2> QED BY <2>3, <2>5, <2>8
<1>7. wire' \in [Conns -> Seq(Message)]
  <2>1. wire' = [k \in Conns |-> wire'[k]]
    BY DEF TimesOut
  <2> QED BY <1>6, <2>1
<1>8. WireType'
  BY <1>6, <1>7 DEF WireType
<1>9. ASSUME NEW q \in requests'
      PROVE  /\ q \in Request /\ q.by # c
             /\ \E p \in requests : q.conn = p.conn /\ q.for = p.for /\ q.turn = p.turn
                                    /\ (q.by \in Callers => q.by = p.by /\ q = p)
  <2>1. PICK p \in requests : q = [p EXCEPT !.by = IF @ = c THEN NoCaller ELSE @]
    BY DEF TimesOut
  <2>2. p \in Request
    BY <1>1 DEF TypeInv, RequestType
  <2>3. PICK b \in Callers \cup {NoCaller} : b = IF p.by = c THEN NoCaller ELSE p.by
    BY <2>2 DEF Request
  <2>4. q = [p EXCEPT !.by = b]
    BY <2>1, <2>3
  <2>5. q \in Request /\ q.by = b /\ q.conn = p.conn /\ q.for = p.for /\ q.turn = p.turn
    BY <2>2, <2>4 DEF Request
  <2>6. p.by # c => q = p
    BY <2>2, <2>3, <2>4 DEF Request
  <2> QED BY <2>3, <2>5, <2>6, Nulls
<1>10. RequestType' /\ BornRequests'
  BY <1>1, <1>2, <1>9 DEF RequestType, BornRequests, TypeInv, serverVars
<1>11. EventType'
  BY <1>1, CountsOK DEF TimesOut
<1>12. TypeInv'
  BY <1>1, <1>2, <1>5, <1>8, <1>10, <1>11, Frames DEF TypeInv, hostVars, serverVars
<1>13. ReplyInv'
  <2>1. RequestsOwn' /\ RequestsOne'
    BY <1>1, <1>3, <1>9 DEF ReplyInv, RequestsOwn, RequestsOne
  <2>2. RepliesOwn'
    <3> SUFFICES ASSUME NEW k \in Conns, NEW i \in 1 .. Len(wire'[k]), wire'[k][i].by \in Callers
                 PROVE  /\ call'[wire'[k][i].by].pc = "asked" /\ call'[wire'[k][i].by].conn = k
                        /\ \A q \in requests' : q.by # wire'[k][i].by
      BY DEF RepliesOwn
    <3>1. i \in 1 .. Len(wire[k]) /\ wire'[k][i].by # c /\ wire'[k][i].by = wire[k][i].by
      BY <1>6
    <3>2. /\ call[wire[k][i].by].pc = "asked" /\ call[wire[k][i].by].conn = k
          /\ \A q \in requests : q.by # wire[k][i].by
      BY <1>1, <3>1 DEF ReplyInv, RepliesOwn
    <3> QED BY <1>3, <1>9, <3>1, <3>2
  <2>3. RepliesOne'
    BY <1>1, <1>6 DEF ReplyInv, RepliesOne
  <2> QED BY <2>1, <2>2, <2>3 DEF ReplyInv
<1>14. AskInv'
  <2>1. FewerAsks
    <3> SUFFICES ASSUME NEW k \in Conns
                 PROVE  \A i \in 1 .. Len(wire'[k]) :
                            /\ i + 0 \in 1 .. Len(wire[k])
                            /\ wire'[k][i].kind = wire[k][i + 0].kind /\ wire'[k][i].ask = wire[k][i + 0].ask
      BY DEF FewerAsks
    <3>1. \A i \in 1 .. Len(wire'[k]) : i + 0 = i
      OBVIOUS
    <3> QED BY <1>6, <3>1
  <2> QED BY <1>1, <1>2, <2>1, SameSettle, AsksMove DEF hostVars, serverVars
<1> QED BY <1>12, <1>13, <1>14 DEF Inv

LEMMA RefusedInv ==
    ASSUME Inv, NEW c \in Callers, Refused(c)
    PROVE  Inv'
<1>1. TypeInv /\ ReplyInv /\ AskInv
  BY DEF Inv
<1>2. UNCHANGED <<hostVars, lock, linkVars, wire, serverVars, answers, events>>
  BY DEF Refused
<1>3. PICK q \in requests : /\ q.by = c /\ requests' = requests \ {q}
                            /\ call' = [call EXCEPT ![c].pc = "answered", ![c].answer = Lost]
  BY DEF Refused
<1>4. call'[c] = Given(call[c], Lost) /\ \A d \in Callers \ {c} : call'[d] = call[d]
  BY <1>1, <1>3, ThisCall DEF Given
<1>5. call' = [d \in Callers |-> call'[d]]
  BY <1>1, <1>3, ThisCall
<1>6. call[c].pc = "asked"
  BY <1>1, <1>3 DEF ReplyInv, RequestsOwn
<1>7. CallType' /\ BornCalls'
  <2>1. PICK M : M = [d \in Callers |-> Lost]
    OBVIOUS
  <2>2. M \in [Callers -> Message]
    BY <2>1, IdleOK
  <2>3. \A d \in Callers : \/ call'[d] = call[d]
                           \/ call[d].pc = "asked" /\ MsgOK(M[d]) /\ call'[d] = Given(call[d], M[d])
    BY <1>4, <1>6, <2>1, LostOK
  <2> QED BY <1>1, <1>2, <1>5, <2>2, <2>3, AnswersFine DEF serverVars
<1>8. RequestType' /\ BornRequests'
  BY <1>1, <1>2, <1>3 DEF TypeInv, RequestType, BornRequests, serverVars
<1>9. TypeInv'
  BY <1>1, <1>2, <1>7, <1>8, Frames DEF TypeInv, hostVars, serverVars
<1>10. Shorter /\ FewerAsks
  BY <1>1, <1>2, SameOutput, ShorterAsks
<1>11. ReplyInv'
  <2>1. \A p \in requests' : p.by # c
    BY <1>1, <1>3 DEF ReplyInv, RequestsOne
  <2>2. \A k \in Conns : \A i \in 1 .. Len(wire'[k]) : wire'[k][i].by # c
    BY <1>1, <1>2, <1>3 DEF ReplyInv, RepliesOwn
  <2> QED BY <1>1, <1>3, <1>4, <1>10, <2>1, <2>2, ReadReplies
<1>12. AskInv'
  BY <1>1, <1>2, <1>10, SameSettle, AsksMove DEF hostVars, serverVars
<1> QED BY <1>9, <1>11, <1>12 DEF Inv

LEMMA ReadReplyInv ==
    ASSUME Inv, NEW k \in Conns, ReadReply(k)
    PROVE  Inv'
<1>1. TypeInv /\ ReplyInv /\ AskInv
  BY DEF Inv
<1>2. UNCHANGED <<requests, hostVars, lock, linkVars, serverVars, answers, events>>
  BY DEF ReadReply
<1>3. /\ Shorter /\ Shifts(k, 1) /\ (\A j \in Conns \ {k} : wire'[j] = wire[j])
      /\ 1 \in 1 .. Len(wire[k]) /\ Head(wire[k]) = wire[k][1] /\ MsgOK(wire[k][1])
  BY <1>1, ReadStep DEF ReadReply
<1>4. PICK m \in Message : m = wire[k][1] /\ MsgOK(m)
  BY <1>3 DEF MsgOK
<1>5. call' = [c \in Callers |-> IF c = m.by THEN Given(call[c], m) ELSE call[c]]
  BY <1>3, <1>4 DEF ReadReply, Given
<1>6. m.by \in Callers => /\ call[m.by].pc = "asked" /\ call[m.by].conn = k
                          /\ \A q \in requests : q.by # m.by
  BY <1>1, <1>3, <1>4 DEF ReplyInv, RepliesOwn
<1>7. CallType' /\ BornCalls'
  <2>1. PICK M : M = [c \in Callers |-> m]
    OBVIOUS
  <2>2. M \in [Callers -> Message]
    BY <2>1
  <2>3. \A c \in Callers : \/ call'[c] = call[c]
                           \/ call[c].pc = "asked" /\ MsgOK(M[c]) /\ call'[c] = Given(call[c], M[c])
    BY <1>4, <1>5, <1>6, <2>1
  <2>4. call' = [c \in Callers |-> call'[c]]
    BY <1>5
  <2> QED BY <1>1, <1>2, <2>2, <2>3, <2>4, AnswersFine DEF serverVars
<1>8. TypeInv'
  BY <1>1, <1>2, <1>3, <1>7, ShorterTypes, Frames DEF TypeInv, hostVars, serverVars
<1>9. ReplyInv'
  <2>1. \A q \in requests' : q.by \in Callers => call'[q.by] = call[q.by]
    BY <1>2, <1>5, <1>6
  <2>2. ASSUME NEW j \in Conns, NEW i \in 1 .. Len(wire'[j]), wire'[j][i].by \in Callers
        PROVE  call'[wire'[j][i].by] = call[wire'[j][i].by]
    <3>1. wire'[j][i].by # m.by
      <4>1. CASE j = k
        <5>1. i + 1 \in 1 .. Len(wire[k]) /\ wire'[k][i] = wire[k][i + 1] /\ i + 1 # 1
          BY <1>3, <4>1 DEF Shifts
        <5> QED BY <1>1, <1>3, <1>4, <2>2, <4>1, <5>1 DEF ReplyInv, RepliesOne
      <4>2. CASE j # k
        <5>1. wire'[j] = wire[j]
          BY <1>3, <4>2
        <5>2. call[wire[j][i].by].conn = j
          BY <1>1, <2>2, <5>1 DEF ReplyInv, RepliesOwn
        <5> QED BY <1>6, <2>2, <4>2, <5>1, <5>2
      <4> QED BY <4>1, <4>2
    <3> QED BY <1>5, <2>2, <3>1
  <2> QED BY <1>1, <1>2, <1>3, <2>1, <2>2, ReadReplies
<1>10. AskInv'
  BY <1>1, <1>2, <1>3, ShorterAsks, SameSettle, AsksMove DEF hostVars, serverVars
<1> QED BY <1>8, <1>9, <1>10 DEF Inv

\* A message for nobody who waits is read.
LEMMA ReadInv ==
    ASSUME Inv, NEW k \in Conns, NEW kinds, Read(k, kinds), UNCHANGED <<requests, call>>, TypeInv', AskInv'
    PROVE  Inv'
<1>1. ReplyInv'
  BY ReadStep, ReadReplies DEF Inv
<1> QED BY <1>1 DEF Inv

LEMMA RouteOK == ASSUME TypeInv, NEW t \in {None} \cup Threads PROVE Route(t) \subseteq Sessions
BY DEF Route, Present, TypeInv, HostType

LEMMA ReadThreadInv ==
    ASSUME Inv, NEW k \in Conns, ReadThread(k)
    PROVE  Inv'
<1>1. TypeInv /\ AskInv
  BY DEF Inv
<1>2. UNCHANGED <<requests, prompts, fate, lock, call, linkVars, serverVars, answers, events>>
  BY DEF ReadThread
<1>3. Shorter /\ Head(wire[k]).thread \in Threads
  <2>1. /\ Shorter /\ Head(wire[k]) = wire[k][1] /\ MsgOK(wire[k][1])
        /\ wire[k][1].kind \in {"thread"}
    BY <1>1, ReadStep DEF ReadThread
  <2> QED BY <2>1 DEF MsgOK
<1>4. PICK t \in Threads : t = Head(wire[k]).thread
  BY <1>3
<1>5. \/ UNCHANGED <<owner, sess>>
      \/ \E s \in Sessions :
            /\ owner' = [owner EXCEPT ![t] = s]
            /\ sess' = IF sess[s].here THEN [sess EXCEPT ![s].thread = t] ELSE sess
  <2>1. Route(t) \subseteq Sessions /\ Route(None) \subseteq Sessions
    BY <1>1, RouteOK
  <2> QED BY <1>4, <2>1 DEF ReadThread
<1>6. SessType' /\ HostType'
  <2>1. CASE UNCHANGED <<owner, sess>>
    BY <1>1, <1>2, <2>1, Frames DEF TypeInv, HostType
  <2>2. ASSUME NEW s \in Sessions, owner' = [owner EXCEPT ![t] = s],
               sess' = IF sess[s].here THEN [sess EXCEPT ![s].thread = t] ELSE sess
        PROVE  SessType' /\ HostType'
    <3>1. SessOK(sess[s])
      BY <1>1 DEF TypeInv, SessType
    <3>2. SessOK([sess[s] EXCEPT !.thread = t])
      BY <3>1 DEF SessOK, Session, Running
    <3>3. sess' = sess \/ sess' = [sess EXCEPT ![s] = [sess[s] EXCEPT !.thread = t]]
      BY <2>2
    <3>4. SessType'
      BY <1>1, <3>2, <3>3, SessStep, Frames DEF TypeInv
    <3>5. HostType'
      BY <1>1, <1>2, <2>2 DEF TypeInv, HostType
    <3> QED BY <3>4, <3>5
  <2> QED BY <1>5, <2>1, <2>2
<1>7. TypeInv'
  BY <1>1, <1>2, <1>3, <1>6, ShorterTypes, Frames DEF TypeInv, serverVars
<1>8. AskInv'
  BY <1>1, <1>2, <1>3, ShorterAsks, SameSettle, AsksMove DEF serverVars
<1> QED BY <1>2, <1>7, <1>8, ReadInv DEF ReadThread

LEMMA ReadStartedInv ==
    ASSUME Inv, NEW k \in Conns, ReadStarted(k)
    PROVE  Inv'
<1>1. TypeInv /\ AskInv
  BY DEF Inv
<1>2. UNCHANGED <<requests, owner, prompts, lock, call, linkVars, serverVars, answers, events>>
  BY DEF ReadStarted
<1>3. Shorter /\ Head(wire[k]).turn \in Turns
  <2>1. /\ Shorter /\ Head(wire[k]) = wire[k][1] /\ MsgOK(wire[k][1])
        /\ wire[k][1].kind \in {"started"}
    BY <1>1, ReadStep DEF ReadStarted
  <2> QED BY <2>1 DEF MsgOK
<1>4. SessType'
  <2>1. PICK r \in Turns : r = Head(wire[k]).turn
    BY <1>3
  <2>2. \A s \in Sessions : SessOK(sess[s])
    BY <1>1 DEF TypeInv, SessType
  <2>3. \A s \in Sessions : sess'[s] = sess[s] \/ sess'[s] = [sess[s] EXCEPT !.turn = r, !.stage = "begun"]
    BY <2>1 DEF ReadStarted
  <2>4. ASSUME NEW s \in Sessions PROVE SessOK([sess[s] EXCEPT !.turn = r, !.stage = "begun"])
    BY <2>2, Nulls DEF SessOK, Session, Running
  <2>5. \A s \in Sessions : SessOK(sess'[s])
    BY <2>2, <2>3, <2>4
  <2>6. sess' = [s \in Sessions |-> sess'[s]]
    BY DEF ReadStarted
  <2> QED BY <2>5, <2>6 DEF SessType, SessOK
<1>5. HostType'
  BY <1>1, <1>2, FateTypes DEF ReadStarted, HostType, TypeInv
<1>6. TypeInv'
  BY <1>1, <1>2, <1>3, <1>4, <1>5, ShorterTypes, Frames DEF TypeInv, serverVars
<1>7. AskInv'
  BY <1>1, <1>2, <1>3, ShorterAsks, SameSettle, AsksMove DEF serverVars
<1> QED BY <1>2, <1>6, <1>7, ReadInv DEF ReadStarted

LEMMA ReadEndInv ==
    ASSUME Inv, NEW k \in Conns, ReadEnd(k)
    PROVE  Inv'
<1>1. TypeInv /\ AskInv
  BY DEF Inv
<1>2. UNCHANGED <<requests, owner, lock, call, linkVars, serverVars, events>>
  BY DEF ReadEnd
<1>3. Shorter
  BY <1>1, ReadStep DEF ReadEnd
<1>4. \E P : Cancels(P)
  BY DEF ReadEnd, Cancels
<1>5. SessType'
  <2>1. \A s \in Sessions : SessOK(sess[s])
    BY <1>1 DEF TypeInv, SessType
  <2>2. \A s \in Sessions : sess'[s] = sess[s] \/ sess'[s] = Ended(sess[s])
    BY DEF ReadEnd
  <2>3. \A s \in Sessions : SessOK(sess'[s])
    BY <2>1, <2>2, EndedOK
  <2>4. sess' = [s \in Sessions |-> sess'[s]]
    BY DEF ReadEnd
  <2> QED BY <2>3, <2>4 DEF SessType, SessOK
<1>6. HostType'
  BY <1>1, <1>2, FateTypes DEF ReadEnd, HostType, TypeInv
<1>7. PromptType' /\ AnswerType' /\ Settles
  BY <1>1, <1>4, CancelTypes, CancelsSettle
<1>8. TypeInv'
  BY <1>1, <1>2, <1>3, <1>5, <1>6, <1>7, ShorterTypes, Frames DEF TypeInv, serverVars
<1>9. AskInv'
  BY <1>1, <1>2, <1>3, <1>7, ShorterAsks, AsksMove DEF serverVars
<1> QED BY <1>2, <1>8, <1>9, ReadInv DEF ReadEnd

\* One more answer for an approval.
LEMMA AnswerStep ==
    ASSUME TypeInv, NEW k \in Conns, NEW n \in Asks, answers' = [answers EXCEPT ![k][n] = @ + 1]
    PROVE  /\ AnswerType' /\ answers'[k][n] = answers[k][n] + 1
           /\ \A j \in Conns, i \in Asks : j # k \/ i # n => answers'[j][i] = answers[j][i]
<1>1. answers[k] \in [Asks -> Nat] /\ answers[k][n] \in Nat /\ answers \in [Conns -> [Asks -> Nat]]
  BY DEF TypeInv, AnswerType
<1>2. PICK a : a = [answers[k] EXCEPT ![n] = answers[k][n] + 1]
  OBVIOUS
<1>3. a \in [Asks -> Nat] /\ a[n] = answers[k][n] + 1 /\ \A i \in Asks : i # n => a[i] = answers[k][i]
  BY <1>1, <1>2
<1>4. answers' = [answers EXCEPT ![k] = a]
  BY <1>2
<1> QED BY <1>1, <1>3, <1>4 DEF AnswerType

LEMMA ResolveInv ==
    ASSUME Inv, NEW n \in Asks, ResolvePermission(n)
    PROVE  Inv'
<1>1. TypeInv /\ ReplyInv /\ AskInv
  BY DEF Inv
<1>2. UNCHANGED <<sess, owner, fate, lock, call, linkVars, pipeVars, serverVars, events>>
  BY DEF ResolvePermission
<1>3. prompts' = [prompts EXCEPT ![n] = NoPrompt] /\ prompts \in [Asks -> Prompt]
  BY <1>1 DEF ResolvePermission, TypeInv, PromptType
<1>4. PromptType'
  BY <1>3 DEF PromptType, Prompt, NoPrompt
<1>5. PICK k \in {None} \cup Conns : k = prompts[n].conn
  BY <1>3 DEF Prompt
<1>6. UNCHANGED answers \/ answers' = [answers EXCEPT ![k][n] = @ + 1]
  BY <1>5 DEF ResolvePermission
<1>7. k \notin Conns => UNCHANGED answers
  BY <1>1, <1>6 DEF TypeInv, AnswerType
<1>8. AnswerType'
  BY <1>1, <1>6, <1>7, AnswerStep, Frames
<1>9. Settles
  <2>1. \A i \in Asks : prompts'[i] = prompts[i] \/ prompts'[i] = NoPrompt
    BY <1>3
  <2>2. prompts'[n] = NoPrompt
    BY <1>3
  <2>3. \A i \in Asks : \A j \in Conns :
            answers'[j][i] = answers[j][i] \/ (i = n /\ j = k /\ answers'[j][i] = answers[j][i] + 1)
    BY <1>1, <1>6, <1>7, AnswerStep
  <2> QED BY <1>5, <2>1, <2>2, <2>3 DEF Settles
<1>10. Shorter /\ FewerAsks
  BY <1>1, <1>2, SameOutput, ShorterAsks DEF pipeVars
<1>11. TypeInv'
  BY <1>1, <1>2, <1>4, <1>8, Frames DEF TypeInv, pipeVars, serverVars
<1>12. ReplyInv'
  BY <1>1, <1>2, <1>10, ReadReplies DEF pipeVars
<1>13. AskInv'
  BY <1>1, <1>2, <1>9, <1>10, AsksMove DEF serverVars
<1> QED BY <1>11, <1>12, <1>13 DEF Inv

LEMMA ReadAskInv ==
    ASSUME Inv, NEW k \in Conns, ReadAsk(k)
    PROVE  Inv'
<1>1. TypeInv /\ AskInv
  BY DEF Inv
<1>2. UNCHANGED <<requests, sess, owner, fate, lock, call, linkVars, serverVars, events>>
  BY DEF ReadAsk
<1>3. /\ Shorter /\ Shifts(k, 1) /\ (\A j \in Conns \ {k} : wire'[j] = wire[j])
      /\ 1 \in 1 .. Len(wire[k]) /\ Head(wire[k]) = wire[k][1] /\ MsgOK(wire[k][1]) /\ wire[k][1].kind = "ask"
  BY <1>1, ReadStep DEF ReadAsk
<1>4. PICK n \in Asks : n = wire[k][1].ask
  BY <1>3 DEF MsgOK
<1>5. wire[k][1].thread \in {None} \cup Threads
  BY <1>3 DEF MsgOK, Message
<1>6. \/ UNCHANGED prompts /\ (UNCHANGED answers \/ answers' = [answers EXCEPT ![k][n] = @ + 1])
      \/ UNCHANGED answers /\ \E s \in Sessions : prompts' = [prompts EXCEPT ![n] = [s |-> s, conn |-> k]]
  BY <1>1, <1>3, <1>4, <1>5, RouteOK DEF ReadAsk
<1>7. PromptType' /\ AnswerType'
  <2>1. AnswerType'
    BY <1>1, <1>6, AnswerStep, Frames
  <2>2. \A s \in Sessions : [s |-> s, conn |-> k] \in Prompt
    BY DEF Prompt
  <2>3. PromptType'
    BY <1>1, <1>6, <2>2, Frames DEF TypeInv, PromptType
  <2> QED BY <2>1, <2>3
<1>8. TypeInv'
  BY <1>1, <1>2, <1>3, <1>7, ShorterTypes, Frames DEF TypeInv, serverVars
<1>9. /\ asked[k][n] # None /\ answers[k][n] = 0 /\ prompts[n].conn # k
      /\ \A i \in 1 .. Len(wire[k]) : Comes(k, n, i) => i = 1
  <2>1. Comes(k, n, 1)
    BY <1>3, <1>4 DEF Comes
  <2> QED BY <1>1, <1>3, <2>1 DEF AskInv, AskOK
<1>10. AskInv'
  <2> SUFFICES ASSUME NEW j \in Conns, NEW i \in Asks PROVE AskOK(j, i)'
    BY DEF AskInv
  <2>1. AskOK(j, i) /\ UNCHANGED asked
    BY <1>1, <1>2 DEF AskInv, serverVars
  <2>2. PICK d \in {0, 1} : Shifts(j, d) /\ (j = k => d = 1)
    BY <1>3 DEF Shorter
  <2>3. ASSUME NEW h \in 1 .. Len(wire'[j]), wire'[j][h].kind = "ask", wire'[j][h].ask = i
        PROVE  /\ h + d \in 1 .. Len(wire[j]) /\ Comes(j, i, h + d)
               /\ asked[j][i] # None /\ answers[j][i] = 0 /\ prompts[i].conn # j
    BY <2>1, <2>2, <2>3 DEF Comes, AskOK, Shifts
  <2>4. ASSUME NEW h \in 1 .. Len(wire'[j]), wire'[j][h].kind = "ask", wire'[j][h].ask = i,
               NEW g \in 1 .. Len(wire'[j]), wire'[j][g].kind = "ask", wire'[j][g].ask = i
        PROVE  h = g
    <3>1. h + d \in 1 .. Len(wire[j]) /\ Comes(j, i, h + d) /\ g + d \in 1 .. Len(wire[j]) /\ Comes(j, i, g + d)
      BY <2>3, <2>4
    <3>2. h + d = g + d
      BY <2>1, <3>1 DEF AskOK
    <3> QED BY <3>2
  <2>5. CASE j = k /\ i = n
    <3>1. \A h \in 1 .. Len(wire'[j]) : ~(wire'[j][h].kind = "ask" /\ wire'[j][h].ask = i)
      <4> SUFFICES ASSUME NEW h \in 1 .. Len(wire'[j]), wire'[j][h].kind = "ask", wire'[j][h].ask = i
                   PROVE  FALSE
        OBVIOUS
      <4>1. h + 1 \in 1 .. Len(wire[k]) /\ Comes(k, n, h + 1)
        BY <2>2, <2>3, <2>5
      <4>2. h + 1 = 1
        BY <1>9, <4>1
      <4> QED BY <4>2
    <3>2. /\ answers'[k][n] = 0 \/ answers'[k][n] = 1
          /\ answers'[k][n] = 1 => prompts'[n].conn # k
      <4>1. CASE UNCHANGED prompts /\ (UNCHANGED answers \/ answers' = [answers EXCEPT ![k][n] = @ + 1])
        BY <1>1, <1>9, <4>1, AnswerStep
      <4>2. CASE UNCHANGED answers
        BY <1>9, <4>2
      <4> QED BY <1>6, <4>1, <4>2
    <3> QED BY <1>9, <2>1, <2>5, <3>1, <3>2 DEF AskOK, Comes
  <2>6. CASE ~(j = k /\ i = n)
    <3>1. answers'[j][i] = answers[j][i]
      BY <1>1, <1>6, <2>6, AnswerStep
    <3>2. prompts'[i].conn = prompts[i].conn \/ prompts'[i].conn # j
      BY <1>1, <1>6, <2>6 DEF TypeInv, PromptType
    <3> QED BY <2>1, <2>3, <2>4, <3>1, <3>2 DEF AskOK, Comes
  <2> QED BY <2>5, <2>6
<1> QED BY <1>2, <1>8, <1>10, ReadInv DEF ReadAsk

LEMMA ReaderEndsInv ==
    ASSUME Inv, NEW k \in Conns, ReaderEnds(k)
    PROVE  Inv'
<1>1. TypeInv /\ ReplyInv /\ AskInv
  BY DEF Inv
<1>2. UNCHANGED <<sess, owner, fate, lock, reaping, conns, live, wire, serverVars, answers, events>>
  BY DEF ReaderEnds
<1>3. call' = [c \in Callers |-> IF call[c].pc = "asked" /\ call[c].conn = k THEN Given(call[c], Lost) ELSE call[c]]
  BY DEF ReaderEnds, Given
<1>4. CallType' /\ BornCalls'
  <2>1. PICK M : M = [c \in Callers |-> Lost]
    OBVIOUS
  <2>2. M \in [Callers -> Message]
    BY <2>1, IdleOK
  <2>3. \A c \in Callers : \/ call'[c] = call[c]
                           \/ call[c].pc = "asked" /\ MsgOK(M[c]) /\ call'[c] = Given(call[c], M[c])
    BY <1>3, <2>1, LostOK
  <2>4. call' = [c \in Callers |-> call'[c]]
    BY <1>3
  <2> QED BY <1>1, <1>2, <2>2, <2>3, <2>4, AnswersFine DEF serverVars
<1>5. /\ requests' \subseteq requests /\ \A q \in requests' : q.conn # k
      /\ wire[k] = <<>>
  BY DEF ReaderEnds
<1>6. RequestType' /\ BornRequests'
  BY <1>1, <1>2, <1>5 DEF TypeInv, RequestType, BornRequests, serverVars
<1>7. PromptType' /\ Settles
  <2>1. \A n \in Asks : prompts'[n] = prompts[n] \/ prompts'[n] = NoPrompt
    BY DEF ReaderEnds
  <2>2. prompts' = [n \in Asks |-> prompts'[n]]
    BY DEF ReaderEnds
  <2>3. PromptType'
    BY <1>1, <2>1, <2>2 DEF TypeInv, PromptType, Prompt, NoPrompt
  <2> QED BY <1>2, <2>1, <2>3 DEF Settles
<1>8. LinkType'
  BY <1>1 DEF ReaderEnds, TypeInv, LinkType
<1>9. TypeInv'
  BY <1>1, <1>2, <1>4, <1>6, <1>7, <1>8, Frames DEF TypeInv, serverVars
<1>10. Shorter /\ FewerAsks
  BY <1>1, <1>2, SameOutput, ShorterAsks
<1>11. ReplyInv'
  <2>1. \A q \in requests' : q.by \in Callers => call'[q.by] = call[q.by]
    BY <1>1, <1>3, <1>5 DEF ReplyInv, RequestsOwn
  <2>2. ASSUME NEW j \in Conns, NEW i \in 1 .. Len(wire'[j]), wire'[j][i].by \in Callers
        PROVE  call'[wire'[j][i].by] = call[wire'[j][i].by]
    <3>1. wire'[j] = wire[j] /\ j # k
      BY <1>2, <1>5, <2>2
    <3>2. call[wire[j][i].by].conn = j
      BY <1>1, <2>2, <3>1 DEF ReplyInv, RepliesOwn
    <3> QED BY <1>3, <2>2, <3>1, <3>2
  <2> QED BY <1>1, <1>5, <1>10, <2>1, <2>2, ReadReplies
<1>12. AskInv'
  BY <1>1, <1>2, <1>7, <1>10, AsksMove DEF serverVars
<1> QED BY <1>9, <1>11, <1>12 DEF Inv

\* The app-server writes: about turns, or the answer to a request it took.
LEMMA WriteInv ==
    ASSUME Inv, NEW k \in Conns, NEW d, NEW ms, Outs(ms, d), Output(k, ms), requests' \subseteq requests,
           d \in Callers => \E q \in requests \ requests' : q.by = d /\ q.conn = k,
           UNCHANGED <<hostVars, lock, call, linkVars, asked, answers>>,
           ServerType', TurnType', Older, EventType'
    PROVE  Inv'
<1>1. TypeInv /\ ReplyInv /\ AskInv
  BY DEF Inv
<1>2. ms \in Seq(Message) /\ \A i \in 1 .. Len(ms) : MsgOK(ms[i])
  BY DEF Outs
<1>3. OutputIs(k, ms)
  BY <1>1, <1>2, OutputStep
<1>4. WireType'
  BY <1>1, <1>2, <1>3, OutputTypes
<1>5. TypeInv'
  BY <1>1, <1>4, BornStays, Frames DEF TypeInv, hostVars
<1>6. ReplyInv'
  BY <1>1, <1>3, OutputReplies
<1>7. AskInv'
  BY <1>1, <1>3, AsksOutput DEF hostVars
<1> QED BY <1>5, <1>6, <1>7 DEF Inv

LEMMA ReplyOK ==
    ASSUME NEW q \in Request, NEW kind \in Replies, NEW r \in {None} \cup Turns, NEW t \in {None} \cup Threads,
           kind = "found" => r \in Turns
    PROVE  /\ MsgOK(Reply(q, kind, r, t)) /\ Reply(q, kind, r, t).kind # "ask"
           /\ Reply(q, kind, r, t).by = q.by
<1>1. PICK m : m = Reply(q, kind, r, t)
  OBVIOUS
<1>2. m = [kind |-> kind, by |-> q.by, turn |-> r, thread |-> t, ask |-> None]
  BY <1>1 DEF Reply
<1>3. m \in Message /\ m.kind = kind /\ m.by = q.by /\ m.turn = r
  BY <1>2 DEF Message, Request, Replies
<1> QED BY <1>1, <1>3 DEF MsgOK, Replies

LEMMA SaysOK ==
    ASSUME NEW kind \in {"started", "completed", "failed"}, NEW r \in Turns, NEW t \in {None} \cup Threads
    PROVE  /\ MsgOK(Says(kind, r, t)) /\ Says(kind, r, t).kind # "ask"
           /\ Says(kind, r, t).by = NoCaller
<1>1. PICK m : m = Says(kind, r, t)
  OBVIOUS
<1>2. m = [kind |-> kind, by |-> NoCaller, turn |-> r, thread |-> t, ask |-> None]
  BY <1>1 DEF Says
<1>3. m \in Message /\ m.kind = kind /\ m.by = NoCaller /\ m.turn = r
  BY <1>2 DEF Message
<1> QED BY <1>1, <1>3 DEF MsgOK

LEMMA NewsOK ==
    ASSUME NEW t \in Threads
    PROVE  /\ MsgOK(Says("thread", None, t)) /\ Says("thread", None, t).kind # "ask"
           /\ Says("thread", None, t).by = NoCaller /\ Says("thread", None, t).turn = None
<1>1. PICK m : m = Says("thread", None, t)
  OBVIOUS
<1>2. m = [kind |-> "thread", by |-> NoCaller, turn |-> None, thread |-> t, ask |-> None]
  BY <1>1 DEF Says
<1>3. m \in Message /\ m.kind = "thread" /\ m.by = NoCaller /\ m.turn = None /\ m.thread = t
  BY <1>2 DEF Message
<1> QED BY <1>1, <1>3 DEF MsgOK

LEMMA OneOut ==
    ASSUME NEW d, NEW m, MsgOK(m), m.kind # "ask", m.by \in {NoCaller, d}
    PROVE  Outs(<<m>>, d)
<1>1. m \in Message
  BY DEF MsgOK
<1>2. <<m>> \in Seq(Message) /\ Len(<<m>>) = 1 /\ <<m>>[1] = m
  BY <1>1
<1>3. \A i \in 1 .. 1 : i = 1
  OBVIOUS
<1> QED BY <1>2, <1>3 DEF Outs

LEMMA TwoOut ==
    ASSUME NEW d, NEW a, MsgOK(a), a.kind # "ask", a.by \in {NoCaller, d},
           NEW b, MsgOK(b), b.kind # "ask", b.by \in {NoCaller, d}, a.by = NoCaller \/ b.by = NoCaller
    PROVE  Outs(<<a, b>>, d)
<1>1. a \in Message /\ b \in Message
  BY DEF MsgOK
<1>2. PICK ms : ms = <<a, b>>
  OBVIOUS
<1>3. ms \in Seq(Message) /\ Len(ms) = 2 /\ ms[1] = a /\ ms[2] = b
  BY <1>1, <1>2
<1>4. \A i \in 1 .. 2 : i = 1 \/ i = 2
  OBVIOUS
<1>5. \A i \in 1 .. Len(ms) : MsgOK(ms[i]) /\ ms[i].kind # "ask" /\ ms[i].by \in {NoCaller, d}
  BY <1>3, <1>4
<1>6. \A i, j \in 1 .. Len(ms) : ms[i].by \in Callers /\ ms[j].by \in Callers => i = j
  BY <1>3, <1>4, Nulls
<1> QED BY <1>2, <1>3, <1>5, <1>6 DEF Outs

\* A thread that is announced, or not.
LEMMA AnnouncedOut ==
    ASSUME NEW m, MsgOK(m), m.kind # "ask", NEW t \in Threads, NEW ms \in Announced(m, t)
    PROVE  Outs(ms, m.by)
<1>1. PICK n : n = Says("thread", None, t) /\ MsgOK(n) /\ n.kind # "ask" /\ n.by = NoCaller
  BY NewsOK
<1>2. ms = <<m>> \/ ms = <<m, n>> \/ ms = <<n, m>>
  BY <1>1 DEF Announced
<1> QED BY <1>1, <1>2, OneOut, TwoOut

\* Turns that end, then the reply.
LEMMA EndsOut ==
    ASSUME NEW R \in SUBSET Turns, NEW ends \in [1 .. Cardinality(R) -> R], NEW t \in {None} \cup Threads,
           NEW m, MsgOK(m), m.kind # "ask"
    PROVE  Outs([i \in DOMAIN ends |-> Says("completed", ends[i], t)] \o <<m>>, m.by)
<1>1. Cardinality(R) \in Nat
  <2>1. IsFiniteSet(Turns)
    BY BoundAssumption, FS_Interval DEF Turns
  <2> QED BY <2>1, FS_Subset, FS_CardinalityType
<1>2. PICK n \in Nat : n = Cardinality(R)
  BY <1>1
<1>3. PICK es : es = [i \in DOMAIN ends |-> Says("completed", ends[i], t)]
  OBVIOUS
<1>4. es = [i \in 1 .. n |-> Says("completed", ends[i], t)]
  BY <1>2, <1>3
<1>5. \A i \in 1 .. n : MsgOK(es[i]) /\ es[i].kind # "ask" /\ es[i].by = NoCaller
  BY <1>2, <1>4, SaysOK
<1>6. es \in [1 .. n -> Message]
  <2>1. \A i \in 1 .. n : es[i] \in Message
    BY <1>5 DEF MsgOK
  <2> QED BY <1>4, <2>1
<1>7. es \in Seq(Message) /\ Len(es) = n
  BY <1>6, SeqDef, LenProperties
<1>8. PICK u, ms : u = <<m>> /\ ms = es \o u
  OBVIOUS
<1>9. u \in Seq(Message) /\ Len(u) = 1 /\ u[1] = m
  BY <1>8 DEF MsgOK
<1>10. /\ ms \in Seq(Message) /\ Len(ms) = n + 1
       /\ \A i \in 1 .. n + 1 : ms[i] = IF i <= n THEN es[i] ELSE u[i - n]
  BY <1>7, <1>8, <1>9, ConcatProperties
<1>11. ASSUME NEW i \in 1 .. n + 1 PROVE (i \in 1 .. n /\ ms[i] = es[i]) \/ (i = n + 1 /\ ms[i] = m)
  <2>1. ms[i] = IF i <= n THEN es[i] ELSE u[i - n]
    BY <1>10
  <2>2. CASE i <= n
    BY <2>1, <2>2
  <2>3. CASE ~(i <= n)
    <3>1. i = n + 1 /\ i - n = 1
      BY <2>3
    <3>2. ms[i] = u[1]
      BY <2>1, <2>3, <3>1
    <3> QED BY <1>9, <3>1, <3>2
  <2> QED BY <2>2, <2>3
<1>12. \A i \in 1 .. Len(ms) : MsgOK(ms[i]) /\ ms[i].kind # "ask" /\ ms[i].by \in {NoCaller, m.by}
  BY <1>5, <1>10, <1>11
<1>13. \A i, j \in 1 .. Len(ms) : ms[i].by \in Callers /\ ms[j].by \in Callers => i = j
  BY <1>5, <1>10, <1>11, Nulls
<1>14. Outs(ms, m.by)
  BY <1>10, <1>12, <1>13 DEF Outs
<1> QED BY <1>3, <1>8, <1>14

LEMMA ThisRequest ==
    ASSUME TypeInv, NEW q \in requests
    PROVE  /\ q \in Request /\ q.conn \in Conns /\ q.by \in Callers \cup {NoCaller}
           /\ q.turn \in {None} \cup Turns /\ q.thread \in {None} \cup Threads
           /\ q.for = "turn" /\ q.turn # None => turn[q.turn].at # "unborn"
BY DEF TypeInv, RequestType, Request, BornRequests

LEMMA ServeThreadInv ==
    ASSUME Inv, NEW q \in requests, ServeThread(q)
    PROVE  Inv'
<1>1. TypeInv
  BY DEF Inv
<1>2. /\ requests' \subseteq requests /\ q \in requests \ requests'
      /\ UNCHANGED <<turn, asked, hostVars, lock, call, linkVars, answers>>
  BY DEF ServeThread, Serve
<1>3. q \in Request /\ q.conn \in Conns
  BY <1>1, ThisRequest
<1>4. threads \in Nat /\ loaded \in [Conns -> SUBSET Threads] /\ MaxThreads \in Nat /\ threads \in 0 .. MaxThreads
  BY <1>1, BoundAssumption DEF TypeInv, ServerType
<1>5. TurnType' /\ Older
  BY <1>1, <1>2, Frames DEF Older
<1>6. EventType'
  BY <1>1, CountsOK DEF ServeThread
<1>7. CASE threads < MaxThreads /\ threads' = threads + 1
           /\ loaded' = [loaded EXCEPT ![q.conn] = @ \cup {threads + 1}]
           /\ \E said \in Announced(Reply(q, "ok", None, threads + 1), threads + 1) : Output(q.conn, said)
  <2>1. threads + 1 \in Threads /\ threads + 1 \in 0 .. MaxThreads
    BY <1>4, <1>7 DEF Threads
  <2>2. ServerType'
    BY <1>1, <1>2, <1>4, <1>7, <2>1 DEF TypeInv, ServerType
  <2>3. PICK said : Output(q.conn, said) /\ Outs(said, q.by)
    <3>1. MsgOK(Reply(q, "ok", None, threads + 1)) /\ Reply(q, "ok", None, threads + 1).kind # "ask"
          /\ Reply(q, "ok", None, threads + 1).by = q.by
      BY <1>3, <2>1, ReplyOK DEF Replies
    <3>2. PICK said \in Announced(Reply(q, "ok", None, threads + 1), threads + 1) : Output(q.conn, said)
      BY <1>7
    <3> QED BY <2>1, <3>1, <3>2, AnnouncedOut
  <2> QED BY <1>2, <1>3, <1>5, <1>6, <1>7, <2>2, <2>3, WriteInv
<1>8. CASE Output(q.conn, <<Reply(q, "error", None, None)>>) /\ UNCHANGED <<threads, loaded>>
  <2>1. ServerType'
    BY <1>1, <1>2, <1>8, Frames
  <2>2. Outs(<<Reply(q, "error", None, None)>>, q.by)
    BY <1>3, ReplyOK, OneOut DEF Replies
  <2> QED BY <1>2, <1>3, <1>5, <1>6, <1>8, <2>1, <2>2, WriteInv
<1> QED BY <1>7, <1>8 DEF ServeThread

LEMMA ServeResumeInv ==
    ASSUME Inv, NEW q \in requests, ServeResume(q)
    PROVE  Inv'
<1>1. TypeInv
  BY DEF Inv
<1>2. /\ requests' \subseteq requests /\ q \in requests \ requests'
      /\ UNCHANGED <<turn, threads, asked, hostVars, lock, call, linkVars, answers>>
  BY DEF ServeResume, Serve
<1>3. q \in Request /\ q.conn \in Conns
  BY <1>1, ThisRequest
<1>4. PICK kind \in {"ok", "missing", "error"} :
          /\ kind = "ok" => q.thread \in 1 .. threads
          /\ \/ Output(q.conn, <<Reply(q, kind, None, None)>>)
             \/ kind = "ok" /\ \E said \in Announced(Reply(q, kind, None, None), q.thread) : Output(q.conn, said)
          /\ loaded' = IF kind = "ok" THEN [loaded EXCEPT ![q.conn] = @ \cup {q.thread}] ELSE loaded
          /\ Counts(kind # "ok")
  BY DEF ServeResume
<1>5. kind = "ok" => q.thread \in Threads
  BY <1>1, <1>4, BoundAssumption DEF TypeInv, ServerType, Threads
<1>6. PICK said : Output(q.conn, said) /\ Outs(said, q.by)
  <2>1. PICK m : m = Reply(q, kind, None, None)
    OBVIOUS
  <2>2. MsgOK(m) /\ m.kind # "ask" /\ m.by = q.by
    BY <1>3, <2>1, ReplyOK DEF Replies
  <2>3. Outs(<<m>>, q.by)
    BY <2>2, OneOut
  <2>4. ASSUME kind = "ok", NEW said \in Announced(m, q.thread) PROVE Outs(said, q.by)
    BY <1>5, <2>2, <2>4, AnnouncedOut
  <2> QED BY <1>4, <2>1, <2>3, <2>4
<1>7. TurnType' /\ Older
  BY <1>1, <1>2, Frames DEF Older
<1>8. EventType'
  BY <1>1, <1>4, CountsOK
<1>9. ServerType'
  <2>1. loaded' \in [Conns -> SUBSET Threads]
    BY <1>1, <1>4, <1>5 DEF TypeInv, ServerType
  <2> QED BY <1>1, <1>2, <2>1 DEF TypeInv, ServerType
<1> QED BY <1>2, <1>3, <1>4, <1>6, <1>7, <1>8, <1>9, WriteInv

LEMMA ServeTurnInv ==
    ASSUME Inv, NEW q \in requests, ServeTurn(q)
    PROVE  Inv'
<1>1. TypeInv
  BY DEF Inv
<1>2. /\ requests' \subseteq requests /\ q \in requests \ requests' /\ q.for = "turn"
      /\ UNCHANGED <<threads, loaded, asked, hostVars, lock, call, linkVars, answers>>
  BY DEF ServeTurn, Serve
<1>3. /\ q \in Request /\ q.conn \in Conns /\ q.turn \in {None} \cup Turns /\ q.thread \in {None} \cup Threads
      /\ q.turn # None => turn[q.turn].at # "unborn"
  BY <1>1, <1>2, ThisRequest
<1>4. ServerType'
  BY <1>1, <1>2, Frames
<1>5. EventType'
  BY <1>1, CountsOK DEF ServeTurn
<1>6. PICK before \in SUBSET Turns : before = BusyOn(q.conn, q.thread)
  BY DEF BusyOn
<1>7. CASE turn' = [Over(before) EXCEPT ![q.turn].at = "accepted"]
           /\ \E ends \in [1 .. Cardinality(before) -> before] :
                  Output(q.conn, [i \in DOMAIN ends |-> Says("completed", ends[i], q.thread)]
                                   \o <<Reply(q, "ok", q.turn, None)>>)
  <2>1. TurnType' /\ Older
    <3>1. \A r \in Turns : r \in before => turn[r].at # "unborn"
      BY <1>6 DEF BusyOn
    <3>2. PICK T : T = Over(before)
      OBVIOUS
    <3>3. ASSUME NEW r \in Turns
          PROVE  /\ T[r] \in Turn /\ T[r].conn = turn[r].conn
                 /\ T[r].at = (IF r \in before THEN "over" ELSE turn[r].at)
      <4>1. turn[r] \in Turn
        BY <1>1 DEF TypeInv, TurnType
      <4>2. T[r] = IF r \in before THEN [turn[r] EXCEPT !.at = "over"] ELSE turn[r]
        BY <3>2 DEF Over
      <4> QED BY <4>1, <4>2 DEF Turn
    <3>4. T = [r \in Turns |-> T[r]]
      BY <3>2 DEF Over
    <3>5. CASE q.turn = None
      <4>1. \A r \in Turns : turn'[r] = T[r]
        BY <1>7, <3>2, <3>4, <3>5, Nulls
      <4>2. turn' = [r \in Turns |-> turn'[r]]
        BY <1>7, <3>2, <3>4
      <4>3. turn' \in [Turns -> Turn]
        BY <3>3, <4>1, <4>2
      <4> QED BY <1>1, <3>1, <3>3, <4>1, <4>3 DEF TypeInv, TurnType, Older
    <3>6. CASE q.turn # None
      <4>1. PICK g \in Turns : g = q.turn /\ turn[g].at # "unborn"
        BY <1>3, <3>6
      <4>2. PICK y : y = [T[g] EXCEPT !.at = "accepted"]
        OBVIOUS
      <4>3. y \in Turn /\ y.at = "accepted" /\ y.conn = turn[g].conn
        BY <3>3, <4>2 DEF Turn
      <4>4. turn' = [T EXCEPT ![g] = y]
        BY <1>7, <3>2, <4>1, <4>2
      <4>5. turn'[g] = y /\ \A r \in Turns \ {g} : turn'[r] = T[r]
        BY <3>4, <4>4
      <4>6. turn' \in [Turns -> Turn]
        BY <3>3, <3>4, <4>3, <4>4
      <4>7. \A r \in Turns : turn'[r].conn = turn[r].conn /\ (turn'[r].at # "unborn" <=> turn[r].at # "unborn")
        BY <3>1, <3>3, <4>1, <4>3, <4>5
      <4> QED BY <1>1, <4>6, <4>7 DEF TypeInv, TurnType, Older
    <3> QED BY <3>5, <3>6
  <2>2. PICK ends \in [1 .. Cardinality(before) -> before] :
            Output(q.conn, [i \in DOMAIN ends |-> Says("completed", ends[i], q.thread)]
                             \o <<Reply(q, "ok", q.turn, None)>>)
    BY <1>7
  <2>3. PICK m : m = Reply(q, "ok", q.turn, None)
    OBVIOUS
  <2>4. MsgOK(m) /\ m.kind # "ask" /\ m.by = q.by
    BY <1>3, <2>3, ReplyOK DEF Replies
  <2>5. PICK ms : ms = [i \in DOMAIN ends |-> Says("completed", ends[i], q.thread)] \o <<m>>
    OBVIOUS
  <2>6. Outs(ms, q.by) /\ Output(q.conn, ms)
    BY <1>3, <2>2, <2>3, <2>4, <2>5, EndsOut
  <2> QED BY <1>2, <1>3, <1>4, <1>5, <2>1, <2>6, WriteInv
<1>8. CASE turn' = Over({q.turn}) /\ Output(q.conn, <<Reply(q, "error", None, None)>>)
  <2>1. \A r \in Turns : r \in {q.turn} => turn[r].at # "unborn"
    BY <1>3, Nulls
  <2>2. TurnType' /\ Older
    BY <1>1, <1>8, <2>1, OverOK
  <2>3. Outs(<<Reply(q, "error", None, None)>>, q.by)
    BY <1>3, ReplyOK, OneOut DEF Replies
  <2> QED BY <1>2, <1>3, <1>4, <1>5, <1>8, <2>2, <2>3, WriteInv
<1>9. CASE UNCHANGED turn /\ Output(q.conn, <<Reply(q, "missing", None, None)>>)
  <2>1. TurnType' /\ Older
    BY <1>1, <1>9, Frames DEF Older
  <2>2. Outs(<<Reply(q, "missing", None, None)>>, q.by)
    BY <1>3, ReplyOK, OneOut DEF Replies
  <2> QED BY <1>2, <1>3, <1>4, <1>5, <1>9, <2>1, <2>2, WriteInv
<1> QED BY <1>6, <1>7, <1>8, <1>9 DEF ServeTurn

LEMMA ServeInterruptInv ==
    ASSUME Inv, NEW q \in requests, ServeInterrupt(q)
    PROVE  Inv'
<1>1. TypeInv
  BY DEF Inv
<1>2. /\ requests' \subseteq requests /\ q \in requests \ requests'
      /\ UNCHANGED <<threads, loaded, asked, hostVars, lock, call, linkVars, answers, events>>
  BY DEF ServeInterrupt, Serve
<1>3. /\ q \in Request /\ q.conn \in Conns /\ q.thread \in {None} \cup Threads
  BY <1>1, ThisRequest
<1>4. ServerType' /\ EventType'
  BY <1>1, <1>2, Frames
<1>5. PICK active \in SUBSET Turns : active = ActiveOn(q.conn, q.thread) /\ \A r \in active : turn[r].at # "unborn"
  <2>1. ActiveOn(q.conn, q.thread) \in SUBSET Turns
    BY DEF ActiveOn
  <2>2. \A r \in ActiveOn(q.conn, q.thread) : turn[r].at # "unborn"
    BY DEF ActiveOn
  <2> QED BY <2>1, <2>2
<1>6. CASE q.turn \in active /\ turn' = Over({q.turn})
           /\ \E order \in {<<Says("completed", q.turn, q.thread), Reply(q, "ok", None, None)>>,
                            <<Reply(q, "ok", None, None), Says("completed", q.turn, q.thread)>>} :
                 Output(q.conn, order)
  <2>1. q.turn \in Turns /\ turn[q.turn].at # "unborn"
    BY <1>5, <1>6
  <2>2. TurnType' /\ Older
    BY <1>1, <1>6, <2>1, OverOK
  <2>3. PICK a, b : a = Says("completed", q.turn, q.thread) /\ b = Reply(q, "ok", None, None)
    OBVIOUS
  <2>4. MsgOK(a) /\ a.kind # "ask" /\ a.by = NoCaller /\ MsgOK(b) /\ b.kind # "ask" /\ b.by = q.by
    BY <1>3, <2>1, <2>3, SaysOK, ReplyOK DEF Replies
  <2>5. Outs(<<a, b>>, q.by) /\ Outs(<<b, a>>, q.by)
    BY <2>4, TwoOut
  <2>6. \E ms : Outs(ms, q.by) /\ Output(q.conn, ms)
    BY <1>6, <2>3, <2>5
  <2> QED BY <1>2, <1>3, <1>4, <2>2, <2>6, WriteInv
<1>7. ASSUME NEW kind \in {"found", "none", "missing"}, NEW r \in {None} \cup Turns, kind = "found" => r \in Turns,
             UNCHANGED turn, Output(q.conn, <<Reply(q, kind, r, None)>>)
      PROVE  Inv'
  <2>1. TurnType' /\ Older
    BY <1>1, <1>7, Frames DEF Older
  <2>2. Outs(<<Reply(q, kind, r, None)>>, q.by)
    BY <1>3, <1>7, ReplyOK, OneOut DEF Replies
  <2> QED BY <1>2, <1>3, <1>4, <1>7, <2>1, <2>2, WriteInv
<1>8. CASE \E r \in active : Output(q.conn, <<Reply(q, "found", r, None)>>) /\ UNCHANGED turn
  BY <1>7, <1>8
<1>9. CASE /\ UNCHANGED turn
           /\ Output(q.conn, <<Reply(q, IF q.thread \in loaded[q.conn] THEN "none" ELSE "missing", None, None)>>)
  <2>1. PICK kind \in {"none", "missing"} : kind = IF q.thread \in loaded[q.conn] THEN "none" ELSE "missing"
    OBVIOUS
  <2>2. Output(q.conn, <<Reply(q, kind, None, None)>>)
    BY <1>9, <2>1
  <2> QED BY <1>7, <1>9, <2>2
<1> QED BY <1>5, <1>6, <1>8, <1>9 DEF ServeInterrupt

\* A turn begins, and ends.
LEMMA TurnInv ==
    ASSUME Inv, NEW r \in Turns, Activates(r) \/ Ends(r)
    PROVE  Inv'
<1>1. TypeInv
  BY DEF Inv
<1>2. UNCHANGED <<requests, threads, loaded, asked, hostVars, lock, call, linkVars, answers>>
  BY DEF Activates, Ends
<1>3. turn[r] \in Turn /\ turn[r].at # "unborn" /\ turn[r].conn \in Conns /\ turn[r].thread \in {None} \cup Threads
  BY <1>1 DEF Activates, Ends, TypeInv, TurnType, Turn
<1>4. ServerType'
  BY <1>1, <1>2, Frames
<1>5. EventType'
  BY <1>1, CountsOK, Frames DEF Activates, Ends
<1>6. TurnType' /\ Older
  <2>1. CASE Activates(r)
    <3>1. PICK y : y = [turn[r] EXCEPT !.at = "active"]
      OBVIOUS
    <3>2. y \in Turn /\ y.at = "active" /\ y.conn = turn[r].conn
      BY <1>3, <3>1 DEF Turn
    <3>3. turn' = [turn EXCEPT ![r] = y]
      BY <2>1, <3>1 DEF Activates
    <3> QED BY <1>1, <1>3, <3>2, <3>3 DEF TypeInv, TurnType, Older
  <2>2. CASE Ends(r)
    <3>1. turn' = Over({r}) /\ \A g \in Turns : g \in {r} => turn[g].at # "unborn"
      BY <1>3, <2>2 DEF Ends
    <3> QED BY <1>1, <3>1, OverOK
  <2> QED BY <2>1, <2>2
<1>7. \E ms : Outs(ms, NoCaller) /\ Output(turn[r].conn, ms)
  <2>1. PICK k \in Conns, t \in {None} \cup Threads : k = turn[r].conn /\ t = turn[r].thread
    BY <1>3
  <2>2. CASE Activates(r)
    <3>1. Output(k, <<Says("started", r, t)>>)
      BY <2>1, <2>2 DEF Activates
    <3>2. Outs(<<Says("started", r, t)>>, NoCaller)
      BY SaysOK, OneOut
    <3> QED BY <2>1, <3>1, <3>2
  <2>3. CASE Ends(r)
    <3>1. PICK a, b : a = Says("completed", r, t) /\ b = Says("failed", r, t)
      OBVIOUS
    <3>2. MsgOK(a) /\ a.kind # "ask" /\ a.by = NoCaller /\ MsgOK(b) /\ b.kind # "ask" /\ b.by = NoCaller
      BY <3>1, SaysOK
    <3>3. Outs(<<a>>, NoCaller) /\ Outs(<<b, a>>, NoCaller)
      BY <3>2, OneOut, TwoOut
    <3>4. Output(k, <<a>>) \/ Output(k, <<b, a>>)
      BY <2>1, <2>3, <3>1 DEF Ends
    <3> QED BY <2>1, <3>3, <3>4
  <2> QED BY <1>1, <2>2, <2>3
<1> QED BY <1>2, <1>3, <1>4, <1>5, <1>6, <1>7, Nulls, WriteInv

LEMMA AsksApprovalInv ==
    ASSUME Inv, NEW r \in Turns, AsksApproval(r)
    PROVE  Inv'
<1>1. TypeInv /\ ReplyInv /\ AskInv
  BY DEF Inv
<1>2. UNCHANGED <<requests, threads, loaded, turn, hostVars, lock, call, linkVars, answers, events>>
  BY DEF AsksApproval
<1>3. turn[r].conn \in Conns /\ turn[r].thread \in {None} \cup Threads
  BY <1>1 DEF AsksApproval, TypeInv, TurnType, Turn
<1>4. PICK k \in Conns, t \in {None} \cup Threads : k = turn[r].conn /\ t = turn[r].thread
  BY <1>3
<1>5. PICK n \in Asks : /\ asked[k][n] = None /\ asked' = [asked EXCEPT ![k][n] = r]
                        /\ Output(k, <<[Says("ask", r, t) EXCEPT !.ask = n]>>)
  BY <1>4 DEF AsksApproval
<1>6. PICK m : m = [Says("ask", r, t) EXCEPT !.ask = n]
  OBVIOUS
<1>7. MsgOK(m) /\ m.by = NoCaller /\ m.kind = "ask" /\ m.ask = n
  <2>1. m = [kind |-> "ask", by |-> NoCaller, turn |-> r, thread |-> t, ask |-> n]
    BY <1>6 DEF Says
  <2>2. m \in Message /\ m.by = NoCaller /\ m.kind = "ask" /\ m.ask = n /\ m.turn = r
    BY <2>1 DEF Message
  <2> QED BY <2>2 DEF MsgOK, Replies
<1>8. PICK ms : ms = <<m>>
  OBVIOUS
<1>9. ms \in Seq(Message) /\ Len(ms) = 1 /\ ms[1] = m /\ Output(k, ms)
  BY <1>5, <1>6, <1>7, <1>8 DEF MsgOK
<1>10. \A i \in 1 .. Len(ms) : MsgOK(ms[i]) /\ ms[i].by = NoCaller /\ i = 1
  <2>1. \A i \in 1 .. 1 : i = 1
    OBVIOUS
  <2> QED BY <1>7, <1>9, <2>1
<1>11. OutputIs(k, ms)
  BY <1>1, <1>9, OutputStep
<1>12. WireType'
  BY <1>1, <1>10, <1>11, OutputTypes
<1>13. /\ asked' \in [Conns -> [Asks -> {None} \cup Turns]] /\ asked'[k][n] = r
       /\ \A j \in Conns, i \in Asks : j # k \/ i # n => asked'[j][i] = asked[j][i]
  <2>1. asked \in [Conns -> [Asks -> {None} \cup Turns]] /\ asked[k] \in [Asks -> {None} \cup Turns]
    BY <1>1 DEF TypeInv, ServerType
  <2>2. PICK a : a = [asked[k] EXCEPT ![n] = r]
    OBVIOUS
  <2>3. a \in [Asks -> {None} \cup Turns] /\ a[n] = r /\ \A i \in Asks : i # n => a[i] = asked[k][i]
    BY <2>1, <2>2
  <2>4. asked' = [asked EXCEPT ![k] = a]
    BY <1>5, <2>2
  <2> QED BY <2>1, <2>3, <2>4
<1>14. ServerType'
  BY <1>1, <1>2, <1>13 DEF TypeInv, ServerType
<1>15. TypeInv'
  BY <1>1, <1>2, <1>12, <1>14, Frames DEF TypeInv, hostVars
<1>16. ReplyInv'
  <2>1. RequestsOwn' /\ RequestsOne'
    BY <1>1, <1>2 DEF ReplyInv, RequestsOwn, RequestsOne
  <2>2. ASSUME NEW j \in Conns, NEW i \in 1 .. Len(wire'[j]), wire'[j][i].by \in Callers
        PROVE  i \in 1 .. Len(wire[j]) /\ wire'[j][i] = wire[j][i]
    <3>1. CASE j # k
      BY <1>11, <3>1 DEF OutputIs
    <3>2. CASE j = k
      <4>1. \/ i \in 1 .. Len(wire[j]) /\ wire'[j][i] = wire[j][i]
            \/ i - Len(wire[k]) \in 1 .. Len(ms) /\ wire'[j][i] = ms[i - Len(wire[k])]
        BY <1>11, <3>2 DEF OutputIs
      <4> QED BY <1>10, <2>2, <4>1, Nulls
    <3> QED BY <3>1, <3>2
  <2>3. RepliesOwn'
    BY <1>1, <1>2, <2>2 DEF ReplyInv, RepliesOwn
  <2>4. RepliesOne'
    BY <1>1, <2>2 DEF ReplyInv, RepliesOne
  <2> QED BY <2>1, <2>3, <2>4 DEF ReplyInv
<1>17. AskInv'
  <2> SUFFICES ASSUME NEW j \in Conns, NEW i \in Asks PROVE AskOK(j, i)'
    BY DEF AskInv
  <2>1. AskOK(j, i) /\ UNCHANGED <<answers, prompts>>
    BY <1>1, <1>2 DEF AskInv, hostVars
  <2>2. ASSUME NEW h \in 1 .. Len(wire'[j]), wire'[j][h].kind = "ask", wire'[j][h].ask = i
        PROVE  \/ h \in 1 .. Len(wire[j]) /\ Comes(j, i, h)
               \/ j = k /\ i = n /\ h - Len(wire[k]) = 1 /\ Len(wire[k]) \in Nat
    <3>1. CASE j # k
      BY <1>11, <2>2, <3>1 DEF OutputIs, Comes
    <3>2. CASE j = k
      <4>1. \/ h \in 1 .. Len(wire[j]) /\ wire'[j][h] = wire[j][h]
            \/ /\ h - Len(wire[k]) \in 1 .. Len(ms) /\ wire'[j][h] = ms[h - Len(wire[k])]
               /\ Len(wire[k]) \in Nat
        BY <1>11, <3>2 DEF OutputIs
      <4> QED BY <1>7, <1>9, <1>10, <2>2, <3>2, <4>1 DEF Comes
    <3> QED BY <3>1, <3>2
  <2>3. CASE j = k /\ i = n
    <3>1. answers[k][n] = 0 /\ prompts[n].conn # k /\ \A h \in 1 .. Len(wire[k]) : ~Comes(k, n, h)
      BY <1>5, <2>1, <2>3 DEF AskOK
    <3>2. asked'[k][n] # None
      BY <1>13, Nulls
    <3>3. ASSUME NEW h \in 1 .. Len(wire'[j]), wire'[j][h].kind = "ask", wire'[j][h].ask = i
          PROVE  h - Len(wire[k]) = 1 /\ Len(wire[k]) \in Nat
      BY <2>2, <2>3, <3>1, <3>3
    <3>4. ASSUME NEW h \in 1 .. Len(wire'[j]), wire'[j][h].kind = "ask", wire'[j][h].ask = i,
                 NEW g \in 1 .. Len(wire'[j]), wire'[j][g].kind = "ask", wire'[j][g].ask = i
          PROVE  h = g
      <4>1. h - Len(wire[k]) = 1 /\ g - Len(wire[k]) = 1 /\ Len(wire[k]) \in Nat
        BY <3>3, <3>4
      <4> QED BY <4>1
    <3> QED BY <2>1, <2>3, <3>1, <3>2, <3>4 DEF AskOK, Comes
  <2>4. CASE ~(j = k /\ i = n)
    <3>1. asked'[j][i] = asked[j][i]
      BY <1>13, <2>4
    <3>2. ASSUME NEW h \in 1 .. Len(wire'[j]), wire'[j][h].kind = "ask", wire'[j][h].ask = i
          PROVE  /\ h \in 1 .. Len(wire[j]) /\ Comes(j, i, h)
                 /\ asked[j][i] # None /\ answers[j][i] = 0 /\ prompts[i].conn # j
      BY <2>1, <2>2, <2>4, <3>2 DEF AskOK
    <3>3. ASSUME NEW h \in 1 .. Len(wire'[j]), wire'[j][h].kind = "ask", wire'[j][h].ask = i,
                 NEW g \in 1 .. Len(wire'[j]), wire'[j][g].kind = "ask", wire'[j][g].ask = i
          PROVE  h = g
      <4>1. h \in 1 .. Len(wire[j]) /\ Comes(j, i, h) /\ g \in 1 .. Len(wire[j]) /\ Comes(j, i, g)
        BY <3>2, <3>3
      <4> QED BY <2>1, <4>1 DEF AskOK
    <3> QED BY <2>1, <3>1, <3>2, <3>3 DEF AskOK, Comes
  <2> QED BY <2>3, <2>4
<1> QED BY <1>15, <1>16, <1>17 DEF Inv

LEMMA InductiveInv == Inv /\ [Next]_vars => Inv'
<1> SUFFICES ASSUME Inv, [Next]_vars PROVE Inv'
  OBVIOUS
<1>1. CASE \E c \in Callers : Call(c)
  BY <1>1, CallSteps, StepInv, TimesOutInv, RefusedInv
<1>2. CASE \/ \E s \in Sessions : Rest(s)
           \/ \E n \in Asks : ResolvePermission(n)
           \/ ReaperLooks \/ Reap
  BY <1>2, RestInv, ResolveInv, ReapInv
<1>3. CASE Server
  <2>1. CASE \E q \in requests : ServeThread(q) \/ ServeResume(q) \/ ServeTurn(q) \/ ServeInterrupt(q)
    BY <2>1, ServeThreadInv, ServeResumeInv, ServeTurnInv, ServeInterruptInv
  <2>2. CASE \E r \in Turns : Activates(r) \/ Ends(r) \/ AsksApproval(r)
    BY <2>2, TurnInv, AsksApprovalInv
  <2>3. CASE \E k \in Conns : Dies(k)
    BY <2>3, DiesInv
  <2> QED BY <1>3, <2>1, <2>2, <2>3 DEF Server
<1>4. CASE Reader
  BY <1>4, ReadReplyInv, ReadThreadInv, ReadStartedInv, ReadEndInv, ReadAskInv, ReaderEndsInv DEF Reader
<1>5. CASE UNCHANGED vars
  <2>1. UNCHANGED <<hostVars, lock, call, linkVars, pipeVars, serverVars, answers, events>>
    BY <1>5 DEF vars
  <2>2. TypeInv'
    BY <2>1, Frames DEF Inv, TypeInv, hostVars, pipeVars, serverVars
  <2> QED BY <2>1, <2>2, QuietInv DEF hostVars, serverVars
<1> QED BY <1>1, <1>2, <1>3, <1>4, <1>5 DEF Next

-----------------------------------------------------------------------------
(* Theorems *)

\* What the steps rely on holds in every reachable state: who waits has one request or its reply, no message is about a
\* turn that nobody asked for, and a call keeps the process it works with.
THEOREM Invariance == Spec => []Inv
BY InitInv, InductiveInv, PTL DEF Spec

\* The state is of its types in every reachable state.
THEOREM TypeCorrect == Spec => []TypeOK
<1>1. Inv => TypeOK
  BY TypesImply DEF Inv
<1> QED BY <1>1, Invariance, PTL

\* An approval is answered once, whoever is first: the user, an abort, the end of
\* the turn, a send that fails or the refusal of what is late.
THEOREM ApprovalsOnce == Spec => []AnsweredOnce
<1>1. Inv => AnsweredOnce
  BY AsksImply DEF Inv
<1> QED BY <1>1, Invariance, PTL
=============================================================================
