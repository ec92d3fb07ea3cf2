------------------------ MODULE CodexTurnEndsProofs ------------------------
(* The ends of turns in CodexTurn: a late end never ends the next turn, and *)
(* a turn that a session replaces by its own is over.                       *)
EXTENDS CodexTurnProofs

-----------------------------------------------------------------------------
(* The invariant *)

\* A turn that the host has not let go of is shown by its session, or refused there.
Born(r) == turn[r].at # "unborn"
Refuses(e, r) == e.turn = r \/ r \in e.ignored
Remembered == \A r \in Turns : Born(r) /\ fate[r] # "loose" =>
    turn[r].home \in Sessions /\ Refuses(sess[turn[r].home], r)
Gone == \A s \in Sessions : ~sess[s].here => sess[s].turn = None

\* The call that has asked for a turn; whether the process does not know of that yet.
Asking(c, r) == call[c].op = "send" /\ ~Interrupting(call[c]) /\ call[c].turn = r
Missing(c) == \E k \in Conns : \E i \in 1 .. Len(wire[k]) : wire[k][i].by = c /\ wire[k][i].kind = "missing"
Missed(c) == \/ call[c].for \in {"resume", "thread"}
             \/ call[c].pc = "answered" /\ call[c].answer.kind = "missing"
             \/ Missing(c)
Requested(r) == \E q \in requests : q.for = "turn" /\ q.turn = r
NotYet(r) == ~Born(r) \/ Requested(r) \/ \E c \in Callers : Asking(c, r) /\ Missed(c)

\* The turns that somebody speaks of: it runs, or a session, a call or a message has its id.
\* Nobody speaks of one that the process was not asked for, or not yet, or in vain.
Heard(x) == x.todo \cup x.seen \cup (IF Interrupting(x) THEN {x.from, x.turn} ELSE {})
                \cup (IF x.answer.kind = "found" THEN {x.answer.turn} ELSE {})
Shown(r) == \E s \in Sessions : Interruptible(sess[s]) /\ sess[s].turn = r
Told(r) == \E k \in Conns : \E i \in 1 .. Len(wire[k]) : wire[k][i].turn = r
Known(r) == StillRuns(r) \/ Shown(r) \/ Told(r) \/ \E c \in Callers : r \in Heard(call[c])
Silent == \A r \in Turns : Known(r) => ~NotYet(r)

\* An idle call has no operation; who asks for a turn is a send with that turn; a call has
\* interrupted turns once it has a process to do so.
Early(x) == x.pc \notin {"asked", "answered", "pending"}
AskingOK(x) ==
    /\ x.pc = "idle" => x.op = "none"
    /\ x.op = "send" /\ Early(x) => x.turn = None
    /\ x.pc \in {"asked", "answered"} => /\ x.for = "turn" => x.op = "send"
                                         /\ x.op = "send" /\ x.for \in {"turn", "resume"} => x.turn # None
    /\ x.op \in {"send", "abort"} /\ x.seen # {} =>
           x.pc = "clear" \/ Interrupting(x) \/ (~Early(x) /\ x.turn # None)
\* No two calls ask for the same turn, and they ask the process of the turn.
AskingInv ==
    /\ \A c \in Callers : AskingOK(call[c])
    /\ \A c \in Callers : \A r \in Turns : Asking(c, r) => turn[r].conn = call[c].conn
    /\ \A c, d \in Callers : \A r \in Turns : Asking(c, r) /\ Asking(d, r) => c = d

\* What was written is what the call waits for, and it is written once: by the call that asks
\* for the turn unless that has given up.
GaveUp(c) == call[c].pc = "answered" /\ call[c].for = "turn" /\ call[c].answer.kind = "error"
WrittenBy(q) == q.by \in Callers =>
    /\ q.for = call[q.by].for
    /\ q.for \in {"turn", "interrupt"} => q.turn = call[q.by].turn /\ q.thread = call[q.by].thread
WrittenFor(q) == q.for = "turn" =>
    /\ q.turn \in Turns /\ turn[q.turn].conn = q.conn /\ turn[q.turn].thread = q.thread
    /\ \A c \in Callers : Asking(c, q.turn) => q.by = c \/ GaveUp(c)
RequestInv ==
    /\ \A q \in requests : WrittenBy(q) /\ WrittenFor(q)
    /\ \A p, q \in requests : p.for = "turn" /\ q.for = "turn" /\ p.turn = q.turn => p = q

\* One turn runs on a thread of a process.
OneRuns == \A r, g \in Turns :
    (/\ StillRuns(r) /\ StillRuns(g)
     /\ turn[r].conn = turn[g].conn /\ turn[r].thread = turn[g].thread) => r = g

\* What the answer to an interrupt says.
Begun(r) == turn[r].at \in {"active", "over"}
Here(c, r) == Place(c, r) /\ StillRuns(r)
Means(c, m) ==
    /\ m.kind = "ok" => turn[call[c].turn].at = "over"
    /\ m.kind = "none" => call[c].turn = call[c].from \/ turn[call[c].turn].at = "over"
    /\ m.kind = "found" => Begun(m.turn) /\ Place(c, m.turn) /\ ~Here(c, call[c].turn)
InterruptOK(c) ==
    /\ "found" \notin call[c].notes => call[c].turn = call[c].from
    /\ call[c].turn = call[c].from \/ (/\ Begun(call[c].turn) /\ Place(c, call[c].turn)
                                      /\ ~Here(c, call[c].from))
    /\ call[c].pc \in {"answered", "pending"} => Means(c, call[c].answer)
    /\ call[c].pc = "pending" => call[c].answer.kind = "none"
InterruptInv ==
    /\ \A c \in Callers : Interrupting(call[c]) => InterruptOK(c)
    /\ \A k \in Conns : \A i \in 1 .. Len(wire[k]) : \A c \in Callers :
           wire[k][i].by = c /\ Interrupting(call[c]) => Means(c, wire[k][i])

\* The own turns of a call: those that it is to interrupt run only while its session shows
\* them, those that it has interrupted have ended there, all of them when it asks for its own.
Runs(r) == fate[r] = "ours" /\ StillRuns(r)
Mine(x) == x.todo \cup (IF Interrupting(x) THEN {x.from} ELSE {})
OwnOK(c) ==
    /\ \A r \in Mine(call[c]) : Runs(r) => sess[call[c].s].turn = r
    /\ \A r \in call[c].seen : Runs(r) => sess[call[c].s].turn = r /\ ~Place(c, r)
    /\ call[c].turn # None /\ ~Interrupting(call[c]) => \A r \in call[c].seen : ~Runs(r)
OwnInv == \A c \in Callers : call[c].op \in {"send", "abort"} => OwnOK(c)

EndInv == /\ Remembered /\ Gone /\ Silent /\ AskingInv /\ RequestInv
          /\ OneRuns /\ InterruptInv /\ OwnInv

-----------------------------------------------------------------------------
(* Sessions *)

\* What a session may do: it lets go of what it forgets, and it keeps an own turn
\* that runs; the turns in N have become known to it.
Fates == \A r \in Turns : /\ fate'[r] = "ours" => fate[r] = "ours"
                          /\ fate'[r] # "loose" => fate[r] # "loose"
Fair(e, f, N) ==
    /\ \A r \in Turns : fate'[r] # "loose" /\ Refuses(e, r) => Refuses(f, r)
    /\ \A r \in Turns : e.turn = r /\ StillRuns(r) /\ fate'[r] = "ours" => f.turn = r
    /\ ~f.here => f.turn = None
    /\ Interruptible(f) => f.turn \in N \/ (Interruptible(e) /\ f.turn = e.turn)
SessMoves(N) == Fates /\ \A o \in Sessions : Fair(sess[o], sess'[o], N)

LEMMA FairMore ==
    ASSUME NEW e, NEW f, f.turn = e.turn, f.here = e.here \/ f.here, e.here \/ e.turn = None, NEW N,
           e.ignored \subseteq f.ignored, Interruptible(f) => f.turn \in N \/ Interruptible(e)
    PROVE  Fair(e, f, N)
BY DEF Fair, Refuses

LEMMA FairEnds ==
    ASSUME NEW e, NEW f, f.turn = None, ~Interruptible(f), NEW N,
           \A r \in Turns : fate'[r] # "loose" /\ Refuses(e, r) => r \in f.ignored,
           e.turn \in Turns => fate'[e.turn] # "ours" \/ ~StillRuns(e.turn)
    PROVE  Fair(e, f, N)
BY DEF Fair, Refuses

LEMMA OneFair ==
    ASSUME TypeInv, Gone, NEW s \in Sessions, NEW f, sess' = [sess EXCEPT ![s] = f], Fates, NEW N, Fair(sess[s], f, N)
    PROVE  SessMoves(N)
<1> SUFFICES ASSUME NEW o \in Sessions PROVE Fair(sess[o], sess'[o], N)
  BY DEF SessMoves
<1>1. sess'[s] = f /\ (o # s => sess'[o] = sess[o])
  BY DEF TypeInv, SessType
<1>2. o # s => Fair(sess[o], sess[o], N)
  BY FairMore DEF Gone
<1> QED BY <1>1, <1>2

LEMMA SameFair ==
    ASSUME Gone, UNCHANGED <<sess, fate>>, NEW N PROVE SessMoves(N)
<1>1. \A o \in Sessions : Fair(sess[o], sess[o], N)
  BY FairMore DEF Gone
<1> QED BY <1>1 DEF SessMoves, Fates

LEMMA LetGoFates ==
    ASSUME TypeInv, NEW R, LetGo(R)
    PROVE  Fates /\ \A r \in Turns : fate'[r] # "loose" => r \notin R
BY DEF LetGo, Fates, TypeInv, HostType

LEMMA GoesOnFates ==
    ASSUME TypeInv, NEW c \in Callers, GoesOn(c)
    PROVE  /\ Fates
           /\ \A r \in Turns : fate'[r] # "loose" /\ r = Of(c).turn => r \in call[c].seen
           /\ \A r \in Turns : fate'[r] = "ours" /\ r = Of(c).turn /\ StillRuns(r) => Place(c, r)
<1>1. Fates
  BY DEF GoesOn, Fates, TypeInv, HostType
<1>2. \A r \in Turns : fate'[r] # "loose" /\ r = Of(c).turn => r \in call[c].seen
  BY DEF GoesOn, TypeInv, HostType
<1>3. \A r \in Turns : fate'[r] = "ours" /\ r = Of(c).turn /\ StillRuns(r) => Place(c, r)
  BY DEF GoesOn, TypeInv, HostType
<1> QED BY <1>1, <1>2, <1>3

\* A session that is thrown away, with what it refuses.
LEMMA ForgottenFair ==
    ASSUME TypeInv, Gone, NEW s \in Sessions, NEW f \in {Absent, Fresh}, sess' = [sess EXCEPT ![s] = f],
           LetGo({sess[s].turn} \cup sess[s].ignored), NEW N
    PROVE  SessMoves(N)
<1>1. Fates /\ \A r \in Turns : fate'[r] # "loose" => r \notin {sess[s].turn} \cup sess[s].ignored
  BY LetGoFates
<1>2. f.turn = None /\ ~Interruptible(f)
  BY DEF Absent, Fresh, Interruptible
<1>3. sess[s].turn \in Turns => fate'[sess[s].turn] # "ours"
  BY <1>1
<1>4. Fair(sess[s], f, N)
  BY <1>1, <1>2, <1>3, FairEnds DEF Refuses
<1> QED BY <1>1, <1>4, OneFair

\* A session that ends its turn.
LEMMA EndedFair ==
    ASSUME TypeInv, Gone, NEW s \in Sessions, NEW f, sess' = [sess EXCEPT ![s] = f],
           f.turn = None, ~Interruptible(f), sess[s].ignored \subseteq f.ignored, LetGo({sess[s].turn}), NEW N
    PROVE  SessMoves(N)
<1>1. Fates /\ \A r \in Turns : fate'[r] # "loose" => r \notin {sess[s].turn}
  BY LetGoFates
<1>2. sess[s].turn \in Turns => fate'[sess[s].turn] # "ours"
  BY <1>1
<1>3. Fair(sess[s], f, N)
  BY <1>1, <1>2, FairEnds DEF Refuses
<1> QED BY <1>1, <1>3, OneFair

\* Whoever loses a thread refuses its turn if it knows it, and else lets go of it.
LEMMA TakenFair ==
    ASSUME TypeInv, Gone, NEW S \in [Sessions -> Session], \A o \in Sessions : SessOK(S[o]),
           NEW t \in {None} \cup Threads, NEW s \in Sessions, NEW R,
           \A o \in Sessions \ {s} : S[o] = sess[o], S[s].here \/ S[s].turn = None,
           S[s].turn = sess[s].turn \/ (S[s].turn = None /\ sess[s].turn \in R),
           \A r \in Turns : Refuses(sess[s], r) => Refuses(S[s], r) \/ r \in R,
           Interruptible(S[s]) => Interruptible(sess[s]) /\ S[s].turn = sess[s].turn,
           TakeOwnership(S, t, s), FateOf(R, t, s, S), NEW N
    PROVE  SessMoves(N)
<1>1. /\ Fates
      /\ \A r \in Turns : fate'[r] # "loose" => r \notin R \cup Unseen(S, t, s)
      /\ \A r \in Turns : r \in Taken(S, t, s) => fate'[r] # "ours"
  <2>1. Fates
    BY DEF FateOf, Fates, TypeInv, HostType
  <2>2. \A r \in Turns : fate'[r] # "loose" => r \notin R \cup Unseen(S, t, s)
    BY DEF FateOf, TypeInv, HostType
  <2>3. \A r \in Turns : r \in Taken(S, t, s) => fate'[r] # "ours"
    BY DEF FateOf, TypeInv, HostType
  <2> QED BY <2>1, <2>2, <2>3
<1> SUFFICES ASSUME NEW o \in Sessions PROVE Fair(sess[o], sess'[o], N)
  BY <1>1 DEF SessMoves
<1>2. PICK T : T = Taken(S, t, s)
  OBVIOUS
<1>3. S[o] \in Session /\ SessOK(S[o]) /\ T \in SUBSET Turns
  BY <1>2, TakeOK
<1>7. sess'[o] = IF o = s /\ S[o].here THEN [S[o] EXCEPT !.thread = t, !.ignored = @ \cup T]
                 ELSE IF o \notin Others(S, t, s) THEN S[o]
                 ELSE [Ended(S[o]) EXCEPT !.ignored = IF Interruptible(S[o]) THEN @ \cup {S[o].turn} ELSE @]
  <2>1. sess'[o] = TakeThread(S, t, s)[o]
    BY DEF TakeOwnership
  <2> QED BY <1>2, <2>1, Zenon DEF TakeThread
<1>4. CASE o = s
  <2>1. PICK f : f = sess'[o]
    OBVIOUS
  <2>2. f.turn = S[s].turn /\ f.here = S[s].here /\ S[s].ignored \subseteq f.ignored /\ f.stage = S[s].stage
    <3>1. CASE S[s].here
      <4>1. f = [S[s] EXCEPT !.thread = t, !.ignored = @ \cup T]
        BY <1>4, <1>7, <2>1, <3>1
      <4> QED BY <1>3, <1>4, <4>1 DEF Session
    <3>2. CASE ~S[s].here
      BY <1>4, <1>7, <2>1, <3>2 DEF Others
    <3> QED BY <3>1, <3>2
  <2>3. \A r \in Turns : fate'[r] # "loose" /\ Refuses(sess[s], r) => Refuses(f, r)
    BY <1>1, <2>2 DEF Refuses
  <2>4. \A r \in Turns : sess[s].turn = r /\ StillRuns(r) /\ fate'[r] = "ours" => f.turn = r
    BY <1>1, <2>2
  <2>5. Interruptible(f) => Interruptible(sess[s]) /\ f.turn = sess[s].turn
    BY <2>2 DEF Interruptible
  <2>6. ~f.here => f.turn = None
    BY <2>2
  <2> QED BY <1>4, <2>1, <2>3, <2>4, <2>5, <2>6 DEF Fair
<1>5. CASE o # s /\ o \notin Others(S, t, s)
  <2>1. sess'[o] = sess[o]
    BY <1>5, <1>7
  <2> QED BY <2>1, FairMore DEF Gone
<1>6. CASE o # s /\ o \in Others(S, t, s)
  <2>1. PICK e : e = sess[o] /\ e = S[o]
    BY <1>6
  <2>2. PICK f : f = sess'[o]
    OBVIOUS
  <2>3. f = [Ended(e) EXCEPT !.ignored = IF Interruptible(e) THEN @ \cup {e.turn} ELSE @]
    BY <1>6, <1>7, <2>1, <2>2
  <2>4. /\ f.turn = None /\ f.stage = "none" /\ e.ignored \subseteq f.ignored
        /\ Interruptible(e) => e.turn \in f.ignored
    BY <1>3, <2>1, <2>3 DEF Session, Ended
  <2>5. Interruptible(e) => e.turn \in Taken(S, t, s)
    BY <1>6, <2>1 DEF Taken
  <2>6. e.stage = "sent" => e.turn \in Unseen(S, t, s)
    BY <1>6, <2>1 DEF Unseen
  <2>7. e.turn \in Turns => Interruptible(e) \/ e.stage = "sent"
    BY <1>3, <2>1, Nulls DEF SessOK, Session, Running, Interruptible
  <2>8. \A r \in Turns : fate'[r] # "loose" /\ Refuses(e, r) => r \in f.ignored
    BY <1>1, <2>4, <2>6, <2>7 DEF Refuses
  <2>9. e.turn \in Turns => fate'[e.turn] # "ours"
    BY <1>1, <2>5, <2>6, <2>7
  <2>10. Fair(e, f, N)
    BY <2>4, <2>8, <2>9, FairEnds DEF Interruptible
  <2> QED BY <2>1, <2>2, <2>10
<1> QED BY <1>4, <1>5, <1>6

\* What a step of a call does to the sessions.
LEMMA CallFair ==
    ASSUME TypeInv, Gone, OwnInv, NEW c \in Callers, Steps(c)
    PROVE  SessMoves({}) \/ (Apply(c) /\ SessMoves({call[c].turn}))
<1> DEFINE s == call[c].s
<1>1. /\ call[c].pc # "idle" => s \in Sessions
      /\ call[c].thread \in {None} \cup Threads /\ call[c].answer.thread \in {None} \cup Threads
  BY ThisCall DEF CallOK, Calls, Message
<1>2. /\ sess \in [Sessions -> Session] /\ \A o \in Sessions : SessOK(sess[o])
  BY DEF TypeInv, SessType
<1>3. CASE UNCHANGED <<sess, fate>>
  BY <1>3, SameFair
<1>4. ASSUME NEW o \in Sessions, Start(c, o) PROVE SessMoves({})
  BY <1>4, ForgottenFair DEF Start
<1>5. CASE SpawnFails(c) \/ StartFails(c) \/ Stop(c)
  <2>1. s \in Sessions
    BY <1>1, <1>5 DEF SpawnFails, StartFails, Stop, At, Answered
  <2>2. \/ UNCHANGED <<sess, fate>>
        \/ sess' = [sess EXCEPT ![s] = Absent] /\ LetGo({sess[s].turn} \cup sess[s].ignored)
    BY <1>5 DEF SpawnFails, StartFails, Stop, Of
  <2> QED BY <1>3, <2>1, <2>2, ForgottenFair
<1>6. CASE Started(c) \/ Own(c) \/ ThreadResumed(c)
  <2>1. s \in Sessions
    BY <1>1, <1>6 DEF Started, Own, ThreadResumed, At, Answered
  <2>2. PICK t \in {None} \cup Threads : TakeOwnership(sess, t, s) /\ FateOf({}, t, s, sess)
    BY <1>1, <1>6 DEF Started, Own, ThreadResumed
  <2>3. sess[s].here \/ sess[s].turn = None
    BY <2>1 DEF Gone
  <2> QED BY <1>2, <2>1, <2>2, <2>3, TakenFair
<1>7. CASE Resumed(c)
  <2> DEFINE S == [sess EXCEPT ![s] = [Fresh EXCEPT !.thread = call[c].thread, !.used = TRUE]]
             R == {sess[s].turn} \cup sess[s].ignored
  <2>1. s \in Sessions
    BY <1>1, <1>7 DEF Resumed, Answered
  <2>2. TakeOwnership(S, call[c].thread, s) /\ FateOf(R, call[c].thread, s, S)
    BY <1>7 DEF Resumed, Of
  <2>3. SessOK([Fresh EXCEPT !.thread = call[c].thread, !.used = TRUE])
    BY <1>1 DEF SessOK, Absent, Fresh, Session, Running
  <2>4. /\ S \in [Sessions -> Session] /\ \A o \in Sessions : SessOK(S[o])
        /\ \A o \in Sessions \ {s} : S[o] = sess[o]
    BY <1>1, <1>2, <2>1, <2>3 DEF SessOK
  <2>5. S[s].here /\ S[s].turn = None /\ ~Interruptible(S[s])
    BY <1>2, <2>1 DEF Fresh, Absent, Interruptible
  <2>6. sess[s].turn \in R /\ \A r \in Turns : Refuses(sess[s], r) => r \in R
    BY DEF Refuses
  <2> HIDE DEF S, R
  <2> QED BY <1>1, <2>1, <2>2, <2>4, <2>5, <2>6, TakenFair
<1>8. CASE ResumeEnds(c) \/ ThreadMade(c) \/ Replaced(c)
  <2>1. s \in Sessions /\ UNCHANGED fate
    BY <1>1, <1>8 DEF ResumeEnds, ThreadMade, Replaced, At, Answered
  <2>2. PICK e : e = sess[s] /\ e \in Session /\ (e.here \/ e.turn = None)
    BY <1>2, <2>1 DEF Gone
  <2>3. \/ \E R : e.ignored \subseteq R /\ sess' = [sess EXCEPT ![s] = [e EXCEPT !.ignored = R]]
        \/ sess' = [sess EXCEPT ![s] = e]
        \/ sess' = [sess EXCEPT ![s] = [e EXCEPT !.thread = call[c].answer.thread, !.used = FALSE]]
    <3>1. CASE ResumeEnds(c)
      <4>1. PICK R : R = IF e.here THEN e.ignored \cup call[c].seen ELSE e.ignored
        OBVIOUS
      <4>2. sess' = [sess EXCEPT ![s] = [e EXCEPT !.ignored = R]]
        BY <2>2, <3>1, <4>1 DEF ResumeEnds, Of
      <4> QED BY <4>1, <4>2
    <3>2. CASE ThreadMade(c)
      BY <2>2, <3>2 DEF ThreadMade
    <3>3. CASE Replaced(c)
      BY <2>2, <3>3 DEF Replaced
    <3> QED BY <1>8, <3>1, <3>2, <3>3
  <2>4. PICK f : /\ sess' = [sess EXCEPT ![s] = f] /\ f.turn = e.turn /\ f.stage = e.stage /\ f.here = e.here
                 /\ e.ignored \subseteq f.ignored
    <3>1. ASSUME NEW R, e.ignored \subseteq R, sess' = [sess EXCEPT ![s] = [e EXCEPT !.ignored = R]]
          PROVE  \E f : /\ sess' = [sess EXCEPT ![s] = f] /\ f.turn = e.turn /\ f.stage = e.stage
                        /\ f.here = e.here /\ e.ignored \subseteq f.ignored
      <4>1. PICK f : f = [e EXCEPT !.ignored = R]
        OBVIOUS
      <4>2. f.turn = e.turn /\ f.stage = e.stage /\ f.here = e.here /\ f.ignored = R
        BY <2>2, <4>1 DEF Session
      <4> QED BY <3>1, <4>1, <4>2
    <3>2. CASE sess' = [sess EXCEPT ![s] = [e EXCEPT !.thread = call[c].answer.thread, !.used = FALSE]]
      <4>1. PICK f : f = [e EXCEPT !.thread = call[c].answer.thread, !.used = FALSE]
        OBVIOUS
      <4>2. f.turn = e.turn /\ f.stage = e.stage /\ f.here = e.here /\ f.ignored = e.ignored
        BY <2>2, <4>1 DEF Session
      <4> QED BY <3>2, <4>1, <4>2
    <3> QED BY <2>3, <3>1, <3>2
  <2>5. Fair(e, f, {})
    BY <2>2, <2>4, FairMore DEF Interruptible
  <2> QED BY <2>1, <2>2, <2>4, <2>5, OneFair DEF Fates
<1>9. CASE ResetEnds(c) \/ SendFails(c) \/ BadInput(c)
  <2>1. s \in Sessions
    BY <1>1, <1>9 DEF ResetEnds, SendFails, BadInput, Answered, At
  <2>2. PICK e : e = sess[s] /\ e \in Session
    BY <1>2, <2>1
  <2>3. \/ UNCHANGED <<sess, fate>>
        \/ /\ LetGo({sess[s].turn})
           /\ \/ sess' = [sess EXCEPT ![s] = Ended(e)]
              \/ sess' = [sess EXCEPT ![s] = [Ended(e) EXCEPT !.thread = call[c].answer.thread, !.used = FALSE]]
    <3>1. CASE ResetEnds(c)
      BY <2>2, <3>1 DEF ResetEnds, Of
    <3>2. CASE SendFails(c) \/ BadInput(c)
      BY <2>2, <3>2 DEF SendFails, BadInput, FailTurn
    <3> QED BY <1>9, <3>1, <3>2
  <2>4. CASE LetGo({sess[s].turn}) /\ sess' = [sess EXCEPT ![s] = Ended(e)]
    <3>1. Ended(e).turn = None /\ Ended(e).stage = "none" /\ Ended(e).ignored = e.ignored
      BY <2>2 DEF Session, Ended
    <3> QED BY <2>1, <2>2, <2>4, <3>1, EndedFair DEF Interruptible
  <2>5. CASE /\ LetGo({sess[s].turn})
             /\ sess' = [sess EXCEPT ![s] = [Ended(e) EXCEPT !.thread = call[c].answer.thread, !.used = FALSE]]
    <3>1. PICK f : f = [Ended(e) EXCEPT !.thread = call[c].answer.thread, !.used = FALSE]
      OBVIOUS
    <3>2. f.turn = None /\ f.stage = "none" /\ f.ignored = e.ignored
      BY <2>2, <3>1 DEF Session, Ended
    <3> QED BY <2>1, <2>2, <2>5, <3>1, <3>2, EndedFair DEF Interruptible
  <2> QED BY <1>3, <2>3, <2>4, <2>5
<1>10. CASE Mark(c)
  <2>1. s \in Sessions /\ call[c].op = "send"
    <3>1. call[c].pc = "clear" /\ call[c].op = "send"
      BY <1>10 DEF Mark, At
    <3> QED BY <1>1, <3>1
  <2>2. PICK e : e = sess[s] /\ e \in Session /\ SessOK(e)
    BY <1>2, <2>1
  <2>3. PICK R : R = e.ignored \cup call[c].seen
    OBVIOUS
  <2>4. ASSUME NEW r \in Turns, sess[s].here, GoesOn(c),
               sess' = [sess EXCEPT ![s].turn = r, ![s].stage = "sent", ![s].ignored = @ \cup call[c].seen]
        PROVE  SessMoves({})
    <3>1. PICK f : f = [e EXCEPT !.turn = r, !.stage = "sent", !.ignored = R]
      OBVIOUS
    <3>2. sess' = [sess EXCEPT ![s] = f]
      BY <2>2, <2>3, <2>4, <3>1
    <3>3. f.turn = r /\ f.stage = "sent" /\ f.ignored = R /\ f.here
      BY <2>2, <2>4, <3>1 DEF Session
    <3>4. /\ Fates /\ Of(c) = e
          /\ \A g \in Turns : fate'[g] # "loose" /\ g = e.turn => g \in call[c].seen
          /\ \A g \in Turns : fate'[g] = "ours" /\ g = e.turn /\ StillRuns(g) => Place(c, g)
      BY <2>2, <2>4, GoesOnFates DEF Of
    <3>5. \A g \in Turns : fate'[g] # "loose" /\ Refuses(e, g) => Refuses(f, g)
      BY <2>3, <3>3, <3>4 DEF Refuses
    <3>6. \A g \in Turns : ~(e.turn = g /\ StillRuns(g) /\ fate'[g] = "ours")
      <4> SUFFICES ASSUME NEW g \in Turns, e.turn = g, StillRuns(g), fate'[g] = "ours" PROVE FALSE
        OBVIOUS
      <4>1. fate[g] = "ours" /\ g \in call[c].seen /\ Place(c, g)
        BY <3>4 DEF Fates
      <4>2. OwnOK(c)
        BY <2>1 DEF OwnInv
      <4> QED BY <4>1, <4>2 DEF OwnOK, Runs
    <3>7. Fair(e, f, {})
      BY <3>3, <3>5, <3>6 DEF Fair, Interruptible
    <3> QED BY <2>1, <2>2, <3>2, <3>4, <3>7, OneFair
  <2>5. \/ UNCHANGED <<sess, fate>>
        \/ /\ Of(c).here /\ GoesOn(c)
           /\ \E r \in Turns :
                 sess' = [sess EXCEPT ![s].turn = r, ![s].stage = "sent", ![s].ignored = @ \cup call[c].seen]
    BY <1>10 DEF Mark
  <2>6. Of(c) = sess[s]
    BY DEF Of
  <2> QED BY <1>3, <2>4, <2>5, <2>6
<1>11. CASE Apply(c)
  <2>1. s \in Sessions /\ UNCHANGED fate
    BY <1>1, <1>11 DEF Apply, Answered
  <2>2. PICK e : e = sess[s] /\ e \in Session /\ (e.here \/ e.turn = None)
    BY <1>2, <2>1 DEF Gone
  <2>3. PICK stage, used : /\ used = (e.here \/ e.used)
                           /\ stage = IF e.here /\ e.turn = call[c].turn /\ e.stage = "sent" THEN "known"
                                      ELSE e.stage
    OBVIOUS
  <2>4. PICK f : f = [e EXCEPT !.used = used, !.stage = stage]
    OBVIOUS
  <2>5. sess' = [sess EXCEPT ![s].used = used, ![s].stage = stage]
    BY <1>11, <2>2, <2>3 DEF Apply, Of
  <2>6. sess' = [sess EXCEPT ![s] = f]
    BY <2>2, <2>4, <2>5
  <2>7. f.turn = e.turn /\ f.here = e.here /\ f.ignored = e.ignored /\ f.stage = stage
    BY <2>2, <2>4 DEF Session
  <2>8. Interruptible(f) => f.turn \in {call[c].turn} \/ Interruptible(e)
    BY <2>3, <2>7 DEF Interruptible
  <2>9. Fair(e, f, {call[c].turn})
    BY <2>2, <2>7, <2>8, FairMore
  <2> QED BY <1>11, <2>1, <2>2, <2>6, <2>9, OneFair DEF Fates
<1>12. CASE AbortEnds(c)
  <2>1. s \in Sessions /\ call[c].op = "abort"
    BY <1>1, <1>12 DEF AbortEnds, At
  <2>2. PICK e : e = sess[s] /\ e \in Session /\ e = Of(c)
    BY <1>2, <2>1 DEF Of
  <2>3. CASE UNCHANGED <<sess, fate>>
    BY <1>3, <2>3
  <2>4. CASE ~UNCHANGED <<sess, fate>>
    <3>1. /\ e.turn \in call[c].seen /\ GoesOn(c)
          /\ sess' = [sess EXCEPT ![s] = [Ended(@) EXCEPT !.ignored = Of(c).ignored \cup call[c].seen]]
      BY <1>12, <2>2, <2>4 DEF AbortEnds
    <3>2. PICK f : f = [Ended(e) EXCEPT !.ignored = e.ignored \cup call[c].seen]
      OBVIOUS
    <3>3. sess' = [sess EXCEPT ![s] = f]
      BY <2>2, <3>1, <3>2
    <3>4. f.turn = None /\ f.stage = "none" /\ f.ignored = e.ignored \cup call[c].seen
      BY <2>2, <3>2 DEF Session, Ended
    <3>5. /\ Fates /\ \A g \in Turns : fate'[g] = "ours" /\ g = e.turn /\ StillRuns(g) => Place(c, g)
      BY <2>2, <3>1, GoesOnFates
    <3>6. e.turn \in Turns => fate'[e.turn] # "ours" \/ ~StillRuns(e.turn)
      <4> SUFFICES ASSUME e.turn \in Turns, StillRuns(e.turn), fate'[e.turn] = "ours" PROVE FALSE
        OBVIOUS
      <4>1. fate[e.turn] = "ours" /\ Place(c, e.turn)
        BY <3>5 DEF Fates
      <4>2. OwnOK(c)
        BY <2>1 DEF OwnInv
      <4> QED BY <3>1, <4>1, <4>2 DEF OwnOK, Runs
    <3>7. Fair(e, f, {})
      BY <3>1, <3>4, <3>6, FairEnds DEF Refuses, Interruptible
    <3> QED BY <2>1, <2>2, <3>3, <3>5, <3>7, OneFair
  <2> QED BY <2>3, <2>4
<1>13. CASE \/ Enter(c) \/ Outdated(c) \/ Recycle(c) \/ Reuse(c) \/ Spawn(c) \/ Reset(c)
  <2>1. UNCHANGED <<sess, fate>>
    <3>1. CASE Enter(c) \/ Outdated(c) \/ Recycle(c)
      BY <3>1 DEF hostVars, Enter, Outdated, Recycle
    <3>3. CASE Reset(c)
      BY <3>3 DEF Reset
    <3>2. CASE Reuse(c) \/ Spawn(c)
      BY <3>2 DEF Reuse, Spawn
    <3> QED BY <1>13, <3>1, <3>2, <3>3
  <2> QED BY <1>3, <2>1
<1>14. CASE \/ ResumeFails(c) \/ Send(c) \/ NoThread(c) \/ NotFound(c) \/ Unpersisted(c) \/ Abort(c) \/ Wait(c)
            \/ Interrupt(c) \/ Interrupted(c) \/ FoundAnother(c) \/ NoneActive(c) \/ PendingEnds(c) \/ InterruptFails(c)
  <2>1. CASE ResumeFails(c) \/ Send(c) \/ NoThread(c) \/ NotFound(c) \/ Unpersisted(c)
    BY <1>3, <2>1 DEF hostVars, ResumeFails, Send, NoThread, NotFound, Unpersisted
  <2>2. CASE Abort(c)
    BY <1>3, <2>2 DEF Abort
  <2>3. CASE \/ Wait(c) \/ Interrupt(c) \/ Interrupted(c) \/ FoundAnother(c) \/ NoneActive(c) \/ PendingEnds(c)
             \/ InterruptFails(c)
    <3>1. UNCHANGED <<sess, owner, fate>>
      BY <2>3
      DEF InterruptAgain, Resolved, Unresolved, hostVars, Wait, Interrupt, Interrupted, FoundAnother, NoneActive,
      PendingEnds, InterruptFails
    <3> QED BY <1>3, <3>1
  <2> QED BY <1>14, <2>1, <2>2, <2>3
<1>15. CASE Begins(c)
  <2>1. CASE \E o \in Sessions : Start(c, o)
    BY <1>4, <2>1
  <2>2. CASE \/ \E o \in Sessions, op \in Locked : Begin(c, op, o)
            \/ \E o \in Sessions, t \in Threads : Resume(c, o, t)
    <3>1. UNCHANGED <<sess, owner, fate>>
      BY <2>2 DEF Begin, Resume, hostVars
    <3> QED BY <1>3, <3>1
  <2> QED BY <1>15, <2>1, <2>2 DEF Begins
<1> QED BY <1>5, <1>6, <1>7, <1>8, <1>9, <1>10, <1>11, <1>12, <1>13, <1>14, <1>15 DEF Steps

-----------------------------------------------------------------------------
(* Turns and calls *)

\* What a step of a call does to the turns: those that are known stay what they are.
TurnKeeps == \A r \in Turns :
    /\ StillRuns(r)' => turn'[r] = turn[r]
    /\ Born(r) => Born(r)' /\ turn'[r].home = turn[r].home /\ turn'[r].conn = turn[r].conn
    /\ Born(r)' => Born(r) \/ (turn'[r].home \in Sessions /\ sess'[turn'[r].home].turn = r)
    /\ ~NotYet(r) => turn'[r] = turn[r]
    /\ Requested(r) => turn'[r].thread = turn[r].thread

\* A call that does not wait for an answer has no request, and no answer is on its way.
LEMMA NoneWaits ==
    ASSUME ReplyInv, NEW c \in Callers, call[c].pc # "asked"
    PROVE  (\A q \in requests : q.by # c) /\ \A k \in Conns : \A i \in 1 .. Len(wire[k]) : wire[k][i].by # c
BY DEF ReplyInv, RequestsOwn, RepliesOwn

\* Nobody asked for the turn of a call that goes on after an answer.
LEMMA NotRequested ==
    ASSUME ReplyInv, RequestInv, NEW c \in Callers, NEW r \in Turns, Asking(c, r), call[c].pc # "asked", ~GaveUp(c)
    PROVE  ~Requested(r)
<1>1. \A q \in requests : q.by # c
  BY NoneWaits
<1> QED BY <1>1 DEF Requested, RequestInv, WrittenFor

LEMMA SameTurns ==
    ASSUME UNCHANGED turn PROVE TurnKeeps
BY DEF TurnKeeps, Born

LEMMA CallTurns ==
    ASSUME TypeInv, ReplyInv, AskingInv, RequestInv, NEW c \in Callers, Steps(c)
    PROVE  TurnKeeps
<1>1. turn \in [Turns -> Turn]
  BY DEF TypeInv, TurnType
<1>2. PICK z \in Calls : z = call[c] /\ CallOK(z) /\ AskingOK(z)
  BY ThisCall DEF AskingInv
<1>3. ASSUME NEW r \in Turns, NEW y, turn' = [turn EXCEPT ![r] = y], y.at = "asked", NotYet(r), ~Requested(r),
             Born(r) => y.home = turn[r].home /\ y.conn = turn[r].conn,
             Born(r) \/ (y.home \in Sessions /\ sess'[y.home].turn = r)
      PROVE  TurnKeeps
  <2> SUFFICES ASSUME NEW g \in Turns
               PROVE  /\ StillRuns(g)' => turn'[g] = turn[g]
                      /\ Born(g) => Born(g)' /\ turn'[g].home = turn[g].home /\ turn'[g].conn = turn[g].conn
                      /\ Born(g)' => Born(g) \/ (turn'[g].home \in Sessions /\ sess'[turn'[g].home].turn = g)
                      /\ ~NotYet(g) => turn'[g] = turn[g]
                      /\ Requested(g) => turn'[g].thread = turn[g].thread
    BY DEF TurnKeeps
  <2>1. CASE g = r
    BY <1>1, <1>3, <2>1 DEF StillRuns, Born
  <2>2. CASE g # r
    <3>1. turn'[g] = turn[g]
      BY <1>1, <1>3, <2>2
    <3> QED BY <3>1 DEF Born
  <2> QED BY <2>1, <2>2
<1>4. CASE Mark(c)
  <2>1. z.pc = "clear" /\ z.op = "send"
    BY <1>2, <1>4, Zenon DEF Mark, At
  <2>2. z.s \in Sessions
    BY <1>2, <2>1 DEF CallOK
  <2>3. \/ UNCHANGED turn
        \/ \E r \in Turns :
              /\ Unborn(r)
              /\ sess' = [sess EXCEPT ![z.s].turn = r, ![z.s].stage = "sent", ![z.s].ignored = @ \cup z.seen]
              /\ turn' = [turn EXCEPT ![r] = [at |-> "asked", conn |-> z.conn, thread |-> z.thread, home |-> z.s]]
    BY <1>2, <1>4, Zenon DEF Mark
  <2>4. ASSUME NEW r \in Turns, Unborn(r),
               sess' = [sess EXCEPT ![z.s].turn = r, ![z.s].stage = "sent", ![z.s].ignored = @ \cup z.seen],
               turn' = [turn EXCEPT ![r] = [at |-> "asked", conn |-> z.conn, thread |-> z.thread, home |-> z.s]]
        PROVE  TurnKeeps
    <3>1. PICK y : y = [at |-> "asked", conn |-> z.conn, thread |-> z.thread, home |-> z.s]
      OBVIOUS
    <3>2. turn' = [turn EXCEPT ![r] = y] /\ y.at = "asked" /\ y.home = z.s
      BY <2>4, <3>1
    <3>3. ~Born(r) /\ NotYet(r)
      BY <2>4 DEF Unborn, Born, NotYet
    <3>4. ~Requested(r)
      BY <3>3, Nulls DEF Requested, TypeInv, BornRequests, Born
    <3>5. sess'[z.s].turn = r
      <4>1. sess \in [Sessions -> Session] /\ sess[z.s] \in Session
        BY <2>2 DEF TypeInv, SessType
      <4>2. PICK R : R = sess[z.s].ignored \cup z.seen
        OBVIOUS
      <4>3. sess'[z.s] = [sess[z.s] EXCEPT !.turn = r, !.stage = "sent", !.ignored = R]
        BY <2>2, <2>4, <4>1, <4>2
      <4> QED BY <4>1, <4>3 DEF Session
    <3> QED BY <1>3, <2>2, <3>2, <3>3, <3>4, <3>5
  <2> QED BY <2>3, <2>4, SameTurns
<1>5. ASSUME NEW t, AskAgain(c, t), z.op = "send", z.pc = "answered", z.for \in {"resume", "thread"},
             z.turn # None
      PROVE  TurnKeeps
  <2>1. PICK r \in Turns : r = z.turn
    BY <1>5 DEF Calls
  <2>2. Asking(c, r) /\ Missed(c) /\ ~GaveUp(c)
    BY <1>2, <1>5, <2>1 DEF Asking, Missed, GaveUp, Interrupting
  <2>3. NotYet(r) /\ ~Requested(r)
    BY <1>2, <1>5, <2>2, NotRequested DEF NotYet
  <2>4. PICK y : y = [turn[r] EXCEPT !.at = "asked", !.thread = t]
    OBVIOUS
  <2>5. turn' = [turn EXCEPT ![r] = y]
    BY <1>2, <1>5, <2>1, <2>4 DEF AskAgain
  <2>6. y.at = "asked" /\ y.home = turn[r].home /\ y.conn = turn[r].conn
    BY <1>1, <2>4 DEF Turn
  <2>7. Born(r)
    BY <1>2, <1>5, <2>1, Nulls DEF TypeInv, BornCalls, Born, Interrupting
  <2> QED BY <1>3, <2>3, <2>5, <2>6, <2>7
<1>6. CASE ThreadResumed(c) \/ Replaced(c)
  <2>1. z.op = "send" /\ z.pc = "answered" /\ z.for \in {"resume", "thread"} /\ \E t : AskAgain(c, t)
    BY <1>2, <1>6 DEF ThreadResumed, Replaced, Answered
  <2>2. z.turn # None
    BY <1>2, <1>6 DEF ThreadResumed, Replaced, Answered, AskingOK
  <2> QED BY <1>5, <2>1, <2>2
<1>7. CASE UNCHANGED turn
  BY <1>7, SameTurns
<1>8. CASE \/ Begins(c)
           \/ Enter(c) \/ Reuse(c) \/ Outdated(c) \/ Recycle(c) \/ Spawn(c) \/ SpawnFails(c)
           \/ Started(c) \/ StartFails(c) \/ Resumed(c) \/ ResumeFails(c) \/ ResumeEnds(c) \/ Reset(c)
           \/ ResetEnds(c) \/ Stop(c) \/ Send(c) \/ ThreadMade(c) \/ NoThread(c) \/ Own(c)
           \/ Apply(c) \/ NotFound(c) \/ Unpersisted(c) \/ SendFails(c) \/ BadInput(c) \/ Abort(c) \/ Wait(c)
           \/ AbortEnds(c) \/ Interrupt(c) \/ Interrupted(c) \/ FoundAnother(c) \/ NoneActive(c) \/ PendingEnds(c)
           \/ InterruptFails(c)
  BY <1>7, <1>8
  DEF Begins, Begin, Start, Resume, Unlinked, InterruptAgain, Resolved, Unresolved, serverVars, Enter, Reuse,
  Outdated, Recycle, Spawn, SpawnFails, Started, StartFails, Resumed, ResumeFails, ResumeEnds, Reset,
  ResetEnds, Stop, Send, ThreadMade, NoThread, Own, Apply, NotFound, Unpersisted, SendFails, BadInput, Abort, Wait,
  AbortEnds, Interrupt, Interrupted, FoundAnother, NoneActive, PendingEnds, InterruptFails
<1> QED BY <1>4, <1>6, <1>8 DEF Steps

\* What a step of a call does to the call: it hears of turns that a session shows, and if it
\* asks for a turn, then for one that nobody else asks for.
Asks1(c, q) ==
    /\ requests' = requests \cup {q} /\ q \in Request /\ q.by = c
    /\ q.for = call'[c].for /\ q.conn = call'[c].conn
    /\ q.for \in {"turn", "interrupt"} => q.turn = call'[c].turn /\ q.thread = call'[c].thread
    /\ q.for = "turn" => q.turn \in Turns /\ Asking(c, q.turn)' /\ turn'[q.turn].thread = q.thread
Moves(c) ==
    /\ AskingOK(call'[c])
    /\ Heard(call'[c]) \subseteq Heard(call[c]) \cup {r \in Turns : Shown(r)}
    /\ Interrupting(call'[c]) => InterruptOK(c)'
    /\ \A r \in Turns : Asking(c, r)' =>
           /\ turn'[r].conn = call'[c].conn /\ NotYet(r) /\ ~Requested(r)
           /\ \A d \in Callers \ {c} : ~Asking(d, r)
    /\ UNCHANGED requests \/ \E q \in Request : Asks1(c, q)
    /\ call'[c].op \in {"send", "abort"} => OwnOK(c)'

\* The own turns of a call when its session keeps those that run.
LEMMA OwnFrom ==
    ASSUME TypeInv, NEW c \in Callers, NEW N, SessMoves(N), TurnKeeps, OwnOK(c), call[c].s \in Sessions,
           CallOK(call'[c]), call'[c].s = call[c].s,
           \A r \in Mine(call'[c]) : r \in Mine(call[c]) \/ (Runs(r)' => sess'[call[c].s].turn = r),
           call'[c].seen \subseteq call[c].seen,
           \/ call'[c].seen = {}
           \/ call[c].turn # None /\ ~Interrupting(call[c])
           \/ /\ call'[c].conn = call[c].conn /\ call'[c].thread = call[c].thread
              /\ call'[c].turn = None \/ Interrupting(call'[c])
    PROVE  OwnOK(c)'
<1>1. PICK x \in Calls : x = call'[c] /\ CallOK(x)
  BY DEF CallOK
<1>2. x.seen \in SUBSET Turns /\ Mine(x) \in SUBSET Turns
  BY <1>1 DEF Calls, CallOK, Mine
<1>3. ASSUME NEW r \in Turns, Runs(r)' PROVE Runs(r) /\ turn'[r] = turn[r]
  BY <1>3 DEF Runs, SessMoves, Fates, TurnKeeps, StillRuns
<1>4. ASSUME NEW r \in Turns, Runs(r)', sess[call[c].s].turn = r PROVE sess'[call[c].s].turn = r
  <2>1. Fair(sess[call[c].s], sess'[call[c].s], N)
    BY DEF SessMoves
  <2> QED BY <1>3, <1>4, <2>1 DEF Runs, Fair
<1>5. ASSUME NEW r \in Mine(x), Runs(r)' PROVE sess'[call[c].s].turn = r
  <2>1. r \in Turns /\ Runs(r)
    BY <1>2, <1>3, <1>5
  <2> QED BY <1>1, <1>4, <1>5, <2>1 DEF OwnOK
<1>6. ASSUME NEW r \in x.seen, Runs(r)'
      PROVE  sess'[call[c].s].turn = r /\ ~Place(c, r)' /\ (x.turn = None \/ Interrupting(x))
  <2>1. r \in Turns /\ Runs(r) /\ turn'[r] = turn[r] /\ r \in call[c].seen
    BY <1>1, <1>2, <1>3, <1>6
  <2>2. sess[call[c].s].turn = r /\ ~Place(c, r) /\ (call[c].turn = None \/ Interrupting(call[c]))
    BY <2>1 DEF OwnOK
  <2>3. sess'[call[c].s].turn = r
    BY <1>4, <1>6, <2>1, <2>2
  <2>4. x.conn = call[c].conn /\ x.thread = call[c].thread /\ (x.turn = None \/ Interrupting(x))
    BY <1>1, <1>6, <2>2
  <2> QED BY <1>1, <2>1, <2>2, <2>3, <2>4 DEF Place
<1> QED BY <1>1, <1>5, <1>6 DEF OwnOK

\* A call that has not yet asked for its turn, or returns.
LEMMA PauseMoves ==
    ASSUME TypeInv, NEW c \in Callers, NEW x, call' = [call EXCEPT ![c] = x], x \in Calls, Early(x),
           x.pc = "idle" => x.op = "none",
           x.op = "send" => x.turn = None, x.op \in {"send", "abort"} /\ x.seen # {} => x.pc = "clear",
           x.todo \cup x.seen \subseteq Heard(call[c]) \cup {r \in Turns : Shown(r)},
           x.answer \in {call[c].answer, Lost}, UNCHANGED requests,
           x.op \in {"send", "abort"} => OwnOK(c)'
    PROVE  Moves(c)
<1>1. call'[c] = x
  BY ThisCall
<1>2. ~Interrupting(x)
  BY DEF Early, Interrupting
<1>3. AskingOK(x)
  BY DEF AskingOK, Early
<1>4. Heard(x) \subseteq Heard(call[c]) \cup {r \in Turns : Shown(r)}
  <2>1. x.answer.kind = "found" => x.answer = call[c].answer
    BY IdleOK
  <2>2. x.answer.kind = "found" => x.answer.turn \in Heard(call[c])
    BY <2>1 DEF Heard
  <2> QED BY <1>2, <2>2 DEF Heard
<1>5. \A r \in Turns : ~Asking(c, r)'
  BY <1>1, Nulls DEF Asking
<1> QED BY <1>1, <1>2, <1>3, <1>4, <1>5 DEF Moves

LEMMA ReturnsMove ==
    ASSUME TypeInv, NEW c \in Callers, Returns(c), UNCHANGED requests
    PROVE  Moves(c)
<1>1. /\ Idle \in Calls /\ Early(Idle) /\ Idle.op = "none" /\ Idle.todo = {} /\ Idle.seen = {}
      /\ Idle.answer = Lost
  BY IdleOK DEF Idle, Early, CallOK
<1>2. call' = [call EXCEPT ![c] = Idle]
  BY DEF Returns
<1> QED BY <1>1, <1>2, PauseMoves

\* A call begins.
LEMMA EmptyOwn ==
    ASSUME NEW c \in Callers, call'[c].todo = {}, call'[c].seen = {}, ~Interrupting(call'[c])
    PROVE  OwnOK(c)'
BY DEF OwnOK, Mine

LEMMA BeginMoves ==
    ASSUME TypeInv, NEW c \in Callers, Begins(c)
    PROVE  Moves(c)
<1>1. ASSUME NEW x, call' = [call EXCEPT ![c] = x], x \in Calls, x.pc \in {"gate", "link"}, x.turn = None,
             x.todo = {}, x.seen = {}, x.answer = Lost, UNCHANGED requests
      PROVE  Moves(c)
  <2>1. call'[c] = x
    BY <1>1, ThisCall
  <2>2. Early(x) /\ ~Interrupting(x)
    BY <1>1 DEF Early, Interrupting
  <2>3. OwnOK(c)'
    BY <1>1, <2>1, <2>2, EmptyOwn
  <2> QED BY <1>1, <2>2, <2>3, PauseMoves
<1>2. Idle \in Calls /\ Idle.turn = None /\ Idle.todo = {} /\ Idle.seen = {} /\ Idle.answer = Lost
  BY IdleOK DEF Idle, CallOK
<1>3. ASSUME NEW s \in Sessions, NEW op \in Locked, Begin(c, op, s) PROVE Moves(c)
  <2>1. PICK x : x = [Idle EXCEPT !.op = op, !.pc = "gate", !.s = s, !.gate = lock[s]]
    OBVIOUS
  <2>2. lock[s] \in 0 .. MaxLocks
    BY DEF TypeInv, LockType
  <2>3. x \in Calls /\ x.pc = "gate" /\ x.turn = None /\ x.todo = {} /\ x.seen = {} /\ x.answer = Lost
    BY <1>2, <2>1, <2>2 DEF Calls
  <2>4. call' = [call EXCEPT ![c] = x] /\ UNCHANGED requests
    BY <1>3, <2>1 DEF Begin, pipeVars
  <2> QED BY <1>1, <2>3, <2>4
<1>4. ASSUME NEW s \in Sessions, Start(c, s) PROVE Moves(c)
  <2>1. PICK x : x = [Idle EXCEPT !.op = "start", !.pc = "link", !.s = s]
    OBVIOUS
  <2>2. x \in Calls /\ x.pc = "link" /\ x.turn = None /\ x.todo = {} /\ x.seen = {} /\ x.answer = Lost
    BY <1>2, <2>1 DEF Calls
  <2>3. call' = [call EXCEPT ![c] = x] /\ UNCHANGED requests
    BY <1>4, <2>1 DEF Start, pipeVars
  <2> QED BY <1>1, <2>2, <2>3
<1>5. ASSUME NEW s \in Sessions, NEW t \in Threads, Resume(c, s, t) PROVE Moves(c)
  <2>1. PICK x : x = [Idle EXCEPT !.op = "resume", !.pc = "link", !.s = s, !.thread = t]
    OBVIOUS
  <2>2. x \in Calls /\ x.pc = "link" /\ x.turn = None /\ x.todo = {} /\ x.seen = {} /\ x.answer = Lost
    BY <1>2, <2>1 DEF Calls
  <2>3. call' = [call EXCEPT ![c] = x] /\ UNCHANGED requests
    BY <1>5, <2>1 DEF Resume, pipeVars
  <2> QED BY <1>1, <2>2, <2>3
<1> QED BY <1>3, <1>4, <1>5 DEF Begins

\* A call moves on before it works on a request.
LEMMA AdvanceMoves ==
    ASSUME TypeInv, AskingInv, OwnInv, NEW c \in Callers, NEW N, SessMoves(N), TurnKeeps, NEW z, z = call[c],
           z.pc # "idle", z.pc # "clear", Early(z) \/ (z.turn = None /\ ~Interrupting(z)),
           NEW x, CallOK(x), call' = [call EXCEPT ![c] = x], Early(x), x.pc # "idle", x.op = z.op, x.s = z.s, x.turn = z.turn,
           x.seen = z.seen, x.answer = z.answer, UNCHANGED requests,
           \A r \in x.todo : r \in z.todo \/ (r \in Turns /\ Shown(r)
                                              /\ (x.op \in {"send", "abort"} /\ Runs(r)' => sess'[z.s].turn = r))
    PROVE  Moves(c)
<1>1. call'[c] = x /\ x \in Calls /\ CallOK(z)
  BY ThisCall DEF CallOK
<1>2. z.s \in Sessions /\ ~Interrupting(x)
  BY <1>1 DEF CallOK, Early, Interrupting
<1>3. AskingOK(z)
  BY DEF AskingInv
<1>4. /\ x.op \in {"send", "abort"} => z.seen = {}
      /\ x.op = "send" => x.turn = None
      /\ ~Interrupting(z)
  BY <1>3 DEF AskingOK, Early, Interrupting
<1>5. x.op \in {"send", "abort"} => OwnOK(c)'
  <2> SUFFICES ASSUME x.op \in {"send", "abort"} PROVE OwnOK(c)'
    OBVIOUS
  <2>1. OwnOK(c)
    BY DEF OwnInv
  <2>2. \A r \in Mine(call'[c]) : r \in Mine(call[c]) \/ (Runs(r)' => sess'[call[c].s].turn = r)
    BY <1>1, <1>2 DEF Mine
  <2> QED BY <1>1, <1>2, <1>4, <2>1, <2>2, OwnFrom
<1>6. x.todo \cup x.seen \subseteq Heard(call[c]) \cup {r \in Turns : Shown(r)}
  BY <1>2 DEF Heard
<1> QED BY <1>1, <1>4, <1>5, <1>6, PauseMoves

\* A call asks for a thread.
LEMMA ThreadMoves ==
    ASSUME TypeInv, AskingInv, OwnInv, NEW c \in Callers, NEW N, SessMoves(N), TurnKeeps, NEW z, z = call[c],
           z.pc # "idle", ~Interrupting(z),
           NEW x, CallOK(x), call'[c] = x, x.pc = "asked", x.for \in {"thread", "resume"},
           x.op = z.op, x.s = z.s, x.turn = z.turn, x.todo = z.todo, x.seen = z.seen, x.answer = z.answer,
           NEW q \in Request, requests' = requests \cup {q}, q.by = c, q.for = x.for, q.conn = x.conn,
           \/ Early(z) /\ z.pc # "clear" /\ (x.op = "send" => x.for = "thread")
           \/ /\ ~Early(z) /\ x.op = "send" /\ x.conn = z.conn /\ x.turn \in Turns
              /\ NotYet(x.turn) /\ ~Requested(x.turn)
    PROVE  Moves(c)
<1>1. call'[c] = x /\ x \in Calls /\ CallOK(z) /\ AskingOK(z)
  BY ThisCall DEF CallOK, AskingInv
<1>2. z.s \in Sessions /\ ~Interrupting(x)
  BY <1>1 DEF CallOK, Interrupting
<1>3. x.op \in {"send", "abort"} => z.seen = {} \/ (x.turn # None /\ x.op = "send")
  BY <1>1, Nulls DEF AskingOK, Early, Interrupting
<1>4. AskingOK(x)
  BY <1>1, <1>3, Nulls DEF AskingOK, Early
<1>5. Heard(x) \subseteq Heard(z)
  BY <1>2 DEF Heard
<1>6. ASSUME NEW r \in Turns, Asking(c, r)'
      PROVE  /\ turn'[r].conn = x.conn /\ NotYet(r) /\ ~Requested(r)
             /\ \A d \in Callers \ {c} : ~Asking(d, r)
  <2>1. x.op = "send" /\ x.turn = r
    BY <1>1, <1>6 DEF Asking
  <2>2. ~Early(z) /\ x.conn = z.conn /\ NotYet(r) /\ ~Requested(r)
    BY <1>1, <2>1, Nulls DEF AskingOK
  <2>3. Asking(c, r)
    BY <2>1 DEF Asking
  <2>4. turn[r].conn = z.conn /\ \A d \in Callers \ {c} : ~Asking(d, r)
    BY <2>3 DEF AskingInv
  <2>5. Born(r)
    BY <2>1, Nulls DEF TypeInv, BornCalls, Born
  <2> QED BY <2>2, <2>4, <2>5 DEF TurnKeeps
<1>7. x.op \in {"send", "abort"} => OwnOK(c)'
  <2> SUFFICES ASSUME x.op \in {"send", "abort"} PROVE OwnOK(c)'
    OBVIOUS
  <2>1. OwnOK(c)
    BY DEF OwnInv
  <2>2. Mine(call'[c]) = Mine(call[c])
    BY <1>1, <1>2 DEF Mine
  <2> QED BY <1>1, <1>2, <1>3, <2>1, <2>2, OwnFrom
<1>8. Asks1(c, q)
  BY <1>1 DEF Asks1
<1> QED BY <1>1, <1>2, <1>4, <1>5, <1>6, <1>7, <1>8 DEF Moves

LEMMA LinkMoves ==
    ASSUME TypeInv, AskingInv, OwnInv, NEW c \in Callers, SessMoves({}), TurnKeeps, NEW k \in Conns,
           call[c].pc \in {"link", "spawn"}, Linked(c, k)
    PROVE  Moves(c)
<1>1. PICK z \in Calls : z = call[c] /\ CallOK(z)
  BY ThisCall
<1>2. Early(z) /\ z.pc \notin {"idle", "clear"}
  BY <1>1 DEF Early
<1>3. CASE UNCHANGED pipeVars /\ \E pc \in {"own", "clear"} : call' = [call EXCEPT ![c].conn = k, ![c].pc = pc]
  <2>1. PICK pc \in {"own", "clear"} : call' = [call EXCEPT ![c].conn = k, ![c].pc = pc]
    BY <1>3
  <2>2. PICK x : x = [z EXCEPT !.conn = k, !.pc = pc]
    OBVIOUS
  <2>3. x \in Calls
    BY <2>2 DEF Calls
  <2>4. /\ x.pc = pc /\ x.op = z.op /\ x.s = z.s /\ x.turn = z.turn /\ x.seen = z.seen /\ x.answer = z.answer
        /\ x.todo = z.todo /\ x.conn = k
    BY <2>2 DEF Calls
  <2>5. CallOK(x) /\ Early(x)
    BY <1>1, <1>2, <2>3, <2>4 DEF CallOK, Early, Interrupting
  <2>6. call' = [call EXCEPT ![c] = x]
    BY <1>1, <2>1, <2>2
  <2> QED BY <1>1, <1>2, <1>3, <2>4, <2>5, <2>6, AdvanceMoves DEF pipeVars
<1>4. CASE \E for \in {"thread", "resume"} :
              /\ z.op = "send" => for = "thread"
              /\ call' = [call EXCEPT ![c].conn = k, ![c].pc = "asked", ![c].for = for]
              /\ requests' = requests \cup {[by |-> c, conn |-> k, for |-> for, thread |-> z.thread, turn |-> None]}
  <2>1. PICK for \in {"thread", "resume"} :
            /\ z.op = "send" => for = "thread"
            /\ call' = [call EXCEPT ![c].conn = k, ![c].pc = "asked", ![c].for = for]
            /\ requests' = requests \cup {[by |-> c, conn |-> k, for |-> for, thread |-> z.thread, turn |-> None]}
    BY <1>4
  <2>2. PICK q : q = [by |-> c, conn |-> k, for |-> for, thread |-> z.thread, turn |-> None]
    OBVIOUS
  <2>3. q \in Request /\ q.by = c /\ q.for = for /\ q.conn = k /\ requests' = requests \cup {q}
    BY <2>1, <2>2 DEF Request, Calls
  <2>4. PICK x : x = [z EXCEPT !.conn = k, !.pc = "asked", !.for = for]
    OBVIOUS
  <2>5. x \in Calls
    BY <2>4 DEF Calls
  <2>6. /\ x.pc = "asked" /\ x.for = for /\ x.op = z.op /\ x.s = z.s /\ x.turn = z.turn /\ x.seen = z.seen
        /\ x.answer = z.answer /\ x.todo = z.todo /\ x.conn = k
    BY <2>4 DEF Calls
  <2>7. CallOK(x) /\ ~Interrupting(z)
    BY <1>1, <1>2, <2>5, <2>6 DEF CallOK, Early, Interrupting
  <2>8. call'[c] = x
    BY <1>1, <2>1, <2>4, ThisCall
  <2>9. Early(z) /\ z.pc # "clear" /\ (x.op = "send" => x.for = "thread")
    BY <1>2, <2>1, <2>6
  <2>10. z = call[c] /\ z.pc # "idle" /\ x.for \in {"thread", "resume"}
    BY <1>1, <1>2, <2>6
  <2> QED BY <2>3, <2>6, <2>7, <2>8, <2>9, <2>10, ThreadMoves
<1>5. \/ UNCHANGED pipeVars /\ \E pc \in {"own", "clear"} : call' = [call EXCEPT ![c].conn = k, ![c].pc = pc]
      \/ \E for \in {"thread", "resume"} :
            /\ z.op = "send" => for = "thread"
            /\ call' = [call EXCEPT ![c].conn = k, ![c].pc = "asked", ![c].for = for]
            /\ requests' = requests \cup {[by |-> c, conn |-> k, for |-> for, thread |-> z.thread, turn |-> None]}
  BY <1>1 DEF Linked
<1> QED BY <1>3, <1>4, <1>5

\* The thread or the process of a call.
LEMMA EarlyMoves ==
    ASSUME TypeInv, AskingInv, OwnInv, NEW c \in Callers, SessMoves({}), TurnKeeps,
           \/ Enter(c) \/ Outdated(c) \/ Recycle(c) \/ Reset(c) \/ Reuse(c) \/ Spawn(c)
    PROVE  Moves(c)
<1>1. PICK z \in Calls : z = call[c] /\ CallOK(z)
  BY ThisCall
<1>2. ASSUME NEW pc \in {"enter", "relink", "spawn", "link"}, Goes(c, pc), UNCHANGED pipeVars,
             z.pc \in {"gate", "link", "relink", "enter"}
      PROVE  Moves(c)
  <2>1. PICK x : x = [z EXCEPT !.pc = pc]
    OBVIOUS
  <2>2. x \in Calls
    BY <2>1 DEF Calls
  <2>3. /\ x.pc = pc /\ x.op = z.op /\ x.s = z.s /\ x.turn = z.turn /\ x.seen = z.seen /\ x.answer = z.answer
        /\ x.todo = z.todo
    BY <2>1 DEF Calls
  <2>4. CallOK(x) /\ Early(x) /\ Early(z) /\ z.pc \notin {"idle", "clear"}
    BY <1>1, <1>2, <2>2, <2>3 DEF CallOK, Early, Interrupting
  <2>5. call' = [call EXCEPT ![c] = x]
    BY <1>1, <1>2, <2>1 DEF Goes
  <2> QED BY <1>1, <1>2, <2>3, <2>4, <2>5, AdvanceMoves DEF pipeVars
<1>3. CASE Enter(c) \/ Outdated(c) \/ Recycle(c) \/ Reset(c)
  <2>1. /\ (\E pc \in {"enter", "relink", "spawn", "link"} : Goes(c, pc)) \/ Returns(c)
        /\ UNCHANGED pipeVars /\ z.pc \in {"gate", "link", "relink", "enter"}
    BY <1>1, <1>3 DEF Enter, Outdated, Recycle, Reset, At
  <2> QED BY <1>2, <2>1, ReturnsMove DEF pipeVars
<1>4. CASE Reuse(c) \/ Spawn(c)
  <2>1. slot \in {None} \cup Conns /\ conns \in Nat
    BY BoundAssumption DEF TypeInv, LinkType
  <2>2. Spawn(c) => conns + 1 \in Conns
    BY <2>1, BoundAssumption DEF Spawn, TypeInv, LinkType, Conns
  <2>3. call[c].pc \in {"link", "spawn"} /\ \E k \in Conns : Linked(c, k)
    BY <1>4, <2>1, <2>2 DEF Reuse, Spawn, At
  <2> QED BY <2>3, LinkMoves
<1> QED BY <1>3, <1>4

\* What a call finds to interrupt: the turn that its session shows, those it takes over.
LEMMA FindMoves ==
    ASSUME TypeInv, AskingInv, OwnInv, NEW c \in Callers, SessMoves({}), TurnKeeps,
           \/ Send(c) \/ Own(c) \/ Abort(c) \/ Wait(c)
    PROVE  Moves(c)
<1>1. PICK z \in Calls : z = call[c] /\ CallOK(z)
  BY ThisCall
<1>2. z.s \in Sessions
  BY <1>1 DEF Send, Own, Abort, Wait, At, CallOK
<1>3. PICK e : e = sess[z.s] /\ e = Of(c) /\ e \in Session /\ (Interruptible(e) => e.turn \in Turns)
  BY <1>1, <1>2, ShownTurn DEF Of, TypeInv, SessType
<1>4. ASSUME NEW R \in SUBSET Turns, NEW y \in {None} \cup Threads, NEW pc \in {"link", "wait", "clear"},
             NEW notes \in SUBSET {"used", "made"}, z.pc \in {"enter", "own", "wait"},
             call' = [call EXCEPT ![c].pc = pc, ![c].thread = y, ![c].todo = R, ![c].notes = notes],
             pc = "clear" => z.conn \in Conns, UNCHANGED requests,
             \A r \in R : r \in z.todo \/ (Shown(r) /\ (z.op \in {"send", "abort"} /\ Runs(r)' => sess'[z.s].turn = r))
      PROVE  Moves(c)
  <2>1. PICK x : x = [z EXCEPT !.pc = pc, !.thread = y, !.todo = R, !.notes = notes]
    OBVIOUS
  <2>2. x \in Calls
    BY <2>1 DEF Calls
  <2>3. /\ x.pc = pc /\ x.op = z.op /\ x.s = z.s /\ x.turn = z.turn /\ x.seen = z.seen /\ x.answer = z.answer
        /\ x.todo = R /\ x.conn = z.conn
    BY <2>1 DEF Calls
  <2>4. CallOK(x) /\ Early(x) /\ Early(z) /\ z.pc \notin {"idle", "clear"}
    BY <1>1, <1>4, <2>2, <2>3 DEF CallOK, Early, Interrupting
  <2>5. call' = [call EXCEPT ![c] = x]
    BY <1>1, <1>4, <2>1
  <2> QED BY <1>1, <1>4, <2>3, <2>4, <2>5, AdvanceMoves
<1>5. Interruptible(e) => Shown(e.turn)
  BY <1>2, <1>3 DEF Shown
<1>6. CASE Send(c)
  <2>1. z.pc = "enter" /\ UNCHANGED requests
    BY <1>1, <1>6 DEF Send, At, pipeVars
  <2>2. PICK R, notes : /\ R = IF e.thread # None /\ Interruptible(e) THEN {e.turn} ELSE {}
                        /\ notes = IF e.used THEN {"used"} ELSE {}
    OBVIOUS
  <2>3. \/ Returns(c)
        \/ call' = [call EXCEPT ![c].pc = "link", ![c].thread = e.thread, ![c].todo = R, ![c].notes = notes]
    BY <1>1, <1>3, <1>6, <2>2 DEF Send
  <2>4. R \in SUBSET Turns /\ notes \in SUBSET {"used", "made"} /\ e.thread \in {None} \cup Threads
    BY <1>3, <2>2 DEF Session
  <2>5. UNCHANGED sess
    BY <1>6 DEF Send, hostVars
  <2>6. \A r \in R : Shown(r) /\ sess'[z.s].turn = r
    BY <1>3, <1>5, <2>2, <2>5
  <2> QED BY <1>4, <2>1, <2>3, <2>4, <2>6, ReturnsMove
<1>7. CASE Abort(c)
  <2>1. z.pc = "enter" /\ UNCHANGED requests /\ UNCHANGED sess
    BY <1>1, <1>7 DEF Abort, At, pipeVars
  <2>2. PICK R, pc : /\ R = IF Interruptible(e) THEN {e.turn} ELSE {}
                     /\ pc = IF Interruptible(e) THEN "link" ELSE "wait"
    OBVIOUS
  <2>3. Returns(c) \/ call' = [call EXCEPT ![c].thread = e.thread, ![c].pc = pc, ![c].todo = R]
    BY <1>1, <1>3, <1>7, <2>2 DEF Abort
  <2>4. R \in SUBSET Turns /\ e.thread \in {None} \cup Threads /\ pc \in {"link", "wait"}
    BY <1>3, <2>2 DEF Session
  <2>5. \A r \in R : Shown(r) /\ sess'[z.s].turn = r
    BY <1>3, <1>5, <2>1, <2>2
  <2>6. CASE call' = [call EXCEPT ![c].thread = e.thread, ![c].pc = pc, ![c].todo = R]
    <3>1. PICK x : x = [z EXCEPT !.thread = e.thread, !.pc = pc, !.todo = R]
      OBVIOUS
    <3>2. x \in Calls
      BY <2>4, <3>1 DEF Calls
    <3>3. /\ x.pc \in {"link", "wait"} /\ x.op = z.op /\ x.s = z.s /\ x.turn = z.turn /\ x.seen = z.seen
          /\ x.answer = z.answer /\ x.todo = R /\ x.conn = z.conn
      BY <2>4, <3>1 DEF Calls
    <3>4. CallOK(x) /\ Early(x) /\ Early(z) /\ z.pc \notin {"idle", "clear"}
      BY <1>1, <2>1, <3>2, <3>3 DEF CallOK, Early, Interrupting
    <3>5. call' = [call EXCEPT ![c] = x]
      BY <1>1, <2>6, <3>1
    <3> QED BY <1>1, <2>1, <2>4, <2>5, <3>3, <3>4, <3>5, AdvanceMoves
  <2> QED BY <2>1, <2>3, <2>6, ReturnsMove
<1>8. CASE Wait(c)
  <2>1. z.pc = "wait" /\ UNCHANGED requests /\ UNCHANGED sess
    BY <1>1, <1>8 DEF Wait, At, pipeVars, hostVars
  <2>2. \/ Returns(c)
        \/ Interruptible(e) /\ call' = [call EXCEPT ![c].pc = "link", ![c].todo = {e.turn}]
    BY <1>1, <1>3, <1>8 DEF Wait
  <2>3. CASE Interruptible(e) /\ call' = [call EXCEPT ![c].pc = "link", ![c].todo = {e.turn}]
    <3>1. PICK x : x = [z EXCEPT !.pc = "link", !.todo = {e.turn}]
      OBVIOUS
    <3>2. x \in Calls
      BY <1>3, <2>3, <3>1 DEF Calls
    <3>3. /\ x.pc = "link" /\ x.op = z.op /\ x.s = z.s /\ x.turn = z.turn /\ x.seen = z.seen
          /\ x.answer = z.answer /\ x.todo = {e.turn} /\ x.conn = z.conn
      BY <3>1 DEF Calls
    <3>4. CallOK(x) /\ Early(x) /\ Early(z) /\ z.pc \notin {"idle", "clear"}
      BY <1>1, <2>1, <3>2, <3>3 DEF CallOK, Early, Interrupting
    <3>5. call' = [call EXCEPT ![c] = x]
      BY <1>1, <2>3, <3>1
    <3> QED BY <1>1, <1>3, <1>5, <2>1, <2>3, <3>3, <3>4, <3>5, AdvanceMoves
  <2> QED BY <2>1, <2>2, <2>3, ReturnsMove
<1>9. CASE Own(c)
  <2>1. z.pc = "own" /\ UNCHANGED requests
    BY <1>1, <1>9 DEF Own, At, pipeVars
  <2>2. PICK T : T = Taken(sess, z.thread, z.s)
    OBVIOUS
  <2>3. /\ call' = [call EXCEPT ![c].pc = "clear", ![c].todo = @ \cup T]
        /\ FateOf({}, z.thread, z.s, sess)
    BY <1>1, <1>9, <2>2 DEF Own
  <2>4. T \in SUBSET Turns
    BY <1>2, <2>2, TakeOK DEF TypeInv, SessType, Calls
  <2>5. \A r \in T : Shown(r) /\ fate'[r] # "ours"
    <3>1. \A r \in T : Shown(r)
      BY <2>2 DEF Taken, Others, Shown
    <3>2. \A r \in T : fate'[r] # "ours"
      BY <2>2, <2>3, <2>4 DEF FateOf, TypeInv, HostType
    <3> QED BY <3>1, <3>2
  <2>6. PICK x : x = [z EXCEPT !.pc = "clear", !.todo = @ \cup T]
    OBVIOUS
  <2>7. x \in Calls
    BY <2>4, <2>6 DEF Calls
  <2>8. /\ x.pc = "clear" /\ x.op = z.op /\ x.s = z.s /\ x.turn = z.turn /\ x.seen = z.seen
        /\ x.answer = z.answer /\ x.todo = z.todo \cup T /\ x.conn = z.conn
    BY <2>6 DEF Calls
  <2>9. CallOK(x) /\ Early(x) /\ Early(z) /\ z.pc \notin {"idle", "clear"}
    BY <1>1, <2>1, <2>7, <2>8 DEF CallOK, Early, Interrupting
  <2>10. call' = [call EXCEPT ![c] = x]
    BY <1>1, <2>3, <2>6
  <2>11. \A r \in x.todo : r \in z.todo \/ (r \in Turns /\ Shown(r) /\ ~Runs(r)')
    BY <2>4, <2>5, <2>8 DEF Runs
  <2> QED BY <1>1, <2>1, <2>8, <2>9, <2>10, <2>11, AdvanceMoves
<1> QED BY <1>6, <1>7, <1>8, <1>9

\* A call that has an answer returns, or begins once more with its new thread, or interrupts
\* the turns of the thread it has resumed.
LEMMA AnswerMoves ==
    ASSUME TypeInv, AskingInv, OwnInv, NEW c \in Callers, SessMoves({}), TurnKeeps, ThreadMade(c) \/ Resumed(c)
    PROVE  Moves(c)
<1>1. PICK z \in Calls : z = call[c] /\ CallOK(z) /\ AskingOK(z)
  BY ThisCall DEF AskingInv
<1>2. CASE ThreadMade(c)
  <2>1. z.pc = "answered" /\ z.for = "thread" /\ z.op = "send" /\ z.turn = None /\ UNCHANGED requests
    BY <1>1, <1>2 DEF ThreadMade, Answered, pipeVars
  <2>2. PICK x : x = [z EXCEPT !.pc = "enter", !.conn = None, !.notes = {"made"}]
    OBVIOUS
  <2>3. x \in Calls
    BY <2>2 DEF Calls
  <2>4. /\ x.pc = "enter" /\ x.op = z.op /\ x.s = z.s /\ x.turn = z.turn /\ x.seen = z.seen
        /\ x.answer = z.answer /\ x.todo = z.todo
    BY <2>2 DEF Calls
  <2>5. CallOK(x) /\ Early(x) /\ ~Interrupting(z)
    BY <1>1, <2>1, <2>3, <2>4 DEF CallOK, Early, Interrupting
  <2>6. call' = [call EXCEPT ![c] = x]
    BY <1>1, <1>2, <2>2 DEF ThreadMade
  <2> QED BY <1>1, <2>1, <2>4, <2>5, <2>6, AdvanceMoves
<1>3. CASE Resumed(c)
  <2> DEFINE S == [sess EXCEPT ![z.s] = [Fresh EXCEPT !.thread = z.thread, !.used = TRUE]]
  <2>1. z.pc = "answered" /\ z.for = "resume" /\ z.op = "resume" /\ UNCHANGED requests
    BY <1>1, <1>3 DEF Resumed, Answered, pipeVars
  <2>2. z.s \in Sessions /\ z.thread \in {None} \cup Threads
    BY <1>1, <2>1 DEF CallOK, Calls
  <2>3. SessOK([Fresh EXCEPT !.thread = z.thread, !.used = TRUE])
    BY <2>2 DEF SessOK, Absent, Fresh, Session, Running
  <2>4. /\ S \in [Sessions -> Session] /\ \A o \in Sessions : SessOK(S[o])
        /\ \A o \in Sessions \ {z.s} : S[o] = sess[o]
    BY <2>2, <2>3 DEF SessOK, TypeInv, SessType
  <2>5. PICK T : T = Taken(S, z.thread, z.s)
    OBVIOUS
  <2>6. call' = [call EXCEPT ![c].pc = "clear", ![c].todo = T]
    BY <1>1, <1>3, <2>5 DEF Resumed
  <2> HIDE DEF S
  <2>7. T \in SUBSET Turns
    BY <2>2, <2>4, <2>5, TakeOK
  <2>8. T \subseteq {r \in Turns : Shown(r)}
    BY <2>4, <2>5, <2>7 DEF Taken, Others, Shown
  <2>9. PICK x : x = [z EXCEPT !.pc = "clear", !.todo = T]
    OBVIOUS
  <2>10. x \in Calls
    BY <2>7, <2>9 DEF Calls
  <2>11. /\ x.pc = "clear" /\ x.op = z.op /\ x.s = z.s /\ x.seen = z.seen /\ x.answer = z.answer /\ x.todo = T
    BY <2>9 DEF Calls
  <2>12. call' = [call EXCEPT ![c] = x]
    BY <1>1, <2>6, <2>9
  <2>13. Early(x) /\ x.todo \cup x.seen \subseteq Heard(call[c]) \cup {r \in Turns : Shown(r)}
    BY <1>1, <2>8, <2>11 DEF Early, Heard
  <2>14. x.pc # "idle" /\ x.op # "send" /\ x.op \notin {"send", "abort"} /\ x.answer \in {call[c].answer, Lost}
    BY <1>1, <2>1, <2>11
  <2> QED BY <2>1, <2>10, <2>12, <2>13, <2>14, PauseMoves
<1> QED BY <1>2, <1>3

LEMMA DoneMoves ==
    ASSUME TypeInv, NEW c \in Callers,
           \/ SpawnFails(c) \/ Started(c) \/ StartFails(c) \/ ResumeFails(c) \/ ResumeEnds(c) \/ ResetEnds(c)
           \/ Stop(c) \/ NoThread(c) \/ Apply(c) \/ SendFails(c) \/ BadInput(c) \/ AbortEnds(c)
    PROVE  Moves(c)
<1>1. Returns(c) /\ UNCHANGED pipeVars
  BY DEF SpawnFails, Started, StartFails, ResumeFails, ResumeEnds, ResetEnds, Stop, NoThread, Apply, SendFails, BadInput, AbortEnds
<1> QED BY <1>1, ReturnsMove DEF pipeVars

\* A call asks for its turn.
LEMMA AskMoves ==
    ASSUME TypeInv, NEW c \in Callers, NEW z, z = call[c], ~Interrupting(z),
           NEW x, CallOK(x), call'[c] = x, x.pc = "asked", x.for = "turn", x.op = "send",
           x.todo = z.todo, x.seen = z.seen, x.answer = z.answer, x.turn \in Turns,
           NEW q \in Request, requests' = requests \cup {q}, q.by = c, q.for = "turn", q.conn = x.conn,
           q.turn = x.turn, q.thread = x.thread, turn'[x.turn].thread = x.thread, turn'[x.turn].conn = x.conn,
           NotYet(x.turn), ~Requested(x.turn), \A d \in Callers \ {c} : ~Asking(d, x.turn), OwnOK(c)'
    PROVE  Moves(c)
<1>1. ~Interrupting(x) /\ x.turn # None
  BY Nulls DEF Interrupting
<1>2. AskingOK(x)
  BY <1>1 DEF AskingOK, Early
<1>3. Heard(x) \subseteq Heard(z)
  BY <1>1 DEF Heard
<1>4. Asking(c, x.turn)'
  BY <1>1 DEF Asking
<1>5. \A r \in Turns : Asking(c, r)' => r = x.turn
  BY DEF Asking
<1>6. Asks1(c, q)
  BY <1>4 DEF Asks1
<1> QED BY <1>1, <1>2, <1>3, <1>5, <1>6 DEF Moves

LEMMA MarkMoves ==
    ASSUME TypeInv, AskingInv, OwnInv, NEW c \in Callers, SessMoves({}), TurnKeeps, Mark(c)
    PROVE  Moves(c)
<1>1. PICK z \in Calls : z = call[c] /\ CallOK(z) /\ AskingOK(z)
  BY ThisCall DEF AskingInv
<1>2. z.pc = "clear" /\ z.op = "send" /\ z.todo = {}
  BY <1>1, Zenon DEF Mark, At
<1>3. z.s \in Sessions /\ ~Interrupting(z) /\ z.conn \in Conns
  BY <1>1, <1>2 DEF CallOK, Interrupting
<1>4. \/ Returns(c) /\ UNCHANGED pipeVars
      \/ /\ GoesOn(c)
         /\ \E r \in Turns :
              /\ Unborn(r)
              /\ turn' = [turn EXCEPT ![r] = [at |-> "asked", conn |-> z.conn, thread |-> z.thread, home |-> z.s]]
              /\ call' = [call EXCEPT ![c].pc = "asked", ![c].for = "turn", ![c].turn = r]
              /\ Writes(c, "turn", z.thread, r)
  BY <1>1, Zenon DEF Mark
<1>5. ASSUME NEW r \in Turns, Unborn(r), GoesOn(c),
             turn' = [turn EXCEPT ![r] = [at |-> "asked", conn |-> z.conn, thread |-> z.thread, home |-> z.s]],
             call' = [call EXCEPT ![c].pc = "asked", ![c].for = "turn", ![c].turn = r],
             Writes(c, "turn", z.thread, r)
      PROVE  Moves(c)
  <2>1. PICK x : x = [z EXCEPT !.pc = "asked", !.for = "turn", !.turn = r]
    OBVIOUS
  <2>2. x \in Calls
    BY <2>1 DEF Calls
  <2>3. /\ x.pc = "asked" /\ x.for = "turn" /\ x.turn = r /\ x.op = z.op /\ x.s = z.s /\ x.seen = z.seen
        /\ x.answer = z.answer /\ x.todo = z.todo /\ x.conn = z.conn /\ x.thread = z.thread
    BY <2>1 DEF Calls
  <2>4. CallOK(x) /\ ~Interrupting(x)
    BY <1>1, <1>2, <1>3, <2>2, <2>3 DEF CallOK, Interrupting
  <2>5. call'[c] = x
    BY <1>1, <1>5, <2>1, ThisCall
  <2>6. PICK q : q = [by |-> c, conn |-> z.conn, for |-> "turn", thread |-> z.thread, turn |-> r]
    OBVIOUS
  <2>7. /\ q \in Request /\ q.by = c /\ q.for = "turn" /\ q.conn = z.conn /\ q.turn = r /\ q.thread = z.thread
        /\ requests' = requests \cup {q}
    BY <1>1, <1>3, <1>5, <2>6 DEF Request, Calls, Writes
  <2>8. turn'[r].conn = z.conn /\ turn'[r].thread = z.thread
    BY <1>5 DEF TypeInv, TurnType
  <2>9. ~Born(r) /\ NotYet(r)
    BY <1>5 DEF Unborn, Born, NotYet
  <2>10. ~Requested(r) /\ \A d \in Callers : ~Asking(d, r)
    BY <2>9, Nulls DEF Requested, Asking, TypeInv, BornRequests, BornCalls, Born
  <2>11. OwnOK(c)'
    <3>1. OwnOK(c)
      BY <1>1, <1>2 DEF OwnInv
    <3>2. ASSUME NEW g \in z.seen, Runs(g)' PROVE FALSE
      <4>1. g \in Turns
        BY DEF Calls
      <4>2. Runs(g)
        BY <3>2, <4>1 DEF Runs, SessMoves, Fates, TurnKeeps, StillRuns
      <4>3. g = Of(c).turn /\ ~Place(c, g)
        BY <1>1, <3>1, <4>2 DEF OwnOK, Of
      <4> QED BY <1>5, <3>2, <4>1, <4>2, <4>3, GoesOnFates DEF Runs
    <3> QED BY <1>2, <2>3, <2>4, <2>5, <3>2 DEF OwnOK, Mine
  <2>12. x.op = "send" /\ x.turn \in Turns /\ q.conn = x.conn /\ q.turn = x.turn /\ q.thread = x.thread
    BY <1>2, <2>3, <2>7
  <2>13. turn'[x.turn].thread = x.thread /\ turn'[x.turn].conn = x.conn
    BY <2>3, <2>8
  <2>14. NotYet(x.turn) /\ ~Requested(x.turn) /\ \A d \in Callers \ {c} : ~Asking(d, x.turn)
    BY <2>3, <2>9, <2>10
  <2> QED BY <1>1, <1>3, <2>3, <2>4, <2>5, <2>7, <2>11, <2>12, <2>13, <2>14, AskMoves
<1> QED BY <1>4, <1>5, ReturnsMove DEF pipeVars

\* It asks for it once more, or for its thread.
LEMMA AgainMoves ==
    ASSUME TypeInv, ReplyInv, AskingInv, RequestInv, OwnInv, NEW c \in Callers, SessMoves({}), TurnKeeps,
           NotFound(c) \/ Unpersisted(c) \/ ThreadResumed(c) \/ Replaced(c)
    PROVE  Moves(c)
<1>1. PICK z \in Calls : z = call[c] /\ CallOK(z) /\ AskingOK(z)
  BY ThisCall DEF AskingInv
<1>2. /\ z.pc = "answered" /\ z.op = "send" /\ z.for \in {"turn", "resume", "thread"} /\ z.turn # None
      /\ z.for = "turn" => z.answer.kind = "missing"
  BY <1>1 DEF NotFound, Unpersisted, ThreadResumed, Replaced, Answered, AskingOK
<1>3. PICK r \in Turns : r = z.turn
  BY <1>2 DEF Calls
<1>4. Asking(c, r) /\ Missed(c) /\ ~GaveUp(c) /\ ~Interrupting(z)
  BY <1>1, <1>2, <1>3 DEF Asking, Missed, GaveUp, Interrupting
<1>5. NotYet(r) /\ ~Requested(r)
  BY <1>1, <1>2, <1>4, NotRequested DEF NotYet
<1>6. /\ \A d \in Callers \ {c} : ~Asking(d, r)
      /\ turn[r].conn = z.conn /\ Born(r) /\ turn'[r].conn = z.conn
  <2>1. turn[r].conn = z.conn /\ \A d \in Callers \ {c} : ~Asking(d, r)
    BY <1>1, <1>4 DEF AskingInv
  <2>2. Born(r)
    BY <1>1, <1>2, <1>3, <1>4 DEF TypeInv, BornCalls, Born
  <2> QED BY <2>1, <2>2 DEF TurnKeeps
<1>7. z.s \in Sessions /\ z.conn \in Conns /\ z.thread \in {None} \cup Threads
      /\ z.answer.thread \in {None} \cup Threads
  BY <1>1, <1>2 DEF CallOK, Calls, Message
<1>8. ASSUME NEW for \in {"resume", "thread"}, NEW t \in {None, z.thread}, Writes(c, for, t, None),
             call' = [call EXCEPT ![c].pc = "asked", ![c].for = for]
      PROVE  Moves(c)
  <2>1. PICK x : x = [z EXCEPT !.pc = "asked", !.for = for]
    OBVIOUS
  <2>2. x \in Calls
    BY <2>1 DEF Calls
  <2>3. /\ x.pc = "asked" /\ x.for = for /\ x.turn = z.turn /\ x.op = z.op /\ x.s = z.s /\ x.seen = z.seen
        /\ x.answer = z.answer /\ x.todo = z.todo /\ x.conn = z.conn
    BY <2>1 DEF Calls
  <2>4. CallOK(x)
    BY <1>1, <1>2, <2>2, <2>3 DEF CallOK, Interrupting
  <2>5. call'[c] = x
    BY <1>1, <1>8, <2>1, ThisCall
  <2>6. PICK q : q = [by |-> c, conn |-> z.conn, for |-> for, thread |-> t, turn |-> None]
    OBVIOUS
  <2>7. q \in Request /\ q.by = c /\ q.for = for /\ q.conn = z.conn /\ requests' = requests \cup {q}
    BY <1>1, <1>7, <1>8, <2>6 DEF Request, Writes
  <2>8. ~Early(z) /\ x.op = "send" /\ x.turn \in Turns /\ NotYet(x.turn) /\ ~Requested(x.turn)
    BY <1>2, <1>3, <1>5, <2>3 DEF Early
  <2>9. q.for = x.for /\ q.conn = x.conn /\ x.conn = z.conn /\ x.for \in {"thread", "resume"} /\ z.pc # "idle"
    BY <1>2, <1>8, <2>3, <2>7
  <2>10. \/ Early(z) /\ z.pc # "clear" /\ (x.op = "send" => x.for = "thread")
         \/ /\ ~Early(z) /\ x.op = "send" /\ x.conn = z.conn /\ x.turn \in Turns
            /\ NotYet(x.turn) /\ ~Requested(x.turn)
    BY <2>8, <2>9
  <2>11. z = call[c] /\ z.pc # "idle" /\ ~Interrupting(z)
    BY <1>1, <1>4, <2>9
  <2> QED BY <2>3, <2>4, <2>5, <2>7, <2>9, <2>10, <2>11, ThreadMoves
<1>9. ASSUME NEW t \in {None} \cup Threads, AskAgain(c, t) PROVE Moves(c)
  <2>1. PICK N : N = z.notes \cup {"again"}
    OBVIOUS
  <2>2. PICK x : x = [z EXCEPT !.pc = "asked", !.for = "turn", !.thread = t, !.notes = N]
    OBVIOUS
  <2>3. x \in Calls
    <3>1. N \in SUBSET {"made", "used", "found", "hit", "again"}
      BY <2>1 DEF Calls
    <3> QED BY <2>2, <3>1 DEF Calls
  <2>4. /\ x.pc = "asked" /\ x.for = "turn" /\ x.turn = z.turn /\ x.op = z.op /\ x.s = z.s /\ x.seen = z.seen
        /\ x.answer = z.answer /\ x.todo = z.todo /\ x.conn = z.conn /\ x.thread = t
    BY <2>2 DEF Calls
  <2>5. CallOK(x) /\ ~Interrupting(x)
    BY <1>1, <1>2, <2>3, <2>4 DEF CallOK, Interrupting
  <2>6. call' = [call EXCEPT ![c].pc = "asked", ![c].for = "turn", ![c].thread = t, ![c].notes = N]
    BY <1>1, <1>9, <2>1 DEF AskAgain
  <2>7. call'[c] = x
    BY <1>1, <2>2, <2>6, ThisCall
  <2>8. PICK q : q = [by |-> c, conn |-> z.conn, for |-> "turn", thread |-> t, turn |-> r]
    OBVIOUS
  <2>9. /\ q \in Request /\ q.by = c /\ q.for = "turn" /\ q.conn = z.conn /\ q.turn = r /\ q.thread = t
        /\ requests' = requests \cup {q}
    BY <1>1, <1>3, <1>7, <1>9, <2>8 DEF Request, AskAgain, Writes
  <2>10. turn'[r].thread = t
    <3>1. turn \in [Turns -> Turn]
      BY DEF TypeInv, TurnType
    <3>2. PICK y : y = [turn[r] EXCEPT !.at = "asked", !.thread = t]
      OBVIOUS
    <3>3. turn' = [turn EXCEPT ![r] = y]
      BY <1>1, <1>3, <1>9, <3>2 DEF AskAgain
    <3> QED BY <3>1, <3>2, <3>3 DEF Turn
  <2>11. OwnOK(c)'
    <3>1. OwnOK(c)
      BY <1>1, <1>2 DEF OwnInv
    <3>2. Mine(x) = Mine(z)
      BY <1>4, <2>4, <2>5 DEF Mine
    <3> QED BY <1>1, <1>2, <1>4, <1>7, <2>4, <2>5, <2>7, <3>1, <3>2, OwnFrom
  <2> QED BY <1>1, <1>2, <1>3, <1>4, <1>5, <1>6, <2>4, <2>5, <2>7, <2>9, <2>10, <2>11, AskMoves
<1>10. CASE NotFound(c)
  BY <1>1, <1>8, <1>10 DEF NotFound
<1>11. CASE Unpersisted(c)
  BY <1>1, <1>8, <1>11 DEF Unpersisted
<1>12. CASE ThreadResumed(c)
  BY <1>1, <1>7, <1>9, <1>12 DEF ThreadResumed
<1>13. CASE Replaced(c)
  BY <1>1, <1>7, <1>9, <1>13 DEF Replaced
<1> QED BY <1>10, <1>11, <1>12, <1>13

-----------------------------------------------------------------------------
(* Interrupts *)

\* A call asks for the end of a turn.
LEMMA EndMoves ==
    ASSUME TypeInv, OwnInv, NEW c \in Callers, SessMoves({}), TurnKeeps, NEW z, z = call[c],
           z.pc # "idle",
           NEW x, CallOK(x), call'[c] = x, x.pc = "asked", x.for = "interrupt", x.op = z.op, x.s = z.s,
           x.conn = z.conn, x.thread = z.thread, x.todo = z.todo, x.seen = z.seen, x.answer = z.answer,
           x.from \in Mine(z), x.turn \in Heard(z), Writes(c, "interrupt", x.thread, x.turn), InterruptOK(c)'
    PROVE  Moves(c)
<1>1. Interrupting(x) /\ x.turn \in Turns /\ x \in Calls
  BY DEF Interrupting, CallOK
<1>2. AskingOK(x)
  BY <1>1 DEF AskingOK, Early
<1>3. Heard(x) \subseteq Heard(z)
  BY <1>1 DEF Heard, Mine
<1>4. \A r \in Turns : ~Asking(c, r)'
  BY <1>1 DEF Asking
<1>5. x.op \in {"send", "abort"} => OwnOK(c)'
  <2> SUFFICES ASSUME x.op \in {"send", "abort"} PROVE OwnOK(c)'
    OBVIOUS
  <2>1. OwnOK(c)
    BY DEF OwnInv
  <2>2. \A r \in Mine(call'[c]) : r \in Mine(call[c])
    BY <1>1 DEF Mine
  <2>3. call[c].s \in Sessions
    BY ThisCall DEF CallOK
  <2> QED BY <1>1, <2>1, <2>2, <2>3, OwnFrom
<1>6. \E q \in Request : Asks1(c, q)
  <2>1. PICK q : q = [by |-> c, conn |-> z.conn, for |-> "interrupt", thread |-> x.thread, turn |-> x.turn]
    OBVIOUS
  <2>2. z.conn \in Conns /\ x.thread \in {None} \cup Threads
    BY <1>1 DEF CallOK, Calls
  <2>3. /\ q \in Request /\ q.by = c /\ q.for = "interrupt" /\ q.conn = z.conn /\ q.turn = x.turn
        /\ q.thread = x.thread /\ requests' = requests \cup {q}
    BY <1>1, <2>1, <2>2 DEF Request, Writes
  <2> QED BY <2>3 DEF Asks1
<1> QED BY <1>1, <1>2, <1>3, <1>4, <1>5, <1>6 DEF Moves

LEMMA InterruptMoves ==
    ASSUME TypeInv, AskingInv, OwnInv, NEW c \in Callers, SessMoves({}), TurnKeeps, Interrupt(c)
    PROVE  Moves(c)
<1>1. PICK z \in Calls : z = call[c] /\ CallOK(z) /\ AskingOK(z)
  BY ThisCall DEF AskingInv
<1>2. z.pc = "clear"
  BY <1>1 DEF Interrupt, At
<1>3. PICK r \in z.todo :
          /\ call' = [call EXCEPT ![c].pc = "asked", ![c].for = "interrupt", ![c].turn = r, ![c].from = r,
                                  ![c].notes = @ \ {"found"}]
          /\ Writes(c, "interrupt", z.thread, r)
  BY <1>1 DEF Interrupt
<1>4. PICK N : N = z.notes \ {"found"}
  OBVIOUS
<1>5. PICK x : x = [z EXCEPT !.pc = "asked", !.for = "interrupt", !.turn = r, !.from = r, !.notes = N]
  OBVIOUS
<1>6. N \in SUBSET {"made", "used", "found", "hit", "again"} /\ "found" \notin N /\ r \in Turns
  BY <1>4 DEF Calls
<1>7. x \in Calls
  BY <1>5, <1>6 DEF Calls
<1>8. /\ x.pc = "asked" /\ x.for = "interrupt" /\ x.turn = r /\ x.from = r /\ x.op = z.op /\ x.s = z.s
      /\ x.conn = z.conn /\ x.thread = z.thread /\ x.todo = z.todo /\ x.seen = z.seen /\ x.answer = z.answer
      /\ x.notes = N
  BY <1>5 DEF Calls
<1>9. CallOK(x)
  BY <1>1, <1>2, <1>6, <1>7, <1>8 DEF CallOK, Interrupting
<1>10. call'[c] = x
  BY <1>1, <1>3, <1>4, <1>5, ThisCall
<1>11. InterruptOK(c)'
  BY <1>8, <1>10 DEF InterruptOK
<1>12. x.from \in Mine(z) /\ x.turn \in Heard(z)
  BY <1>8 DEF Mine, Heard
<1>13. Writes(c, "interrupt", x.thread, x.turn)
  BY <1>3, <1>8
<1> QED BY <1>1, <1>2, <1>8, <1>9, <1>10, <1>11, <1>12, <1>13, EndMoves

LEMMA AgainTypes ==
    ASSUME NEW z \in Calls, NEW r \in Turns, NEW N \in SUBSET {"made", "used", "found", "hit", "again"}
    PROVE  [z EXCEPT !.pc = "asked", !.for = "interrupt", !.turn = r, !.notes = N] \in Calls
BY DEF Calls

\* A call asks once more, for the turn that runs.
LEMMA AgainEnds ==
    ASSUME TypeInv, OwnInv, InterruptInv, NEW c \in Callers, SessMoves({}), TurnKeeps, NEW z, z = call[c],
           z.pc \in {"answered", "pending"}, Interrupting(z), NEW r, NEW notes \in SUBSET {"found"},
           InterruptAgain(c, r, notes), UNCHANGED turn,
           \/ r = z.turn /\ notes = {}
           \/ z.answer.kind = "found" /\ r = z.answer.turn /\ "found" \notin z.notes /\ notes = {"found"}
    PROVE  Moves(c)
<1>1. CallOK(z) /\ z \in Calls /\ InterruptOK(c)
  BY ThisCall DEF InterruptInv
<1>2. r \in Turns /\ r \in Heard(z)
  BY <1>1 DEF CallOK, Heard
<1>3. PICK N : N = z.notes \cup notes
  OBVIOUS
<1>4. PICK x : x = [z EXCEPT !.pc = "asked", !.for = "interrupt", !.turn = r, !.notes = N]
  OBVIOUS
<1>5. N \in SUBSET {"made", "used", "found", "hit", "again"}
  BY <1>1, <1>3 DEF Calls
<1>6. x \in Calls
  BY <1>1, <1>2, <1>4, <1>5, AgainTypes
<1>7. /\ x.pc = "asked" /\ x.for = "interrupt" /\ x.turn = r /\ x.from = z.from /\ x.op = z.op /\ x.s = z.s
      /\ x.conn = z.conn /\ x.thread = z.thread /\ x.todo = z.todo /\ x.seen = z.seen /\ x.answer = z.answer
      /\ x.notes = N
  BY <1>1, <1>4 DEF Calls
<1>8. CallOK(x)
  BY <1>1, <1>2, <1>6, <1>7 DEF CallOK, Interrupting
<1>9. call'[c] = x
  BY <1>3, <1>4, ThisCall DEF InterruptAgain
<1>10. InterruptOK(c)'
  <2>1. "found" \notin N => r = z.from
    BY <1>1, <1>3 DEF InterruptOK
  <2>2. r = z.from \/ (Begun(r) /\ Place(c, r) /\ ~Here(c, z.from))
    <3>1. CASE r = z.turn
      BY <1>1, <3>1 DEF InterruptOK
    <3>2. CASE z.answer.kind = "found" /\ r = z.answer.turn /\ "found" \notin z.notes
      BY <1>1, <3>2 DEF InterruptOK, Means
    <3> QED BY <3>1, <3>2
  <2>3. \A g : (Begun(g) <=> Begun(g)') /\ (Place(c, g) <=> Place(c, g)') /\ (StillRuns(g) <=> StillRuns(g)')
    BY <1>7, <1>9 DEF Begun, Place, StillRuns
  <2> QED BY <1>7, <1>9, <2>1, <2>2, <2>3 DEF InterruptOK, Here
<1>11. x.from \in Mine(z) /\ z.pc # "idle"
  BY <1>7 DEF Mine
<1>12. Writes(c, "interrupt", x.thread, x.turn)
  BY <1>7 DEF InterruptAgain
<1> QED BY <1>2, <1>7, <1>8, <1>9, <1>10, <1>11, <1>12, EndMoves

\* A call waits for its turn to begin.
LEMMA PendingMoves ==
    ASSUME TypeInv, OwnInv, InterruptInv, NEW c \in Callers, SessMoves({}), TurnKeeps, NEW z, z = call[c],
           z.pc = "answered", Interrupting(z), z.answer.kind = "none", Goes(c, "pending"), UNCHANGED <<turn, requests>>
    PROVE  Moves(c)
<1>1. CallOK(z) /\ z \in Calls /\ InterruptOK(c)
  BY ThisCall DEF InterruptInv
<1>2. PICK x : x = [z EXCEPT !.pc = "pending"]
  OBVIOUS
<1>3. x \in Calls
  BY <1>1, <1>2 DEF Calls
<1>4. /\ x.pc = "pending" /\ x.for = z.for /\ x.turn = z.turn /\ x.from = z.from /\ x.op = z.op /\ x.s = z.s
      /\ x.conn = z.conn /\ x.thread = z.thread /\ x.todo = z.todo /\ x.seen = z.seen /\ x.answer = z.answer
      /\ x.notes = z.notes
  BY <1>1, <1>2 DEF Calls
<1>5. call'[c] = x
  BY <1>2, ThisCall DEF Goes
<1>6. CallOK(x) /\ Interrupting(x)
  BY <1>1, <1>3, <1>4 DEF CallOK, Interrupting
<1>7. InterruptOK(c)'
  <2>1. \A g : (Begun(g) <=> Begun(g)') /\ (Place(c, g) <=> Place(c, g)') /\ (StillRuns(g) <=> StillRuns(g)')
    BY <1>4, <1>5 DEF Begun, Place, StillRuns
  <2>2. Means(c, z.answer)
    BY <1>1 DEF InterruptOK
  <2>3. x.answer.kind = "none" /\ (x.turn = x.from \/ turn'[x.turn].at = "over")
    BY <1>4, <2>2 DEF Means
  <2> QED BY <1>1, <1>4, <1>5, <2>1, <2>3 DEF InterruptOK, Here, Means
<1>8. AskingOK(x) /\ Heard(x) \subseteq Heard(z)
  BY <1>4, <1>6 DEF AskingOK, Early, Heard
<1>9. \A r \in Turns : ~Asking(c, r)'
  BY <1>5, <1>6 DEF Asking
<1>10. x.op \in {"send", "abort"} => OwnOK(c)'
  <2> SUFFICES ASSUME x.op \in {"send", "abort"} PROVE OwnOK(c)'
    OBVIOUS
  <2>1. OwnOK(c)
    BY <1>4 DEF OwnInv
  <2>2. \A r \in Mine(call'[c]) : r \in Mine(call[c])
    BY <1>4, <1>5, <1>6 DEF Mine
  <2>3. call[c].s \in Sessions
    BY <1>1 DEF CallOK
  <2> QED BY <1>4, <1>5, <1>6, <2>1, <2>2, <2>3, OwnFrom
<1> QED BY <1>5, <1>7, <1>8, <1>9, <1>10 DEF Moves

\* The turn of a call is over there.
LEMMA ResolvedMoves ==
    ASSUME TypeInv, Gone, OwnInv, InterruptInv, NEW c \in Callers, SessMoves({}), TurnKeeps, NEW z, z = call[c],
           z.pc \in {"answered", "pending"}, Interrupting(z), NEW notes \in SUBSET {"hit"}, Resolved(c, notes),
           \/ z.answer.kind = "ok"
           \/ z.answer.kind = "none" /\ LocalState(Of(c), z.turn) = "finished"
    PROVE  Moves(c)
<1>1. CallOK(z) /\ z \in Calls /\ InterruptOK(c) /\ z.s \in Sessions
  BY ThisCall DEF InterruptInv, CallOK
<1>2. PICK T, R, N : T = z.todo \ {z.from} /\ R = z.seen \cup {z.from, z.turn} /\ N = z.notes \cup notes
  OBVIOUS
<1>3. PICK x : x = [z EXCEPT !.pc = "clear", !.todo = T, !.seen = R, !.turn = None, !.notes = N]
  OBVIOUS
<1>4. /\ T \in SUBSET Turns /\ R \in SUBSET Turns /\ N \in SUBSET {"made", "used", "found", "hit", "again"}
      /\ z.from \in Turns /\ z.turn \in Turns
  BY <1>1, <1>2 DEF CallOK, Calls
<1>5. x \in Calls
  BY <1>1, <1>3, <1>4 DEF Calls
<1>6. /\ x.pc = "clear" /\ x.turn = None /\ x.op = z.op /\ x.s = z.s /\ x.conn = z.conn /\ x.thread = z.thread
      /\ x.todo = T /\ x.seen = R /\ x.answer = z.answer
  BY <1>1, <1>3 DEF Calls
<1>7. call' = [call EXCEPT ![c] = x] /\ UNCHANGED requests
  BY <1>2, <1>3, ThisCall DEF Resolved, pipeVars
<1>8. call'[c] = x /\ Early(x) /\ ~Interrupting(x)
  BY <1>6, <1>7, ThisCall DEF Early, Interrupting
<1>9. x.op \in {"send", "abort"} => OwnOK(c)'
  <2> SUFFICES ASSUME x.op \in {"send", "abort"} PROVE OwnOK(c)'
    OBVIOUS
  <2>1. OwnOK(c)
    BY <1>6 DEF OwnInv
  <2>2. ASSUME NEW r \in Turns, Runs(r)' PROVE Runs(r) /\ turn'[r] = turn[r]
    BY <2>2 DEF Runs, SessMoves, Fates, TurnKeeps, StillRuns
  <2>3. ASSUME NEW r \in Turns, Runs(r)', sess[z.s].turn = r PROVE sess'[z.s].turn = r
    <3>1. Fair(sess[z.s], sess'[z.s], {})
      BY <1>1 DEF SessMoves
    <3> QED BY <2>2, <2>3, <3>1 DEF Runs, Fair
  <2>4. ASSUME NEW r \in Mine(x), Runs(r)' PROVE sess'[z.s].turn = r
    <3>1. r \in Turns /\ r \in Mine(z)
      BY <1>2, <1>4, <1>6, <1>8, <2>4 DEF Mine
    <3> QED BY <2>1, <2>2, <2>3, <2>4, <3>1 DEF OwnOK
  <2>5. ASSUME NEW r \in {z.from, z.turn}, Runs(r) PROVE sess[z.s].turn = r /\ ~Place(c, r)
    <3>1. z.from \in Mine(z)
      BY DEF Mine
    <3>2. Means(c, z.answer)
      BY <1>1 DEF InterruptOK
    <3>3. CASE turn[z.turn].at = "over"
      <4>1. r = z.from /\ r # z.turn
        BY <2>5, <3>3 DEF Runs, StillRuns
      <4>2. ~Here(c, z.from)
        BY <1>1, <4>1 DEF InterruptOK
      <4> QED BY <2>1, <2>5, <3>1, <4>1, <4>2 DEF OwnOK, Here, Runs
    <3>4. CASE turn[z.turn].at # "over"
      <4>1. z.answer.kind = "none" /\ z.turn = z.from
        BY <3>2, <3>4 DEF Means
      <4>2. LocalState(Of(c), z.turn) = "finished"
        BY <4>1
      <4>3. ~sess[z.s].here \/ ~Running(sess[z.s])
        BY <4>2 DEF LocalState, Of
      <4>4. sess[z.s].turn = None
        BY <1>1, <4>3 DEF Gone, TypeInv, SessType, SessOK
      <4> QED BY <1>4, <2>1, <2>5, <3>1, <4>1, <4>4, Nulls DEF OwnOK
    <3> QED BY <3>3, <3>4
  <2>6. ASSUME NEW r \in R, Runs(r)' PROVE sess'[z.s].turn = r /\ ~Place(c, r)'
    <3>1. r \in Turns /\ Runs(r) /\ turn'[r] = turn[r]
      BY <1>4, <2>2, <2>6
    <3>2. sess[z.s].turn = r /\ ~Place(c, r)
      BY <1>2, <2>1, <2>5, <2>6, <3>1 DEF OwnOK
    <3> QED BY <1>6, <1>8, <2>3, <2>6, <3>1, <3>2 DEF Place
  <2> QED BY <1>6, <1>8, <2>4, <2>6 DEF OwnOK
<1>10. x.todo \cup x.seen \subseteq Heard(call[c]) \cup {r \in Turns : Shown(r)}
  BY <1>2, <1>6 DEF Heard
<1> QED BY <1>5, <1>6, <1>7, <1>8, <1>9, <1>10, PauseMoves

LEMMA UnresolvedMoves ==
    ASSUME TypeInv, NEW c \in Callers, call[c].pc # "idle", Interrupting(call[c]), Unresolved(c)
    PROVE  Moves(c)
<1>1. PICK z \in Calls : z = call[c] /\ CallOK(z)
  BY ThisCall
<1>2. UNCHANGED requests
  BY DEF Unresolved, pipeVars
<1>3. CASE z.op = "resume"
  <2>1. PICK T : T = z.todo \ {z.from}
    OBVIOUS
  <2>2. PICK x : x = [z EXCEPT !.pc = "clear", !.todo = T]
    OBVIOUS
  <2>3. T \in SUBSET Turns
    BY <2>1 DEF Calls
  <2>4. x \in Calls
    BY <2>2, <2>3 DEF Calls
  <2>5. x.pc = "clear" /\ x.op = "resume" /\ x.todo = T /\ x.seen = z.seen /\ x.answer = z.answer
    BY <1>3, <2>2 DEF Calls
  <2>6. call' = [call EXCEPT ![c] = x]
    BY <1>1, <1>3, <2>1, <2>2, ThisCall DEF Unresolved
  <2>7. Early(x) /\ x.todo \cup x.seen \subseteq Heard(call[c]) \cup {r \in Turns : Shown(r)}
    BY <1>1, <2>1, <2>5 DEF Early, Heard
  <2> QED BY <1>1, <1>2, <2>4, <2>5, <2>6, <2>7, PauseMoves
<1>4. CASE z.op # "resume"
  <2>1. Returns(c)
    BY <1>1, <1>4 DEF Unresolved
  <2> QED BY <1>2, <2>1, ReturnsMove
<1> QED BY <1>3, <1>4

LEMMA AnsweredMoves ==
    ASSUME TypeInv, Gone, OwnInv, InterruptInv, NEW c \in Callers, SessMoves({}), TurnKeeps,
           Interrupted(c) \/ FoundAnother(c) \/ NoneActive(c) \/ PendingEnds(c) \/ InterruptFails(c)
    PROVE  Moves(c)
<1>1. PICK z : z = call[c] /\ CallOK(z)
  BY ThisCall
<1>2. z.pc \in {"answered", "pending"} /\ Interrupting(z)
  BY <1>1 DEF Interrupted, FoundAnother, NoneActive, PendingEnds, InterruptFails, Interrupts, Answered, At,
              Interrupting, CallOK
<1>3. z.pc = "pending" => z.answer.kind = "none"
  BY <1>1, <1>2 DEF InterruptInv, InterruptOK
<1>4. CASE Interrupted(c)
  <2>1. z.answer.kind = "ok" /\ Resolved(c, {"hit"})
    BY <1>1, <1>4 DEF Interrupted, Interrupts, Answered
  <2> QED BY <1>1, <1>2, <2>1, ResolvedMoves
<1>5. CASE FoundAnother(c)
  <2>1. /\ z.answer.kind = "found" /\ "found" \notin z.notes /\ InterruptAgain(c, z.answer.turn, {"found"})
    BY <1>1, <1>5 DEF FoundAnother, Interrupts, Answered
  <2>2. UNCHANGED turn
    BY <2>1 DEF InterruptAgain, serverVars
  <2> QED BY <1>1, <1>2, <2>1, <2>2, AgainEnds
<1>6. CASE NoneActive(c) \/ PendingEnds(c)
  <2>1. z.answer.kind = "none" /\ (NoneActive(c) => z.pc = "answered")
    BY <1>1, <1>3, <1>6 DEF NoneActive, PendingEnds, Interrupts, Answered, At
  <2>2. \/ NoneActive(c) /\ Goes(c, "pending") /\ UNCHANGED <<turn, requests>>
        \/ InterruptAgain(c, z.turn, {})
        \/ LocalState(Of(c), z.turn) = "finished" /\ Resolved(c, {})
        \/ Unresolved(c)
    BY <1>1, <1>6 DEF NoneActive, PendingEnds, pipeVars, serverVars
  <2>3. CASE NoneActive(c) /\ Goes(c, "pending") /\ UNCHANGED <<turn, requests>>
    BY <1>1, <1>2, <2>1, <2>3, PendingMoves
  <2>4. CASE InterruptAgain(c, z.turn, {})
    <3>1. UNCHANGED turn
      BY <2>4 DEF InterruptAgain, serverVars
    <3> QED BY <1>1, <1>2, <2>4, <3>1, AgainEnds
  <2>5. CASE LocalState(Of(c), z.turn) = "finished" /\ Resolved(c, {})
    BY <1>1, <1>2, <2>1, <2>5, ResolvedMoves
  <2>6. CASE Unresolved(c)
    BY <1>1, <1>2, <2>6, UnresolvedMoves
  <2> QED BY <2>2, <2>3, <2>4, <2>5, <2>6
<1>7. CASE InterruptFails(c)
  BY <1>1, <1>2, <1>7, UnresolvedMoves DEF InterruptFails
<1> QED BY <1>4, <1>5, <1>6, <1>7

LEMMA CallMoves ==
    ASSUME TypeInv, ReplyInv, EndInv, NEW c \in Callers, Steps(c)
    PROVE  Moves(c) /\ TurnKeeps /\ (SessMoves({}) \/ (Apply(c) /\ SessMoves({call[c].turn})))
<1>1. TurnKeeps /\ (SessMoves({}) \/ Apply(c)) /\ (SessMoves({}) \/ (Apply(c) /\ SessMoves({call[c].turn})))
  BY CallFair, CallTurns DEF EndInv
<1>2. CASE \/ SpawnFails(c) \/ Started(c) \/ StartFails(c) \/ ResumeFails(c) \/ ResumeEnds(c) \/ ResetEnds(c)
           \/ Stop(c) \/ NoThread(c) \/ Apply(c) \/ SendFails(c) \/ BadInput(c) \/ AbortEnds(c)
  BY <1>1, <1>2, DoneMoves
<1>3. ASSUME SessMoves({}) PROVE Moves(c)
  <2>1. CASE Begins(c)
    BY <2>1, BeginMoves
  <2>2. CASE Enter(c) \/ Outdated(c) \/ Recycle(c) \/ Reset(c) \/ Reuse(c) \/ Spawn(c)
    BY <1>1, <1>3, <2>2, EarlyMoves DEF EndInv
  <2>3. CASE Send(c) \/ Own(c) \/ Abort(c) \/ Wait(c)
    BY <1>1, <1>3, <2>3, FindMoves DEF EndInv
  <2>4. CASE ThreadMade(c) \/ Resumed(c)
    BY <1>1, <1>3, <2>4, AnswerMoves DEF EndInv
  <2>5. CASE Mark(c)
    BY <1>1, <1>3, <2>5, MarkMoves DEF EndInv
  <2>6. CASE NotFound(c) \/ Unpersisted(c) \/ ThreadResumed(c) \/ Replaced(c)
    BY <1>1, <1>3, <2>6, AgainMoves DEF EndInv
  <2>7. CASE Interrupt(c)
    BY <1>1, <1>3, <2>7, InterruptMoves DEF EndInv
  <2>8. CASE Interrupted(c) \/ FoundAnother(c) \/ NoneActive(c) \/ PendingEnds(c) \/ InterruptFails(c)
    BY <1>1, <1>3, <2>8, AnsweredMoves DEF EndInv
  <2> QED BY <1>2, <2>1, <2>2, <2>3, <2>4, <2>5, <2>6, <2>7, <2>8 DEF Steps
<1> QED BY <1>1, <1>2, <1>3

-----------------------------------------------------------------------------
(* What every step does *)

\* Turns that are spoken of stay at their place and only move on; one is born to a session
\* that shows it.
Fine(r) == /\ turn'[r].conn = turn[r].conn /\ turn'[r].thread = turn[r].thread
           /\ StillRuns(r)' => StillRuns(r)
           /\ turn[r].at = "over" => turn'[r].at = "over"
           /\ Begun(r) => Begun(r)'
TurnFine ==
    /\ \A r \in Turns : ~NotYet(r) => Fine(r)
    /\ \A r \in Turns : Born(r) => Born(r)' /\ turn'[r].home = turn[r].home /\ turn'[r].conn = turn[r].conn
    /\ \A r \in Turns : Born(r)' => Born(r) \/ (turn'[r].home \in Sessions /\ sess'[turn'[r].home].turn = r)
    /\ \A r \in Turns : Requested(r) => turn'[r].thread = turn[r].thread

\* A call that does nothing, except that it may get its answer.
Sent(c, m) == \E k \in Conns : \E i \in 1 .. Len(wire[k]) : m = wire[k][i] /\ m.by = c
Hears(c) == \/ call'[c] = call[c]
            \/ call[c].pc = "asked" /\ \E m : MsgOK(m) /\ (m = Lost \/ Sent(c, m)) /\ call'[c] = Given(call[c], m)
Follows(x, z) == /\ x.op = z.op /\ x.s = z.s /\ x.conn = z.conn /\ x.thread = z.thread /\ x.turn = z.turn
                 /\ x.from = z.from /\ x.todo = z.todo /\ x.seen = z.seen /\ x.notes = z.notes /\ x.for = z.for

LEMMA KeepsFine == TurnKeeps => TurnFine
BY DEF TurnKeeps, TurnFine, Fine, StillRuns, Begun

LEMMA HearsFollow ==
    ASSUME TypeInv, NEW c \in Callers, Hears(c)
    PROVE  /\ Follows(call'[c], call[c]) /\ (Interrupting(call'[c]) <=> Interrupting(call[c])) /\ CallOK(call'[c])
           /\ \/ call'[c] = call[c]
              \/ /\ call[c].pc = "asked" /\ call'[c].pc = "answered"
                 /\ call'[c].answer = Lost \/ Sent(c, call'[c].answer)
<1>1. PICK z \in Calls : z = call[c] /\ CallOK(z)
  BY ThisCall
<1>2. CASE call'[c] = z
  BY <1>1, <1>2 DEF Follows
<1>3. CASE z.pc = "asked" /\ \E m : MsgOK(m) /\ (m = Lost \/ Sent(c, m)) /\ call'[c] = Given(z, m)
  <2>1. PICK m : MsgOK(m) /\ (m = Lost \/ Sent(c, m)) /\ call'[c] = Given(z, m)
    BY <1>3
  <2>2. PICK x : x = call'[c] /\ x = [z EXCEPT !.pc = "answered", !.answer = m]
    BY <2>1 DEF Given
  <2>3. Follows(x, z) /\ x.pc = "answered" /\ x.answer = m
    BY <2>2 DEF Calls, Follows
  <2>4. CallOK(x) /\ (Interrupting(x) <=> Interrupting(z))
    <3>1. x = Given(call[c], m) /\ call[c].pc = "asked"
      BY <1>1, <1>3, <2>1, <2>2
    <3> QED BY <1>1, <2>1, <3>1, GivenOK
  <2> QED BY <1>1, <1>3, <2>1, <2>2, <2>3, <2>4
<1> QED BY <1>1, <1>2, <1>3 DEF Hears

LEMMA RememberedStep ==
    ASSUME TypeInv, Remembered, TurnFine, NEW N, SessMoves(N)
    PROVE  Remembered' /\ Gone'
<1>1. Remembered'
  <2> SUFFICES ASSUME NEW r \in Turns, Born(r)', fate'[r] # "loose"
               PROVE  turn'[r].home \in Sessions /\ Refuses(sess'[turn'[r].home], r)
    BY DEF Remembered
  <2>1. CASE Born(r)
    <3>1. turn'[r].home = turn[r].home
      BY <2>1 DEF TurnFine
    <3>2. fate[r] # "loose"
      BY DEF SessMoves, Fates
    <3>3. turn[r].home \in Sessions /\ Refuses(sess[turn[r].home], r)
      BY <2>1, <3>2 DEF Remembered
    <3>4. Fair(sess[turn[r].home], sess'[turn[r].home], N)
      BY <3>3 DEF SessMoves
    <3> QED BY <3>1, <3>3, <3>4 DEF Fair
  <2>2. CASE ~Born(r)
    BY <2>2 DEF TurnFine, Refuses
  <2> QED BY <2>1, <2>2
<1>2. Gone'
  BY DEF Gone, SessMoves, Fair
<1> QED BY <1>1, <1>2

LEMMA ShownBack ==
    ASSUME NEW N, SessMoves(N), NEW r \in Turns, Shown(r)' PROVE Shown(r) \/ r \in N
<1>1. PICK s \in Sessions : Interruptible(sess'[s]) /\ sess'[s].turn = r
  BY DEF Shown
<1>2. Fair(sess[s], sess'[s], N)
  BY DEF SessMoves
<1> QED BY <1>1, <1>2 DEF Fair, Shown

LEMMA SilentStep ==
    ASSUME Silent, \A r \in Turns : NotYet(r)' => NotYet(r),
           \A r \in Turns : Known(r)' => Known(r) \/ ~NotYet(r) \/ ~NotYet(r)'
    PROVE  Silent'
BY DEF Silent

\* A call asks for its turn as before.
LEMMA AskingStays ==
    ASSUME TypeInv, AskingInv, NEW c \in Callers, Hears(c)
    PROVE  AskingOK(call'[c]) /\ \A r \in Turns : Asking(c, r)' => Asking(c, r)
<1>1. PICK x, z : x = call'[c] /\ z = call[c]
  OBVIOUS
<1>2. /\ Follows(x, z) /\ (Interrupting(x) <=> Interrupting(z))
      /\ x = z \/ (z.pc = "asked" /\ x.pc = "answered")
  BY <1>1, HearsFollow
<1>3. AskingOK(z)
  BY <1>1 DEF AskingInv
<1>4. AskingOK(x)
  BY <1>2, <1>3 DEF AskingOK, Follows, Early
<1> QED BY <1>1, <1>2, <1>4 DEF Asking, Follows

\* What a call has heard of was spoken of.
LEMMA HeardBack ==
    ASSUME TypeInv, NEW c \in Callers, Hears(c), NEW r \in Turns, r \in Heard(call'[c])
    PROVE  Known(r)
<1>1. PICK x, z : x = call'[c] /\ z = call[c]
  OBVIOUS
<1>2. /\ Follows(x, z) /\ (Interrupting(x) <=> Interrupting(z))
      /\ x = z \/ (z.pc = "asked" /\ x.pc = "answered" /\ (x.answer = Lost \/ Sent(c, x.answer)))
  BY <1>1, HearsFollow
<1>3. CASE r \in Heard(z)
  BY <1>1, <1>3 DEF Known
<1>4. CASE r \notin Heard(z)
  <2>1. x # z /\ x.answer.kind = "found" /\ r = x.answer.turn
    BY <1>1, <1>2, <1>4 DEF Heard, Follows
  <2>2. Sent(c, x.answer)
    BY <1>2, <2>1, IdleOK
  <2> QED BY <2>1, <2>2 DEF Sent, Told, Known
<1> QED BY <1>3, <1>4

\* What an answer says remains true.
LEMMA MeansStays ==
    ASSUME TypeInv, Silent, TurnFine, NEW c \in Callers, Interrupting(call[c]), Follows(call'[c], call[c]),
           NEW m, Means(c, m), m.kind = "found" => m.turn \in Turns /\ Known(m.turn)
    PROVE  Means(c, m)'
<1>1. PICK x, z : x = call'[c] /\ z = call[c]
  OBVIOUS
<1>2. z.turn \in Turns /\ x.turn = z.turn /\ x.from = z.from /\ x.conn = z.conn /\ x.thread = z.thread
  BY <1>1, ThisCall DEF CallOK, Follows
<1>3. Fine(z.turn)
  <2>1. z.turn \in Heard(z)
    BY <1>1 DEF Heard
  <2> QED BY <1>1, <1>2, <2>1 DEF Known, Silent, TurnFine
<1>4. m.kind = "found" => Fine(m.turn)
  BY DEF Silent, TurnFine
<1>5. m.kind = "ok" => turn'[x.turn].at = "over"
  BY <1>1, <1>2, <1>3 DEF Means, Fine
<1>6. m.kind = "none" => x.turn = x.from \/ turn'[x.turn].at = "over"
  BY <1>1, <1>2, <1>3 DEF Means, Fine
<1>7. ASSUME m.kind = "found" PROVE Begun(m.turn)' /\ Place(c, m.turn)' /\ ~Here(c, x.turn)'
  <2>1. Begun(m.turn) /\ Place(c, m.turn) /\ ~Here(c, z.turn)
    BY <1>1, <1>7 DEF Means
  <2>2. Begun(m.turn)' /\ Place(c, m.turn)'
    BY <1>1, <1>2, <1>4, <1>7, <2>1 DEF Fine, Place
  <2>3. turn'[z.turn].conn = turn[z.turn].conn /\ turn'[z.turn].thread = turn[z.turn].thread
        /\ (StillRuns(z.turn)' => StillRuns(z.turn))
    BY <1>3 DEF Fine
  <2>4. Here(c, x.turn)' => Here(c, z.turn)
    BY <1>1, <1>2, <2>3 DEF Here, Place, StillRuns
  <2> QED BY <2>1, <2>2, <2>4
<1> QED BY <1>1, <1>5, <1>6, <1>7 DEF Means

LEMMA InterruptStays ==
    ASSUME TypeInv, Silent, InterruptInv, TurnFine, NEW c \in Callers, Hears(c), Interrupting(call'[c])
    PROVE  InterruptOK(c)'
<1>1. PICK x, z : x = call'[c] /\ z = call[c]
  OBVIOUS
<1>2. /\ Follows(x, z) /\ Interrupting(z) /\ CallOK(x)
      /\ x = z \/ (z.pc = "asked" /\ x.pc = "answered" /\ (x.answer = Lost \/ Sent(c, x.answer)))
  BY <1>1, HearsFollow
<1>3. /\ x.turn = z.turn /\ x.from = z.from /\ x.conn = z.conn /\ x.thread = z.thread /\ x.notes = z.notes
      /\ z.turn \in Turns /\ z.from \in Turns
  BY <1>1, <1>2, ThisCall DEF Follows, CallOK
<1>4. InterruptOK(c)
  BY <1>1, <1>2 DEF InterruptInv
<1>5. Fine(z.turn) /\ Fine(z.from)
  <2>1. z.turn \in Heard(z) /\ z.from \in Heard(z)
    BY <1>2 DEF Heard
  <2> QED BY <1>1, <1>3, <2>1 DEF Known, Silent, TurnFine
<1>6. x.turn = x.from \/ (Begun(x.turn)' /\ Place(c, x.turn)' /\ ~Here(c, x.from)')
  <2> SUFFICES ASSUME z.turn # z.from PROVE Begun(x.turn)' /\ Place(c, x.turn)' /\ ~Here(c, x.from)'
    BY <1>3
  <2>1. Begun(z.turn) /\ Place(c, z.turn) /\ ~Here(c, z.from)
    BY <1>1, <1>4 DEF InterruptOK
  <2>2. Begun(z.turn)' /\ turn'[z.turn].conn = turn[z.turn].conn /\ turn'[z.turn].thread = turn[z.turn].thread
    BY <1>5, <2>1 DEF Fine
  <2>3. Begun(x.turn)' /\ Place(c, x.turn)'
    BY <1>1, <1>3, <2>1, <2>2 DEF Place, Begun
  <2>4. turn'[z.from].conn = turn[z.from].conn /\ turn'[z.from].thread = turn[z.from].thread
        /\ (StillRuns(z.from)' => StillRuns(z.from))
    BY <1>5 DEF Fine
  <2>5. Here(c, x.from)' => Here(c, z.from)
    BY <1>1, <1>3, <2>4 DEF Here, Place, StillRuns
  <2> QED BY <2>1, <2>3, <2>5
<1>7. x.pc \in {"answered", "pending"} => Means(c, x.answer)'
  <2> SUFFICES ASSUME x.pc \in {"answered", "pending"} PROVE Means(c, x.answer)'
    OBVIOUS
  <2>1. CASE x.answer = Lost
    BY <2>1, IdleOK DEF Means
  <2>2. CASE x = z
    <3>1. Means(c, z.answer)
      BY <1>1, <1>4, <2>2 DEF InterruptOK
    <3>2. z.answer.kind = "found" => z.answer.turn \in Turns /\ z.answer.turn \in Heard(z)
      BY <1>2, <2>2 DEF CallOK, Heard
    <3>3. z.answer.kind = "found" => Known(z.answer.turn)
      BY <1>1, <3>2 DEF Known
    <3>4. PICK m : m = z.answer
      OBVIOUS
    <3>5. Means(c, m)'
      BY <1>1, <1>2, <3>1, <3>2, <3>3, <3>4, MeansStays
    <3> QED BY <2>2, <3>4, <3>5
  <2>3. CASE Sent(c, x.answer)
    <3>1. PICK k \in Conns : \E i \in 1 .. Len(wire[k]) : x.answer = wire[k][i] /\ x.answer.by = c
      BY <2>3 DEF Sent
    <3>2. PICK i \in 1 .. Len(wire[k]) : x.answer = wire[k][i] /\ x.answer.by = c
      BY <3>1
    <3>3. Means(c, x.answer)
      BY <1>1, <1>2, <3>2 DEF InterruptInv
    <3>4. x.answer.kind = "found" => x.answer.turn \in Turns /\ Known(x.answer.turn)
      BY <1>2, <3>2 DEF CallOK, Known, Told
    <3>5. PICK m : m = x.answer
      OBVIOUS
    <3>6. Means(c, m)'
      BY <1>1, <1>2, <3>3, <3>4, <3>5, MeansStays
    <3> QED BY <3>5, <3>6
  <2> QED BY <1>2, <2>1, <2>2, <2>3
<1>8. x.pc = "pending" => x.answer.kind = "none"
  BY <1>1, <1>2, <1>4 DEF InterruptOK
<1>9. "found" \notin x.notes => x.turn = x.from
  BY <1>1, <1>3, <1>4 DEF InterruptOK
<1> QED BY <1>1, <1>6, <1>7, <1>8, <1>9 DEF InterruptOK

LEMMA OwnStays ==
    ASSUME TypeInv, AskingInv, Silent, OwnInv, TurnFine, NEW N, SessMoves(N), NEW c \in Callers, Hears(c),
           call'[c].op \in {"send", "abort"}
    PROVE  OwnOK(c)'
<1>1. PICK x, z : x = call'[c] /\ z = call[c]
  OBVIOUS
<1>2. Follows(x, z) /\ (Interrupting(x) <=> Interrupting(z)) /\ CallOK(z)
  BY <1>1, HearsFollow, ThisCall
<1>3. OwnOK(c) /\ z.s \in Sessions
  BY <1>1, <1>2 DEF OwnInv, Follows, CallOK, AskingInv, AskingOK
<1>4. Mine(x) = Mine(z) /\ Mine(z) \in SUBSET Turns /\ z.seen \in SUBSET Turns
  BY <1>2 DEF Mine, Follows, CallOK, Calls
<1>5. ASSUME NEW r \in Turns, r \in Mine(z) \cup z.seen, Runs(r)'
      PROVE  /\ Runs(r) /\ turn'[r].conn = turn[r].conn /\ turn'[r].thread = turn[r].thread
             /\ (sess[z.s].turn = r => sess'[z.s].turn = r)
  <2>1. r \in Heard(z)
    BY <1>5 DEF Mine, Heard
  <2>2. Fine(r)
    BY <1>1, <2>1 DEF Known, Silent, TurnFine
  <2>3. Runs(r)
    BY <1>5, <2>2 DEF Runs, Fine, SessMoves, Fates
  <2>4. Fair(sess[z.s], sess'[z.s], N)
    BY <1>3 DEF SessMoves
  <2> QED BY <1>5, <2>2, <2>3, <2>4 DEF Fine, Fair, Runs
<1>6. \A r \in Mine(x) : Runs(r)' => sess'[x.s].turn = r
  BY <1>1, <1>2, <1>3, <1>4, <1>5 DEF OwnOK, Follows
<1>7. ASSUME NEW r \in x.seen, Runs(r)' PROVE sess'[x.s].turn = r /\ ~Place(c, r)'
  <2>1. r \in Turns /\ r \in z.seen
    BY <1>2, <1>4, <1>7 DEF Follows
  <2>2. sess[z.s].turn = r /\ ~Place(c, r)
    BY <1>1, <1>3, <1>5, <1>7, <2>1 DEF OwnOK
  <2> QED BY <1>1, <1>2, <1>5, <1>7, <2>1, <2>2 DEF Follows, Place
<1>8. x.turn # None /\ ~Interrupting(x) => \A r \in x.seen : ~Runs(r)'
  BY <1>1, <1>2, <1>3, <1>4, <1>5 DEF OwnOK, Follows
<1> QED BY <1>1, <1>6, <1>7, <1>8 DEF OwnOK

\* A step of nobody's call: the calls at most get answers, requests are taken or lose their
\* caller, and what is new at the output is sound.
FromWire(m) == \E k \in Conns : \E i \in 1 .. Len(wire[k]) :
    /\ m.kind = wire[k][i].kind /\ m.turn = wire[k][i].turn
    /\ m.by \in Callers => wire[k][i].by = m.by
Missing1(c, m) == m.by = c /\ m.kind = "missing"
Sound(m) ==
    /\ m.turn \in Turns => Known(m.turn) \/ ~NotYet(m.turn)'
    /\ \A c \in Callers : m.by = c /\ Interrupting(call[c]) => Means(c, m)'
    /\ \A c \in Callers : Missing1(c, m) => \A r \in Turns : Asking(c, r) => NotYet(r)
OutputOK == \A k \in Conns : \A i \in 1 .. Len(wire'[k]) :
    \E m : m = wire'[k][i] /\ (FromWire(m) \/ Sound(m))
Stays(q, p) == /\ p.for = q.for /\ p.turn = q.turn /\ p.thread = q.thread /\ p.conn = q.conn
               /\ p.by = q.by \/ (p.by = NoCaller /\ (q.by \in Callers /\ q.for = "turn" => GaveUp(q.by)'))

LEMMA OldMeans ==
    ASSUME TypeInv, Silent, InterruptInv, TurnFine, NEW c \in Callers, Interrupting(call[c]),
           Follows(call'[c], call[c]), NEW m, FromWire(m), m.by = c
    PROVE  Means(c, m)'
<1>1. PICK k \in Conns : \E i \in 1 .. Len(wire[k]) :
          m.kind = wire[k][i].kind /\ m.turn = wire[k][i].turn /\ wire[k][i].by = c
  BY DEF FromWire
<1>2. PICK i \in 1 .. Len(wire[k]) : m.kind = wire[k][i].kind /\ m.turn = wire[k][i].turn /\ wire[k][i].by = c
  BY <1>1
<1>3. Means(c, m)
  <2>1. Means(c, wire[k][i])
    BY <1>2 DEF InterruptInv
  <2> QED BY <1>2, <2>1 DEF Means
<1>4. MsgOK(wire[k][i])
  BY DEF TypeInv, WireType
<1>5. m.kind = "found" => m.turn \in Turns /\ Known(m.turn)
  BY <1>2, <1>4 DEF MsgOK, Known, Told
<1> QED BY <1>3, <1>5, MeansStays

LEMMA EnvNotYet ==
    ASSUME TypeInv, AskingInv, TurnFine, \A c \in Callers : Hears(c),
           OutputOK,
           \A p \in requests' : \E q \in requests : Stays(q, p),
           NEW r \in Turns, NotYet(r)'
    PROVE  NotYet(r)
<1>1. CASE ~Born(r)'
  BY <1>1 DEF TurnFine, NotYet
<1>2. CASE Requested(r)'
  BY <1>2 DEF Requested, Stays, NotYet
<1>3. ASSUME NEW c \in Callers, Asking(c, r)', Missed(c)' PROVE NotYet(r)
  <2>1. Asking(c, r)
    BY <1>3, AskingStays
  <2>2. PICK x, z : x = call'[c] /\ z = call[c]
    OBVIOUS
  <2>3. /\ Follows(x, z)
        /\ x = z \/ (z.pc = "asked" /\ x.pc = "answered" /\ (x.answer = Lost \/ Sent(c, x.answer)))
    BY <2>2, HearsFollow
  <2>4. CASE x.for \in {"resume", "thread"}
    BY <2>1, <2>2, <2>3, <2>4 DEF Follows, Missed, NotYet
  <2>5. CASE x.pc = "answered" /\ x.answer.kind = "missing"
    <3>1. CASE x = z
      BY <2>1, <2>2, <2>5, <3>1 DEF Missed, NotYet
    <3>2. CASE Sent(c, x.answer)
      <4>1. Missing(c)
        BY <2>5, <3>2 DEF Sent, Missing
      <4> QED BY <2>1, <4>1 DEF Missed, NotYet
    <3> QED BY <2>3, <2>5, <3>1, <3>2, IdleOK
  <2>6. CASE Missing(c)'
    <3>1. PICK k \in Conns : \E i \in 1 .. Len(wire'[k]) : Missing1(c, wire'[k][i])
      BY <2>6 DEF Missing, Missing1
    <3>2. PICK m : Missing1(c, m) /\ (FromWire(m) \/ Sound(m))
      BY <3>1 DEF OutputOK
    <3>3. CASE FromWire(m)
      <4>1. Missing(c)
        BY <3>2, <3>3 DEF FromWire, Missing1, Missing
      <4> QED BY <2>1, <4>1 DEF Missed, NotYet
    <3>4. CASE Sound(m)
      BY <2>1, <3>2, <3>4 DEF Sound
    <3> QED BY <3>2, <3>3, <3>4
  <2> QED BY <1>3, <2>2, <2>4, <2>5, <2>6 DEF Missed
<1> QED BY <1>1, <1>2, <1>3 DEF NotYet

LEMMA EnvRequests ==
    ASSUME TypeInv, AskingInv, RequestInv, TurnFine, \A c \in Callers : Hears(c),
           NEW F, requests' \subseteq {F[q] : q \in requests}, \A q \in requests : Stays(q, F[q])
    PROVE  RequestInv'
<1>1. ASSUME NEW p \in requests' PROVE WrittenBy(p)'
  <2> SUFFICES ASSUME p.by \in Callers
               PROVE  /\ p.for = call'[p.by].for
                      /\ p.for \in {"turn", "interrupt"} =>
                             p.turn = call'[p.by].turn /\ p.thread = call'[p.by].thread
    BY DEF WrittenBy
  <2>1. PICK q \in requests : Stays(q, p)
    BY <1>1
  <2>2. q.by = p.by
    BY <2>1, Nulls DEF Stays
  <2>3. Follows(call'[p.by], call[p.by])
    BY HearsFollow
  <2>4. WrittenBy(q)
    BY DEF RequestInv
  <2> QED BY <2>1, <2>2, <2>3, <2>4 DEF WrittenBy, Stays, Follows
<1>2. ASSUME NEW p \in requests' PROVE WrittenFor(p)'
  <2> SUFFICES ASSUME p.for = "turn"
               PROVE  /\ p.turn \in Turns /\ turn'[p.turn].conn = p.conn /\ turn'[p.turn].thread = p.thread
                      /\ \A c \in Callers : Asking(c, p.turn)' => p.by = c \/ GaveUp(c)'
    BY DEF WrittenFor
  <2>1. PICK q \in requests : Stays(q, p)
    BY <1>2
  <2>2. q.for = "turn" /\ p.turn = q.turn /\ p.conn = q.conn /\ p.thread = q.thread /\ WrittenFor(q)
    BY <2>1 DEF Stays, RequestInv
  <2>3. q.turn \in Turns /\ turn[q.turn].conn = q.conn /\ turn[q.turn].thread = q.thread
    BY <2>2 DEF WrittenFor
  <2>4. Born(q.turn) /\ Requested(q.turn)
    BY <2>2, <2>3, ThisRequest, Nulls DEF Born, Requested
  <2>5. turn'[q.turn].conn = turn[q.turn].conn /\ turn'[q.turn].thread = turn[q.turn].thread
    BY <2>3, <2>4 DEF TurnFine
  <2>6. ASSUME NEW c \in Callers, Asking(c, p.turn)' PROVE p.by = c \/ GaveUp(c)'
    <3>1. Asking(c, q.turn)
      BY <2>2, <2>3, <2>6, AskingStays
    <3>2. CASE GaveUp(c)
      <4>1. call'[c] = call[c]
        BY <3>2 DEF GaveUp, Hears
      <4> QED BY <3>2, <4>1 DEF GaveUp
    <3>3. CASE q.by = c
      BY <2>1, <2>2, <3>3 DEF Stays
    <3> QED BY <2>2, <3>1, <3>2, <3>3 DEF WrittenFor
  <2> QED BY <2>2, <2>3, <2>5, <2>6
<1>3. ASSUME NEW p \in requests', NEW o \in requests', p.for = "turn", o.for = "turn", p.turn = o.turn
      PROVE  p = o
  <2>1. PICK q \in requests : p = F[q] /\ Stays(q, p)
    OBVIOUS
  <2>2. PICK h \in requests : o = F[h] /\ Stays(h, o)
    OBVIOUS
  <2>3. q = h
    BY <1>3, <2>1, <2>2 DEF Stays, RequestInv
  <2> QED BY <2>1, <2>2, <2>3
<1> QED BY <1>1, <1>2, <1>3 DEF RequestInv

LEMMA EnvStep ==
    ASSUME TypeInv, EndInv, TurnFine, NEW N, SessMoves(N), \A r \in Turns : r \in N => Known(r),
           \A c \in Callers : Hears(c),
           OutputOK,
           NEW F, requests' \subseteq {F[q] : q \in requests}, \A q \in requests : Stays(q, F[q]),
           \A r \in Turns : StillRuns(r)' => StillRuns(r) \/ ~NotYet(r)',
           OneRuns'
    PROVE  EndInv'
<1> USE DEF EndInv
<1>1. Remembered' /\ Gone'
  BY RememberedStep
<1>2. \A p \in requests' : \E q \in requests : Stays(q, p)
  OBVIOUS
<1>3. \A r \in Turns : NotYet(r)' => NotYet(r)
  BY <1>2, EnvNotYet
<1>4. Silent'
  <2> SUFFICES ASSUME NEW r \in Turns, Known(r)' PROVE Known(r) \/ ~NotYet(r) \/ ~NotYet(r)'
    BY <1>3, SilentStep
  <2>1. CASE StillRuns(r)'
    BY <2>1 DEF Known
  <2>2. CASE Shown(r)'
    BY <2>2, ShownBack DEF Known
  <2>3. CASE Told(r)'
    <3>1. PICK k \in Conns : \E i \in 1 .. Len(wire'[k]) : wire'[k][i].turn = r
      BY <2>3 DEF Told
    <3>2. PICK m : m.turn = r /\ (FromWire(m) \/ Sound(m))
      BY <3>1 DEF OutputOK
    <3>3. CASE FromWire(m)
      BY <3>2, <3>3 DEF FromWire, Told, Known
    <3>4. CASE Sound(m)
      BY <3>2, <3>4 DEF Sound
    <3> QED BY <3>2, <3>3, <3>4
  <2>4. ASSUME NEW c \in Callers, r \in Heard(call'[c]) PROVE Known(r)
    BY <2>4, HeardBack
  <2> QED BY <2>1, <2>2, <2>3, <2>4 DEF Known
<1>5. AskingInv'
  <2>1. \A c \in Callers : AskingOK(call'[c]) /\ \A r \in Turns : Asking(c, r)' => Asking(c, r)
    BY AskingStays
  <2>2. ASSUME NEW c \in Callers, NEW r \in Turns, Asking(c, r)' PROVE turn'[r].conn = call'[c].conn
    <3>1. Asking(c, r)
      BY <2>1, <2>2
    <3>2. turn[r].conn = call[c].conn
      BY <3>1 DEF AskingInv
    <3>3. Born(r)
      BY <3>1, Nulls DEF TypeInv, BornCalls, Born, Asking
    <3>4. call'[c].conn = call[c].conn
      BY HearsFollow DEF Follows
    <3> QED BY <3>2, <3>3, <3>4 DEF TurnFine
  <2>3. ASSUME NEW c \in Callers, NEW d \in Callers, NEW r \in Turns, Asking(c, r)', Asking(d, r)' PROVE c = d
    BY <2>1, <2>3 DEF AskingInv
  <2> QED BY <2>1, <2>2, <2>3 DEF AskingInv
<1>6. RequestInv'
  BY EnvRequests
<1>7. InterruptInv'
  <2>1. ASSUME NEW c \in Callers, Interrupting(call'[c]) PROVE InterruptOK(c)'
    BY <2>1, InterruptStays
  <2>2. ASSUME NEW k \in Conns, NEW i \in 1 .. Len(wire'[k]), NEW c \in Callers, wire'[k][i].by = c,
               Interrupting(call'[c])
        PROVE  Means(c, wire[k][i])'
    <3>1. Follows(call'[c], call[c]) /\ Interrupting(call[c])
      BY <2>2, HearsFollow
    <3>2. PICK m : m = wire'[k][i] /\ (FromWire(m) \/ Sound(m))
      BY DEF OutputOK
    <3>3. Means(c, m)'
      BY <2>2, <3>1, <3>2, OldMeans DEF Sound
    <3> QED BY <3>2, <3>3 DEF Means
  <2> QED BY <2>1, <2>2 DEF InterruptInv
<1>8. OwnInv'
  <2> SUFFICES ASSUME NEW c \in Callers, call'[c].op \in {"send", "abort"} PROVE OwnOK(c)'
    BY DEF OwnInv
  <2> QED BY OwnStays
<1> QED BY <1>1, <1>4, <1>5, <1>6, <1>7, <1>8

LEMMA OneRunsStays ==
    ASSUME OneRuns, Silent, TurnFine, \A r \in Turns : StillRuns(r)' => StillRuns(r)
    PROVE  OneRuns'
<1>1. \A r \in Turns : StillRuns(r)' => StillRuns(r) /\ turn'[r].conn = turn[r].conn /\ turn'[r].thread = turn[r].thread
  BY DEF Known, Silent, TurnFine, Fine
<1> QED BY <1>1 DEF OneRuns

\* The turn that a session comes to know from the answer to its call.
LEMMA AppliedTurn ==
    ASSUME TypeInv, ReplyInv, AskingInv, RequestInv, NEW c \in Callers, Apply(c), NEW r \in Turns, r = call[c].turn
    PROVE  ~NotYet(r)
<1>1. PICK z : z = call[c] /\ CallOK(z)
  BY ThisCall
<1>2. z.pc = "answered" /\ z.op = "send" /\ z.for = "turn" /\ z.answer.kind = "ok"
  BY <1>1 DEF Apply, Answered
<1>3. Asking(c, r) /\ ~GaveUp(c)
  BY <1>1, <1>2 DEF Asking, Interrupting, GaveUp
<1>4. Born(r)
  BY <1>1, <1>2, <1>3, Nulls DEF TypeInv, BornCalls, Born, Asking
<1>5. ~Requested(r)
  BY <1>1, <1>2, <1>3, NotRequested
<1>6. ASSUME NEW d \in Callers, Asking(d, r) PROVE ~Missed(d)
  <2>1. d = c
    BY <1>3, <1>6 DEF AskingInv
  <2>2. ~Missing(c)
    BY <1>1, <1>2, NoneWaits DEF Missing
  <2> QED BY <1>1, <1>2, <2>1, <2>2 DEF Missed
<1> QED BY <1>4, <1>5, <1>6 DEF NotYet

LEMMA CallNotYet ==
    ASSUME TypeInv, TurnFine, NEW c \in Callers, Moves(c), \A d \in Callers \ {c} : call'[d] = call[d],
           UNCHANGED wire, NEW r \in Turns, NotYet(r)'
    PROVE  NotYet(r)
<1>1. CASE ~Born(r)'
  BY <1>1 DEF TurnFine, NotYet
<1>2. CASE Requested(r)'
  <2>1. PICK q \in requests' : q.for = "turn" /\ q.turn = r
    BY <1>2 DEF Requested
  <2>2. CASE q \in requests
    BY <2>1, <2>2 DEF Requested, NotYet
  <2>3. CASE q \notin requests
    <3>1. Asks1(c, q)
      BY <2>1, <2>3 DEF Moves, Asks1
    <3>2. Asking(c, r)'
      BY <2>1, <3>1 DEF Asks1, Asking
    <3> QED BY <3>2 DEF Moves
  <2> QED BY <2>2, <2>3
<1>3. ASSUME NEW d \in Callers, Asking(d, r)', Missed(d)' PROVE NotYet(r)
  <2>1. CASE d = c
    BY <1>3, <2>1 DEF Moves
  <2>2. CASE d # c
    <3>1. call'[d] = call[d]
      BY <2>2
    <3>2. Asking(d, r) /\ Missed(d)
      BY <1>3, <3>1 DEF Asking, Missed, Missing
    <3> QED BY <3>2 DEF NotYet
  <2> QED BY <2>1, <2>2
<1> QED BY <1>1, <1>2, <1>3 DEF NotYet

LEMMA CallRequests ==
    ASSUME TypeInv, ReplyInv, RequestInv, TurnFine, NEW c \in Callers, call[c].pc # "asked", Moves(c),
           \A d \in Callers \ {c} : call'[d] = call[d]
    PROVE  RequestInv'
<1>1. ASSUME NEW q \in requests PROVE WrittenBy(q)' /\ WrittenFor(q)'
  <2>1. q.by # c /\ WrittenBy(q) /\ WrittenFor(q)
    BY NoneWaits DEF RequestInv
  <2>2. WrittenBy(q)'
    <3>1. q.by \in Callers => call'[q.by] = call[q.by]
      BY <2>1
    <3> QED BY <2>1, <3>1 DEF WrittenBy
  <2>3. WrittenFor(q)'
    <3> SUFFICES ASSUME q.for = "turn"
                 PROVE  /\ q.turn \in Turns /\ turn'[q.turn].conn = q.conn /\ turn'[q.turn].thread = q.thread
                        /\ \A d \in Callers : Asking(d, q.turn)' => q.by = d \/ GaveUp(d)'
      BY DEF WrittenFor
    <3>1. q.turn \in Turns /\ turn[q.turn].conn = q.conn /\ turn[q.turn].thread = q.thread
      BY <2>1 DEF WrittenFor
    <3>2. Requested(q.turn) /\ Born(q.turn)
      BY <3>1, ThisRequest, Nulls DEF Born, Requested
    <3>3. turn'[q.turn].conn = q.conn /\ turn'[q.turn].thread = q.thread
      BY <3>1, <3>2 DEF TurnFine
    <3>4. ASSUME NEW d \in Callers, Asking(d, q.turn)' PROVE q.by = d \/ GaveUp(d)'
      <4>1. d # c
        BY <3>1, <3>2, <3>4 DEF Moves
      <4>2. call'[d] = call[d]
        BY <4>1
      <4>3. Asking(d, q.turn)
        BY <3>4, <4>2 DEF Asking
      <4> QED BY <2>1, <4>2, <4>3 DEF WrittenFor, GaveUp
    <3> QED BY <3>1, <3>3, <3>4
  <2> QED BY <2>2, <2>3
<1>2. CASE UNCHANGED requests
  <2>1. \A q \in requests' : WrittenBy(q)' /\ WrittenFor(q)'
    BY <1>1, <1>2
  <2> QED BY <1>2, <2>1 DEF RequestInv
<1>3. ASSUME NEW q \in Request, Asks1(c, q) PROVE RequestInv'
  <2>1. WrittenBy(q)'
    BY <1>3 DEF Asks1, WrittenBy
  <2>2. WrittenFor(q)'
    <3> SUFFICES ASSUME q.for = "turn"
                 PROVE  /\ q.turn \in Turns /\ turn'[q.turn].conn = q.conn /\ turn'[q.turn].thread = q.thread
                        /\ \A d \in Callers : Asking(d, q.turn)' => q.by = d \/ GaveUp(d)'
      BY DEF WrittenFor
    <3>1. q.turn \in Turns /\ Asking(c, q.turn)' /\ turn'[q.turn].thread = q.thread
      BY <1>3 DEF Asks1
    <3>2. turn'[q.turn].conn = q.conn
      BY <1>3, <3>1 DEF Asks1, Moves
    <3>3. ASSUME NEW d \in Callers, Asking(d, q.turn)' PROVE d = c
      <4> SUFFICES ASSUME d # c PROVE FALSE
        OBVIOUS
      <4>1. call'[d] = call[d]
        OBVIOUS
      <4>2. Asking(d, q.turn)
        BY <3>3, <4>1 DEF Asking
      <4> QED BY <3>1, <4>2 DEF Moves
    <3> QED BY <1>3, <3>1, <3>2, <3>3 DEF Asks1
  <2>3. requests' = requests \cup {q}
    BY <1>3 DEF Asks1
  <2>4. \A p \in requests' : WrittenBy(p)' /\ WrittenFor(p)'
    BY <1>1, <2>1, <2>2, <2>3
  <2>5. ASSUME NEW p \in requests, p.for = "turn", q.for = "turn", p.turn = q.turn PROVE FALSE
    <3>1. q.turn \in Turns /\ Asking(c, q.turn)'
      BY <1>3, <2>5 DEF Asks1
    <3>2. ~Requested(q.turn)
      BY <3>1 DEF Moves
    <3> QED BY <2>5, <3>2 DEF Requested
  <2>6. \A p, o \in requests' : p.for = "turn" /\ o.for = "turn" /\ p.turn = o.turn => p = o
    BY <2>3, <2>5 DEF RequestInv
  <2> QED BY <2>4, <2>6 DEF RequestInv
<1> QED BY <1>2, <1>3 DEF Moves

LEMMA CallEnds ==
    ASSUME Inv, EndInv, NEW c \in Callers, Steps(c)
    PROVE  EndInv'
<1> USE DEF EndInv
<1>1. TypeInv /\ ReplyInv
  BY DEF Inv
<1>2. Moves(c) /\ TurnKeeps /\ (SessMoves({}) \/ (Apply(c) /\ SessMoves({call[c].turn})))
  BY <1>1, CallMoves
<1>3. TurnFine
  BY <1>2, KeepsFine
<1>4. call[c].pc # "asked" /\ UNCHANGED wire
  BY <1>1, PipeSteps DEF PipeStep
<1>5. \A d \in Callers \ {c} : call'[d] = call[d]
  BY <1>1, CallFine, TurnSteps DEF OneMoves
<1>6. \A d \in Callers \ {c} : Hears(d)
  BY <1>5 DEF Hears
<1>7. PICK N : SessMoves(N) /\ \A r \in Turns : r \in N => ~NotYet(r)
  <2>1. CASE SessMoves({})
    BY <2>1
  <2>2. CASE Apply(c) /\ SessMoves({call[c].turn})
    BY <1>1, <2>2, AppliedTurn
  <2> QED BY <1>2, <2>1, <2>2
<1>8. Remembered' /\ Gone'
  BY <1>1, <1>3, <1>7, RememberedStep
<1>9. \A r \in Turns : NotYet(r)' => NotYet(r)
  BY <1>1, <1>2, <1>3, <1>4, <1>5, CallNotYet
<1>10. Silent'
  <2> SUFFICES ASSUME NEW r \in Turns, Known(r)' PROVE Known(r) \/ ~NotYet(r) \/ ~NotYet(r)'
    BY <1>9, SilentStep
  <2>1. CASE StillRuns(r)'
    <3>1. turn'[r] = turn[r]
      BY <1>2, <2>1 DEF TurnKeeps
    <3> QED BY <2>1, <3>1 DEF StillRuns, Known
  <2>2. CASE Shown(r)'
    BY <1>7, <2>2, ShownBack DEF Known
  <2>3. CASE Told(r)'
    BY <1>4, <2>3 DEF Told, Known
  <2>4. ASSUME NEW d \in Callers, r \in Heard(call'[d]) PROVE Known(r)
    <3>1. CASE d = c
      BY <1>2, <2>4, <3>1 DEF Moves, Known
    <3>2. CASE d # c
      BY <1>5, <2>4, <3>2 DEF Known
    <3> QED BY <3>1, <3>2
  <2> QED BY <2>1, <2>2, <2>3, <2>4 DEF Known
<1>11. AskingInv'
  <2>1. ASSUME NEW d \in Callers, d # c
        PROVE  AskingOK(call'[d]) /\ \A r \in Turns : Asking(d, r)' => Asking(d, r)
    BY <1>1, <1>6, <2>1, AskingStays
  <2>2. \A d \in Callers : AskingOK(call'[d])
    BY <1>2, <2>1 DEF Moves
  <2>3. ASSUME NEW d \in Callers, NEW r \in Turns, Asking(d, r)' PROVE turn'[r].conn = call'[d].conn
    <3>1. CASE d = c
      BY <1>2, <2>3, <3>1 DEF Moves
    <3>2. CASE d # c
      <4>1. Asking(d, r) /\ call'[d] = call[d]
        BY <1>5, <2>1, <2>3, <3>2
      <4>2. Born(r)
        BY <1>1, <4>1, Nulls DEF TypeInv, BornCalls, Born, Asking
      <4> QED BY <1>3, <4>1, <4>2 DEF AskingInv, TurnFine
    <3> QED BY <3>1, <3>2
  <2>4. ASSUME NEW b \in Callers, NEW d \in Callers, NEW r \in Turns, Asking(b, r)', Asking(d, r)', b # d
        PROVE  FALSE
    <3>1. CASE b # c /\ d # c
      BY <2>1, <2>4, <3>1 DEF AskingInv
    <3>2. ASSUME b = c PROVE FALSE
      BY <1>2, <2>1, <2>4, <3>2 DEF Moves
    <3>3. ASSUME d = c PROVE FALSE
      BY <1>2, <2>1, <2>4, <3>3 DEF Moves
    <3> QED BY <3>1, <3>2, <3>3
  <2> QED BY <2>2, <2>3, <2>4 DEF AskingInv
<1>12. RequestInv'
  BY <1>1, <1>2, <1>3, <1>4, <1>5, CallRequests
<1>13. OneRuns'
  <2>1. \A r \in Turns : StillRuns(r)' => StillRuns(r) /\ turn'[r] = turn[r]
    BY <1>2 DEF TurnKeeps, StillRuns
  <2> QED BY <2>1 DEF OneRuns
<1>14. InterruptInv'
  <2>1. ASSUME NEW d \in Callers, Interrupting(call'[d]) PROVE InterruptOK(d)'
    <3>1. CASE d = c
      BY <1>2, <2>1, <3>1 DEF Moves
    <3>2. CASE d # c
      BY <1>1, <1>3, <1>6, <2>1, <3>2, InterruptStays
    <3> QED BY <3>1, <3>2
  <2>2. ASSUME NEW k \in Conns, NEW i \in 1 .. Len(wire[k]), NEW d \in Callers, wire[k][i].by = d,
               Interrupting(call'[d])
        PROVE  Means(d, wire[k][i])'
    <3>1. d # c
      BY <1>1, <1>4, <2>2, NoneWaits
    <3>2. Follows(call'[d], call[d]) /\ Interrupting(call[d])
      BY <1>5, <2>2, <3>1 DEF Follows
    <3>3. PICK m : m = wire[k][i] /\ FromWire(m)
      BY DEF FromWire
    <3>4. Means(d, m)'
      BY <1>1, <1>3, <2>2, <3>2, <3>3, OldMeans
    <3>5. wire'[k][i] = m
      BY <1>4, <3>3
    <3> QED BY <3>4, <3>5 DEF Means
  <2> QED BY <1>4, <2>1, <2>2 DEF InterruptInv
<1>15. OwnInv'
  <2> SUFFICES ASSUME NEW d \in Callers, call'[d].op \in {"send", "abort"} PROVE OwnOK(d)'
    BY DEF OwnInv
  <2>1. CASE d = c
    BY <1>2, <2>1 DEF Moves
  <2>2. CASE d # c
    BY <1>1, <1>3, <1>6, <1>7, <2>2, OwnStays
  <2> QED BY <2>1, <2>2
<1> QED BY <1>8, <1>10, <1>11, <1>12, <1>13, <1>14, <1>15

-----------------------------------------------------------------------------
(* Steps that leave the turns alone *)

LEMMA SameTurnFine == ASSUME UNCHANGED turn PROVE TurnFine
BY DEF TurnFine, Fine, Born, Begun, StillRuns

LEMMA ShorterOutput == ASSUME Shorter PROVE OutputOK
<1> SUFFICES ASSUME NEW k \in Conns, NEW i \in 1 .. Len(wire'[k])
             PROVE  \E m : m = wire'[k][i] /\ (FromWire(m) \/ Sound(m))
  BY DEF OutputOK
<1>1. PICK d \in {0, 1} : Shifts(k, d)
  BY DEF Shorter
<1>2. PICK m : m = wire'[k][i]
  OBVIOUS
<1>3. PICK j \in 1 .. Len(wire[k]) : m = wire[k][j]
  BY <1>1, <1>2 DEF Shifts
<1>4. FromWire(m)
  BY <1>3 DEF FromWire
<1> QED BY <1>2, <1>4

LEMMA QuietEnds ==
    ASSUME TypeInv, EndInv, UNCHANGED turn, NEW N, SessMoves(N), \A r \in Turns : r \in N => Known(r),
           \A c \in Callers : Hears(c), OutputOK, requests' \subseteq requests
    PROVE  EndInv'
<1>1. TurnFine
  BY SameTurnFine
<1>2. \A r \in Turns : StillRuns(r)' => StillRuns(r)
  BY DEF StillRuns
<1>3. OneRuns'
  BY <1>1, <1>2, OneRunsStays DEF EndInv
<1>4. PICK F : F = [q \in requests |-> q]
  OBVIOUS
<1>5. requests' \subseteq {F[q] : q \in requests} /\ \A q \in requests : Stays(q, F[q])
  BY <1>4 DEF Stays
<1> QED BY <1>1, <1>2, <1>3, <1>5, EnvStep

LEMMA RestEnds ==
    ASSUME Inv, EndInv, NEW s \in Sessions, Rest(s)
    PROVE  EndInv'
<1>1. TypeInv
  BY DEF Inv
<1>2. UNCHANGED <<call, turn, wire, requests>>
  BY DEF Rest, pipeVars, serverVars
<1>3. PICK e, f : e = sess[s] /\ f = Ended(e) /\ sess' = [sess EXCEPT ![s] = f] /\ LetGo({e.turn})
  BY DEF Rest
<1>4. f.turn = None /\ f.stage = "none" /\ e.ignored = f.ignored
  <2>1. e \in Session
    BY <1>1, <1>3 DEF TypeInv, SessType
  <2> QED BY <1>3, <2>1 DEF Ended, Session
<1>5. SessMoves({})
  BY <1>1, <1>3, <1>4, EndedFair DEF EndInv, Interruptible
<1>6. OutputOK
  BY <1>1, <1>2, SameOutput, ShorterOutput
<1>7. \A c \in Callers : Hears(c)
  BY <1>2 DEF Hears
<1> QED BY <1>1, <1>2, <1>5, <1>6, <1>7, QuietEnds

LEMMA StillEnds ==
    ASSUME TypeInv, EndInv, UNCHANGED <<sess, fate, call, turn, requests>>, Shorter
    PROVE  EndInv'
<1>1. SessMoves({})
  BY SameFair DEF EndInv
<1>2. OutputOK
  BY ShorterOutput
<1>3. \A c \in Callers : Hears(c)
  BY DEF Hears
<1> QED BY <1>1, <1>2, <1>3, QuietEnds

LEMMA TimesOutEnds ==
    ASSUME Inv, EndInv, NEW c \in Callers, TimesOut(c)
    PROVE  EndInv'
<1>1. TypeInv
  BY DEF Inv
<1>2. UNCHANGED <<sess, fate, turn>>
  BY DEF TimesOut, hostVars, serverVars
<1>3. /\ call[c].pc = "asked" /\ call'[c] = Given(call[c], Lost)
      /\ \A d \in Callers \ {c} : call'[d] = call[d]
  BY <1>1, ThisCall DEF TimesOut, Given, At
<1>4. \A d \in Callers : Hears(d)
  BY <1>3, LostOK DEF Hears
<1>5. SessMoves({})
  BY <1>2, SameFair DEF EndInv
<1>6. OutputOK
  <2> SUFFICES ASSUME NEW k \in Conns, NEW i \in 1 .. Len(wire'[k])
               PROVE  \E m : m = wire'[k][i] /\ FromWire(m)
    BY DEF OutputOK
  <2>1. wire[k] \in Seq(Message) /\ \A j \in 1 .. Len(wire[k]) : MsgOK(wire[k][j])
    BY <1>1 DEF TypeInv, WireType
  <2>2. PICK n \in Nat : n = Len(wire[k]) /\ DOMAIN wire[k] = 1 .. n
    BY <2>1, LenProperties
  <2>3. PICK w : w = wire'[k]
    OBVIOUS
  <2>4. w = [j \in 1 .. n |-> Forget(wire[k][j], c)]
    BY <2>2, <2>3 DEF TimesOut, Forget
  <2>5. \A j \in 1 .. n : w[j] \in Message
    <3> SUFFICES ASSUME NEW j \in 1 .. n PROVE w[j] \in Message
      OBVIOUS
    <3>1. MsgOK(wire[k][j]) /\ wire[k][j] \in Message
      BY <2>1, <2>2 DEF MsgOK
    <3>2. MsgOK(Forget(wire[k][j], c))
      BY <3>1, Forgotten
    <3> QED BY <2>4, <3>2 DEF MsgOK
  <2>6. w \in [1 .. n -> Message]
    BY <2>4, <2>5
  <2>7. Len(w) = n
    BY <2>6, SeqDef, LenProperties
  <2>8. PICK z \in Message : z = wire[k][i] /\ MsgOK(z) /\ i \in 1 .. Len(wire[k])
    BY <2>1, <2>2, <2>3, <2>7 DEF MsgOK
  <2>9. PICK m : m = wire'[k][i] /\ m = Forget(z, c)
    BY <2>2, <2>3, <2>4, <2>8
  <2>10. m.kind = z.kind /\ (m.by \in Callers => m.by = z.by)
    BY <2>8, <2>9, Forgotten
  <2>11. m.turn = z.turn
    BY <2>9 DEF Forget, Message
  <2>12. FromWire(m)
    BY <2>8, <2>10, <2>11 DEF FromWire
  <2> QED BY <2>9, <2>12
<1>7. PICK F : F = [q \in requests |-> [q EXCEPT !.by = IF @ = c THEN NoCaller ELSE @]]
  OBVIOUS
<1>8. requests' \subseteq {F[q] : q \in requests}
  <2>1. requests' = {[q EXCEPT !.by = IF @ = c THEN NoCaller ELSE @] : q \in requests}
    BY DEF TimesOut
  <2> QED BY <1>7, <2>1
<1>9. ASSUME NEW q \in requests PROVE Stays(q, F[q])
  <2>1. q \in Request
    BY <1>1, ThisRequest
  <2>2. PICK b \in Callers \cup {NoCaller} : b = IF q.by = c THEN NoCaller ELSE q.by
    BY <2>1 DEF Request
  <2>3. PICK p : p = F[q] /\ p = [q EXCEPT !.by = b]
    BY <1>7, <2>2
  <2>4. p.by = b /\ p.for = q.for /\ p.turn = q.turn /\ p.thread = q.thread /\ p.conn = q.conn
    BY <2>1, <2>3 DEF Request
  <2>5. ASSUME q.by = c, q.for = "turn" PROVE GaveUp(c)'
    <3>1. call[c].for = "turn"
      BY <2>5 DEF EndInv, RequestInv, WrittenBy
    <3>2. PICK z \in Calls : z = call[c]
      BY <1>1, ThisCall
    <3>3. PICK x : x = call'[c] /\ x = [z EXCEPT !.pc = "answered", !.answer = Lost]
      BY <1>3, <3>2 DEF Given
    <3>4. x.pc = "answered" /\ x.for = z.for /\ x.answer = Lost
      BY <3>3 DEF Calls
    <3> QED BY <3>1, <3>2, <3>3, <3>4, IdleOK DEF GaveUp
  <2> QED BY <2>2, <2>3, <2>4, <2>5 DEF Stays
<1>10. TurnFine
  BY <1>2, SameTurnFine
<1>11. \A r \in Turns : StillRuns(r)' => StillRuns(r)
  BY <1>2 DEF StillRuns
<1>12. OneRuns'
  BY <1>10, <1>11, OneRunsStays DEF EndInv
<1> QED BY <1>1, <1>4, <1>5, <1>6, <1>8, <1>9, <1>10, <1>11, <1>12, EnvStep

LEMMA RefusedEnds ==
    ASSUME Inv, EndInv, NEW c \in Callers, Refused(c)
    PROVE  EndInv'
<1>1. TypeInv /\ ReplyInv
  BY DEF Inv
<1>2. UNCHANGED <<sess, fate, turn, wire>>
  BY DEF Refused, hostVars, serverVars
<1>3. PICK q \in requests : /\ q.by = c /\ requests' = requests \ {q}
                            /\ call' = [call EXCEPT ![c].pc = "answered", ![c].answer = Lost]
  BY DEF Refused
<1>4. call'[c] = Given(call[c], Lost) /\ \A d \in Callers \ {c} : call'[d] = call[d]
  BY <1>1, <1>3, ThisCall DEF Given
<1>5. call[c].pc = "asked"
  BY <1>1, <1>3 DEF ReplyInv, RequestsOwn
<1>6. \A d \in Callers : Hears(d)
  BY <1>4, <1>5, LostOK DEF Hears
<1>7. SessMoves({})
  BY <1>2, SameFair DEF EndInv
<1>8. OutputOK
  BY <1>1, <1>2, SameOutput, ShorterOutput
<1> QED BY <1>1, <1>2, <1>3, <1>6, <1>7, <1>8, QuietEnds

LEMMA ReadReplyEnds ==
    ASSUME Inv, EndInv, NEW k \in Conns, ReadReply(k)
    PROVE  EndInv'
<1>1. TypeInv /\ ReplyInv
  BY DEF Inv
<1>2. UNCHANGED <<requests, sess, fate, turn>>
  BY DEF ReadReply, hostVars, serverVars
<1>3. Shorter /\ 1 \in 1 .. Len(wire[k]) /\ Head(wire[k]) = wire[k][1] /\ MsgOK(wire[k][1])
  BY <1>1, ReadStep DEF ReadReply
<1>4. PICK m : m = wire[k][1] /\ MsgOK(m)
  BY <1>3
<1>5. call' = [c \in Callers |-> IF c = m.by THEN Given(call[c], m) ELSE call[c]]
  BY <1>3, <1>4 DEF ReadReply, Given
<1>6. m.by \in Callers => call[m.by].pc = "asked" /\ Sent(m.by, m)
  BY <1>1, <1>3, <1>4 DEF ReplyInv, RepliesOwn, Sent
<1>7. ASSUME NEW c \in Callers PROVE Hears(c)
  BY <1>4, <1>5, <1>6 DEF Hears
<1>8. SessMoves({})
  BY <1>2, SameFair DEF EndInv
<1>9. OutputOK
  BY <1>3, ShorterOutput
<1> QED BY <1>1, <1>2, <1>7, <1>8, <1>9, QuietEnds

LEMMA ReaderEndsEnds ==
    ASSUME Inv, EndInv, NEW k \in Conns, ReaderEnds(k)
    PROVE  EndInv'
<1>1. TypeInv
  BY DEF Inv
<1>2. UNCHANGED <<sess, fate, turn, wire>> /\ requests' \subseteq requests
  BY DEF ReaderEnds, serverVars
<1>3. call' = [c \in Callers |-> IF call[c].pc = "asked" /\ call[c].conn = k THEN Given(call[c], Lost) ELSE call[c]]
  BY DEF ReaderEnds, Given
<1>4. \A c \in Callers : Hears(c)
  BY <1>3, LostOK DEF Hears
<1>5. SessMoves({})
  BY <1>2, SameFair DEF EndInv
<1>6. OutputOK
  BY <1>1, <1>2, SameOutput, ShorterOutput
<1> QED BY <1>1, <1>2, <1>4, <1>5, <1>6, QuietEnds

LEMMA ReadStartedEnds ==
    ASSUME Inv, EndInv, NEW k \in Conns, ReadStarted(k)
    PROVE  EndInv'
<1>1. TypeInv
  BY DEF Inv
<1>2. UNCHANGED <<requests, call, turn>>
  BY DEF ReadStarted, serverVars
<1>3. /\ Shorter /\ 1 \in 1 .. Len(wire[k]) /\ Head(wire[k]) = wire[k][1] /\ MsgOK(wire[k][1])
      /\ wire[k][1].kind \in {"started"}
  BY <1>1, ReadStep DEF ReadStarted
<1>4. PICK m : m = wire[k][1] /\ m = Head(wire[k])
  BY <1>3
<1>5. PICK g \in Turns : g = m.turn
  BY <1>3, <1>4 DEF MsgOK
<1>6. PICK S \in SUBSET Sessions : S = Receivers(m) /\ \A s \in S : sess[s].here
  <2>1. m.thread \in {None} \cup Threads
    BY <1>3, <1>4 DEF MsgOK, Message
  <2>2. Receivers(m) \in SUBSET Sessions
    BY <1>1, <2>1, RouteOK DEF Receivers
  <2> QED BY <2>2 DEF Receivers
<1>7. /\ sess' = [s \in Sessions |-> IF s \in S THEN [sess[s] EXCEPT !.turn = g, !.stage = "begun"] ELSE sess[s]]
      /\ LetGo({sess[s].turn : s \in S} \ {g})
  BY <1>4, <1>5, <1>6 DEF ReadStarted
<1>8. Fates /\ \A r \in Turns : fate'[r] # "loose" => r \notin {sess[s].turn : s \in S} \ {g}
  BY <1>1, <1>7, LetGoFates
<1>9. SessMoves({g})
  <2> SUFFICES ASSUME NEW s \in Sessions PROVE Fair(sess[s], sess'[s], {g})
    BY <1>8 DEF SessMoves
  <2>1. CASE s \notin S
    <3>1. sess'[s] = sess[s]
      BY <1>7, <2>1
    <3> QED BY <3>1, FairMore DEF EndInv, Gone
  <2>2. CASE s \in S
    <3>1. PICK e \in Session : e = sess[s] /\ e.here
      BY <1>1, <1>6, <2>2 DEF TypeInv, SessType
    <3>2. PICK f : f = sess'[s] /\ f = [e EXCEPT !.turn = g, !.stage = "begun"]
      BY <1>7, <2>2, <3>1
    <3>3. f.turn = g /\ f.here = e.here /\ f.ignored = e.ignored
      BY <3>1, <3>2 DEF Session
    <3>4. \A r \in Turns : e.turn = r /\ fate'[r] # "loose" => r = g
      BY <1>8, <2>2, <3>1
    <3>5. \A r \in Turns : e.turn = r /\ fate'[r] = "ours" => r = g
      BY <3>4
    <3>6. Fair(e, f, {g})
      BY <3>1, <3>3, <3>4, <3>5 DEF Fair, Refuses
    <3> QED BY <3>1, <3>2, <3>6
  <2> QED BY <2>1, <2>2
<1>10. Known(g)
  BY <1>3, <1>4, <1>5 DEF Known, Told
<1>11. OutputOK
  BY <1>3, ShorterOutput
<1>12. \A c \in Callers : Hears(c)
  BY <1>2 DEF Hears
<1> QED BY <1>1, <1>2, <1>9, <1>10, <1>11, <1>12, QuietEnds

LEMMA ReadThreadEnds ==
    ASSUME Inv, EndInv, NEW k \in Conns, ReadThread(k)
    PROVE  EndInv'
<1>1. TypeInv
  BY DEF Inv
<1>2. UNCHANGED <<requests, call, turn, fate>>
  BY DEF ReadThread, serverVars
<1>3. Shorter /\ Head(wire[k]) = wire[k][1] /\ MsgOK(wire[k][1]) /\ wire[k][1].kind = "thread"
  BY <1>1, ReadStep DEF ReadThread
<1>4. PICK t \in Threads : t = Head(wire[k]).thread
  BY <1>3 DEF MsgOK
<1>5. UNCHANGED sess \/ \E s \in Sessions : sess' = [sess EXCEPT ![s].thread = t]
  <2>1. Route(t) \subseteq Sessions /\ Route(None) \subseteq Sessions
    BY <1>1, RouteOK
  <2> QED BY <1>4, <2>1 DEF ReadThread
<1>6. SessMoves({})
  <2>1. CASE UNCHANGED sess
    BY <1>2, <2>1, SameFair DEF EndInv
  <2>2. ASSUME NEW s \in Sessions, sess' = [sess EXCEPT ![s].thread = t] PROVE SessMoves({})
    <3>1. PICK e \in Session : e = sess[s]
      BY <1>1 DEF TypeInv, SessType
    <3>2. PICK f : f = [e EXCEPT !.thread = t]
      OBVIOUS
    <3>3. f.turn = e.turn /\ f.here = e.here /\ f.stage = e.stage /\ f.ignored = e.ignored
      BY <3>1, <3>2 DEF Session
    <3>4. e.here \/ e.turn = None
      BY <3>1 DEF EndInv, Gone
    <3>5. Fair(e, f, {})
      BY <3>3, <3>4, FairMore DEF Interruptible
    <3>6. sess' = [sess EXCEPT ![s] = f]
      BY <2>2, <3>1, <3>2
    <3>7. Fates
      BY <1>2 DEF Fates
    <3> QED BY <1>1, <3>1, <3>5, <3>6, <3>7, OneFair DEF EndInv
  <2> QED BY <1>5, <2>1, <2>2
<1>7. OutputOK
  BY <1>3, ShorterOutput
<1>8. \A c \in Callers : Hears(c)
  BY <1>2 DEF Hears
<1> QED BY <1>1, <1>2, <1>6, <1>7, <1>8, QuietEnds

LEMMA ReadEndEnds ==
    ASSUME Inv, EndInv, NEW k \in Conns, ReadEnd(k)
    PROVE  EndInv'
<1>1. TypeInv
  BY DEF Inv
<1>2. UNCHANGED <<requests, call, turn>>
  BY DEF ReadEnd, serverVars
<1>3. Shorter
  BY <1>1, ReadStep DEF ReadEnd
<1>4. PICK S : /\ sess' = [s \in Sessions |-> IF s \in S THEN Ended(sess[s]) ELSE sess[s]]
               /\ LetGo({sess[s].turn : s \in S})
  BY DEF ReadEnd
<1>5. Fates /\ \A r \in Turns : fate'[r] # "loose" => r \notin {sess[s].turn : s \in S}
  BY <1>1, <1>4, LetGoFates
<1>6. SessMoves({})
  <2> SUFFICES ASSUME NEW s \in Sessions PROVE Fair(sess[s], sess'[s], {})
    BY <1>5 DEF SessMoves
  <2>1. CASE s \notin S
    <3>1. sess'[s] = sess[s]
      BY <1>4, <2>1
    <3> QED BY <3>1, FairMore DEF EndInv, Gone
  <2>2. CASE s \in S
    <3>1. PICK e \in Session : e = sess[s]
      BY <1>1 DEF TypeInv, SessType
    <3>2. PICK f : f = sess'[s] /\ f = Ended(e)
      BY <1>4, <2>2, <3>1
    <3>3. f.turn = None /\ f.stage = "none" /\ f.ignored = e.ignored
      BY <3>1, <3>2 DEF Session, Ended
    <3>4. \A r \in Turns : e.turn = r => fate'[r] = "loose"
      BY <1>5, <2>2, <3>1
    <3>5. \A r \in Turns : fate'[r] # "loose" /\ Refuses(e, r) => r \in f.ignored
      BY <3>3, <3>4 DEF Refuses
    <3>6. e.turn \in Turns => fate'[e.turn] # "ours"
      BY <3>4
    <3>7. Fair(e, f, {})
      BY <3>3, <3>5, <3>6, FairEnds DEF Interruptible
    <3> QED BY <3>1, <3>2, <3>7
  <2> QED BY <2>1, <2>2
<1>7. OutputOK
  BY <1>3, ShorterOutput
<1>8. \A c \in Callers : Hears(c)
  BY <1>2 DEF Hears
<1> QED BY <1>1, <1>2, <1>6, <1>7, <1>8, QuietEnds

\* The other steps of the host and of the reader.
LEMMA ReadAskEnds ==
    ASSUME Inv, EndInv, NEW k \in Conns, ReadAsk(k)
    PROVE  EndInv'
<1>1. TypeInv
  BY DEF Inv
<1>2. UNCHANGED <<sess, fate, call, turn, requests>>
  BY DEF ReadAsk, serverVars
<1>3. Shorter
  BY <1>1, ReadStep DEF ReadAsk
<1> QED BY <1>1, <1>2, <1>3, StillEnds

LEMMA IdleEnds ==
    ASSUME Inv, EndInv, ReaperLooks \/ Reap \/ (\E n \in Asks : ResolvePermission(n)) \/ UNCHANGED vars
    PROVE  EndInv'
<1>1. TypeInv
  BY DEF Inv
<1>2. UNCHANGED <<sess, fate, call, turn, requests, wire>>
  BY DEF ReaperLooks, Reap, ResolvePermission, vars, hostVars, serverVars, pipeVars
<1>3. Shorter
  BY <1>1, <1>2, SameOutput
<1> QED BY <1>1, <1>2, <1>3, StillEnds

-----------------------------------------------------------------------------
(* The app-server *)

LEMMA ServerEnds ==
    ASSUME TypeInv, EndInv, UNCHANGED <<hostVars, call>>, requests' \subseteq requests, OutputOK, TurnFine,
           \A r \in Turns : StillRuns(r)' => StillRuns(r) \/ ~NotYet(r)', OneRuns'
    PROVE  EndInv'
<1>1. SessMoves({})
  BY SameFair DEF EndInv, hostVars
<1>2. \A c \in Callers : Hears(c)
  BY DEF Hears
<1>3. PICK F : F = [q \in requests |-> q]
  OBVIOUS
<1>4. requests' \subseteq {F[q] : q \in requests} /\ \A q \in requests : Stays(q, F[q])
  BY <1>3 DEF Stays
<1> QED BY <1>1, <1>2, <1>4, EnvStep

LEMMA OutputFine ==
    ASSUME TypeInv, NEW k \in Conns, NEW ms, OutputIs(k, ms), \A i \in 1 .. Len(ms) : \E m : m = ms[i] /\ Sound(m)
    PROVE  OutputOK
<1> SUFFICES ASSUME NEW j \in Conns, NEW i \in 1 .. Len(wire'[j])
             PROVE  \E m : m = wire'[j][i] /\ (FromWire(m) \/ Sound(m))
  BY DEF OutputOK
<1>1. PICK m : m = wire'[j][i]
  OBVIOUS
<1>2. CASE i \in 1 .. Len(wire[j]) /\ m = wire[j][i]
  BY <1>1, <1>2 DEF FromWire
<1>3. CASE j = k /\ i - Len(wire[k]) \in 1 .. Len(ms) /\ m = ms[i - Len(wire[k])]
  BY <1>1, <1>3
<1>4. j # k => i \in 1 .. Len(wire[j]) /\ m = wire[j][i]
  BY <1>1 DEF OutputIs
<1>5. j = k => \/ i \in 1 .. Len(wire[j]) /\ m = wire[j][i]
               \/ i - Len(wire[k]) \in 1 .. Len(ms) /\ m = ms[i - Len(wire[k])]
  BY <1>1 DEF OutputIs
<1> QED BY <1>2, <1>3, <1>4, <1>5

\* What a process says of a turn, and what it replies.
LEMMA SaysSound ==
    ASSUME NEW m, m.by = NoCaller, m.turn \in Turns => Known(m.turn) PROVE Sound(m)
BY Nulls DEF Sound, Missing1

LEMMA ReplySound ==
    ASSUME RequestInv, NEW q \in requests, q.for \in {"thread", "resume", "turn"}, NEW m, m.by = q.by,
           m.turn \in Turns => ~NotYet(m.turn)'
    PROVE  Sound(m)
<1>1. ASSUME NEW c \in Callers, m.by = c, Interrupting(call[c]) PROVE FALSE
  BY <1>1 DEF RequestInv, WrittenBy, Interrupting
<1>2. ASSUME NEW c \in Callers, m.by = c, NEW r \in Turns, Asking(c, r) PROVE NotYet(r)
  <2>1. q.for = call[c].for /\ (q.for = "turn" => q.turn = call[c].turn)
    BY <1>2 DEF RequestInv, WrittenBy
  <2>2. CASE q.for = "turn"
    BY <1>2, <2>1, <2>2 DEF Asking, Requested, NotYet
  <2>3. CASE q.for # "turn"
    BY <1>2, <2>1, <2>3 DEF Missed, NotYet
  <2> QED BY <2>2, <2>3
<1> QED BY <1>1, <1>2 DEF Sound, Missing1

LEMMA InterruptSound ==
    ASSUME RequestInv, ReplyInv, NEW q \in requests, q.for = "interrupt", NEW m, m.by = q.by,
           m.turn \in Turns => Known(m.turn), m.by \in Callers => Means(m.by, m)'
    PROVE  Sound(m)
<1>1. ASSUME NEW c \in Callers, m.by = c PROVE Interrupting(call[c])
  BY <1>1 DEF RequestInv, WrittenBy, ReplyInv, RequestsOwn, Interrupting
<1>2. PICK b : b = m.by
  OBVIOUS
<1>3. \A c \in Callers : m.by = c => Means(c, m)'
  BY DEF Means
<1> QED BY <1>1, <1>3 DEF Sound, Missing1, Asking

\* Turns that end.
LEMMA OverFine ==
    ASSUME TypeInv, NEW R, \A r \in Turns : r \in R => Born(r), turn' = Over(R)
    PROVE  /\ TurnFine
           /\ \A r \in Turns : /\ StillRuns(r)' => StillRuns(r) /\ r \notin R
                               /\ r \in R => turn'[r].at = "over"
<1>1. ASSUME NEW r \in Turns
      PROVE  /\ turn'[r].conn = turn[r].conn /\ turn'[r].thread = turn[r].thread /\ turn'[r].home = turn[r].home
             /\ turn'[r].at = (IF r \in R THEN "over" ELSE turn[r].at)
  <2>1. turn[r] \in Turn
    BY DEF TypeInv, TurnType
  <2>2. turn'[r] = IF r \in R THEN [turn[r] EXCEPT !.at = "over"] ELSE turn[r]
    BY DEF Over
  <2> QED BY <2>1, <2>2 DEF Turn
<1>2. TurnFine
  <2>1. \A r \in Turns : Fine(r)
    BY <1>1 DEF Fine, StillRuns, Begun
  <2>2. \A r \in Turns : Born(r)' <=> Born(r)
    BY <1>1 DEF Born
  <2> QED BY <1>1, <2>1, <2>2 DEF TurnFine
<1> QED BY <1>1, <1>2 DEF StillRuns

\* Messages one after the other.
LEMMA OneMessage ==
    ASSUME NEW m, MsgOK(m), NEW ms, ms = <<m>>
    PROVE  ms \in Seq(Message) /\ \A i \in 1 .. Len(ms) : ms[i] = m
<1>1. m \in Message
  BY DEF MsgOK
<1>2. ms \in Seq(Message) /\ Len(ms) = 1 /\ ms[1] = m
  BY <1>1
<1>3. \A i \in 1 .. 1 : i = 1
  OBVIOUS
<1> QED BY <1>2, <1>3

LEMMA TwoMessages ==
    ASSUME NEW a, MsgOK(a), NEW b, MsgOK(b), NEW ms, ms = <<a, b>>
    PROVE  ms \in Seq(Message) /\ \A i \in 1 .. Len(ms) : ms[i] = a \/ ms[i] = b
<1>1. a \in Message /\ b \in Message
  BY DEF MsgOK
<1>2. ms \in Seq(Message) /\ Len(ms) = 2 /\ ms[1] = a /\ ms[2] = b
  BY <1>1
<1>3. \A i \in 1 .. 2 : i = 1 \/ i = 2
  OBVIOUS
<1> QED BY <1>2, <1>3

LEMMA ServeThreadEnds ==
    ASSUME Inv, EndInv, NEW q \in requests, ServeThread(q) \/ ServeResume(q)
    PROVE  EndInv'
<1>1. TypeInv
  BY DEF Inv
<1>2. /\ requests' \subseteq requests /\ q.for \in {"thread", "resume"}
      /\ UNCHANGED <<turn, hostVars, call>>
  BY DEF ServeThread, ServeResume, Serve
<1>3. q \in Request /\ q.conn \in Conns
  BY <1>1, ThisRequest
<1>4. PICK kind \in {"ok", "missing", "error"}, t \in {None} \cup Threads :
          \/ Output(q.conn, <<Reply(q, kind, None, t)>>)
          \/ \E u \in Threads : \E said \in Announced(Reply(q, kind, None, t), u) : Output(q.conn, said)
  <2>1. CASE ServeThread(q)
    <3>1. threads < MaxThreads => threads + 1 \in Threads
      BY <1>1, BoundAssumption DEF TypeInv, ServerType, Threads
    <3> QED BY <2>1, <3>1 DEF ServeThread
  <2>2. CASE ServeResume(q)
    <3>1. \A u \in 1 .. threads : u \in Threads
      BY <1>1, BoundAssumption DEF TypeInv, ServerType, Threads
    <3> QED BY <2>2, <3>1 DEF ServeResume
  <2> QED BY <2>1, <2>2
<1>5. PICK m : m = Reply(q, kind, None, t)
  OBVIOUS
<1>6. MsgOK(m) /\ m.by = q.by /\ m.turn = None
  <2>1. MsgOK(m) /\ m.by = q.by
    BY <1>3, <1>5, ReplyOK DEF Replies
  <2> QED BY <1>5, <2>1 DEF Reply
<1>7. Sound(m)
  BY <1>2, <1>6, ReplySound, Nulls DEF EndInv
<1>8. PICK ms : /\ Output(q.conn, ms) /\ ms \in Seq(Message)
                /\ \A i \in 1 .. Len(ms) : \E x : x = ms[i] /\ Sound(x)
  <2>1. CASE Output(q.conn, <<m>>)
    <3>1. PICK ms : ms = <<m>>
      OBVIOUS
    <3>2. ms \in Seq(Message) /\ \A i \in 1 .. Len(ms) : ms[i] = m
      BY <1>6, <3>1, OneMessage
    <3> QED BY <1>7, <2>1, <3>1, <3>2
  <2>2. ASSUME NEW u \in Threads, NEW ms \in Announced(m, u), Output(q.conn, ms)
        PROVE  ms \in Seq(Message) /\ \A i \in 1 .. Len(ms) : \E x : x = ms[i] /\ Sound(x)
    <3>1. PICK n : n = Says("thread", None, u) /\ MsgOK(n) /\ n.by = NoCaller /\ n.turn = None
      BY NewsOK
    <3>2. Sound(n)
      BY <3>1, SaysSound, Nulls
    <3>3. ms = <<m>> \/ ms = <<m, n>> \/ ms = <<n, m>>
      BY <2>2, <3>1 DEF Announced
    <3>4. ms \in Seq(Message) /\ \A i \in 1 .. Len(ms) : ms[i] = m \/ ms[i] = n
      BY <1>6, <3>1, <3>3, OneMessage, TwoMessages
    <3> QED BY <1>7, <3>2, <3>4
  <2> QED BY <1>4, <1>5, <2>1, <2>2
<1>9. OutputIs(q.conn, ms)
  BY <1>1, <1>3, <1>8, OutputStep
<1>10. OutputOK
  BY <1>1, <1>3, <1>8, <1>9, OutputFine
<1>11. TurnFine
  BY <1>2, SameTurnFine
<1>12. \A r \in Turns : StillRuns(r)' => StillRuns(r)
  BY <1>2 DEF StillRuns
<1>13. OneRuns'
  BY <1>11, <1>12, OneRunsStays DEF EndInv
<1> QED BY <1>1, <1>2, <1>10, <1>11, <1>12, <1>13, ServerEnds

LEMMA AddedLast ==
    ASSUME NEW es \in Seq(Message), NEW m \in Message, NEW n \in Nat, n = Len(es)
    PROVE  /\ es \o <<m>> \in Seq(Message) /\ Len(es \o <<m>>) = n + 1
           /\ \A i \in 1 .. n + 1 : (es \o <<m>>)[i] = m \/ (i \in 1 .. n /\ (es \o <<m>>)[i] = es[i])
<1>1. PICK u : u = <<m>>
  OBVIOUS
<1>2. u \in Seq(Message) /\ Len(u) = 1 /\ u[1] = m
  BY <1>1
<1>3. /\ es \o u \in Seq(Message) /\ Len(es \o u) = n + 1
      /\ \A i \in 1 .. n + 1 : (es \o u)[i] = IF i <= n THEN es[i] ELSE u[i - n]
  BY <1>2, ConcatProperties
<1>4. \A i \in 1 .. n + 1 : (es \o u)[i] = m \/ (i \in 1 .. n /\ (es \o u)[i] = es[i])
  <2> SUFFICES ASSUME NEW i \in 1 .. n + 1
               PROVE  (es \o u)[i] = m \/ (i \in 1 .. n /\ (es \o u)[i] = es[i])
    OBVIOUS
  <2>1. CASE i <= n
    BY <1>3, <2>1
  <2>2. CASE ~(i <= n)
    <3>1. i - n = 1
      BY <2>2
    <3> QED BY <1>2, <1>3, <2>2, <3>1
  <2> QED BY <2>1, <2>2
<1> QED BY <1>1, <1>3, <1>4

EndsThen(ends, t, m) == [i \in DOMAIN ends |-> Says("completed", ends[i], t)] \o <<m>>
LEMMA EndsEach ==
    ASSUME NEW R \in SUBSET Turns, NEW ends \in [1 .. Cardinality(R) -> R], NEW t \in {None} \cup Threads,
           NEW m, MsgOK(m), NEW ms, ms = EndsThen(ends, t, m)
    PROVE  /\ ms \in Seq(Message)
           /\ \A i \in 1 .. Len(ms) : ms[i] = m \/ \E r \in R : ms[i] = Says("completed", r, t)
<1>1. Cardinality(R) \in Nat
  <2>1. IsFiniteSet(Turns)
    BY BoundAssumption, FS_Interval DEF Turns
  <2> QED BY <2>1, FS_Subset, FS_CardinalityType
<1>2. PICK n \in Nat : n = Cardinality(R)
  BY <1>1
<1>3. PICK es : es = [i \in 1 .. n |-> Says("completed", ends[i], t)]
  OBVIOUS
<1>4. ms = es \o <<m>> /\ m \in Message
  BY <1>2, <1>3 DEF MsgOK, EndsThen
<1>5. es \in [1 .. n -> Message]
  <2>1. \A i \in 1 .. n : MsgOK(es[i])
    BY <1>2, <1>3, SaysOK
  <2>2. \A i \in 1 .. n : es[i] \in Message
    BY <2>1 DEF MsgOK
  <2> QED BY <1>3, <2>2
<1>6. es \in Seq(Message) /\ Len(es) = n
  BY <1>5, SeqDef, LenProperties
<1>7. /\ ms \in Seq(Message) /\ Len(ms) = n + 1
      /\ \A i \in 1 .. n + 1 : ms[i] = m \/ (i \in 1 .. n /\ ms[i] = es[i])
  <2>1. es \in Seq(Message) /\ n \in Nat /\ n = Len(es) /\ m \in Message
    BY <1>4, <1>6
  <2>2. /\ es \o <<m>> \in Seq(Message) /\ Len(es \o <<m>>) = n + 1
        /\ \A i \in 1 .. n + 1 : (es \o <<m>>)[i] = m \/ (i \in 1 .. n /\ (es \o <<m>>)[i] = es[i])
    BY <2>1, AddedLast, Zenon
  <2> QED BY <1>4, <2>2, Zenon
<1>8. ASSUME NEW i \in 1 .. n, ms[i] = es[i] PROVE \E r \in R : ms[i] = Says("completed", r, t)
  <2>1. ends[i] \in R /\ ms[i] = Says("completed", ends[i], t)
    BY <1>2, <1>3, <1>8
  <2> QED BY <2>1
<1> QED BY <1>7, <1>8

\* The process starts a turn, and ends the one before.
LEMMA AcceptedTurn ==
    ASSUME Inv, EndInv, NEW q \in requests, q.for = "turn", NEW g, g = q.turn,
           NEW before, before = BusyOn(q.conn, q.thread), turn' = [Over(before) EXCEPT ![g].at = "accepted"]
    PROVE  /\ g \in Turns /\ Born(g)' /\ TurnFine /\ OneRuns'
           /\ \A r \in Turns : StillRuns(r)' => StillRuns(r) \/ r = g
<1>1. TypeInv
  BY DEF Inv
<1>2. g \in Turns /\ turn[g].conn = q.conn /\ turn[g].thread = q.thread
  BY DEF EndInv, RequestInv, WrittenFor
<1>3. NotYet(g) /\ Born(g)
  BY <1>1, <1>2, ThisRequest, Nulls DEF Requested, NotYet, Born
<1>4. ~StillRuns(g)
  BY <1>2, <1>3 DEF EndInv, Silent, Known
<1>5. \A r \in Turns : r \in before <=> StillRuns(r) /\ turn[r].conn = q.conn /\ turn[r].thread = q.thread
  BY DEF BusyOn, StillRuns
<1>6. ASSUME NEW r \in Turns
      PROVE  /\ turn'[r].conn = turn[r].conn /\ turn'[r].thread = turn[r].thread /\ turn'[r].home = turn[r].home
             /\ turn'[r].at = (IF r = g THEN "accepted" ELSE IF r \in before THEN "over" ELSE turn[r].at)
  <2>1. turn[r] \in Turn
    BY <1>1 DEF TypeInv, TurnType
  <2>2. PICK T : T = Over(before)
    OBVIOUS
  <2>3. T = [h \in Turns |-> T[h]] /\ T[r] = IF r \in before THEN [turn[r] EXCEPT !.at = "over"] ELSE turn[r]
    BY <2>2 DEF Over
  <2>4. PICK y : y = T[r]
    OBVIOUS
  <2>5. /\ y \in Turn /\ y.conn = turn[r].conn /\ y.thread = turn[r].thread /\ y.home = turn[r].home
        /\ y.at = (IF r \in before THEN "over" ELSE turn[r].at)
    BY <2>1, <2>3, <2>4 DEF Turn
  <2>6. turn'[r] = IF r = g THEN [y EXCEPT !.at = "accepted"] ELSE y
    BY <1>2, <2>2, <2>3, <2>4
  <2> QED BY <2>5, <2>6 DEF Turn
<1>7. \A r \in Turns : StillRuns(r)' => (StillRuns(r) /\ r \notin before) \/ r = g
  BY <1>6 DEF StillRuns
<1>8. TurnFine
  <2>1. ASSUME NEW r \in Turns, ~NotYet(r) PROVE Fine(r)
    <3>1. r # g
      BY <1>3, <2>1
    <3> QED BY <1>5, <1>6, <3>1 DEF Fine, StillRuns, Begun
  <2>2. \A r \in Turns : Born(r)' <=> Born(r)
    <3>1. \A r \in Turns : r \in before => Born(r)
      BY <1>5 DEF StillRuns, Born
    <3> QED BY <1>3, <1>6, <3>1 DEF Born
  <2> QED BY <1>6, <2>1, <2>2 DEF TurnFine
<1>9. OneRuns'
  <2> SUFFICES ASSUME NEW r \in Turns, NEW f \in Turns, StillRuns(r)', StillRuns(f)',
                      turn'[r].conn = turn'[f].conn, turn'[r].thread = turn'[f].thread
               PROVE  r = f
    BY DEF OneRuns
  <2>1. turn[r].conn = turn[f].conn /\ turn[r].thread = turn[f].thread
    BY <1>6
  <2>2. CASE r # g /\ f # g
    BY <1>7, <2>1, <2>2 DEF EndInv, OneRuns
  <2>3. CASE r = g /\ f # g
    BY <1>2, <1>5, <1>7, <2>1, <2>3
  <2>4. CASE r # g /\ f = g
    BY <1>2, <1>5, <1>7, <2>1, <2>4
  <2> QED BY <2>2, <2>3, <2>4
<1>10. Born(g)'
  BY <1>2, <1>6 DEF Born
<1> QED BY <1>2, <1>7, <1>8, <1>9, <1>10

LEMMA AcceptedKnown ==
    ASSUME Inv, EndInv, NEW q \in requests, q.for = "turn", NEW g \in Turns, g = q.turn, Born(g)',
           requests' = requests \ {q}, UNCHANGED call, NEW ms, OutputIs(q.conn, ms),
           \A i \in 1 .. Len(ms) : ms[i].kind # "missing"
    PROVE  ~NotYet(g)'
<1>1. TypeInv /\ ReplyInv
  BY DEF Inv
<1>2. ~Requested(g)'
  BY DEF EndInv, RequestInv, Requested
<1>3. ASSUME NEW c \in Callers, Missing(c)' PROVE call[c].pc = "asked" /\ c # q.by
  <2>1. PICK k \in Conns : \E i \in 1 .. Len(wire'[k]) : wire'[k][i].by = c /\ wire'[k][i].kind = "missing"
    BY <1>3 DEF Missing
  <2>2. PICK i \in 1 .. Len(wire'[k]) : wire'[k][i].by = c /\ wire'[k][i].kind = "missing"
    BY <2>1
  <2>3. i \in 1 .. Len(wire[k]) /\ wire[k][i].by = c
    <3>1. CASE k = q.conn
      BY <2>2, <3>1 DEF OutputIs
    <3>2. CASE k # q.conn
      BY <2>2, <3>2 DEF OutputIs
    <3> QED BY <3>1, <3>2
  <2> QED BY <1>1, <2>3 DEF ReplyInv, RepliesOwn
<1>4. ASSUME NEW c \in Callers, Asking(c, g)', Missed(c)' PROVE FALSE
  <2>1. Asking(c, g)
    BY <1>4 DEF Asking
  <2>2. q.by = c \/ GaveUp(c)
    BY <2>1 DEF EndInv, RequestInv, WrittenFor
  <2>3. CASE q.by = c
    <3>1. call[c].pc = "asked" /\ call[c].for = "turn"
      BY <1>1, <2>3 DEF ReplyInv, RequestsOwn, EndInv, RequestInv, WrittenBy
    <3> QED BY <1>3, <1>4, <2>3, <3>1 DEF Missed
  <2>4. CASE GaveUp(c)
    BY <1>3, <1>4, <2>4 DEF GaveUp, Missed
  <2> QED BY <2>2, <2>3, <2>4
<1> QED BY <1>2, <1>4 DEF NotYet

LEMMA ServeTurnEnds ==
    ASSUME Inv, EndInv, NEW q \in requests, ServeTurn(q)
    PROVE  EndInv'
<1>1. TypeInv
  BY DEF Inv
<1>2. requests' = requests \ {q} /\ q.for = "turn" /\ UNCHANGED <<hostVars, call>>
  BY DEF ServeTurn, Serve
<1>3. q \in Request /\ q.conn \in Conns /\ q.thread \in {None} \cup Threads
  BY <1>1, ThisRequest
<1>4. PICK g \in Turns : g = q.turn
  BY <1>2 DEF EndInv, RequestInv, WrittenFor
<1>5. PICK before \in SUBSET Turns : before = BusyOn(q.conn, q.thread)
  BY DEF BusyOn
<1>6. CASE turn' = [Over(before) EXCEPT ![g].at = "accepted"]
           /\ \E ends \in [1 .. Cardinality(before) -> before] :
                  Output(q.conn, [i \in DOMAIN ends |-> Says("completed", ends[i], q.thread)]
                                   \o <<Reply(q, "ok", g, None)>>)
  <2>1. /\ Born(g)' /\ TurnFine /\ OneRuns' /\ \A r \in Turns : StillRuns(r)' => StillRuns(r) \/ r = g
    BY <1>2, <1>4, <1>5, <1>6, AcceptedTurn
  <2>2. PICK ends \in [1 .. Cardinality(before) -> before] :
            Output(q.conn, [i \in DOMAIN ends |-> Says("completed", ends[i], q.thread)]
                             \o <<Reply(q, "ok", g, None)>>)
    BY <1>6
  <2>3. PICK m : m = Reply(q, "ok", g, None)
    OBVIOUS
  <2>4. MsgOK(m) /\ m.by = q.by /\ m.turn = g /\ m.kind = "ok"
    <3>1. MsgOK(m) /\ m.by = q.by
      BY <1>3, <2>3, ReplyOK DEF Replies
    <3> QED BY <2>3, <3>1 DEF Reply
  <2>5. PICK ms : ms = [i \in DOMAIN ends |-> Says("completed", ends[i], q.thread)] \o <<m>>
    OBVIOUS
  <2>6. /\ ms \in Seq(Message) /\ Output(q.conn, ms)
        /\ \A i \in 1 .. Len(ms) : ms[i] = m \/ \E r \in before : ms[i] = Says("completed", r, q.thread)
    <3>1. Output(q.conn, ms)
      BY <2>2, <2>3, <2>5
    <3>2. PICK t \in {None} \cup Threads : t = q.thread
      BY <1>3
    <3>3. MsgOK(m) /\ ms = EndsThen(ends, t, m)
      BY <2>4, <2>5, <3>2 DEF EndsThen
    <3>4. /\ ms \in Seq(Message)
          /\ \A i \in 1 .. Len(ms) : ms[i] = m \/ \E r \in before : ms[i] = Says("completed", r, t)
      BY <3>3, EndsEach
    <3> QED BY <3>1, <3>2, <3>4
  <2>7. OutputIs(q.conn, ms)
    BY <1>1, <1>3, <2>6, OutputStep
  <2>8. ~NotYet(g)'
    <3>1. \A i \in 1 .. Len(ms) : ms[i].kind # "missing"
      <4> SUFFICES ASSUME NEW i \in 1 .. Len(ms) PROVE ms[i].kind # "missing"
        OBVIOUS
      <4>1. \A r \in before : Says("completed", r, q.thread).kind = "completed"
        BY DEF Says
      <4> QED BY <2>4, <2>6, <4>1
    <3> QED BY <1>2, <1>4, <2>1, <2>7, <3>1, AcceptedKnown
  <2>9. OutputOK
    <3>1. Sound(m)
      BY <1>2, <2>4, <2>8, ReplySound DEF EndInv
    <3>2. ASSUME NEW r \in before, NEW z, z = Says("completed", r, q.thread) PROVE Sound(z)
      <4>1. Known(r)
        BY <1>5 DEF BusyOn, StillRuns, Known
      <4>2. z.by = NoCaller /\ z.turn = r
        BY <3>2 DEF Says
      <4> QED BY <4>1, <4>2, SaysSound
    <3>3. ASSUME NEW i \in 1 .. Len(ms) PROVE \E z : z = ms[i] /\ Sound(z)
      <4>1. PICK z : z = ms[i]
        OBVIOUS
      <4>2. z = m \/ \E r \in before : z = Says("completed", r, q.thread)
        BY <2>6, <4>1
      <4>3. Sound(z)
        <5>1. CASE z = m
          BY <3>1, <5>1 DEF Sound, Missing1, Means
        <5>2. CASE z # m
          BY <3>2, <4>2, <5>2
        <5> QED BY <5>1, <5>2
      <4> QED BY <4>1, <4>3
    <3> QED BY <1>1, <1>3, <2>7, <3>3, OutputFine
  <2>10. \A r \in Turns : StillRuns(r)' => StillRuns(r) \/ ~NotYet(r)'
    BY <2>1, <2>8
  <2> QED BY <1>1, <1>2, <2>1, <2>9, <2>10, ServerEnds
<1>7. ASSUME NEW kind \in {"error", "missing"}, Output(q.conn, <<Reply(q, kind, None, None)>>),
             turn' = Over({g}) \/ UNCHANGED turn
      PROVE  EndInv'
  <2>1. TurnFine /\ \A r \in Turns : StillRuns(r)' => StillRuns(r)
    <3>1. CASE turn' = Over({g})
      <4>1. \A r \in Turns : r \in {g} => Born(r)
        BY <1>1, <1>2, <1>4, ThisRequest, Nulls DEF Born
      <4> QED BY <1>1, <3>1, <4>1, OverFine
    <3>2. CASE UNCHANGED turn
      BY <3>2, SameTurnFine DEF StillRuns
    <3> QED BY <1>7, <3>1, <3>2
  <2>2. PICK m : m = Reply(q, kind, None, None)
    OBVIOUS
  <2>3. MsgOK(m) /\ m.by = q.by /\ m.turn = None
    <3>1. MsgOK(m) /\ m.by = q.by
      BY <1>3, <2>2, ReplyOK DEF Replies
    <3> QED BY <2>2, <3>1 DEF Reply
  <2>4. PICK ms : ms = <<m>>
    OBVIOUS
  <2>5. ms \in Seq(Message) /\ \A i \in 1 .. Len(ms) : ms[i] = m
    BY <2>3, <2>4, OneMessage
  <2>6. OutputIs(q.conn, ms)
    BY <1>1, <1>3, <1>7, <2>2, <2>4, <2>5, OutputStep
  <2>7. Sound(m)
    BY <1>2, <2>3, ReplySound, Nulls DEF EndInv
  <2>8. OutputOK
    BY <1>1, <1>3, <2>5, <2>6, <2>7, OutputFine
  <2>9. OneRuns'
    BY <2>1, OneRunsStays DEF EndInv
  <2> QED BY <1>1, <1>2, <2>1, <2>8, <2>9, ServerEnds
<1>8. \/ turn' = [Over(before) EXCEPT ![g].at = "accepted"]
         /\ \E ends \in [1 .. Cardinality(before) -> before] :
                Output(q.conn, [i \in DOMAIN ends |-> Says("completed", ends[i], q.thread)]
                                 \o <<Reply(q, "ok", g, None)>>)
      \/ turn' = Over({g}) /\ Output(q.conn, <<Reply(q, "error", None, None)>>)
      \/ UNCHANGED turn /\ Output(q.conn, <<Reply(q, "missing", None, None)>>)
  BY <1>4, <1>5 DEF ServeTurn
<1> QED BY <1>6, <1>7, <1>8

\* The call that waits for the answer to an interrupt.
LEMMA WhoInterrupts ==
    ASSUME Inv, EndInv, NEW q \in requests, q.for = "interrupt", NEW c \in Callers, q.by = c
    PROVE  /\ Interrupting(call[c]) /\ InterruptOK(c) /\ call[c].turn = q.turn /\ call[c].turn \in Turns
           /\ call[c].conn = q.conn /\ call[c].thread = q.thread
<1>1. call[c].pc = "asked" /\ call[c].conn = q.conn
  BY DEF Inv, ReplyInv, RequestsOwn
<1>2. call[c].for = "interrupt" /\ call[c].turn = q.turn /\ call[c].thread = q.thread
  BY DEF EndInv, RequestInv, WrittenBy
<1>3. Interrupting(call[c])
  BY <1>1, <1>2 DEF Interrupting
<1>4. InterruptOK(c)
  BY <1>3 DEF EndInv, InterruptInv
<1>5. call[c].turn \in Turns
  BY <1>3, ThisCall DEF Inv, CallOK
<1> QED BY <1>1, <1>2, <1>3, <1>4, <1>5

LEMMA ServeInterruptEnds ==
    ASSUME Inv, EndInv, NEW q \in requests, ServeInterrupt(q)
    PROVE  EndInv'
<1>1. TypeInv /\ ReplyInv
  BY DEF Inv
<1>2. requests' \subseteq requests /\ q.for = "interrupt" /\ UNCHANGED <<hostVars, call>>
  BY DEF ServeInterrupt, Serve
<1>3. q \in Request /\ q.conn \in Conns /\ q.thread \in {None} \cup Threads
  BY <1>1, ThisRequest
<1>4. PICK active \in SUBSET Turns : active = ActiveOn(q.conn, q.thread)
  BY DEF ActiveOn
<1>5. \A r \in Turns : r \in active <=>
          turn[r].at = "active" /\ turn[r].conn = q.conn /\ turn[r].thread = q.thread
  BY <1>4 DEF ActiveOn
<1>6. CASE q.turn \in active /\ turn' = Over({q.turn})
           /\ \E order \in {<<Says("completed", q.turn, q.thread), Reply(q, "ok", None, None)>>,
                            <<Reply(q, "ok", None, None), Says("completed", q.turn, q.thread)>>} :
                 Output(q.conn, order)
  <2>1. q.turn \in Turns /\ Born(q.turn) /\ Known(q.turn)
    BY <1>5, <1>6 DEF Born, Known, StillRuns
  <2>2. TurnFine /\ turn'[q.turn].at = "over" /\ \A r \in Turns : StillRuns(r)' => StillRuns(r)
    <3>1. PICK R : R = {q.turn}
      OBVIOUS
    <3>2. \A r \in Turns : r \in R => Born(r)
      BY <2>1, <3>1
    <3> QED BY <1>1, <1>6, <2>1, <3>1, <3>2, OverFine
  <2>3. OneRuns'
    BY <2>2, OneRunsStays DEF EndInv
  <2>4. PICK a, b : a = Says("completed", q.turn, q.thread) /\ b = Reply(q, "ok", None, None)
    OBVIOUS
  <2>5. MsgOK(a) /\ a.by = NoCaller /\ a.turn = q.turn /\ MsgOK(b) /\ b.by = q.by /\ b.turn = None /\ b.kind = "ok"
    <3>1. MsgOK(a) /\ a.by = NoCaller /\ MsgOK(b) /\ b.by = q.by
      BY <1>3, <2>1, <2>4, SaysOK, ReplyOK DEF Replies
    <3> QED BY <2>4, <3>1 DEF Says, Reply
  <2>6. Sound(a)
    BY <2>1, <2>5, SaysSound
  <2>7. Sound(b)
    <3>1. PICK d : d = b.by
      OBVIOUS
    <3>2. d \in Callers => Means(d, b)'
      BY <1>2, <2>2, <2>5, <3>1, WhoInterrupts DEF Means
    <3> QED BY <1>1, <1>2, <2>5, <3>1, <3>2, InterruptSound, Nulls DEF EndInv
  <2>8. PICK ms : (ms = <<a, b>> \/ ms = <<b, a>>) /\ Output(q.conn, ms)
    BY <1>6, <2>4
  <2>9. ms \in Seq(Message) /\ \A i \in 1 .. Len(ms) : ms[i] = a \/ ms[i] = b
    BY <2>5, <2>8, TwoMessages
  <2>10. OutputIs(q.conn, ms)
    BY <1>1, <1>3, <2>8, <2>9, OutputStep
  <2>11. \A i \in 1 .. Len(ms) : \E m : m = ms[i] /\ Sound(m)
    BY <2>6, <2>7, <2>9
  <2>12. OutputOK
    BY <1>1, <1>3, <2>10, <2>11, OutputFine
  <2> QED BY <1>1, <1>2, <2>2, <2>3, <2>12, ServerEnds
<1>7. ASSUME NEW m, MsgOK(m), m.by = q.by, m.turn \in Turns => Known(m.turn), UNCHANGED turn,
             \A c \in Callers : q.by = c => Means(c, m), Output(q.conn, <<m>>)
      PROVE  EndInv'
  <2>1. TurnFine /\ \A r \in Turns : StillRuns(r)' => StillRuns(r)
    BY <1>7, SameTurnFine DEF StillRuns
  <2>2. OneRuns'
    BY <2>1, OneRunsStays DEF EndInv
  <2>3. \A c \in Callers : q.by = c => Means(c, m)'
    BY <1>2, <1>7 DEF Means, Begun, Here, Place, StillRuns
  <2>4. Sound(m)
    <3>1. PICK d : d = m.by
      OBVIOUS
    <3>2. d \in Callers => Means(d, m)'
      BY <1>7, <2>3, <3>1
    <3> QED BY <1>1, <1>2, <1>7, <3>1, <3>2, InterruptSound DEF EndInv
  <2>5. PICK ms : ms = <<m>>
    OBVIOUS
  <2>6. ms \in Seq(Message) /\ \A i \in 1 .. Len(ms) : ms[i] = m
    BY <1>7, <2>5, OneMessage
  <2>7. OutputIs(q.conn, ms)
    BY <1>1, <1>3, <1>7, <2>5, <2>6, OutputStep
  <2>8. OutputOK
    BY <1>1, <1>3, <2>4, <2>6, <2>7, OutputFine
  <2> QED BY <1>1, <1>2, <2>1, <2>2, <2>8, ServerEnds
<1>8. ASSUME NEW r \in active, q.turn \notin active, UNCHANGED turn, NEW m, m = Reply(q, "found", r, None),
             Output(q.conn, <<m>>)
      PROVE  EndInv'
  <2>1. MsgOK(m) /\ m.by = q.by /\ m.turn = r /\ m.kind = "found"
    <3>1. MsgOK(m) /\ m.by = q.by
      BY <1>3, <1>8, ReplyOK DEF Replies
    <3> QED BY <1>8, <3>1 DEF Reply
  <2>2. r \in Turns /\ StillRuns(r) /\ Begun(r) /\ turn[r].conn = q.conn /\ turn[r].thread = q.thread
    BY <1>5 DEF StillRuns, Begun
  <2>3. ASSUME NEW c \in Callers, q.by = c PROVE Means(c, m)
    <3>1. call[c].turn = q.turn /\ call[c].turn \in Turns /\ call[c].conn = q.conn /\ call[c].thread = q.thread
      BY <1>2, <2>3, WhoInterrupts
    <3>2. Place(c, r)
      BY <2>2, <3>1 DEF Place
    <3>3. ~Here(c, call[c].turn)
      BY <1>8, <2>2, <3>1 DEF Here, Place, EndInv, OneRuns
    <3> QED BY <2>1, <2>2, <3>2, <3>3 DEF Means
  <2>4. Known(r)
    BY <2>2 DEF Known
  <2> QED BY <1>7, <1>8, <2>1, <2>3, <2>4
<1>9. ASSUME active = {}, NEW kind \in {"none", "missing"}, UNCHANGED turn, NEW m, m = Reply(q, kind, None, None),
             Output(q.conn, <<m>>)
      PROVE  EndInv'
  <2>1. MsgOK(m) /\ m.by = q.by /\ m.turn = None /\ m.kind = kind
    <3>1. MsgOK(m) /\ m.by = q.by
      BY <1>3, <1>9, ReplyOK DEF Replies
    <3> QED BY <1>9, <3>1 DEF Reply
  <2>2. ASSUME NEW c \in Callers, q.by = c PROVE Means(c, m)
    <3>1. /\ InterruptOK(c) /\ call[c].turn = q.turn /\ call[c].turn \in Turns
          /\ call[c].conn = q.conn /\ call[c].thread = q.thread
      BY <1>2, <2>2, WhoInterrupts
    <3>2. call[c].turn = call[c].from \/ turn[call[c].turn].at = "over"
      BY <1>5, <1>9, <3>1 DEF InterruptOK, Begun, Place
    <3> QED BY <2>1, <3>2 DEF Means
  <2> QED BY <1>7, <1>9, <2>1, <2>2, Nulls
<1>10. \/ /\ q.turn \in active /\ turn' = Over({q.turn})
          /\ \E order \in {<<Says("completed", q.turn, q.thread), Reply(q, "ok", None, None)>>,
                           <<Reply(q, "ok", None, None), Says("completed", q.turn, q.thread)>>} :
                Output(q.conn, order)
       \/ q.turn \notin active /\ UNCHANGED turn /\ \E r \in active : Output(q.conn, <<Reply(q, "found", r, None)>>)
       \/ /\ active = {} /\ UNCHANGED turn
          /\ \E kind \in {"none", "missing"} : Output(q.conn, <<Reply(q, kind, None, None)>>)
  <2>1. PICK kind \in {"none", "missing"} : kind = IF q.thread \in loaded[q.conn] THEN "none" ELSE "missing"
    OBVIOUS
  <2> QED BY <1>4, <2>1 DEF ServeInterrupt
<1> QED BY <1>6, <1>8, <1>9, <1>10

LEMMA TurnEnds ==
    ASSUME Inv, EndInv, NEW r \in Turns, Activates(r) \/ Ends(r)
    PROVE  EndInv'
<1>1. TypeInv
  BY DEF Inv
<1>2. UNCHANGED <<requests, hostVars, call>>
  BY DEF Activates, Ends
<1>3. turn[r] \in Turn /\ StillRuns(r) /\ Born(r) /\ turn[r].conn \in Conns /\ turn[r].thread \in {None} \cup Threads
  BY <1>1 DEF Activates, Ends, TypeInv, TurnType, Turn, StillRuns, Born
<1>4. TurnFine /\ \A g \in Turns : StillRuns(g)' => StillRuns(g)
  <2>1. CASE Activates(r)
    <3>1. PICK y : y = [turn[r] EXCEPT !.at = "active"]
      OBVIOUS
    <3>2. /\ y.at = "active" /\ y.conn = turn[r].conn /\ y.thread = turn[r].thread /\ y.home = turn[r].home
      BY <1>3, <3>1 DEF Turn
    <3>3. turn' = [turn EXCEPT ![r] = y] /\ turn[r].at = "accepted"
      BY <2>1, <3>1 DEF Activates
    <3>4. turn'[r] = y /\ \A g \in Turns \ {r} : turn'[g] = turn[g]
      BY <1>1, <3>3 DEF TypeInv, TurnType
    <3>5. \A g \in Turns : Fine(g) /\ (Born(g)' <=> Born(g))
      BY <3>2, <3>3, <3>4 DEF Fine, StillRuns, Begun, Born
    <3>6. \A g \in Turns : /\ turn'[g].conn = turn[g].conn /\ turn'[g].thread = turn[g].thread
                           /\ turn'[g].home = turn[g].home
      BY <3>2, <3>4
    <3> QED BY <3>5, <3>6 DEF TurnFine, Fine
  <2>2. CASE Ends(r)
    <3>1. PICK R : R = {r} /\ turn' = Over(R)
      BY <2>2 DEF Ends
    <3>2. \A g \in Turns : g \in R => Born(g)
      BY <1>3, <3>1
    <3> QED BY <1>1, <3>1, <3>2, OverFine
  <2> QED BY <2>1, <2>2
<1>5. OneRuns'
  BY <1>4, OneRunsStays DEF EndInv
<1>6. PICK k \in Conns, t \in {None} \cup Threads : k = turn[r].conn /\ t = turn[r].thread
  BY <1>3
<1>7. ASSUME NEW kind \in {"started", "completed", "failed"}, NEW m, m = Says(kind, r, t) PROVE MsgOK(m) /\ Sound(m)
  <2>1. MsgOK(m)
    BY <1>7, SaysOK
  <2>2. m.by = NoCaller /\ m.turn = r
    BY <1>7 DEF Says
  <2> QED BY <1>3, <2>1, <2>2, SaysSound DEF Known
<1>8. PICK ms : ms \in Seq(Message) /\ Output(k, ms) /\ \A i \in 1 .. Len(ms) : \E m : m = ms[i] /\ Sound(m)
  <2>1. CASE Activates(r)
    <3>1. PICK m : m = Says("started", r, t)
      OBVIOUS
    <3>2. PICK ms : ms = <<m>> /\ Output(k, ms)
      BY <1>6, <2>1, <3>1 DEF Activates
    <3>3. MsgOK(m) /\ Sound(m)
      BY <1>7, <3>1
    <3>4. ms \in Seq(Message) /\ \A i \in 1 .. Len(ms) : ms[i] = m
      BY <3>2, <3>3, OneMessage
    <3> QED BY <3>2, <3>3, <3>4
  <2>2. CASE Ends(r)
    <3>1. PICK a, b : a = Says("completed", r, t) /\ b = Says("failed", r, t)
      OBVIOUS
    <3>2. PICK ms : (ms = <<a>> \/ ms = <<b, a>>) /\ Output(k, ms)
      BY <1>6, <2>2, <3>1 DEF Ends
    <3>3. MsgOK(a) /\ Sound(a) /\ MsgOK(b) /\ Sound(b)
      BY <1>7, <3>1
    <3>4. ms \in Seq(Message) /\ \A i \in 1 .. Len(ms) : ms[i] = b \/ ms[i] = a
      BY <3>2, <3>3, OneMessage, TwoMessages
    <3> QED BY <3>2, <3>3, <3>4
  <2> QED BY <2>1, <2>2
<1>9. OutputOK
  BY <1>1, <1>8, OutputStep, OutputFine
<1> QED BY <1>1, <1>2, <1>4, <1>5, <1>9, ServerEnds

LEMMA AsksApprovalEnds ==
    ASSUME Inv, EndInv, NEW r \in Turns, AsksApproval(r)
    PROVE  EndInv'
<1>1. TypeInv
  BY DEF Inv
<1>2. UNCHANGED <<requests, turn, hostVars, call>>
  BY DEF AsksApproval
<1>3. StillRuns(r) /\ turn[r].conn \in Conns /\ turn[r].thread \in {None} \cup Threads
  BY <1>1 DEF AsksApproval, TypeInv, TurnType, Turn, StillRuns
<1>4. PICK k \in Conns, t \in {None} \cup Threads : k = turn[r].conn /\ t = turn[r].thread
  BY <1>3
<1>5. PICK n \in Asks : Output(k, <<[Says("ask", r, t) EXCEPT !.ask = n]>>)
  BY <1>4 DEF AsksApproval
<1>6. PICK m : m = [Says("ask", r, t) EXCEPT !.ask = n]
  OBVIOUS
<1>7. MsgOK(m) /\ m.by = NoCaller /\ m.turn = r
  <2>1. m = [kind |-> "ask", by |-> NoCaller, turn |-> r, thread |-> t, ask |-> n]
    BY <1>6 DEF Says
  <2>2. m \in Message /\ m.by = NoCaller /\ m.kind = "ask" /\ m.ask = n /\ m.turn = r
    BY <2>1 DEF Message
  <2> QED BY <2>2 DEF MsgOK, Replies
<1>8. PICK ms : ms = <<m>> /\ Output(k, ms)
  BY <1>5, <1>6
<1>9. ms \in Seq(Message) /\ \A i \in 1 .. Len(ms) : ms[i] = m
  BY <1>7, <1>8, OneMessage
<1>10. Sound(m)
  BY <1>3, <1>7, SaysSound DEF Known
<1>11. OutputOK
  BY <1>1, <1>8, <1>9, <1>10, OutputStep, OutputFine
<1>12. TurnFine /\ \A g \in Turns : StillRuns(g)' => StillRuns(g)
  BY <1>2, SameTurnFine DEF StillRuns
<1>13. OneRuns'
  BY <1>12, OneRunsStays DEF EndInv
<1> QED BY <1>1, <1>2, <1>11, <1>12, <1>13, ServerEnds

LEMMA DiesEnds ==
    ASSUME Inv, EndInv, NEW k \in Conns, Dies(k)
    PROVE  EndInv'
<1>1. TypeInv
  BY DEF Inv
<1>2. UNCHANGED <<requests, wire, hostVars, call>>
  BY DEF Dies, pipeVars
<1>3. PICK R : R = {r \in Turns : turn[r].conn = k /\ turn[r].at # "unborn"}
  OBVIOUS
<1>4. turn' = Over(R) /\ \A r \in Turns : r \in R => Born(r)
  BY <1>3 DEF Dies, Over, Born
<1>5. TurnFine /\ \A r \in Turns : StillRuns(r)' => StillRuns(r)
  BY <1>1, <1>4, OverFine
<1>6. OneRuns'
  BY <1>5, OneRunsStays DEF EndInv
<1>7. OutputOK
  BY <1>1, <1>2, SameOutput, ShorterOutput
<1> QED BY <1>1, <1>2, <1>5, <1>6, <1>7, ServerEnds

-----------------------------------------------------------------------------
(* The invariant holds *)

LEMMA InitEnds == Init => EndInv
<1> SUFFICES ASSUME Init PROVE EndInv
  OBVIOUS
<1>1. /\ \A c \in Callers : call[c] = Idle
      /\ \A s \in Sessions : sess[s] = Absent
      /\ \A r \in Turns : turn[r].at = "unborn"
      /\ \A k \in Conns : Len(wire[k]) = 0
      /\ requests = {}
  BY DEF Init
<1>2. /\ Idle.op = "none" /\ Idle.pc = "idle" /\ Idle.seen = {} /\ Idle.todo = {}
      /\ Idle.answer.kind = "error" /\ ~Interrupting(Idle)
  BY IdleOK DEF Idle, Interrupting
<1>3. Absent.turn = None /\ ~Interruptible(Absent)
  BY DEF Absent, Interruptible
<1>4. \A k \in Conns : 1 .. Len(wire[k]) = {}
  BY <1>1
<1>5. Remembered /\ Gone
  BY <1>1, <1>3 DEF Remembered, Gone, Born
<1>6. Silent
  <2>1. Heard(Idle) = {}
    BY <1>2 DEF Heard
  <2>2. \A r \in Turns : ~Known(r)
    BY <1>1, <1>3, <1>4, <2>1 DEF Known, StillRuns, Shown, Told
  <2> QED BY <2>2 DEF Silent
<1>7. AskingInv
  <2>1. AskingOK(Idle)
    BY <1>2 DEF AskingOK
  <2>2. \A c \in Callers : \A r \in Turns : ~Asking(c, r)
    BY <1>1, <1>2 DEF Asking
  <2> QED BY <1>1, <2>1, <2>2 DEF AskingInv
<1>8. RequestInv
  BY <1>1 DEF RequestInv
<1>9. OneRuns
  BY <1>1 DEF OneRuns, StillRuns
<1>10. InterruptInv
  BY <1>1, <1>2, <1>4 DEF InterruptInv
<1>11. OwnInv
  BY <1>1, <1>2 DEF OwnInv
<1> QED BY <1>5, <1>6, <1>7, <1>8, <1>9, <1>10, <1>11 DEF EndInv

LEMMA InductiveEnds == Inv /\ EndInv /\ [Next]_vars => EndInv'
<1> SUFFICES ASSUME Inv, EndInv, [Next]_vars PROVE EndInv'
  OBVIOUS
<1>1. CASE \E c \in Callers : Call(c)
  BY <1>1, CallSteps, CallEnds, TimesOutEnds, RefusedEnds
<1>2. CASE \/ \E s \in Sessions : Rest(s)
           \/ \E n \in Asks : ResolvePermission(n)
           \/ ReaperLooks \/ Reap \/ UNCHANGED vars
  BY <1>2, RestEnds, IdleEnds
<1>3. CASE Server
  <2>1. CASE \E q \in requests : ServeThread(q) \/ ServeResume(q) \/ ServeTurn(q) \/ ServeInterrupt(q)
    BY <2>1, ServeThreadEnds, ServeTurnEnds, ServeInterruptEnds
  <2>2. CASE \E r \in Turns : Activates(r) \/ Ends(r) \/ AsksApproval(r)
    BY <2>2, TurnEnds, AsksApprovalEnds
  <2>3. CASE \E k \in Conns : Dies(k)
    BY <2>3, DiesEnds
  <2> QED BY <1>3, <2>1, <2>2, <2>3 DEF Server
<1>4. CASE Reader
  BY <1>4, ReadReplyEnds, ReadThreadEnds, ReadStartedEnds, ReadEndEnds, ReadAskEnds, ReaderEndsEnds DEF Reader
<1> QED BY <1>1, <1>2, <1>3, <1>4 DEF Next

LEMMA EndsImply == Inv /\ EndInv => NextTurnIsSafe
<1> SUFFICES ASSUME Inv, EndInv, NEW k \in reader, wire[k] # <<>>, NEW m, m = Head(wire[k]),
                    m.kind \in {"completed", "failed"}, fate[m.turn] # "loose",
                    NEW e, e = sess[turn[m.turn].home]
             PROVE  e.turn \in {None, m.turn} \/ Stale(e, m)
  BY DEF NextTurnIsSafe
<1>1. k \in Conns /\ wire[k] \in Seq(Message)
  BY DEF Inv, TypeInv, LinkType, WireType
<1>2. 1 \in 1 .. Len(wire[k]) /\ m = wire[k][1]
  <2>1. Len(wire[k]) \in Nat /\ Len(wire[k]) >= 1
    BY <1>1, EmptySeq, LenProperties
  <2> QED BY <1>1, <2>1
<1>3. m.turn \in Turns
  BY <1>1, <1>2 DEF Inv, TypeInv, WireType, MsgOK
<1>4. Born(m.turn)
  <2>1. Told(m.turn)
    BY <1>1, <1>2 DEF Told
  <2> QED BY <1>3, <2>1 DEF EndInv, Silent, Known, NotYet
<1>5. Refuses(e, m.turn)
  BY <1>3, <1>4 DEF EndInv, Remembered
<1> QED BY <1>5 DEF Refuses, Stale

LEMMA OwnImply == Inv /\ EndInv => OwnTurnIsOver
<1> SUFFICES ASSUME Inv, EndInv, NEW c \in Callers, Replaces(c), NEW r \in call[c].seen
             PROVE  ~(fate[r] = "ours" /\ StillRuns(r))
  BY DEF OwnTurnIsOver
<1>1. call[c].turn # None /\ ~Interrupting(call[c])
  BY DEF EndInv, AskingInv, AskingOK, Replaces, Interrupting
<1>2. OwnOK(c)
  BY DEF EndInv, OwnInv, Replaces
<1> QED BY <1>1, <1>2 DEF OwnOK, Runs

-----------------------------------------------------------------------------
(* Theorems *)

\* In every reachable state a session shows or refuses each turn that the host has not let go
\* of, no message is about a turn that was not served yet, one turn runs on a thread of a
\* process, the answer to an interrupt says what is so, and a turn that a call has interrupted
\* does not run at its process.
THEOREM EndsInvariance == Spec => [](Inv /\ EndInv)
<1>1. Init => Inv /\ EndInv
  BY InitInv, InitEnds
<1>2. Inv /\ EndInv /\ [Next]_vars => (Inv /\ EndInv)'
  BY InductiveInv, InductiveEnds
<1> QED BY <1>1, <1>2, PTL DEF Spec

\* A late end of a turn never ends the next turn of its session: as long as the host has not
\* let go of a turn, its session shows that turn or no other, or refuses what is late
\* (stale_turn_notification, remember_ignored_turn).
THEOREM LateEndsRefused == Spec => []NextTurnIsSafe
BY EndsImply, EndsInvariance, PTL

\* When a session asks for a turn in place of an own one, the one replaced has ended, unless it
\* runs in a process or a thread that the session has left (interrupt_turn_for_replacement).
THEOREM ReplacedIsOver == Spec => []OwnTurnIsOver
BY OwnImply, EndsInvariance, PTL
=============================================================================
