------------------------- MODULE RemoteServerProofs -------------------------
(* Safety properties of RemoteServer, for every number of servers, tokens, *)
(* connections, events and invokes, and for all limits.                    *)
EXTENDS RemoteServer, FiniteSetTheorems, TLAPS

-----------------------------------------------------------------------------
(* The invariant *)

\* TypeOK by parts, with what a thread has by the place it is at: a connection
\* its server, a broadcast and a flush theirs, an invoke its connection and
\* the context it works with.
ServerType ==
    /\ server \in {None} \cup Servers /\ started \in 0 .. MaxServers
    /\ token \in [Servers -> {None} \cup Tokens] /\ issued \in Tokens
    /\ rotating \in BOOLEAN
    /\ rotating => server \in Servers
ConnType ==
    /\ conn \in [Conns -> Conn]
    /\ \A c \in Conns : conn[c].pc # "unborn" => conn[c].home \in Servers
ListType == clients \in [Servers -> SUBSET Conns]
QueueType ==
    /\ queue \in [Conns -> Seq(Frame)]
    /\ \A c \in Conns : Len(queue[c]) <= Capacity
GotType == got \in [Conns -> [Events -> Nat]]
BufferType == buffer \in [Servers -> Frame] /\ scheduled \in [Servers -> BOOLEAN]
CastType ==
    /\ cast \in [Events -> Flusher]
    /\ \A n \in Events : cast[n].pc \notin {"none", "done"} => cast[n].server \in Servers
TimerType ==
    /\ timer \in [Events -> Flusher]
    /\ \A n \in Events : timer[n].pc \notin {"none", "done"} => timer[n].server \in Servers
ExpectType == expects \in [Events -> SUBSET Conns]
InvokeOK(x) ==
    /\ x.pc # "unborn" => x.conn \in Conns
    /\ x.pc \in {"unborn", "open"} => x.context = None
    /\ x.pc \in {"get", "close", "validate", "dial", "list", "check", "fail"} => x.context \in Invokes
InvokeType == invoke \in [Invokes -> Invoke] /\ \A i \in Invokes : InvokeOK(invoke[i])
ContextType == context \in [Invokes -> Context] /\ shut \subseteq Conns

EventType == BufferType /\ CastType /\ TimerType /\ ExpectType
TypeInv ==
    /\ ServerType
    /\ ConnType /\ ListType /\ QueueType /\ GotType
    /\ EventType
    /\ InvokeType /\ ContextType

\* Whoever is served by any server, running or not, is on its list or told to
\* close.
Listed ==
    \A c \in Conns : conn[c].pc \in Served /\ ~conn[c].close => c \in clients[Home(c)]

\* A context is listed only while its connection is open, and a connection to
\* another host has a context that is listed, or an invoke that will close it.
ContextsOpen ==
    /\ \A c \in Conns : At(c, "ended") => c \in shut
    /\ \A i \in Invokes : context[i].listed => invoke[i].pc # "unborn" /\ invoke[i].conn \notin shut
    /\ \A i \in Invokes : context[i].bound => context[i].listed \/ \E j \in Invokes : Using(j, i)

-----------------------------------------------------------------------------
(* Type correctness *)

LEMMA TypesImply == TypeInv => TypeOK
BY DEF TypeInv, TypeOK, ServerType, ConnType, ListType, QueueType, GotType, EventType, BufferType,
       CastType, TimerType, ExpectType, InvokeType, ContextType

\* What is left alone keeps its type.
LEMMA Frames ==
    ASSUME TypeInv
    PROVE  /\ UNCHANGED serverVars => ServerType'
           /\ UNCHANGED conn => ConnType'
           /\ UNCHANGED clients => ListType'
           /\ UNCHANGED queue => QueueType'
           /\ UNCHANGED got => GotType'
           /\ UNCHANGED <<buffer, scheduled>> => BufferType'
           /\ UNCHANGED cast => CastType'
           /\ UNCHANGED timer => TimerType'
           /\ UNCHANGED expects => ExpectType'
           /\ UNCHANGED invoke => InvokeType'
           /\ UNCHANGED <<context, shut>> => ContextType'
<1>1. UNCHANGED serverVars => ServerType'
  BY DEF TypeInv, ServerType, serverVars
<1>2. UNCHANGED conn => ConnType'
  BY DEF TypeInv, ConnType
<1>3. UNCHANGED clients => ListType'
  BY DEF TypeInv, ListType
<1>4. UNCHANGED queue => QueueType'
  BY DEF TypeInv, QueueType
<1>5. UNCHANGED got => GotType'
  BY DEF TypeInv, GotType
<1>6. UNCHANGED <<buffer, scheduled>> => BufferType'
  BY DEF TypeInv, EventType, BufferType
<1>7. UNCHANGED cast => CastType'
  BY DEF TypeInv, EventType, CastType
<1>8. UNCHANGED timer => TimerType'
  BY DEF TypeInv, EventType, TimerType
<1>9. UNCHANGED expects => ExpectType'
  BY DEF TypeInv, EventType, ExpectType
<1>10. UNCHANGED invoke => InvokeType'
  BY DEF TypeInv, InvokeType
<1>11. UNCHANGED <<context, shut>> => ContextType'
  BY DEF TypeInv, ContextType
<1> QED
  BY <1>1, <1>2, <1>3, <1>4, <1>5, <1>6, <1>7, <1>8, <1>9, <1>10, <1>11

LEMMA Groups ==
    ASSUME TypeInv
    PROVE  /\ UNCHANGED connVars => ConnType' /\ ListType' /\ QueueType' /\ GotType'
           /\ UNCHANGED eventVars => EventType'
           /\ UNCHANGED invokeVars => InvokeType' /\ ContextType'
BY Frames DEF connVars, eventVars, invokeVars, EventType

LEMMA InitTypes == Init => TypeInv
<1> SUFFICES ASSUME Init PROVE TypeInv
  OBVIOUS
<1>1. ServerType
  <2>1. 0 \in 0 .. MaxServers /\ 1 \in Tokens
    BY BoundAssumption DEF Tokens
  <2>2. token \in [Servers -> {None} \cup Tokens] /\ server = None /\ ~rotating /\ rotating \in BOOLEAN
    BY DEF Init
  <2> QED BY <2>1, <2>2 DEF Init, ServerType
<1>2. ConnType /\ ListType
  BY DEF Init, ConnType, ListType, Conn, Unborn, None
<1>3. QueueType /\ GotType
  BY LimitAssumption DEF Init, QueueType, GotType
<1>4. EventType
  BY DEF Init, EventType, BufferType, CastType, TimerType, ExpectType, Flusher, NoFlush, Frame, None
<1>5. InvokeType /\ ContextType
  BY DEF Init, InvokeType, InvokeOK, ContextType, Invoke, NoInvoke, Context, NoContext, None
<1> QED BY <1>1, <1>2, <1>3, <1>4, <1>5 DEF TypeInv

\* A thread of a connection that moves on, and clients that are told to close.
LEMMA GoesType ==
    ASSUME TypeInv, NEW c \in Conns, conn[c].pc # "unborn",
           NEW pc \in Served \cup {"login", "register", "leave", "close", "ended"}, Goes(c, pc)
    PROVE  ConnType'
<1>1. /\ conn' \in [Conns -> Conn]
      /\ \A d \in Conns : conn'[d].home = conn[d].home /\ (d # c => conn'[d].pc = conn[d].pc)
  BY DEF TypeInv, ConnType, Goes, Conn
<1> QED BY <1>1 DEF TypeInv, ConnType

LEMMA ToldType ==
    ASSUME TypeInv, NEW S, conn' = Told(S)
    PROVE  ConnType'
<1>1. \A d \in Conns : Told(S)[d] \in Conn /\ Told(S)[d].home = conn[d].home /\ Told(S)[d].pc = conn[d].pc
  BY DEF TypeInv, ConnType, Told, Conn
<1>2. conn' \in [Conns -> Conn]
  BY <1>1 DEF Told
<1> QED BY <1>1, <1>2 DEF TypeInv, ConnType

\* An invoke that moves on.
LEMMA MovesType ==
    ASSUME TypeInv, NEW i \in Invokes, invoke[i].pc # "unborn",
           NEW pc \in {"validate", "dial", "list", "check", "fail", "reply", "done"}, Moves(i, pc),
           pc \in {"validate", "dial", "list", "check", "fail"} => invoke[i].context \in Invokes
    PROVE  InvokeType'
<1>1. \A j \in Invokes : invoke'[j] = IF j = i THEN [invoke[i] EXCEPT !.pc = pc] ELSE invoke[j]
  BY DEF TypeInv, InvokeType, Moves
<1>2. invoke[i] \in Invoke /\ InvokeOK(invoke[i])
  BY DEF TypeInv, InvokeType
<1>3. [invoke[i] EXCEPT !.pc = pc] \in Invoke /\ InvokeOK([invoke[i] EXCEPT !.pc = pc])
  BY <1>2 DEF Invoke, InvokeOK
<1>4. invoke' \in [Invokes -> Invoke]
  BY <1>3 DEF TypeInv, InvokeType, Moves
<1> QED BY <1>1, <1>3, <1>4 DEF TypeInv, InvokeType

\* The server, started and stopped, and its token.
LEMMA ServerTypes ==
    ASSUME TypeInv, Start \/ Stop \/ RotateToken \/ RotateClients
    PROVE  TypeInv'
<1>1. CASE Start
  <2>1. started + 1 \in Servers /\ started + 1 \in 0 .. MaxServers
    BY <1>1, BoundAssumption DEF Start, TypeInv, ServerType, Servers
  <2>2. ServerType'
    BY <1>1, <2>1 DEF Start, TypeInv, ServerType
  <2> QED BY <1>1, <2>2, Groups DEF Start, TypeInv
<1>2. CASE Stop
  <2>1. ServerType'
    BY <1>2 DEF Stop, TypeInv, ServerType
  <2>2. ConnType'
    BY <1>2, ToldType DEF Stop
  <2> QED BY <1>2, <2>1, <2>2, Frames, Groups DEF Stop, TypeInv
<1>3. CASE RotateToken
  <2>1. issued + 1 \in Tokens
    BY <1>3, BoundAssumption DEF RotateToken, TypeInv, ServerType, Tokens
  <2>2. server \in Servers
    BY <1>3 DEF RotateToken, TypeInv, ServerType
  <2>3. ServerType'
    BY <1>3, <2>1, <2>2 DEF RotateToken, TypeInv, ServerType
  <2> QED BY <1>3, <2>3, Groups DEF RotateToken, TypeInv
<1>4. CASE RotateClients
  <2>1. ServerType'
    BY <1>4 DEF RotateClients, TypeInv, ServerType
  <2>2. ConnType'
    BY <1>4, ToldType DEF RotateClients
  <2>3. ListType'
    BY <1>4 DEF RotateClients, TypeInv, ListType
  <2> QED BY <1>4, <2>1, <2>2, <2>3, Frames, Groups DEF RotateClients, TypeInv
<1> QED BY <1>1, <1>2, <1>3, <1>4

\* The thread of a connection.
LEMMA ThreadTypes ==
    ASSUME TypeInv, NEW c \in Conns, Thread(c)
    PROVE  TypeInv'
<1>1. CASE Accept(c)
  <2>1. server \in Servers
    BY <1>1 DEF Accept, TypeInv, ServerType
  <2>2. PICK t \in 1 .. issued :
            conn' = [conn EXCEPT ![c] = [pc |-> "login", home |-> server, token |-> t, close |-> FALSE]]
    BY <1>1 DEF Accept
  <2>3. t \in Tokens
    BY BoundAssumption DEF TypeInv, ServerType, Tokens
  <2>4. [pc |-> "login", home |-> server, token |-> t, close |-> FALSE] \in Conn
    BY <2>1, <2>3 DEF Conn
  <2>5. ConnType'
    BY <2>1, <2>2, <2>4 DEF TypeInv, ConnType
  <2> QED BY <1>1, <2>5, Frames, Groups DEF Accept, TypeInv
<1>2. CASE Register(c) \/ Leave(c)
  <2>1. conn[c].home \in Servers
    BY <1>2 DEF Register, Leave, At, TypeInv, ConnType
  <2>2. ListType'
    BY <1>2, <2>1 DEF Register, Leave, TypeInv, ListType, Home
  <2>3. ConnType'
    BY <1>2, GoesType DEF Register, Leave, At, Served
  <2> QED BY <1>2, <2>2, <2>3, Frames, Groups DEF Register, Leave, TypeInv
<1>3. CASE LoginFails(c) \/ ReadToken(c) \/ Greet(c) \/ Check(c) \/ Drained(c) \/ ReadNothing(c) \/ ReadEnds(c)
           \/ SendFails(c)
  <2>1. ConnType'
    BY <1>3, GoesType DEF LoginFails, ReadToken, Greet, Check, Drained, ReadNothing, ReadEnds, SendFails, At, Served
  <2> QED
    BY <1>3, <2>1, Frames, Groups
    DEF LoginFails, ReadToken, Greet, Check, Drained, ReadNothing, ReadEnds, SendFails, TypeInv
<1>4. CASE SendFrame(c)
  <2>1. queue[c] \in Seq(Frame) /\ queue[c] # <<>>
    BY <1>4 DEF SendFrame, TypeInv, QueueType
  <2>2. Tail(queue[c]) \in Seq(Frame) /\ Len(Tail(queue[c])) = Len(queue[c]) - 1
    BY <2>1
  <2>3. Len(queue[c]) <= Capacity /\ Len(queue[c]) \in Nat
    BY <2>1 DEF TypeInv, QueueType
  <2>4. Len(Tail(queue[c])) <= Capacity
    BY <2>2, <2>3, LimitAssumption
  <2>5. QueueType'
    BY <1>4, <2>2, <2>4 DEF SendFrame, TypeInv, QueueType
  <2>6. GotType'
    BY <1>4 DEF SendFrame, TypeInv, GotType
  <2> QED BY <1>4, <2>5, <2>6, Frames, Groups DEF SendFrame, TypeInv
<1>5. ASSUME NEW i \in Invokes, NEW pc \in {"run", "open", "get", "close"}, ReadInvoke(c, i, pc)
      PROVE  TypeInv'
  <2>1. PICK k \in {j \in Invokes : j < i /\ invoke[j].conn = c} \cup {None} :
          /\ IF pc \in {"get", "close"} THEN k # None /\ invoke[k].pc = "done" ELSE k = None
          /\ invoke' = [invoke EXCEPT ![i] = [pc |-> pc, conn |-> c, context |-> k]]
    BY <1>5 DEF ReadInvoke
  <2>2. [pc |-> pc, conn |-> c, context |-> k] \in Invoke /\ InvokeOK([pc |-> pc, conn |-> c, context |-> k])
    BY <2>1 DEF Invoke, InvokeOK
  <2>3. InvokeType'
    BY <2>1, <2>2 DEF TypeInv, InvokeType
  <2>4. ConnType'
    BY <1>5, GoesType DEF ReadInvoke, At, Served
  <2> QED BY <1>5, <2>3, <2>4, Frames, Groups DEF ReadInvoke, TypeInv
<1>6. CASE CloseAll(c)
  <2>1. ConnType'
    BY <1>6, GoesType DEF CloseAll, At
  <2>2. <<>> \in Seq(Frame) /\ Len(<<>>) <= Capacity
    BY LimitAssumption
  <2>3. QueueType'
    BY <1>6, <2>2 DEF CloseAll, TypeInv, QueueType
  <2>4. Closed \in Context
    BY DEF Closed, Context
  <2>5. ContextType'
    BY <1>6, <2>4 DEF CloseAll, TypeInv, ContextType
  <2> QED BY <1>6, <2>1, <2>3, <2>5, Frames, Groups DEF CloseAll, TypeInv
<1> QED BY <1>1, <1>2, <1>3, <1>4, <1>5, <1>6 DEF Thread

\* A frame that is queued wherever it fits.
LEMMA Queued ==
    ASSUME TypeInv, NEW c \in Conns, NEW frame \in Frame, Fits(c)
    PROVE  Append(queue[c], frame) \in Seq(Frame) /\ Len(Append(queue[c], frame)) <= Capacity
<1>1. queue[c] \in Seq(Frame) /\ Len(queue[c]) < Capacity
  BY DEF TypeInv, QueueType, Fits
<1>2. Append(queue[c], frame) \in Seq(Frame) /\ Len(Append(queue[c], frame)) = Len(queue[c]) + 1
  BY <1>1
<1> QED BY <1>1, <1>2, LimitAssumption

LEMMA DeliverTypes ==
    ASSUME TypeInv, NEW v \in Servers, NEW frame \in Frame, Deliver(v, frame)
    PROVE  /\ ServerType' /\ ConnType' /\ ListType' /\ QueueType' /\ GotType' /\ InvokeType' /\ ContextType'
           /\ ExpectType'
<1> DEFINE direct == {c \in clients[v] : ~HasContexts(c)}
           lost == {c \in direct : ~Fits(c)}
<1>1. /\ queue' = [c \in Conns |-> IF c \in direct \ lost THEN Append(queue[c], frame) ELSE queue[c]]
      /\ conn' = Told(lost)
      /\ clients' = [clients EXCEPT ![v] = {c \in @ \ lost : c \in direct \/ ~conn[c].close}]
      /\ UNCHANGED <<serverVars, got, invokeVars>>
  BY DEF Deliver
<1>2. \A c \in Conns : c \in direct \ lost => Fits(c)
  OBVIOUS
<1> HIDE DEF direct, lost
<1>3. QueueType'
  <2>1. \A c \in Conns : queue'[c] \in Seq(Frame) /\ Len(queue'[c]) <= Capacity
    BY <1>1, <1>2, Queued DEF TypeInv, QueueType
  <2> QED BY <1>1, <2>1 DEF QueueType
<1>4. ConnType'
  BY <1>1, ToldType
<1>5. ListType'
  BY <1>1 DEF TypeInv, ListType
<1>6. ExpectType'
  <2>1. expects' = [n \in Events |-> IF n \in frame THEN {c \in expects[n] : ~HasContexts(c)} ELSE expects[n]]
    BY DEF Deliver
  <2> QED BY <2>1 DEF TypeInv, EventType, ExpectType
<1> QED BY <1>1, <1>3, <1>4, <1>5, <1>6, Frames, Groups

\* A broadcast or a flush that moves on, with or without what it holds.
FlushersOK(f) ==
    /\ f \in [Events -> Flusher]
    /\ \A n \in Events : f[n].pc \notin {"none", "done"} => f[n].server \in Servers
LEMMA FlushersMove ==
    ASSUME NEW f, FlushersOK(f), NEW n \in Events, f[n].pc \notin {"none", "done"},
           NEW pc \in {"none", "buffer", "flush", "held", "send", "asleep", "done"}, NEW h \in Frame
    PROVE  /\ FlushersOK([f EXCEPT ![n].pc = pc])
           /\ FlushersOK([f EXCEPT ![n].pc = pc, ![n].hold = h])
<1> DEFINE x == [f[n] EXCEPT !.pc = pc]
           y == [f[n] EXCEPT !.pc = pc, !.hold = h]
<1>1. f[n] \in Flusher /\ f[n].server \in Servers /\ f \in [Events -> Flusher]
  BY DEF FlushersOK
<1>2. x \in Flusher /\ x.server \in Servers /\ y \in Flusher /\ y.server \in Servers
  BY <1>1 DEF Flusher
<1>3. [f EXCEPT ![n].pc = pc] = [f EXCEPT ![n] = x]
  BY <1>1
<1>4. [f EXCEPT ![n].pc = pc, ![n].hold = h] = [f EXCEPT ![n] = y]
  BY <1>1
<1> HIDE DEF x, y
<1>5. FlushersOK([f EXCEPT ![n] = x]) /\ FlushersOK([f EXCEPT ![n] = y])
  BY <1>1, <1>2 DEF FlushersOK
<1> QED BY <1>3, <1>4, <1>5

\* An event.
LEMMA EventTypes ==
    ASSUME TypeInv, NEW n \in Events, Event(n)
    PROVE  TypeInv'
<1>0. /\ cast \in [Events -> Flusher] /\ cast[n] \in Flusher
      /\ timer \in [Events -> Flusher] /\ timer[n] \in Flusher
      /\ \A m \in Events : cast[m].pc \notin {"none", "done"} => cast[m].server \in Servers
      /\ \A m \in Events : timer[m].pc \notin {"none", "done"} => timer[m].server \in Servers
      /\ buffer \in [Servers -> Frame] /\ scheduled \in [Servers -> BOOLEAN]
      /\ {} \in Frame /\ {n} \in Frame
      /\ cast[n].hold \in Frame /\ timer[n].hold \in Frame
  BY DEF TypeInv, EventType, CastType, TimerType, BufferType, Frame, Flusher
<1>00. FlushersOK(cast) /\ FlushersOK(timer)
  BY <1>0 DEF FlushersOK
<1>1. ASSUME NEW pc \in {"buffer", "flush", "send"}, Broadcast(n, pc) PROVE TypeInv'
  <2>1. server \in Servers
    BY <1>1 DEF Broadcast, TypeInv, ServerType
  <2>2. [pc |-> pc, server |-> server, hold |-> {}] \in Flusher
    BY <1>0, <2>1 DEF Flusher
  <2>3. CastType'
    BY <1>0, <1>1, <2>1, <2>2 DEF Broadcast, CastType
  <2>4. clients[server] \in SUBSET Conns
    BY <2>1 DEF TypeInv, ListType
  <2>5. ExpectType'
    BY <1>1, <2>4 DEF Broadcast, TypeInv, EventType, ExpectType
  <2> QED BY <1>1, <2>3, <2>5, Frames, Groups DEF Broadcast, TypeInv, EventType
<1>2. CASE Enqueue(n)
  <2> DEFINE v == cast[n].server
  <2>1. v \in Servers
    BY <1>0, <1>2 DEF Enqueue
  <2>2. CastType'
    <3>1. FlushersOK([cast EXCEPT ![n].pc = "done"])
      BY <1>0, <1>00, <1>2, FlushersMove DEF Enqueue
    <3> QED BY <1>2, <3>1 DEF Enqueue, FlushersOK, CastType
  <2>3. buffer[v] \cup {n} \in Frame
    BY <1>0, <2>1 DEF Frame
  <2>4. BufferType'
    BY <1>0, <1>2, <2>3 DEF Enqueue, BufferType
  <2>5. [pc |-> "asleep", server |-> v, hold |-> {}] \in Flusher
    BY <1>0, <2>1 DEF Flusher
  <2>6. TimerType'
    BY <1>0, <1>2, <2>1, <2>5 DEF Enqueue, TimerType
  <2> QED BY <1>2, <2>2, <2>4, <2>6, Frames, Groups DEF Enqueue, TypeInv, EventType
<1>3. CASE FlushBefore(n)
  <2> DEFINE v == cast[n].server
  <2>1. v \in Servers /\ buffer[v] \in Frame
    BY <1>0, <1>3 DEF FlushBefore
  <2>2. BufferType'
    BY <1>0, <1>3 DEF FlushBefore, Take, BufferType
  <2>3. PICK pc \in {"send", "held"} : cast' = [cast EXCEPT ![n].pc = pc, ![n].hold = buffer[v]]
    BY <1>3 DEF FlushBefore
  <2>6. cast[n].pc \notin {"none", "done"}
    BY <1>3 DEF FlushBefore
  <2>4. FlushersOK([cast EXCEPT ![n].pc = pc, ![n].hold = buffer[v]])
    BY <1>00, <2>1, <2>6, FlushersMove
  <2>5. CastType'
    BY <2>3, <2>4 DEF FlushersOK, CastType
  <2> QED BY <1>3, <2>2, <2>5, Frames, Groups DEF FlushBefore, TypeInv, EventType
<1>4. CASE SendHeld(n) \/ SendEvent(n)
  <2>1. cast[n].server \in Servers
    BY <1>0, <1>4 DEF SendHeld, SendEvent
  <2>2. /\ ServerType' /\ ConnType' /\ ListType' /\ QueueType' /\ GotType' /\ InvokeType' /\ ContextType'
        /\ ExpectType'
    BY <1>0, <1>4, <2>1, DeliverTypes DEF SendHeld, SendEvent
  <2>3. /\ FlushersOK([cast EXCEPT ![n].pc = "send", ![n].hold = {}])
        /\ FlushersOK([cast EXCEPT ![n].pc = "done"])
    BY <1>0, <1>00, <1>4, FlushersMove DEF SendHeld, SendEvent
  <2>4. CastType'
    BY <1>4, <2>3 DEF SendHeld, SendEvent, FlushersOK, CastType
  <2> QED BY <1>4, <2>2, <2>4, Frames DEF SendHeld, SendEvent, TypeInv, EventType
<1>5. CASE TimerTakes(n)
  <2> DEFINE v == timer[n].server
  <2>1. v \in Servers /\ buffer[v] \in Frame
    BY <1>0, <1>5 DEF TimerTakes
  <2>2. BufferType'
    BY <1>0, <1>5 DEF TimerTakes, Take, BufferType
  <2>3. PICK pc \in {"done", "held"} : timer' = [timer EXCEPT ![n].pc = pc, ![n].hold = buffer[v]]
    BY <1>5 DEF TimerTakes
  <2>6. timer[n].pc \notin {"none", "done"}
    BY <1>5 DEF TimerTakes
  <2>4. FlushersOK([timer EXCEPT ![n].pc = pc, ![n].hold = buffer[v]])
    BY <1>00, <2>1, <2>6, FlushersMove
  <2>5. TimerType'
    BY <2>3, <2>4 DEF FlushersOK, TimerType
  <2> QED BY <1>5, <2>2, <2>5, Frames, Groups DEF TimerTakes, TypeInv, EventType
<1>6. CASE TimerSends(n)
  <2>1. timer[n].server \in Servers
    BY <1>0, <1>6 DEF TimerSends
  <2>2. /\ ServerType' /\ ConnType' /\ ListType' /\ QueueType' /\ GotType' /\ InvokeType' /\ ContextType'
        /\ ExpectType'
    BY <1>0, <1>6, <2>1, DeliverTypes DEF TimerSends
  <2>3. FlushersOK([timer EXCEPT ![n].pc = "done", ![n].hold = {}])
    BY <1>0, <1>00, <1>6, FlushersMove DEF TimerSends
  <2>4. TimerType'
    BY <1>6, <2>3 DEF TimerSends, FlushersOK, TimerType
  <2> QED BY <1>6, <2>2, <2>4, Frames DEF TimerSends, TypeInv, EventType
<1> QED BY <1>1, <1>2, <1>3, <1>4, <1>5, <1>6 DEF Event

\* An invoke, and what happens to the connection of a context.
LEMMA WorkTypes ==
    ASSUME TypeInv, NEW i \in Invokes, Work(i)
    PROVE  TypeInv'
<1>0. /\ invoke \in [Invokes -> Invoke] /\ invoke[i] \in Invoke /\ InvokeOK(invoke[i])
      /\ context \in [Invokes -> Context]
      /\ Closed \in Context
      /\ \A x \in Context : /\ \A b \in BOOLEAN : /\ [x EXCEPT !.listed = b] \in Context
                                                  /\ [x EXCEPT !.bound = b] \in Context
                                                  /\ [x EXCEPT !.closed = b] \in Context
                            /\ \A b \in BOOLEAN : [x EXCEPT !.closed = TRUE, !.bound = b] \in Context
                            /\ x.bound \in BOOLEAN
  BY DEF TypeInv, InvokeType, ContextType, Context, Closed
<1>1. CASE Open(i)
  <2>1. CASE Moves(i, "reply") /\ UNCHANGED context
    <3>1. InvokeType'
      BY <1>1, <2>1, MovesType DEF Open
    <3> QED BY <1>1, <2>1, <3>1, Frames, Groups DEF Open, TypeInv
  <2>2. CASE /\ invoke' = [invoke EXCEPT ![i].pc = "validate", ![i].context = i]
             /\ context' = [context EXCEPT ![i].listed = TRUE]
    <3>1. /\ [invoke[i] EXCEPT !.pc = "validate", !.context = i] \in Invoke
          /\ InvokeOK([invoke[i] EXCEPT !.pc = "validate", !.context = i])
      BY <1>0, <1>1 DEF Open, Invoke, InvokeOK
    <3>2. InvokeType'
      BY <1>0, <2>2, <3>1 DEF TypeInv, InvokeType
    <3>3. ContextType'
      BY <1>0, <1>1, <2>2 DEF Open, TypeInv, ContextType
    <3> QED BY <1>1, <3>2, <3>3, Frames, Groups DEF Open, TypeInv
  <2> QED BY <1>1, <2>1, <2>2 DEF Open
<1>2. CASE Get(i) \/ CloseContext(i)
  <2>1. /\ [invoke[i] EXCEPT !.pc = "reply", !.context = None] \in Invoke
        /\ InvokeOK([invoke[i] EXCEPT !.pc = "reply", !.context = None])
    BY <1>0, <1>2 DEF Get, CloseContext, Invoke, InvokeOK
  <2>2. InvokeType'
    <3>1. CASE Moves(i, "validate") /\ invoke[i].pc = "get"
      BY <1>0, <3>1, MovesType DEF InvokeOK
    <3>2. CASE invoke' = [invoke EXCEPT ![i].pc = "reply", ![i].context = None]
      BY <1>0, <2>1, <3>2 DEF TypeInv, InvokeType
    <3> QED BY <1>2, <3>1, <3>2 DEF Get, CloseContext
  <2>3. ContextType'
    BY <1>0, <1>2 DEF Get, CloseContext, TypeInv, ContextType
  <2> QED BY <1>2, <2>2, <2>3, Frames, Groups DEF Get, CloseContext, TypeInv
<1>3. CASE Validate(i) \/ Dial(i) \/ ListProfiles(i) \/ CheckClosed(i) \/ Fail(i)
  <2>1. Of(i) \in Invokes /\ invoke[i].context \in Invokes /\ invoke[i].pc # "unborn" /\ context[Of(i)] \in Context
    BY <1>0, <1>3 DEF Validate, Dial, ListProfiles, CheckClosed, Fail, InvokeOK, Of
  <2>2. \E pc \in {"validate", "dial", "list", "check", "fail", "reply", "done"} : Moves(i, pc)
    BY <1>3 DEF Validate, Dial, ListProfiles, CheckClosed, Fail
  <2>3. InvokeType'
    BY <2>1, <2>2, MovesType
  <2>4. context' \in [Invokes -> Context] /\ UNCHANGED shut
    <3>1. CASE Validate(i)
      <4> DEFINE b == IF context[Of(i)].closed THEN context[Of(i)].bound ELSE FALSE
                 x == [context[Of(i)] EXCEPT !.closed = TRUE, !.bound = b]
      <4>1. x \in Context
        BY <2>1 DEF Context
      <4>2. \/ UNCHANGED context
            \/ context' = [context EXCEPT ![Of(i)].closed = TRUE,
                              ![Of(i)].bound = IF context[Of(i)].closed THEN @ ELSE FALSE]
        BY <3>1 DEF Validate
      <4>3. UNCHANGED context \/ context' = [context EXCEPT ![Of(i)] = x]
        BY <1>0, <2>1, <4>2
      <4> HIDE DEF x
      <4> QED BY <1>0, <3>1, <4>1, <4>3 DEF Validate
    <3>2. CASE Dial(i) \/ ListProfiles(i) \/ CheckClosed(i)
      <4>1. \A b \in BOOLEAN : [context EXCEPT ![Of(i)].bound = b] \in [Invokes -> Context]
        BY <1>0, <2>1
      <4> QED BY <1>0, <3>2, <4>1 DEF Dial, ListProfiles, CheckClosed
    <3>3. CASE Fail(i)
      BY <1>0, <3>3 DEF Fail
    <3> QED BY <1>3, <3>1, <3>2, <3>3
  <2>5. ContextType'
    BY <2>4 DEF TypeInv, ContextType
  <2> QED
    BY <1>3, <2>3, <2>5, Frames, Groups DEF Validate, Dial, ListProfiles, CheckClosed, Fail, TypeInv
<1>4. CASE Reply(i)
  <2> DEFINE c == invoke[i].conn
  <2>1. invoke[i].pc # "unborn" /\ c \in Conns
    BY <1>0, <1>4 DEF Reply, InvokeOK
  <2>2. InvokeType'
    BY <1>4, <2>1, MovesType DEF Reply, Moves
  <2>3. {} \in Frame
    BY DEF Frame
  <2>4. QueueType'
    BY <1>4, <2>1, <2>3, Queued DEF Reply, TypeInv, QueueType
  <2>5. ConnType'
    BY <1>4, ToldType, Frames DEF Reply
  <2>6. ContextType'
    BY <1>0, <1>4 DEF Reply, TypeInv, ContextType
  <2> QED BY <1>4, <2>2, <2>4, <2>5, <2>6, Frames, Groups DEF Reply, TypeInv
<1>5. CASE Upstream(i)
  <2>1. ContextType'
    BY <1>0, <1>5 DEF Upstream, TypeInv, ContextType
  <2> QED BY <1>5, <2>1, Frames, Groups DEF Upstream, TypeInv
<1> QED BY <1>1, <1>2, <1>3, <1>4, <1>5 DEF Work

LEMMA NextTypes == TypeInv /\ [Next]_vars => TypeInv'
<1>1. TypeInv /\ UNCHANGED vars => TypeInv'
  BY Groups, Frames DEF vars, TypeInv
<1>2. TypeInv /\ Next => TypeInv'
  BY ServerTypes, ThreadTypes, EventTypes, WorkTypes DEF Next
<1> QED BY <1>1, <1>2

\* Every variable keeps its type; in particular no queue of a client exceeds its
\* capacity, whoever queues what.
THEOREM TypeCorrect == Spec => []TypeOK
<1>1. Spec => []TypeInv
  BY InitTypes, NextTypes, PTL DEF Spec
<1> QED BY <1>1, TypesImply, PTL

-----------------------------------------------------------------------------
(* No client that is served is missed *)

LEMMA ListedImplies == Listed => ServedIsListed
BY DEF Listed, ServedIsListed

LEMMA InitListed == Init => Listed
BY DEF Init, Listed, Unborn, Served

\* Being told to close, or moving on while being served, does no harm to a list
\* that only loses clients that are told.
LEMMA ListKept ==
    ASSUME Listed,
           \A c \in Conns : conn'[c].pc \in Served /\ ~conn'[c].close =>
                                /\ conn[c].pc \in Served /\ ~conn[c].close /\ conn'[c].home = conn[c].home
                                /\ c \in clients[conn[c].home] => c \in clients'[conn[c].home]
    PROVE  Listed'
BY DEF Listed, Home

LEMMA ToldOnly ==
    ASSUME TypeInv, NEW S, conn' = Told(S), NEW c \in Conns, ~conn'[c].close
    PROVE  c \notin S /\ conn'[c] = conn[c]
BY DEF Told, TypeInv, ConnType, Conn

LEMMA OnlyGoes ==
    ASSUME TypeInv, NEW c \in Conns, NEW pc, Goes(c, pc)
    PROVE  /\ conn'[c].pc = pc /\ conn'[c].home = conn[c].home /\ conn'[c].close = conn[c].close
           /\ \A d \in Conns \ {c} : conn'[d] = conn[d]
BY DEF Goes, TypeInv, ConnType, Conn

LEMMA DeliverKeeps ==
    ASSUME TypeInv, Listed, NEW v \in Servers, NEW frame, Deliver(v, frame)
    PROVE  Listed'
<1> DEFINE direct == {c \in clients[v] : ~HasContexts(c)}
           lost == {c \in direct : ~Fits(c)}
<1>1. /\ conn' = Told(lost)
      /\ clients' = [clients EXCEPT ![v] = {c \in @ \ lost : c \in direct \/ ~conn[c].close}]
  BY DEF Deliver
<1> HIDE DEF direct, lost
<1>2. SUFFICES ASSUME NEW c \in Conns, conn'[c].pc \in Served, ~conn'[c].close
               PROVE  /\ conn[c].pc \in Served /\ ~conn[c].close /\ conn'[c].home = conn[c].home
                      /\ c \in clients[conn[c].home] => c \in clients'[conn[c].home]
  BY ListKept
<1>3. c \notin lost /\ conn'[c] = conn[c]
  BY <1>1, <1>2, ToldOnly
<1>4. \A w \in Servers : clients'[w] = IF w = v THEN {d \in clients[v] \ lost : d \in direct \/ ~conn[d].close}
                                       ELSE clients[w]
  BY <1>1 DEF TypeInv, ListType
<1>5. conn[c].home \in Servers
  BY <1>2, <1>3 DEF TypeInv, ConnType, Served
<1> QED BY <1>2, <1>3, <1>4, <1>5

LEMMA NextListed == TypeInv /\ Listed /\ [Next]_vars => Listed'
<1> SUFFICES ASSUME TypeInv, Listed, [Next]_vars PROVE Listed'
  OBVIOUS
<1>1. CASE UNCHANGED <<conn, clients>>
  BY <1>1 DEF Listed, Home
<1>2. CASE Stop \/ RotateClients
  <2>1. SUFFICES ASSUME NEW c \in Conns, conn'[c].pc \in Served, ~conn'[c].close
                 PROVE  /\ conn[c].pc \in Served /\ ~conn[c].close /\ conn'[c].home = conn[c].home
                        /\ c \in clients[conn[c].home] => c \in clients'[conn[c].home]
    BY ListKept
  <2>2. conn' = Told(clients[server])
    BY <1>2 DEF Stop, RotateClients
  <2>3. c \notin clients[server] /\ conn'[c] = conn[c]
    BY <2>1, <2>2, ToldOnly
  <2>4. \A w \in Servers : clients'[w] = clients[w] \/ (w = server /\ clients'[w] = {})
    BY <1>2 DEF Stop, RotateClients, TypeInv, ListType
  <2>5. conn[c].home \in Servers
    BY <2>1, <2>3 DEF TypeInv, ConnType, Served
  <2> QED BY <2>1, <2>3, <2>4, <2>5
<1>3. ASSUME NEW c \in Conns, Thread(c) PROVE Listed'
  <2>1. CASE Accept(c)
    <3>1. /\ conn'[c].pc = "login"
          /\ \A d \in Conns \ {c} : conn'[d] = conn[d]
          /\ UNCHANGED clients
      BY <2>1 DEF Accept, TypeInv, ConnType
    <3> QED BY <3>1, ListKept DEF Served
  <2>2. CASE Register(c)
    <3>1. conn[c].home \in Servers
      BY <2>2 DEF Register, At, TypeInv, ConnType
    <3>2. \A w \in Servers : clients'[w] = IF w = conn[c].home THEN clients[w] \cup {c} ELSE clients[w]
      BY <2>2 DEF Register, Home, TypeInv, ListType
    <3>3. /\ conn'[c].home = conn[c].home
          /\ \A d \in Conns \ {c} : conn'[d] = conn[d]
      BY <2>2, OnlyGoes DEF Register
    <3>4. \A d \in Conns : conn[d].pc \in Served => conn[d].home \in Servers
      BY DEF TypeInv, ConnType, Served
    <3> QED BY <3>1, <3>2, <3>3, <3>4 DEF Listed, Home
  <2>3. CASE Leave(c)
    <3>1. conn[c].home \in Servers
      BY <2>3 DEF Leave, At, TypeInv, ConnType
    <3>2. \A w \in Servers : clients'[w] = IF w = conn[c].home THEN clients[w] \ {c} ELSE clients[w]
      BY <2>3 DEF Leave, Home, TypeInv, ListType
    <3>3. /\ conn'[c].pc = "close"
          /\ \A d \in Conns \ {c} : conn'[d] = conn[d]
      BY <2>3, OnlyGoes DEF Leave
    <3>4. \A d \in Conns : conn[d].pc \in Served => conn[d].home \in Servers
      BY DEF TypeInv, ConnType, Served
    <3> QED BY <3>1, <3>2, <3>3, <3>4, ListKept DEF Served
  <2>4. CASE LoginFails(c) \/ ReadToken(c) \/ CloseAll(c) \/ ReadEnds(c) \/ SendFails(c)
    <3>1. /\ \E pc \in {"leave", "register", "ended", "close"} : Goes(c, pc)
          /\ UNCHANGED clients
      BY <2>4 DEF LoginFails, ReadToken, CloseAll, ReadEnds, SendFails
    <3>2. /\ conn'[c].pc \notin Served
          /\ \A d \in Conns \ {c} : conn'[d] = conn[d]
      BY <3>1, OnlyGoes DEF Served
    <3> QED BY <3>1, <3>2, ListKept
  <2>5. CASE \/ Greet(c) \/ Check(c) \/ Drained(c) \/ ReadNothing(c)
             \/ \E i \in Invokes : \E pc \in {"run", "open", "get", "close"} : ReadInvoke(c, i, pc)
    <3>1. /\ conn[c].pc \in Served
          /\ \E pc \in Served \cup {"leave"} : Goes(c, pc)
          /\ UNCHANGED clients
      BY <2>5 DEF Greet, Check, Drained, ReadNothing, ReadInvoke, At, Served
    <3>2. /\ conn'[c].home = conn[c].home /\ conn'[c].close = conn[c].close
          /\ \A d \in Conns \ {c} : conn'[d] = conn[d]
      BY <3>1, OnlyGoes
    <3> QED BY <3>1, <3>2, ListKept
  <2>6. CASE SendFrame(c)
    BY <1>1, <2>6 DEF SendFrame
  <2> QED BY <1>3, <2>1, <2>2, <2>3, <2>4, <2>5, <2>6 DEF Thread
<1>4. ASSUME NEW n \in Events, Event(n) PROVE Listed'
  <2>1. CASE SendHeld(n) \/ SendEvent(n)
    <3>1. cast[n].server \in Servers
      BY <2>1 DEF SendHeld, SendEvent, TypeInv, EventType, CastType
    <3> QED BY <2>1, <3>1, DeliverKeeps DEF SendHeld, SendEvent
  <2>2. CASE TimerSends(n)
    <3>1. timer[n].server \in Servers
      BY <2>2 DEF TimerSends, TypeInv, EventType, TimerType
    <3> QED BY <2>2, <3>1, DeliverKeeps DEF TimerSends
  <2>3. CASE \/ \E pc \in {"buffer", "flush", "send"} : Broadcast(n, pc)
             \/ Enqueue(n) \/ FlushBefore(n) \/ TimerTakes(n)
    BY <1>1, <2>3 DEF Broadcast, Enqueue, FlushBefore, TimerTakes, connVars
  <2> QED BY <1>4, <2>1, <2>2, <2>3 DEF Event
<1>5. ASSUME NEW i \in Invokes, Work(i) PROVE Listed'
  <2>1. CASE Reply(i) /\ conn' # conn
    <3>1. /\ conn' = Told({invoke[i].conn})
          /\ UNCHANGED clients
      BY <2>1 DEF Reply
    <3>2. \A c \in Conns : ~conn'[c].close => conn'[c] = conn[c]
      BY <3>1, ToldOnly
    <3> QED BY <3>1, <3>2, ListKept
  <2>2. CASE Reply(i) /\ conn' = conn
    BY <1>1, <2>2 DEF Reply
  <2>3. CASE \/ Open(i) \/ Get(i) \/ CloseContext(i) \/ Validate(i) \/ Dial(i) \/ ListProfiles(i)
             \/ CheckClosed(i) \/ Fail(i) \/ Upstream(i)
    BY <1>1, <2>3
    DEF Open, Get, CloseContext, Validate, Dial, ListProfiles, CheckClosed, Fail, Upstream, connVars
  <2> QED BY <1>5, <2>1, <2>2, <2>3 DEF Work
<1>6. CASE Start \/ RotateToken \/ UNCHANGED vars
  BY <1>1, <1>6 DEF Start, RotateToken, vars, connVars
<1> QED BY <1>2, <1>3, <1>4, <1>5, <1>6 DEF Next

\* No rotation, no stop and no full queue leaves a client that is served, is not
\* told to close, and is not on the list its events are sent by.
THEOREM ServedAreListed == Spec => []ServedIsListed
<1>1. Spec => []TypeInv
  BY InitTypes, NextTypes, PTL DEF Spec
<1>2. Spec => []Listed
  BY <1>1, InitListed, NextListed, PTL DEF Spec
<1> QED BY <1>2, ListedImplies, PTL

-----------------------------------------------------------------------------
(* No context is left open *)

LEMMA ContextsImply == TypeInv /\ ContextsOpen => ClosedContextHoldsNothing
<1> SUFFICES ASSUME TypeInv, ContextsOpen, NEW i \in Invokes, context[i].bound, context[i].listed
             PROVE  ~At(invoke[i].conn, "ended")
  BY DEF ClosedContextHoldsNothing, ContextsOpen
<1>1. invoke[i].conn \in Conns /\ invoke[i].conn \notin shut
  BY DEF ContextsOpen, TypeInv, InvokeType, InvokeOK
<1> QED BY <1>1 DEF ContextsOpen

LEMMA InitContexts == Init => ContextsOpen
BY DEF Init, ContextsOpen, At, Unborn, NoContext

\* The parts of ContextsOpen, for one connection and one context.
Shut(c) == At(c, "ended") => c \in shut
OnOpen(i) == context[i].listed => invoke[i].pc # "unborn" /\ invoke[i].conn \notin shut
Held(i) == context[i].bound => context[i].listed \/ \E j \in Invokes : Using(j, i)

\* Threads and events that have nothing to do with contexts.
LEMMA ContextsKept ==
    ASSUME ContextsOpen, UNCHANGED <<invoke, context, shut>>,
           \A c \in Conns : conn'[c].pc = "ended" => conn[c].pc = "ended"
    PROVE  ContextsOpen'
BY DEF ContextsOpen, At, Using

\* An invoke that moves on, and one context that changes.
LEMMA InvokeKeeps ==
    ASSUME TypeInv, ContextsOpen, NEW i \in Invokes, UNCHANGED shut,
           \A c \in Conns : conn'[c].pc = conn[c].pc,
           \A j \in Invokes \ {i} : invoke'[j] = invoke[j],
           invoke[i].pc # "unborn", invoke'[i].pc # "unborn", invoke'[i].conn = invoke[i].conn,
           \A k \in Invokes : context'[k].listed => context[k].listed \/ (k = i /\ invoke[i].conn \notin shut),
           \A k \in Invokes : context'[k].bound =>
               \/ context'[k].listed
               \/ Using(i, k)'
               \/ context[k].bound /\ ~context[k].listed /\ (~Using(i, k) \/ \E j \in Invokes \ {i} : Using(j, k))
    PROVE  ContextsOpen'
<1>1. \A c \in Conns : Shut(c)'
  BY DEF ContextsOpen, Shut, At
<1>2. \A k \in Invokes : OnOpen(k)'
  BY DEF ContextsOpen, OnOpen
<1>3. ASSUME NEW k \in Invokes PROVE Held(k)'
  <2> SUFFICES ASSUME context'[k].bound, ~context'[k].listed, ~Using(i, k)'
               PROVE  \E j \in Invokes : Using(j, k)'
    BY DEF Held
  <2>1. context[k].bound /\ ~context[k].listed /\ (~Using(i, k) \/ \E j \in Invokes \ {i} : Using(j, k))
    OBVIOUS
  <2>2. PICK j \in Invokes : Using(j, k) /\ j # i
    BY <2>1 DEF ContextsOpen
  <2> QED BY <2>2 DEF Using
<1> QED BY <1>1, <1>2, <1>3 DEF ContextsOpen, Shut, OnOpen, Held

LEMMA OnlyMoves ==
    ASSUME TypeInv, NEW i \in Invokes, NEW pc, Moves(i, pc)
    PROVE  /\ invoke'[i].pc = pc /\ invoke'[i].conn = invoke[i].conn /\ invoke'[i].context = invoke[i].context
           /\ \A j \in Invokes \ {i} : invoke'[j] = invoke[j]
BY DEF Moves, TypeInv, InvokeType, Invoke

\* The end of a connection.
LEMMA CloseAllKeeps ==
    ASSUME TypeInv, ContextsOpen, NEW c \in Conns, CloseAll(c)
    PROVE  ContextsOpen'
<1>1. /\ conn'[c].pc = "ended" /\ \A d \in Conns \ {c} : conn'[d] = conn[d]
      /\ shut' = shut \cup {c} /\ UNCHANGED invoke
      /\ \A i \in Invokes : context'[i] = IF invoke[i].conn = c /\ context[i].listed THEN Closed
                                          ELSE context[i]
  BY OnlyGoes DEF CloseAll
<1>2. \A d \in Conns : Shut(d)'
  BY <1>1 DEF ContextsOpen, Shut, At
<1>3. \A i \in Invokes : OnOpen(i)'
  BY <1>1 DEF ContextsOpen, OnOpen, Closed
<1>4. \A i \in Invokes : Held(i)'
  BY <1>1 DEF ContextsOpen, Held, Closed, Using
<1> QED BY <1>2, <1>3, <1>4 DEF ContextsOpen, Shut, OnOpen, Held

\* An invoke that is read has no context yet, or has one of an invoke that is
\* done.
LEMMA ReadInvokeKeeps ==
    ASSUME TypeInv, ContextsOpen, NEW c \in Conns, NEW i \in Invokes, NEW pc \in {"run", "open", "get", "close"},
           ReadInvoke(c, i, pc)
    PROVE  ContextsOpen'
<1>1. /\ invoke[i].pc = "unborn"
      /\ \A j \in Invokes \ {i} : invoke'[j] = invoke[j]
      /\ UNCHANGED <<context, shut>>
  BY DEF ReadInvoke, TypeInv, InvokeType
<1>2. \A d \in Conns : conn'[d].pc = "ended" => conn[d].pc = "ended"
  BY OnlyGoes DEF ReadInvoke
<1>3. \A d \in Conns : Shut(d)'
  BY <1>1, <1>2 DEF ContextsOpen, Shut, At
<1>4. \A k \in Invokes : OnOpen(k)'
  BY <1>1 DEF ContextsOpen, OnOpen
<1>5. \A j, k \in Invokes : Using(j, k) => Using(j, k)'
  BY <1>1 DEF Using
<1>6. \A k \in Invokes : Held(k)'
  BY <1>1, <1>5 DEF ContextsOpen, Held
<1> QED BY <1>3, <1>4, <1>6 DEF ContextsOpen, Shut, OnOpen, Held

LEMMA WorkKeeps ==
    ASSUME TypeInv, ContextsOpen, NEW i \in Invokes, Work(i)
    PROVE  ContextsOpen'
<1>0. /\ context \in [Invokes -> Context] /\ invoke \in [Invokes -> Invoke] /\ InvokeOK(invoke[i])
      /\ \A k \in Invokes : context[k].bound => context[k].listed \/ \E j \in Invokes : Using(j, k)
  BY DEF TypeInv, InvokeType, ContextType, ContextsOpen
<1>1. CASE Open(i)
  <2>1. UNCHANGED <<conn, shut>> /\ invoke[i].pc = "open" /\ invoke[i].context = None
    BY <1>0, <1>1 DEF Open, InvokeOK, connVars
  <2>2. \A k \in Invokes : ~Using(i, k)
    BY <2>1 DEF Using, None, Invokes
  <2>3. CASE Moves(i, "reply") /\ UNCHANGED context
    BY <1>0, <2>1, <2>2, <2>3, OnlyMoves, InvokeKeeps
  <2>4. CASE /\ invoke[i].conn \notin shut
             /\ invoke' = [invoke EXCEPT ![i].pc = "validate", ![i].context = i]
             /\ context' = [context EXCEPT ![i].listed = TRUE]
    <3>1. /\ invoke'[i].pc = "validate" /\ invoke'[i].conn = invoke[i].conn
          /\ \A j \in Invokes \ {i} : invoke'[j] = invoke[j]
      BY <1>0, <2>4 DEF Invoke
    <3>2. context'[i].listed /\ \A k \in Invokes \ {i} : context'[k] = context[k]
      BY <1>0, <2>4 DEF Context
    <3> QED BY <2>1, <2>2, <2>4, <3>1, <3>2, InvokeKeeps
  <2> QED BY <1>1, <2>3, <2>4 DEF Open
<1>2. CASE Get(i)
  <2>1. /\ UNCHANGED <<conn, shut, context>> /\ invoke[i].pc = "get"
        /\ \A j \in Invokes \ {i} : invoke'[j] = invoke[j]
        /\ invoke'[i].pc # "unborn" /\ invoke'[i].conn = invoke[i].conn
    BY <1>0, <1>2, OnlyMoves DEF Get, Invoke, connVars
  <2>2. \A k \in Invokes : ~Using(i, k)
    BY <2>1 DEF Using
  <2> QED BY <2>1, <2>2, InvokeKeeps
<1>3. CASE CloseContext(i)
  <2>1. /\ UNCHANGED <<conn, shut>> /\ invoke[i].pc = "close"
        /\ \A j \in Invokes \ {i} : invoke'[j] = invoke[j]
        /\ invoke'[i].pc = "reply" /\ invoke'[i].conn = invoke[i].conn
    BY <1>0, <1>3 DEF CloseContext, Invoke, connVars
  <2>2. \A k \in Invokes : ~Using(i, k)
    BY <2>1 DEF Using
  <2>3. \A k \in Invokes : context'[k] = context[k] \/ context'[k] = Closed
    BY <1>0, <1>3 DEF CloseContext
  <2> QED BY <2>1, <2>2, <2>3, InvokeKeeps DEF Closed
<1>4. CASE Validate(i) \/ Dial(i) \/ ListProfiles(i) \/ CheckClosed(i) \/ Fail(i)
  <2>1. /\ invoke[i].pc \in {"validate", "dial", "list", "check", "fail"}
        /\ invoke[i].context \in Invokes /\ UNCHANGED <<conn, shut>>
    BY <1>0, <1>4 DEF Validate, Dial, ListProfiles, CheckClosed, Fail, InvokeOK, connVars
  <2>2. \E pc \in {"dial", "list", "check", "fail", "reply"} : Moves(i, pc)
    BY <1>4 DEF Validate, Dial, ListProfiles, CheckClosed, Fail
  <2>3. /\ \A j \in Invokes \ {i} : invoke'[j] = invoke[j]
        /\ invoke'[i].pc \in {"dial", "list", "check", "fail", "reply"} /\ invoke'[i].conn = invoke[i].conn
        /\ invoke'[i].context = invoke[i].context
    BY <2>2, OnlyMoves
  <2>4. \A k \in Invokes : Using(i, k) => Using(i, k)'
    BY <2>3 DEF Using
  <2>5. Using(i, Of(i)) /\ Using(i, Of(i))'
    BY <2>1, <2>3 DEF Using, Of
  <2>6. \A k \in Invokes : k = Of(i) \/ context'[k] = context[k] \/ context'[k] = Closed
    BY <1>0, <1>4, <2>1 DEF Validate, Dial, ListProfiles, CheckClosed, Fail, Of
  <2>7. context'[Of(i)].listed => context[Of(i)].listed
    BY <1>0, <1>4, <2>1 DEF Validate, Dial, ListProfiles, CheckClosed, Fail, Of, Context, Closed
  <2> QED BY <1>0, <2>1, <2>3, <2>4, <2>5, <2>6, <2>7, InvokeKeeps DEF Closed, Of
<1>5. CASE Reply(i)
  <2> DEFINE k == invoke[i].context
  <2>1. /\ UNCHANGED shut /\ invoke[i].pc # "unborn"
        /\ \A j \in Invokes \ {i} : invoke'[j] = invoke[j]
        /\ invoke'[i].pc = "done" /\ invoke'[i].conn = invoke[i].conn
    BY <1>0, <1>5 DEF Reply, Invoke
  <2>2. \A c \in Conns : conn'[c].pc = conn[c].pc
    BY <1>5 DEF Reply, Told, TypeInv, ConnType, Conn
  <2>3. context' = IF k # None /\ ~context[k].listed /\ \A j \in Invokes \ {i} : ~Using(j, k)
                   THEN [context EXCEPT ![k] = Closed] ELSE context
    BY <1>5 DEF Reply, Of
  <2> HIDE DEF k
  <2>4. \A m \in Invokes : context'[m].listed => context[m].listed
    BY <1>0, <2>3 DEF Closed
  <2>5. ASSUME NEW m \in Invokes, context'[m].bound, ~context'[m].listed
        PROVE  context[m].bound /\ ~context[m].listed /\ (~Using(i, m) \/ \E j \in Invokes \ {i} : Using(j, m))
    <3>1. m # None
      BY DEF None, Invokes
    <3>2. CASE m = k
      BY <1>0, <2>3, <2>5, <3>1, <3>2 DEF Closed
    <3>3. CASE m # k
      BY <1>0, <2>3, <2>5, <3>3 DEF Using, k
    <3> QED BY <3>2, <3>3
  <2> QED BY <2>1, <2>2, <2>4, <2>5, InvokeKeeps
<1>6. CASE Upstream(i)
  <2>1. UNCHANGED <<conn, invoke, shut>>
    BY <1>6 DEF Upstream, connVars
  <2>2. \A k \in Invokes : (context'[k].bound => context[k].bound) /\ context'[k].listed = context[k].listed
    BY <1>0, <1>6 DEF Upstream, Context
  <2> QED BY <2>1, <2>2 DEF ContextsOpen, At, Using
<1> QED BY <1>1, <1>2, <1>3, <1>4, <1>5, <1>6 DEF Work

LEMMA NextContexts == TypeInv /\ ContextsOpen /\ [Next]_vars => ContextsOpen'
<1> SUFFICES ASSUME TypeInv, ContextsOpen, [Next]_vars PROVE ContextsOpen'
  OBVIOUS
<1>1. ASSUME NEW S, conn' = Told(S) PROVE \A c \in Conns : conn'[c].pc = "ended" => conn[c].pc = "ended"
  BY <1>1 DEF Told, TypeInv, ConnType, Conn
<1>2. CASE Start \/ Stop \/ RotateToken \/ RotateClients \/ UNCHANGED vars
  <2>1. UNCHANGED <<invoke, context, shut>>
    BY <1>2 DEF Start, Stop, RotateToken, RotateClients, vars, invokeVars
  <2>2. UNCHANGED conn \/ \E S \in {clients[server]} : conn' = Told(S)
    BY <1>2 DEF Start, Stop, RotateToken, RotateClients, vars, connVars
  <2> QED BY <1>1, <2>1, <2>2, ContextsKept
<1>3. ASSUME NEW c \in Conns, Thread(c) PROVE ContextsOpen'
  <2>1. CASE Accept(c)
    <3>1. \A d \in Conns : conn'[d].pc = "ended" => conn[d].pc = "ended"
      BY <2>1 DEF Accept, TypeInv, ConnType
    <3> QED BY <2>1, <3>1, ContextsKept DEF Accept, invokeVars
  <2>2. CASE LoginFails(c) \/ ReadToken(c) \/ Register(c) \/ Greet(c) \/ Check(c) \/ Drained(c) \/ ReadNothing(c)
             \/ ReadEnds(c) \/ SendFails(c) \/ Leave(c)
    <3>1. /\ \E pc \in Served \cup {"register", "leave", "close"} : Goes(c, pc)
          /\ UNCHANGED <<invoke, context, shut>>
      BY <2>2
      DEF LoginFails, ReadToken, Register, Greet, Check, Drained, ReadNothing, ReadEnds, SendFails, Leave, Served,
          invokeVars
    <3>2. \A d \in Conns : conn'[d].pc = "ended" => conn[d].pc = "ended"
      BY <3>1, OnlyGoes DEF Served
    <3> QED BY <3>1, <3>2, ContextsKept
  <2>3. CASE SendFrame(c)
    BY <2>3, ContextsKept DEF SendFrame, invokeVars
  <2> QED BY <1>3, <2>1, <2>2, <2>3, ReadInvokeKeeps, CloseAllKeeps DEF Thread
<1>4. ASSUME NEW n \in Events, Event(n) PROVE ContextsOpen'
  <2>1. UNCHANGED <<invoke, context, shut>>
    BY <1>4
    DEF Event, Broadcast, Enqueue, FlushBefore, SendHeld, SendEvent, TimerTakes, TimerSends, Deliver, invokeVars
  <2>2. UNCHANGED conn \/ \E v \in {cast[n].server, timer[n].server}, frame \in {cast[n].hold, timer[n].hold, {n}} :
                              Deliver(v, frame)
    BY <1>4 DEF Event, Broadcast, Enqueue, FlushBefore, SendHeld, SendEvent, TimerTakes, TimerSends, connVars
  <2>3. \A v, frame : Deliver(v, frame) => \E S : conn' = Told(S)
    BY DEF Deliver
  <2> QED BY <1>1, <2>1, <2>2, <2>3, ContextsKept
<1> QED BY <1>2, <1>3, <1>4, WorkKeeps DEF Next

\* Whatever the order in which a connection ends and its contexts are opened,
\* used and closed, no connection to another host is left that nobody closes.
THEOREM ContextsHoldNothing == Spec => []ClosedContextHoldsNothing
<1>1. Spec => []TypeInv
  BY InitTypes, NextTypes, PTL DEF Spec
<1>2. Spec => []ContextsOpen
  BY <1>1, InitContexts, NextContexts, PTL DEF Spec
<1> QED BY <1>1, <1>2, ContextsImply, PTL

-----------------------------------------------------------------------------
(* Each event is sent once *)

\* Where an event is before it is sent: with its own broadcast, in the buffer of
\* its server, or with a flush that has taken the buffer.
Own(n) == cast[n].pc \in {"buffer", "flush", "held", "send"}
ByCast(n) == \E m \in Events : n \in cast[m].hold
ByTimer(n) == \E m \in Events : n \in timer[m].hold
InHand(n) == Own(n) \/ n \in buffer[cast[n].server] \/ ByCast(n) \/ ByTimer(n)

\* What a flusher holds it is about to send, a timer is set by an event that was
\* buffered, and who began to broadcast has a server.
HandsInv ==
    \A n \in Events :
        /\ cast[n].hold # {} => cast[n].pc = "held"
        /\ timer[n].hold # {} => timer[n].pc = "held"
        /\ cast[n].pc \in {"none", "buffer"} => timer[n].pc = "none"
        /\ cast[n].pc # "none" => cast[n].server \in Servers

\* An event that is buffered or held is at one place, whose server is its own, and
\* its broadcast is done.
BufferedAt(v, n) == n \in buffer[v] => /\ cast[n].pc = "done" /\ cast[n].server = v
                                      /\ ~ByCast(n) /\ ~ByTimer(n)
CastHolds(m, n) == n \in cast[m].hold =>
    /\ cast[n].pc = "done" /\ cast[n].server = cast[m].server /\ ~ByTimer(n)
    /\ \A k \in Events : n \in cast[k].hold => k = m
TimerHolds(m, n) == n \in timer[m].hold =>
    /\ cast[n].pc = "done" /\ cast[n].server = timer[m].server
    /\ \A k \in Events : n \in timer[k].hold => k = m
PlaceInv ==
    /\ \A v \in Servers, n \in Events : BufferedAt(v, n)
    /\ \A m, n \in Events : CastHolds(m, n) /\ TimerHolds(m, n)

\* What is buffered has a flush to come.
Flushing(v) == \E m \in Events : timer[m].pc = "asleep" /\ timer[m].server = v
ScheduleInv == \A v \in Servers : /\ buffer[v] # {} => scheduled[v]
                                  /\ scheduled[v] => Flushing(v)

\* Who is listed, or was when an event was broadcast, has logged in at its server.
LoggedIn(c) == conn[c].pc \notin {"unborn", "login", "register"}
ClientInv ==
    /\ \A v \in Servers : \A c \in clients[v] : LoggedIn(c) /\ conn[c].home = v
    /\ \A n \in Events : \A c \in expects[n] :
          LoggedIn(c) /\ conn[c].home = cast[n].server /\ cast[n].pc # "none"

\* An event that is in hand was sent to nobody; one that is not was queued once
\* for, or sent once to, whoever was to have it.
Has(q, n) == \E p \in DOMAIN q : n \in q[p]
HasOne(q, n) == \E p \in DOMAIN q : n \in q[p] /\ \A r \in DOMAIN q : n \in q[r] => r = p
Never(n, c) == got[c][n] = 0 /\ ~Has(queue[c], n)
Once(n, c) == \/ got[c][n] = 1 /\ ~Has(queue[c], n)
              \/ got[c][n] = 0 /\ HasOne(queue[c], n)
Attends(c) == conn[c].pc \in Served /\ ~conn[c].close
Unsent(n) == cast[n].pc = "none" \/ InHand(n)
SentInv ==
    \A n \in Events :
        /\ Unsent(n) => \A c \in Conns : Never(n, c)
        /\ ~Unsent(n) => \A c \in expects[n] : Attends(c) => Once(n, c)

EventInv == HandsInv /\ PlaceInv /\ ScheduleInv /\ ClientInv /\ SentInv

LEMMA HasAppend ==
    ASSUME NEW q \in Seq(Frame), NEW f \in Frame, NEW n \in Events
    PROVE  /\ n \notin f => /\ ~Has(q, n) => ~Has(Append(q, f), n)
                            /\ HasOne(q, n) => HasOne(Append(q, f), n)
           /\ n \in f /\ ~Has(q, n) => HasOne(Append(q, f), n)
<1>1. /\ DOMAIN q = 1 .. Len(q) /\ Len(q) \in Nat
      /\ DOMAIN Append(q, f) = 1 .. Len(q) + 1
      /\ \A p \in 1 .. Len(q) : Append(q, f)[p] = q[p]
      /\ Append(q, f)[Len(q) + 1] = f
  OBVIOUS
<1>2. \A p \in DOMAIN Append(q, f) : p \in DOMAIN q \/ p = Len(q) + 1
  BY <1>1
<1>3. DOMAIN q \subseteq DOMAIN Append(q, f) /\ Len(q) + 1 \in DOMAIN Append(q, f)
  BY <1>1
<1>4. \A p \in DOMAIN q : Append(q, f)[p] = q[p]
  BY <1>1
<1> QED BY <1>1, <1>2, <1>3, <1>4 DEF Has, HasOne

LEMMA HasTail ==
    ASSUME NEW q \in Seq(Frame), q # <<>>, NEW n \in Events
    PROVE  /\ ~Has(q, n) => n \notin Head(q) /\ ~Has(Tail(q), n)
           /\ HasOne(q, n) => IF n \in Head(q) THEN ~Has(Tail(q), n) ELSE HasOne(Tail(q), n)
<1>1. /\ Len(q) \in Nat /\ Len(q) > 0 /\ DOMAIN q = 1 .. Len(q) /\ Head(q) = q[1]
      /\ DOMAIN Tail(q) = 1 .. Len(q) - 1
      /\ \A p \in 1 .. Len(q) - 1 : Tail(q)[p] = q[p + 1]
  OBVIOUS
<1>2. 1 \in DOMAIN q /\ \A p \in DOMAIN Tail(q) : p + 1 \in DOMAIN q /\ p + 1 # 1 /\ Tail(q)[p] = q[p + 1]
  BY <1>1
<1>3. \A p \in DOMAIN q : p = 1 \/ (p - 1 \in DOMAIN Tail(q) /\ (p - 1) + 1 = p)
  BY <1>1
<1>4. \A p, r \in DOMAIN Tail(q) : p + 1 = r + 1 => p = r
  BY <1>1
<1>5. ~Has(q, n) => n \notin Head(q) /\ ~Has(Tail(q), n)
  BY <1>1, <1>2 DEF Has
<1>6. ASSUME HasOne(q, n), n \in Head(q) PROVE ~Has(Tail(q), n)
  BY <1>1, <1>2, <1>6 DEF Has, HasOne
<1>7. ASSUME HasOne(q, n), n \notin Head(q) PROVE HasOne(Tail(q), n)
  <2>1. PICK p \in DOMAIN q : n \in q[p] /\ \A r \in DOMAIN q : n \in q[r] => r = p
    BY <1>7 DEF HasOne
  <2>2. p - 1 \in DOMAIN Tail(q) /\ (p - 1) + 1 = p
    BY <1>1, <1>3, <1>7, <2>1
  <2>3. \A r \in DOMAIN Tail(q) : n \in Tail(q)[r] => r = p - 1
    BY <1>2, <1>4, <2>1, <2>2
  <2> QED BY <1>2, <2>1, <2>2, <2>3 DEF HasOne
<1> QED BY <1>5, <1>6, <1>7

LEMMA InitEvents == Init => EventInv
<1> SUFFICES ASSUME Init PROVE EventInv
  OBVIOUS
<1>1. HandsInv /\ PlaceInv /\ ScheduleInv
  BY DEF Init, HandsInv, PlaceInv, ScheduleInv, BufferedAt, CastHolds, TimerHolds, NoFlush
<1>2. ClientInv
  BY DEF Init, ClientInv
<1>3. \A n \in Events, c \in Conns : Never(n, c)
  BY DEF Init, Never, Has
<1>4. SentInv
  BY <1>3 DEF Init, SentInv, Unsent, NoFlush
<1> QED BY <1>1, <1>2, <1>4 DEF EventInv

\* A flusher that moves on, and what it holds then.
LEMMA FlusherMoves ==
    ASSUME NEW f \in [Events -> Flusher], NEW n \in Events, NEW pc, NEW h
    PROVE  /\ \A g \in {[f EXCEPT ![n].pc = pc]} :
                 /\ g[n].pc = pc /\ g[n].hold = f[n].hold /\ g[n].server = f[n].server
                 /\ \A m \in Events \ {n} : g[m] = f[m]
           /\ \A g \in {[f EXCEPT ![n].pc = pc, ![n].hold = h]} :
                 /\ g[n].pc = pc /\ g[n].hold = h /\ g[n].server = f[n].server
                 /\ \A m \in Events \ {n} : g[m] = f[m]
BY DEF Flusher

LEMMA EventFacts ==
    ASSUME TypeInv
    PROVE  /\ cast \in [Events -> Flusher] /\ timer \in [Events -> Flusher]
           /\ buffer \in [Servers -> Frame] /\ scheduled \in [Servers -> BOOLEAN]
           /\ \A n \in Events : cast[n].pc \notin {"none", "done"} => cast[n].server \in Servers
           /\ \A n \in Events : timer[n].pc \notin {"none", "done"} => timer[n].server \in Servers
BY DEF TypeInv, EventType, CastType, TimerType, BufferType

Flow == <<buffer, scheduled, cast, timer>>
LEMMA FlowKept ==
    ASSUME EventInv, UNCHANGED Flow
    PROVE  HandsInv' /\ PlaceInv' /\ ScheduleInv' /\ \A n \in Events : Unsent(n)' <=> Unsent(n)
<1>1. UNCHANGED <<buffer, scheduled, cast, timer>>
  BY DEF Flow
<1>2. HandsInv'
  BY <1>1 DEF EventInv, HandsInv
<1>3. PlaceInv'
  BY <1>1 DEF EventInv, PlaceInv, BufferedAt, CastHolds, TimerHolds, ByCast, ByTimer
<1>4. ScheduleInv'
  BY <1>1 DEF EventInv, ScheduleInv, Flushing
<1>5. \A n \in Events : Unsent(n)' <=> Unsent(n)
  BY <1>1 DEF Unsent, InHand, Own, ByCast, ByTimer
<1> QED BY <1>2, <1>3, <1>4, <1>5

\* A broadcast begins: the event is in hand from then on.
LEMMA BroadcastFlow ==
    ASSUME TypeInv, EventInv, NEW n \in Events, NEW pc \in {"buffer", "flush", "send"}, Broadcast(n, pc)
    PROVE  /\ HandsInv' /\ PlaceInv' /\ ScheduleInv'
           /\ \A m \in Events : Unsent(m)' <=> Unsent(m)
<1>1. /\ cast[n].pc = "none" /\ cast'[n].pc = pc /\ cast'[n].hold = {} /\ cast'[n].server = server
      /\ server \in Servers
      /\ \A m \in Events \ {n} : cast'[m] = cast[m]
      /\ UNCHANGED <<buffer, scheduled, timer>>
  BY EventFacts DEF Broadcast, TypeInv, ServerType
<1>2. /\ \A v \in Servers : n \notin buffer[v]
      /\ \A m \in Events : n \notin cast[m].hold /\ n \notin timer[m].hold
  BY <1>1 DEF EventInv, PlaceInv, BufferedAt, CastHolds, TimerHolds
<1>3. cast[n].hold = {} /\ timer[n].hold = {}
  BY <1>1 DEF EventInv, HandsInv
<1>4. HandsInv'
  BY <1>1 DEF EventInv, HandsInv
<1>5. \A m \in Events : (ByCast(m)' <=> ByCast(m)) /\ (ByTimer(m)' <=> ByTimer(m))
  BY <1>1, <1>3 DEF ByCast, ByTimer
<1>6. \A v \in Servers, m \in Events : BufferedAt(v, m)'
  BY <1>1, <1>2, <1>5 DEF EventInv, PlaceInv, BufferedAt
<1>7. \A k, m \in Events : CastHolds(k, m)' /\ TimerHolds(k, m)'
  BY <1>1, <1>2, <1>3, <1>5 DEF EventInv, PlaceInv, CastHolds, TimerHolds
<1>8. ScheduleInv'
  BY <1>1 DEF EventInv, ScheduleInv, Flushing
<1>9. \A m \in Events : Unsent(m)' <=> Unsent(m)
  BY <1>1, <1>5 DEF Unsent, InHand, Own
<1> QED BY <1>4, <1>6, <1>7, <1>8, <1>9 DEF PlaceInv

\* An event is buffered, and a flush is to come.
LEMMA EnqueueFlow ==
    ASSUME TypeInv, EventInv, NEW n \in Events, Enqueue(n)
    PROVE  /\ HandsInv' /\ PlaceInv' /\ ScheduleInv'
           /\ \A m \in Events : Unsent(m)' <=> Unsent(m)
<1>0. PICK v \in Servers : v = cast[n].server
  BY EventFacts DEF Enqueue
<1>1. /\ cast[n].pc = "buffer" /\ cast'[n].pc = "done" /\ cast'[n].hold = cast[n].hold
      /\ cast'[n].server = v
      /\ \A m \in Events \ {n} : cast'[m] = cast[m]
  BY <1>0, EventFacts, FlusherMoves DEF Enqueue
<1>2. v \in Servers
  BY <1>0
<1>3. /\ \A w \in Servers : buffer'[w] = IF w = v THEN buffer[w] \cup {n} ELSE buffer[w]
      /\ \A w \in Servers : scheduled'[w] = (w = v \/ scheduled[w])
  BY <1>0, EventFacts DEF Enqueue
<1>4. cast[n].hold = {} /\ timer[n].pc = "none" /\ timer[n].hold = {}
  BY <1>1 DEF EventInv, HandsInv
<1>5. /\ timer'[n].hold = {}
      /\ IF scheduled[v] THEN timer' = timer ELSE timer'[n].pc = "asleep" /\ timer'[n].server = v
      /\ \A m \in Events \ {n} : timer'[m] = timer[m]
  BY <1>0, <1>4, EventFacts DEF Enqueue
<1>6. /\ \A w \in Servers : n \notin buffer[w]
      /\ \A m \in Events : n \notin cast[m].hold /\ n \notin timer[m].hold
  BY <1>1 DEF EventInv, PlaceInv, BufferedAt, CastHolds, TimerHolds
<1>7. HandsInv'
  BY <1>1, <1>2, <1>4, <1>5 DEF EventInv, HandsInv
<1>8. \A m \in Events : (ByCast(m)' <=> ByCast(m)) /\ (ByTimer(m)' <=> ByTimer(m))
  BY <1>1, <1>4, <1>5 DEF ByCast, ByTimer
<1>9. \A w \in Servers, m \in Events : BufferedAt(w, m)'
  <2>1. ASSUME NEW w \in Servers PROVE BufferedAt(w, n)'
    <3>1. ~ByCast(n)' /\ ~ByTimer(n)'
      BY <1>6, <1>8 DEF ByCast, ByTimer
    <3> QED BY <1>1, <1>3, <1>6, <3>1 DEF BufferedAt
  <2>2. ASSUME NEW w \in Servers, NEW m \in Events, m # n PROVE BufferedAt(w, m)'
    <3>1. m \in buffer'[w] => m \in buffer[w]
      BY <1>3, <2>2
    <3>2. BufferedAt(w, m)
      BY DEF EventInv, PlaceInv
    <3> QED BY <1>1, <1>8, <2>2, <3>1, <3>2 DEF BufferedAt
  <2> QED BY <2>1, <2>2
<1>10. \A k, m \in Events : CastHolds(k, m)' /\ TimerHolds(k, m)'
  BY <1>1, <1>4, <1>5, <1>6, <1>8 DEF EventInv, PlaceInv, CastHolds, TimerHolds
<1>11. ScheduleInv'
  <2>1. Flushing(v)'
    BY <1>2, <1>5 DEF EventInv, ScheduleInv, Flushing
  <2>2. \A w \in Servers : Flushing(w) => Flushing(w)'
    BY <1>4, <1>5 DEF Flushing
  <2> QED BY <1>3, <2>1, <2>2 DEF EventInv, ScheduleInv
<1>12. \A m \in Events : Unsent(m)' <=> Unsent(m)
  <2>1. Unsent(n) /\ Unsent(n)'
    BY <1>0, <1>1, <1>2, <1>3 DEF Unsent, InHand, Own
  <2>2. ASSUME NEW m \in Events, m # n PROVE Unsent(m)' <=> Unsent(m)
    <3>1. cast[m].pc # "none" => cast[m].server \in Servers
      BY DEF EventInv, HandsInv
    <3>2. cast[m].pc # "none" => (m \in buffer'[cast[m].server] <=> m \in buffer[cast[m].server])
      BY <1>3, <2>2, <3>1
    <3>3. cast'[m] = cast[m]
      BY <1>1, <2>2
    <3> QED BY <1>8, <3>2, <3>3 DEF Unsent, InHand, Own
  <2> QED BY <2>1, <2>2
<1> QED BY <1>7, <1>9, <1>10, <1>11, <1>12 DEF PlaceInv

\* What is buffered is taken, before an event that must follow it.
LEMMA FlushFlow ==
    ASSUME TypeInv, EventInv, NEW n \in Events, FlushBefore(n)
    PROVE  /\ HandsInv' /\ PlaceInv' /\ ScheduleInv'
           /\ \A m \in Events : Unsent(m)' <=> Unsent(m)
<1> DEFINE v == cast[n].server
<1>1. /\ cast[n].pc = "flush" /\ cast'[n].hold = buffer[v] /\ cast'[n].server = v
      /\ cast'[n].pc = IF buffer[v] = {} THEN "send" ELSE "held"
      /\ \A m \in Events \ {n} : cast'[m] = cast[m]
      /\ UNCHANGED timer
  BY EventFacts, FlusherMoves DEF FlushBefore
<1>2. v \in Servers
  BY <1>1, EventFacts
<1>3. /\ \A w \in Servers : buffer'[w] = IF w = v THEN {} ELSE buffer[w]
      /\ \A w \in Servers : scheduled'[w] = (w # v /\ scheduled[w])
  BY <1>2, EventFacts DEF FlushBefore, Take
<1>4. cast[n].hold = {}
  BY <1>1 DEF EventInv, HandsInv
<1>5. \A m \in buffer[v] : m \in Events
  BY <1>2, EventFacts DEF Frame
<1>6. \A m \in buffer[v] : cast[m].pc = "done" /\ cast[m].server = v /\ ~ByCast(m) /\ ~ByTimer(m) /\ m # n
  BY <1>1, <1>2, <1>5 DEF EventInv, PlaceInv, BufferedAt
<1> HIDE DEF v
<1>7. HandsInv'
  BY <1>1, <1>2 DEF EventInv, HandsInv
<1>8. \A m \in Events : (ByCast(m)' <=> ByCast(m) \/ m \in buffer[v]) /\ (ByTimer(m)' <=> ByTimer(m))
  BY <1>1, <1>4 DEF ByCast, ByTimer
<1>9. \A w \in Servers, m \in Events : BufferedAt(w, m)'
  BY <1>1, <1>3, <1>6, <1>8 DEF EventInv, PlaceInv, BufferedAt
<1>10. \A k, m \in Events : CastHolds(k, m)'
  BY <1>1, <1>4, <1>6, <1>8 DEF EventInv, PlaceInv, CastHolds, ByCast
<1>11. \A k, m \in Events : TimerHolds(k, m)'
  BY <1>1, <1>6 DEF EventInv, PlaceInv, TimerHolds
<1>12. ScheduleInv'
  <2>1. \A w \in Servers : Flushing(w)' <=> Flushing(w)
    BY <1>1 DEF Flushing
  <2>2. \A w \in Servers : scheduled'[w] = (w # v /\ scheduled[w]) /\ buffer'[w] = IF w = v THEN {} ELSE buffer[w]
    BY <1>3
  <2> QED BY <2>1, <2>2 DEF EventInv, ScheduleInv
<1>13. \A m \in Events : Unsent(m)' <=> Unsent(m)
  <2>1. Unsent(n) /\ Unsent(n)'
    BY <1>1 DEF Unsent, InHand, Own
  <2>2. ASSUME NEW m \in Events, m # n PROVE Unsent(m)' <=> Unsent(m)
    <3>1. cast[m].pc # "none" => cast[m].server \in Servers
      BY DEF EventInv, HandsInv
    <3>2. cast'[m] = cast[m]
      BY <1>1, <2>2
    <3>3. CASE cast[m].pc = "none"
      BY <3>2, <3>3 DEF Unsent
    <3>4. CASE m \in buffer[v]
      BY <1>6, <1>8, <3>4 DEF Unsent, InHand
    <3>5. CASE cast[m].pc # "none" /\ m \notin buffer[v]
      <4>1. m \in buffer'[cast'[m].server] <=> m \in buffer[cast[m].server]
        BY <1>3, <3>1, <3>2, <3>5
      <4> QED BY <1>8, <3>2, <3>5, <4>1 DEF Unsent, InHand, Own
    <3> QED BY <3>3, <3>4, <3>5
  <2> QED BY <2>1, <2>2
<1> QED BY <1>7, <1>9, <1>10, <1>11, <1>12, <1>13 DEF PlaceInv

\* The timer takes what is buffered.
LEMMA TimerFlow ==
    ASSUME TypeInv, EventInv, NEW n \in Events, TimerTakes(n)
    PROVE  /\ HandsInv' /\ PlaceInv' /\ ScheduleInv'
           /\ \A m \in Events : Unsent(m)' <=> Unsent(m)
<1> DEFINE v == timer[n].server
<1>1. /\ timer[n].pc = "asleep" /\ timer'[n].hold = buffer[v] /\ timer'[n].server = v
      /\ timer'[n].pc = IF buffer[v] = {} THEN "done" ELSE "held"
      /\ \A m \in Events \ {n} : timer'[m] = timer[m]
      /\ UNCHANGED cast
  BY EventFacts, FlusherMoves DEF TimerTakes
<1>2. v \in Servers
  BY <1>1, EventFacts
<1>3. /\ \A w \in Servers : buffer'[w] = IF w = v THEN {} ELSE buffer[w]
      /\ \A w \in Servers : scheduled'[w] = (w # v /\ scheduled[w])
  BY <1>2, EventFacts DEF TimerTakes, Take
<1>4. timer[n].hold = {}
  BY <1>1 DEF EventInv, HandsInv
<1>5. \A m \in buffer[v] : m \in Events
  BY <1>2, EventFacts DEF Frame
<1>6. \A m \in buffer[v] : cast[m].pc = "done" /\ cast[m].server = v /\ ~ByCast(m) /\ ~ByTimer(m)
  BY <1>1, <1>2, <1>5 DEF EventInv, PlaceInv, BufferedAt
<1> HIDE DEF v
<1>7. HandsInv'
  BY <1>1, <1>2 DEF EventInv, HandsInv
<1>8. \A m \in Events : (ByTimer(m)' <=> ByTimer(m) \/ m \in buffer[v]) /\ (ByCast(m)' <=> ByCast(m))
  BY <1>1, <1>4 DEF ByCast, ByTimer
<1>9. \A w \in Servers, m \in Events : BufferedAt(w, m)'
  BY <1>1, <1>3, <1>6, <1>8 DEF EventInv, PlaceInv, BufferedAt
<1>10. \A k, m \in Events : CastHolds(k, m)'
  <2> SUFFICES ASSUME NEW k \in Events, NEW m \in Events, m \in cast[k].hold PROVE CastHolds(k, m)'
    BY <1>1 DEF CastHolds
  <2>1. CastHolds(k, m) /\ ByCast(m)
    BY DEF EventInv, PlaceInv, ByCast
  <2>2. ~ByTimer(m)'
    BY <1>6, <1>8, <2>1 DEF CastHolds
  <2> QED BY <1>1, <2>1, <2>2 DEF CastHolds
<1>11. \A k, m \in Events : TimerHolds(k, m)'
  BY <1>1, <1>4, <1>6, <1>8 DEF EventInv, PlaceInv, TimerHolds, ByTimer
<1>12. ScheduleInv'
  <2>1. \A w \in Servers : w # v /\ Flushing(w) => Flushing(w)'
    BY <1>1 DEF Flushing, v
  <2> QED BY <1>3, <2>1 DEF EventInv, ScheduleInv
<1>13. \A m \in Events : Unsent(m)' <=> Unsent(m)
  <2>1. ASSUME NEW m \in Events PROVE Unsent(m)' <=> Unsent(m)
    <3>1. cast[m].pc # "none" => cast[m].server \in Servers
      BY DEF EventInv, HandsInv
    <3> QED BY <1>1, <1>2, <1>3, <1>6, <1>8, <3>1 DEF Unsent, InHand, Own
  <2> QED BY <2>1
<1> QED BY <1>7, <1>9, <1>10, <1>11, <1>12, <1>13 DEF PlaceInv

\* What is sent is in hand no more.
Emitted(n) == IF cast[n].pc = "held" THEN cast[n].hold ELSE {n}
LEMMA SendFlow ==
    ASSUME TypeInv, EventInv, NEW n \in Events, SendHeld(n) \/ SendEvent(n)
    PROVE  /\ HandsInv' /\ PlaceInv' /\ ScheduleInv'
           /\ \A m \in Events : Unsent(m)' <=> Unsent(m) /\ m \notin Emitted(n)
           /\ \A m \in Emitted(n) : m \in Events /\ Unsent(m) /\ cast[m].server = cast[n].server
           /\ cast[n].server \in Servers /\ Deliver(cast[n].server, Emitted(n))
<1>1. /\ cast[n].pc \in {"held", "send"}
      /\ cast'[n].pc = IF cast[n].pc = "held" THEN "send" ELSE "done"
      /\ cast'[n].hold = {} /\ cast'[n].server = cast[n].server
      /\ \A m \in Events \ {n} : cast'[m] = cast[m]
      /\ UNCHANGED <<buffer, scheduled, timer>>
  <2>1. CASE SendHeld(n)
    BY <2>1, EventFacts, FlusherMoves DEF SendHeld
  <2>2. CASE SendEvent(n)
    BY <2>2, EventFacts, FlusherMoves DEF SendEvent, EventInv, HandsInv
  <2> QED BY <2>1, <2>2
<1>2. cast[n].server \in Servers /\ Deliver(cast[n].server, Emitted(n))
  BY <1>1, EventFacts DEF SendHeld, SendEvent, Emitted
<1>3. \A m \in Emitted(n) : m \in Events /\ Unsent(m) /\ cast[m].server = cast[n].server
  <2>1. CASE cast[n].pc = "held"
    <3>1. \A m \in cast[n].hold : m \in Events
      BY EventFacts DEF Flusher, Frame
    <3> QED BY <2>1, <3>1 DEF Emitted, Unsent, InHand, ByCast, EventInv, PlaceInv, CastHolds
  <2>2. CASE cast[n].pc # "held"
    BY <1>1, <2>2 DEF Emitted, Unsent, InHand, Own
  <2> QED BY <2>1, <2>2
<1>4. HandsInv'
  BY <1>1 DEF EventInv, HandsInv
<1>5. \A m \in Events : /\ ByCast(m)' <=> \E k \in Events \ {n} : m \in cast[k].hold
                        /\ ByTimer(m)' <=> ByTimer(m)
  BY <1>1 DEF ByCast, ByTimer
<1>6. \A w \in Servers, m \in Events : BufferedAt(w, m)'
  BY <1>1, <1>5 DEF EventInv, PlaceInv, BufferedAt, ByCast
<1>7. \A k, m \in Events : CastHolds(k, m)' /\ TimerHolds(k, m)'
  BY <1>1, <1>5 DEF EventInv, PlaceInv, CastHolds, TimerHolds
<1>8. ScheduleInv'
  BY <1>1 DEF EventInv, ScheduleInv, Flushing
<1>9. ASSUME NEW m \in Events PROVE Unsent(m)' <=> Unsent(m) /\ m \notin Emitted(n)
  <2>1. cast[m].pc # "none" => cast[m].server \in Servers
    BY DEF EventInv, HandsInv
  <2>2. CASE cast[n].pc = "held"
    <3>1. Emitted(n) = cast[n].hold
      BY <2>2 DEF Emitted
    <3>2. CASE m \in cast[n].hold
      <4>1. /\ cast[m].pc = "done" /\ cast[m].server = cast[n].server /\ ~ByTimer(m)
            /\ \A k \in Events : m \in cast[k].hold => k = n
        BY <3>2 DEF EventInv, PlaceInv, CastHolds
      <4>2. m \notin buffer[cast[m].server]
        BY <1>2, <3>2, <4>1 DEF EventInv, PlaceInv, BufferedAt, ByCast
      <4> QED BY <1>1, <1>5, <2>2, <3>1, <3>2, <4>1, <4>2 DEF Unsent, InHand, Own
    <3>3. CASE m \notin cast[n].hold
      <4>1. ByCast(m)' <=> ByCast(m)
        BY <1>5, <3>3 DEF ByCast
      <4>2. (cast'[m].pc = "none" <=> cast[m].pc = "none") /\ (Own(m)' <=> Own(m)) /\ cast'[m].server = cast[m].server
        BY <1>1, <2>2 DEF Own
      <4> QED BY <1>1, <1>5, <3>1, <3>3, <4>1, <4>2 DEF Unsent, InHand
    <3> QED BY <3>2, <3>3
  <2>3. CASE cast[n].pc # "held"
    <3>1. Emitted(n) = {n} /\ cast[n].pc = "send" /\ cast[n].hold = {}
      BY <1>1, <2>3 DEF Emitted, EventInv, HandsInv
    <3>2. ByCast(m)' <=> ByCast(m)
      BY <1>5, <3>1 DEF ByCast
    <3>3. CASE m = n
      <4>1. ~ByCast(n) /\ ~ByTimer(n) /\ n \notin buffer[cast[n].server]
        BY <1>2, <3>1 DEF EventInv, PlaceInv, CastHolds, TimerHolds, BufferedAt, ByCast, ByTimer
      <4> QED BY <1>1, <1>5, <3>1, <3>2, <3>3, <4>1 DEF Unsent, InHand, Own
    <3>4. CASE m # n
      BY <1>1, <1>5, <3>1, <3>2, <3>4 DEF Unsent, InHand, Own
    <3> QED BY <3>3, <3>4
  <2> QED BY <2>2, <2>3
<1> QED BY <1>2, <1>3, <1>4, <1>6, <1>7, <1>8, <1>9 DEF PlaceInv

LEMMA TimerSendFlow ==
    ASSUME TypeInv, EventInv, NEW n \in Events, TimerSends(n)
    PROVE  /\ HandsInv' /\ PlaceInv' /\ ScheduleInv'
           /\ \A m \in Events : Unsent(m)' <=> Unsent(m) /\ m \notin timer[n].hold
           /\ \A m \in timer[n].hold : m \in Events /\ Unsent(m) /\ cast[m].server = timer[n].server
           /\ timer[n].server \in Servers /\ Deliver(timer[n].server, timer[n].hold)
<1>1. /\ timer[n].pc = "held" /\ timer'[n].pc = "done" /\ timer'[n].hold = {}
      /\ \A m \in Events \ {n} : timer'[m] = timer[m]
      /\ UNCHANGED <<buffer, scheduled, cast>>
  BY EventFacts, FlusherMoves DEF TimerSends
<1>2. timer[n].server \in Servers /\ Deliver(timer[n].server, timer[n].hold)
  BY <1>1, EventFacts DEF TimerSends
<1>3. \A m \in timer[n].hold : m \in Events
  BY EventFacts DEF Flusher, Frame
<1>4. \A m \in timer[n].hold : /\ cast[m].pc = "done" /\ cast[m].server = timer[n].server
                               /\ ~ByCast(m) /\ m \notin buffer[cast[m].server]
                               /\ \A k \in Events : m \in timer[k].hold => k = n
  BY <1>2, <1>3 DEF EventInv, PlaceInv, TimerHolds, CastHolds, BufferedAt, ByTimer, ByCast
<1>5. \A m \in timer[n].hold : m \in Events /\ Unsent(m) /\ cast[m].server = timer[n].server
  BY <1>3, <1>4 DEF Unsent, InHand, ByTimer
<1>6. HandsInv'
  BY <1>1 DEF EventInv, HandsInv
<1>7. \A m \in Events : /\ ByTimer(m)' <=> \E k \in Events \ {n} : m \in timer[k].hold
                        /\ ByCast(m)' <=> ByCast(m)
  BY <1>1 DEF ByCast, ByTimer
<1>8. \A w \in Servers, m \in Events : BufferedAt(w, m)'
  BY <1>1, <1>7 DEF EventInv, PlaceInv, BufferedAt, ByTimer
<1>9. \A k, m \in Events : CastHolds(k, m)' /\ TimerHolds(k, m)'
  BY <1>1, <1>7 DEF EventInv, PlaceInv, CastHolds, TimerHolds, ByTimer
<1>10. ScheduleInv'
  BY <1>1 DEF EventInv, ScheduleInv, Flushing
<1>11. ASSUME NEW m \in Events PROVE Unsent(m)' <=> Unsent(m) /\ m \notin timer[n].hold
  <2>1. CASE m \in timer[n].hold
    BY <1>1, <1>4, <1>7, <2>1 DEF Unsent, InHand, Own
  <2>2. CASE m \notin timer[n].hold
    <3>1. ByTimer(m)' <=> ByTimer(m)
      BY <1>7, <2>2 DEF ByTimer
    <3> QED BY <1>1, <1>7, <2>2, <3>1 DEF Unsent, InHand, Own
  <2> QED BY <2>1, <2>2
<1> QED BY <1>2, <1>5, <1>6, <1>8, <1>9, <1>10, <1>11 DEF PlaceInv

\* Who has logged in stays so, at its server, and does not attend again.
Keeps(c) == LoggedIn(c) => /\ LoggedIn(c)' /\ conn'[c].home = conn[c].home
                           /\ conn'[c].pc \in Served /\ ~conn'[c].close => conn[c].pc \in Served /\ ~conn[c].close
LEMMA ConnKept ==
    ASSUME TypeInv, NEW c \in Conns, conn'[c] = conn[c] \/ \E S : conn' = Told(S)
    PROVE  Keeps(c)
BY DEF Keeps, LoggedIn, Told, TypeInv, ConnType, Conn

LEMMA ConnSteps ==
    ASSUME TypeInv, [Next]_vars, NEW c \in Conns
    PROVE  Keeps(c)
<1>1. CASE \E d \in Conns : Thread(d)
  <2> PICK d \in Conns : Thread(d)
    BY <1>1
  <2>1. CASE Accept(d)
    BY <2>1 DEF Accept, At, Keeps, LoggedIn, TypeInv, ConnType
  <2>2. CASE LoginFails(d) \/ ReadToken(d) \/ Register(d)
    <3>1. /\ ~LoggedIn(d) /\ \E pc \in {"leave", "register", "greet"} : Goes(d, pc)
      BY <2>2 DEF LoginFails, ReadToken, Register, At, LoggedIn
    <3> QED BY <3>1, OnlyGoes DEF Keeps, LoggedIn
  <2>3. CASE Greet(d) \/ Check(d) \/ Drained(d) \/ ReadNothing(d) \/ ReadEnds(d) \/ SendFails(d)
             \/ \E i \in Invokes : \E pc \in {"run", "open", "get", "close"} : ReadInvoke(d, i, pc)
    <3>1. conn[d].pc \in Served /\ \E pc \in Served \cup {"leave", "close"} : Goes(d, pc)
      BY <2>3 DEF Greet, Check, Drained, ReadNothing, ReadEnds, SendFails, ReadInvoke, At, Served
    <3> QED BY <3>1, OnlyGoes DEF Keeps, LoggedIn, Served
  <2>4. CASE Leave(d) \/ CloseAll(d)
    <3>1. \E pc \in {"close", "ended"} : Goes(d, pc)
      BY <2>4 DEF Leave, CloseAll
    <3> QED BY <3>1, OnlyGoes DEF Keeps, LoggedIn, Served
  <2>5. CASE SendFrame(d)
    BY <2>5, ConnKept DEF SendFrame
  <2> QED BY <2>1, <2>2, <2>3, <2>4, <2>5 DEF Thread
<1>2. CASE \E n \in Events : Event(n)
  <2> PICK n \in Events : Event(n)
    BY <1>2
  <2>1. UNCHANGED conn \/ \E v \in {cast[n].server, timer[n].server}, frame \in {cast[n].hold, timer[n].hold, {n}} :
                              Deliver(v, frame)
    BY DEF Event, Broadcast, Enqueue, FlushBefore, SendHeld, SendEvent, TimerTakes, TimerSends, connVars
  <2>2. \A v, frame : Deliver(v, frame) => \E S : conn' = Told(S)
    BY DEF Deliver
  <2> QED BY <2>1, <2>2, ConnKept
<1>3. CASE \E i \in Invokes : Work(i)
  <2> PICK i \in Invokes : Work(i)
    BY <1>3
  <2>1. UNCHANGED conn \/ conn' = Told({invoke[i].conn})
    BY DEF Work, Open, Get, CloseContext, Validate, Dial, ListProfiles, CheckClosed, Fail, Reply, Upstream, connVars
  <2> QED BY <2>1, ConnKept
<1>4. CASE Start \/ Stop \/ RotateToken \/ RotateClients \/ UNCHANGED vars
  <2>1. UNCHANGED conn \/ conn' = Told(clients[server])
    BY <1>4 DEF Start, Stop, RotateToken, RotateClients, vars, connVars
  <2> QED BY <2>1, ConnKept
<1> QED BY <1>1, <1>2, <1>3, <1>4 DEF Next

LEMMA AttendsBefore ==
    ASSUME TypeInv, EventInv, [Next]_vars, NEW c \in Conns, LoggedIn(c), Attends(c)'
    PROVE  Attends(c)
BY ConnSteps DEF Attends, Keeps

\* The lists only gain who has logged in.
LEMMA ClientSteps ==
    ASSUME TypeInv, [Next]_vars, NEW v \in Servers, NEW c \in clients'[v]
    PROVE  c \in clients[v] \/ (c \in Conns /\ LoggedIn(c)' /\ conn'[c].home = v)
<1>0. clients \in [Servers -> SUBSET Conns]
  BY DEF TypeInv, ListType
<1>1. CASE \E d \in Conns : Thread(d)
  <2> PICK d \in Conns : Thread(d)
    BY <1>1
  <2>1. CASE Register(d)
    <3>1. conn'[d].pc = "greet" /\ conn'[d].home = conn[d].home
      BY <2>1, OnlyGoes DEF Register
    <3>2. c \in clients[v] \/ (c = d /\ v = conn[d].home)
      BY <1>0, <2>1 DEF Register, Home
    <3> QED BY <3>1, <3>2 DEF LoggedIn
  <2>2. CASE ~Register(d)
    BY <1>0, <2>2
    DEF Thread, Accept, LoginFails, ReadToken, Greet, Check, SendFrame, Drained, ReadNothing, ReadInvoke, ReadEnds,
        SendFails, Leave, CloseAll
  <2> QED BY <2>1, <2>2
<1>2. CASE \E n \in Events : Event(n)
  <2> PICK n \in Events : Event(n)
    BY <1>2
  <2>1. \A w, frame : Deliver(w, frame) => c \in clients[v]
    BY <1>0 DEF Deliver
  <2>2. UNCHANGED clients \/ \E w \in {cast[n].server, timer[n].server}, frame \in {cast[n].hold, timer[n].hold, {n}} :
                              Deliver(w, frame)
    BY DEF Event, Broadcast, Enqueue, FlushBefore, SendHeld, SendEvent, TimerTakes, TimerSends, connVars
  <2> QED BY <2>1, <2>2
<1>3. CASE \E i \in Invokes : Work(i)
  BY <1>3
  DEF Work, Open, Get, CloseContext, Validate, Dial, ListProfiles, CheckClosed, Fail, Reply, Upstream, connVars
<1>4. CASE Start \/ Stop \/ RotateToken \/ RotateClients \/ UNCHANGED vars
  BY <1>0, <1>4 DEF Start, Stop, RotateToken, RotateClients, vars, connVars
<1> QED BY <1>1, <1>2, <1>3, <1>4 DEF Next

\* Who is to have an event is settled when its broadcast begins, or when it is sent.
LEMMA ExpectSteps ==
    ASSUME TypeInv, EventInv, [Next]_vars, NEW n \in Events
    PROVE  /\ cast[n].pc # "none" => cast'[n].pc # "none" /\ cast'[n].server = cast[n].server
           /\ \/ expects'[n] \subseteq expects[n]
              \/ /\ cast'[n].pc # "none" /\ cast'[n].server \in Servers /\ Unsent(n)'
                 /\ expects'[n] = clients[cast'[n].server]
<1>0. /\ cast \in [Events -> Flusher] /\ expects \in [Events -> SUBSET Conns]
  BY DEF TypeInv, EventType, CastType, ExpectType
<1>1. CASE UNCHANGED <<cast, expects>>
  BY <1>1
<1>2. ASSUME NEW m \in Events, NEW pc \in {"buffer", "flush", "send"}, Broadcast(m, pc)
      PROVE  /\ cast[n].pc # "none" => cast'[n].pc # "none" /\ cast'[n].server = cast[n].server
             /\ \/ expects'[n] \subseteq expects[n]
                \/ /\ cast'[n].pc # "none" /\ cast'[n].server \in Servers /\ Unsent(n)'
                   /\ expects'[n] = clients[cast'[n].server]
  <2>1. server \in Servers
    BY <1>2 DEF Broadcast, TypeInv, ServerType
  <2> QED BY <1>0, <1>2, <2>1 DEF Broadcast, Unsent, InHand, Own
<1>3. ASSUME NEW m \in Events, Event(m)
      PROVE  cast[n].pc # "none" => cast'[n].pc # "none" /\ cast'[n].server = cast[n].server
  <2>1. \A pc \in {"buffer", "flush", "send"} : Broadcast(m, pc) => cast'[n] = cast[n] \/ (n = m /\ cast[n].pc = "none")
    BY <1>0 DEF Broadcast
  <2>2. CASE Enqueue(m) \/ FlushBefore(m) \/ SendHeld(m) \/ SendEvent(m)
    <3>1. PICK pc \in {"send", "held", "done"} :
              cast' = [cast EXCEPT ![m].pc = pc] \/ \E h : cast' = [cast EXCEPT ![m].pc = pc, ![m].hold = h]
      BY <2>2 DEF Enqueue, FlushBefore, SendHeld, SendEvent
    <3>2. /\ \A k \in Events \ {m} : cast'[k] = cast[k]
          /\ cast'[m].server = cast[m].server /\ cast'[m].pc = pc
      <4>1. CASE cast' = [cast EXCEPT ![m].pc = pc]
        BY <1>0, <4>1 DEF Flusher
      <4>2. ASSUME NEW h, cast' = [cast EXCEPT ![m].pc = pc, ![m].hold = h]
            PROVE  /\ \A k \in Events \ {m} : cast'[k] = cast[k]
                   /\ cast'[m].server = cast[m].server /\ cast'[m].pc = pc
        BY <1>0, <4>2 DEF Flusher
      <4> QED BY <3>1, <4>1, <4>2
    <3> QED BY <3>2
  <2> QED BY <1>3, <2>1, <2>2 DEF Event, TimerTakes, TimerSends
<1>4. CASE \E m \in Events : Event(m)
  <2> PICK m \in Events : Event(m)
    BY <1>4
  <2>1. ASSUME NEW v, NEW frame, Deliver(v, frame) PROVE expects'[n] \subseteq expects[n]
    BY <2>1 DEF Deliver
  <2>2. \/ expects'[n] \subseteq expects[n]
        \/ \E pc \in {"buffer", "flush", "send"} : Broadcast(m, pc)
    BY <2>1 DEF Event, Enqueue, FlushBefore, SendHeld, SendEvent, TimerTakes, TimerSends
  <2> QED BY <1>2, <1>3, <2>2
<1>5. CASE ~\E m \in Events : Event(m)
  <2>1. UNCHANGED <<cast, expects>>
    BY <1>5
    DEF Next, Start, Stop, RotateToken, RotateClients, vars, eventVars, Thread, Accept, LoginFails, ReadToken, Register,
        Greet, Check, SendFrame, Drained, ReadNothing, ReadInvoke, ReadEnds, SendFails, Leave, CloseAll, Work, Open,
        Get, CloseContext, Validate, Dial, ListProfiles, CheckClosed, Fail, Reply, Upstream
  <2> QED BY <1>1, <2>1
<1> QED BY <1>4, <1>5

LEMMA NextClients == TypeInv /\ EventInv /\ [Next]_vars => ClientInv'
<1> SUFFICES ASSUME TypeInv, EventInv, [Next]_vars PROVE ClientInv'
  OBVIOUS
<1>0. /\ \A v \in Servers : \A c \in clients[v] : c \in Conns /\ LoggedIn(c) /\ conn[c].home = v
      /\ \A n \in Events : \A c \in expects[n] :
            c \in Conns /\ LoggedIn(c) /\ conn[c].home = cast[n].server /\ cast[n].pc # "none"
  BY DEF EventInv, ClientInv, TypeInv, ListType, EventType, ExpectType
<1>1. ASSUME NEW v \in Servers, NEW c \in clients'[v] PROVE LoggedIn(c)' /\ conn'[c].home = v
  BY <1>0, ClientSteps, ConnSteps DEF Keeps
<1>2. ASSUME NEW n \in Events, NEW c \in expects'[n]
      PROVE  LoggedIn(c)' /\ conn'[c].home = cast'[n].server /\ cast'[n].pc # "none"
  BY <1>0, ExpectSteps, ConnSteps DEF Keeps
<1> QED BY <1>1, <1>2 DEF ClientInv

\* A frame with events is queued once for who attends, or not at all.
LEMMA DeliverSent ==
    ASSUME TypeInv, Listed, EventInv, NEW v \in Servers, NEW frame \in Frame, Deliver(v, frame),
           NEW n \in Events, NEW c \in Conns
    PROVE  /\ n \notin frame => (Never(n, c) => Never(n, c)') /\ (Once(n, c) => Once(n, c)')
           /\ n \in frame /\ c \in expects'[n] /\ cast[n].server = v /\ Attends(c)' /\ Never(n, c) => Once(n, c)'
<1> DEFINE direct == {d \in clients[v] : ~HasContexts(d)}
           lost == {d \in direct : ~Fits(d)}
<1>1. /\ queue' = [d \in Conns |-> IF d \in direct \ lost THEN Append(queue[d], frame) ELSE queue[d]]
      /\ conn' = Told(lost)
      /\ got' = got /\ (n \in frame => expects'[n] = {d \in expects[n] : ~HasContexts(d)})
  BY DEF Deliver
<1> HIDE DEF direct, lost
<1>2. queue[c] \in Seq(Frame)
  BY DEF TypeInv, QueueType
<1>3. queue'[c] = queue[c] \/ queue'[c] = Append(queue[c], frame)
  BY <1>1
<1>4. ASSUME n \notin frame PROVE (Never(n, c) => Never(n, c)') /\ (Once(n, c) => Once(n, c)')
  <2>1. (~Has(queue[c], n) => ~Has(queue'[c], n)) /\ (HasOne(queue[c], n) => HasOne(queue'[c], n))
    <3>1. /\ ~Has(queue[c], n) => ~Has(Append(queue[c], frame), n)
          /\ HasOne(queue[c], n) => HasOne(Append(queue[c], frame), n)
      BY <1>2, <1>4, HasAppend
    <3> QED BY <1>3, <3>1
  <2> QED BY <1>1, <2>1 DEF Never, Once
<1>5. ASSUME n \in frame, c \in expects'[n], cast[n].server = v, Attends(c)', Never(n, c) PROVE Once(n, c)'
  <2>1. c \notin lost /\ conn'[c] = conn[c]
    BY <1>1, <1>5, ToldOnly DEF Attends
  <2>2. c \in clients[v]
    BY <1>1, <1>5, <2>1 DEF Attends, Listed, Home, EventInv, ClientInv
  <2>3. ~HasContexts(c)
    BY <1>1, <1>5
  <2>4. queue'[c] = Append(queue[c], frame)
    BY <1>1, <2>1, <2>2, <2>3 DEF direct
  <2>5. HasOne(queue'[c], n) /\ got'[c][n] = 0
    BY <1>1, <1>2, <1>5, <2>4, HasAppend DEF Never
  <2> QED BY <2>5 DEF Once
<1> QED BY <1>4, <1>5

\* A step that sends some of the events that are in hand, maybe none.
LEMMA SentKept ==
    ASSUME TypeInv, EventInv, [Next]_vars, NEW F,
           \A n \in Events : Unsent(n)' <=> Unsent(n) /\ n \notin F,
           \A n \in Events, c \in Conns :
               /\ n \notin F => (Never(n, c) => Never(n, c)') /\ (Attends(c)' => (Once(n, c) => Once(n, c)'))
               /\ n \in F => /\ Unsent(n)
                             /\ c \in expects'[n] /\ Attends(c)' /\ Never(n, c) => Once(n, c)'
    PROVE  SentInv'
<1>1. ASSUME NEW n \in Events, Unsent(n)', NEW c \in Conns PROVE Never(n, c)'
  BY <1>1 DEF EventInv, SentInv
<1>2. ASSUME NEW n \in Events, ~Unsent(n)', NEW c \in expects'[n], Attends(c)' PROVE Once(n, c)'
  <2>1. c \in expects[n]
    BY <1>2, ExpectSteps
  <2>2. c \in Conns /\ LoggedIn(c)
    BY <2>1 DEF EventInv, ClientInv, TypeInv, EventType, ExpectType
  <2>3. CASE n \in F
    BY <1>2, <2>2, <2>3 DEF EventInv, SentInv
  <2>4. CASE n \notin F
    <3>1. ~Unsent(n) /\ Attends(c)
      BY <1>2, <2>2, <2>4, AttendsBefore
    <3> QED BY <1>2, <2>1, <2>2, <2>4, <3>1 DEF EventInv, SentInv
  <2> QED BY <2>3, <2>4
<1> QED BY <1>1, <1>2 DEF SentInv

LEMMA NoneSent ==
    ASSUME TypeInv, EventInv, [Next]_vars,
           \A n \in Events : Unsent(n)' <=> Unsent(n),
           \A n \in Events, c \in Conns :
               (Never(n, c) => Never(n, c)') /\ (Attends(c)' => (Once(n, c) => Once(n, c)'))
    PROVE  SentInv'
<1> DEFINE F == {}
<1>1. \A n \in Events : Unsent(n)' <=> Unsent(n) /\ n \notin F
  OBVIOUS
<1>2. \A n \in Events, c \in Conns :
          /\ n \notin F => (Never(n, c) => Never(n, c)') /\ (Attends(c)' => (Once(n, c) => Once(n, c)'))
          /\ n \in F => /\ Unsent(n)
                        /\ c \in expects'[n] /\ Attends(c)' /\ Never(n, c) => Once(n, c)'
  OBVIOUS
<1> HIDE DEF F
<1> QED BY <1>1, <1>2, SentKept

\* What a thread of a connection and an invoke do to what is queued.
LEMMA QueueSteps ==
    ASSUME TypeInv, EventInv, NEW n \in Events, NEW c \in Conns,
           \/ \E d \in Conns : Thread(d)
           \/ \E i \in Invokes : Work(i)
           \/ Start \/ Stop \/ RotateToken \/ RotateClients \/ UNCHANGED vars
    PROVE  (Never(n, c) => Never(n, c)') /\ (Attends(c)' => (Once(n, c) => Once(n, c)'))
<1>0. /\ queue \in [Conns -> Seq(Frame)] /\ queue[c] \in Seq(Frame)
      /\ got \in [Conns -> [Events -> Nat]] /\ {} \in Frame
  BY DEF TypeInv, QueueType, GotType, Frame
<1>1. CASE got'[c] = got[c] /\ queue'[c] = queue[c]
  BY <1>1 DEF Never, Once
<1>2. ASSUME SendFrame(c)
      PROVE  (Never(n, c) => Never(n, c)') /\ (Attends(c)' => (Once(n, c) => Once(n, c)'))
  <2>1. /\ queue[c] # <<>> /\ queue'[c] = Tail(queue[c])
        /\ got'[c][n] = got[c][n] + (IF n \in Head(queue[c]) THEN 1 ELSE 0)
    BY <1>0, <1>2 DEF SendFrame
  <2>2. /\ ~Has(queue[c], n) => n \notin Head(queue[c]) /\ ~Has(queue'[c], n)
        /\ HasOne(queue[c], n) => IF n \in Head(queue[c]) THEN ~Has(queue'[c], n) ELSE HasOne(queue'[c], n)
    BY <1>0, <2>1, HasTail
  <2>3. got[c][n] \in Nat
    BY <1>0
  <2> QED BY <2>1, <2>2, <2>3 DEF Never, Once
<1>3. ASSUME CloseAll(c)
      PROVE  (Never(n, c) => Never(n, c)') /\ (Attends(c)' => (Once(n, c) => Once(n, c)'))
  <2>1. queue'[c] = <<>> /\ got' = got /\ conn'[c].pc = "ended"
    BY <1>0, <1>3, OnlyGoes DEF CloseAll
  <2> QED BY <2>1 DEF Never, Has, Attends, Served
<1>4. ASSUME NEW i \in Invokes, Reply(i)
      PROVE  (Never(n, c) => Never(n, c)') /\ (Attends(c)' => (Once(n, c) => Once(n, c)'))
  <2>1. got' = got /\ (queue'[c] = queue[c] \/ queue'[c] = Append(queue[c], {}))
    BY <1>0, <1>4 DEF Reply
  <2>2. (~Has(queue[c], n) => ~Has(queue'[c], n)) /\ (HasOne(queue[c], n) => HasOne(queue'[c], n))
    <3>1. /\ ~Has(queue[c], n) => ~Has(Append(queue[c], {}), n)
          /\ HasOne(queue[c], n) => HasOne(Append(queue[c], {}), n)
      BY <1>0, HasAppend
    <3> QED BY <2>1, <3>1
  <2> QED BY <2>1, <2>2 DEF Never, Once
<1>5. CASE \E d \in Conns : Thread(d)
  <2> PICK d \in Conns : Thread(d)
    BY <1>5
  <2>1. CASE (SendFrame(d) \/ CloseAll(d)) /\ d # c
    <3>1. got'[c] = got[c] /\ queue'[c] = queue[c]
      BY <1>0, <2>1 DEF SendFrame, CloseAll
    <3> QED BY <1>1, <3>1
  <2>2. CASE ~SendFrame(d) /\ ~CloseAll(d)
    <3>1. got' = got /\ queue' = queue
      BY <2>2
      DEF Thread, Accept, LoginFails, ReadToken, Register, Greet, Check, Drained, ReadNothing, ReadInvoke, ReadEnds,
          SendFails, Leave
    <3> QED BY <1>1, <3>1
  <2> QED BY <1>2, <1>3, <2>1, <2>2
<1>6. CASE \E i \in Invokes : Work(i)
  <2> PICK i \in Invokes : Work(i)
    BY <1>6
  <2>1. CASE ~Reply(i)
    <3>1. got' = got /\ queue' = queue
      BY <2>1 DEF Work, Open, Get, CloseContext, Validate, Dial, ListProfiles, CheckClosed, Fail, Upstream, connVars
    <3> QED BY <1>1, <3>1
  <2> QED BY <1>4, <2>1
<1>7. CASE Start \/ Stop \/ RotateToken \/ RotateClients \/ UNCHANGED vars
  <2>1. got' = got /\ queue' = queue
    BY <1>7 DEF Start, Stop, RotateToken, RotateClients, vars, connVars
  <2> QED BY <1>1, <2>1
<1> QED BY <1>5, <1>6, <1>7

LEMMA NextEvents == TypeInv /\ Listed /\ EventInv /\ [Next]_vars => EventInv'
<1> SUFFICES ASSUME TypeInv, Listed, EventInv, [Next]_vars PROVE EventInv'
  OBVIOUS
<1>0. ClientInv'
  BY NextClients
<1>1. CASE \/ \E d \in Conns : Thread(d)
           \/ \E i \in Invokes : Work(i)
           \/ Start \/ Stop \/ RotateToken \/ RotateClients \/ UNCHANGED vars
  <2>1. UNCHANGED Flow
    BY <1>1
    DEF Flow, Start, Stop, RotateToken, RotateClients, vars, eventVars, Thread, Accept, LoginFails, ReadToken, Register,
        Greet, Check, SendFrame, Drained, ReadNothing, ReadInvoke, ReadEnds, SendFails, Leave, CloseAll, Work, Open,
        Get, CloseContext, Validate, Dial, ListProfiles, CheckClosed, Fail, Reply, Upstream
  <2>2. HandsInv' /\ PlaceInv' /\ ScheduleInv' /\ \A n \in Events : Unsent(n)' <=> Unsent(n)
    BY <2>1, FlowKept
  <2>3. \A n \in Events, c \in Conns :
            (Never(n, c) => Never(n, c)') /\ (Attends(c)' => (Once(n, c) => Once(n, c)'))
    BY <1>1, QueueSteps
  <2>5. SentInv'
    BY <2>2, <2>3, NoneSent
  <2> QED BY <1>0, <2>2, <2>5 DEF EventInv
<1>2. ASSUME NEW n \in Events, Event(n), UNCHANGED <<queue, got>>,
             HandsInv' /\ PlaceInv' /\ ScheduleInv', \A m \in Events : Unsent(m)' <=> Unsent(m)
      PROVE  EventInv'
  <2>1. \A m \in Events, c \in Conns : (Never(m, c) => Never(m, c)') /\ (Once(m, c) => Once(m, c)')
    BY <1>2 DEF Never, Once
  <2>3. SentInv'
    BY <1>2, <2>1, NoneSent
  <2> QED BY <1>0, <1>2, <2>3 DEF EventInv
<1>3. ASSUME NEW v \in Servers, NEW frame \in Frame, Deliver(v, frame),
             HandsInv' /\ PlaceInv' /\ ScheduleInv',
             \A m \in Events : Unsent(m)' <=> Unsent(m) /\ m \notin frame,
             \A m \in frame : m \in Events /\ Unsent(m) /\ cast[m].server = v
      PROVE  EventInv'
  <2>1. \A m \in Events, c \in Conns :
            /\ m \notin frame => (Never(m, c) => Never(m, c)') /\ (Attends(c)' => (Once(m, c) => Once(m, c)'))
            /\ m \in frame => /\ Unsent(m)
                              /\ c \in expects'[m] /\ Attends(c)' /\ Never(m, c) => Once(m, c)'
    BY <1>3, DeliverSent
  <2>2. SentInv'
    BY <1>3, <2>1, SentKept
  <2> QED BY <1>0, <1>3, <2>2 DEF EventInv
<1>4. ASSUME NEW n \in Events, Event(n) PROVE EventInv'
  <2>1. ASSUME NEW pc \in {"buffer", "flush", "send"}, Broadcast(n, pc) PROVE EventInv'
    BY <1>2, <1>4, <2>1, BroadcastFlow DEF Broadcast, connVars
  <2>2. CASE Enqueue(n)
    BY <1>2, <1>4, <2>2, EnqueueFlow DEF Enqueue, connVars
  <2>3. CASE FlushBefore(n)
    BY <1>2, <1>4, <2>3, FlushFlow DEF FlushBefore, connVars
  <2>4. CASE TimerTakes(n)
    BY <1>2, <1>4, <2>4, TimerFlow DEF TimerTakes, connVars
  <2>5. CASE SendHeld(n) \/ SendEvent(n)
    <3>1. Emitted(n) \in Frame
      BY EventFacts DEF Emitted, Flusher, Frame
    <3> QED BY <1>3, <2>5, <3>1, SendFlow
  <2>6. CASE TimerSends(n)
    <3>1. timer[n].hold \in Frame
      BY EventFacts DEF Flusher
    <3> QED BY <1>3, <2>6, <3>1, TimerSendFlow
  <2> QED BY <1>4, <2>1, <2>2, <2>3, <2>4, <2>5, <2>6 DEF Event
<1> QED BY <1>1, <1>4 DEF Next

\* Being at one place is being counted once.
LEMMA CountOne ==
    ASSUME NEW S, NEW x \in S, \A y \in S : y = x
    PROVE  Cardinality(S) = 1
<1>1. S = {x}
  OBVIOUS
<1> QED BY <1>1, FS_Singleton

LEMMA CountNone ==
    ASSUME NEW S, \A y \in S : FALSE
    PROVE  Cardinality(S) = 0
<1>1. S = {}
  OBVIOUS
<1> QED BY <1>1, FS_EmptySet

LEMMA OccurrencesOne ==
    ASSUME TypeInv, NEW n \in Events, NEW c \in Conns
    PROVE  /\ Never(n, c) => Occurrences(n, c) = 0
           /\ Once(n, c) => Occurrences(n, c) = 1
<1> DEFINE S == {p \in DOMAIN queue[c] : n \in queue[c][p]}
<1>1. Occurrences(n, c) = got[c][n] + Cardinality(S)
  BY DEF Occurrences
<1>2. ~Has(queue[c], n) => Cardinality(S) = 0
  BY CountNone DEF Has
<1>3. HasOne(queue[c], n) => Cardinality(S) = 1
  <2> SUFFICES ASSUME HasOne(queue[c], n) PROVE Cardinality(S) = 1
    OBVIOUS
  <2>1. PICK p \in DOMAIN queue[c] : n \in queue[c][p] /\ \A r \in DOMAIN queue[c] : n \in queue[c][r] => r = p
    BY DEF HasOne
  <2> QED BY <2>1, CountOne
<1> QED BY <1>1, <1>2, <1>3 DEF Never, Once

LEMMA WaitingOne ==
    ASSUME TypeInv, EventInv, NEW n \in Events, cast[n].pc # "none"
    PROVE  Waiting(n) = IF InHand(n) THEN 1 ELSE 0
<1> DEFINE v == cast[n].server
           C == {m \in Events : n \in cast[m].hold}
           T == {m \in Events : n \in timer[m].hold}
           o == IF cast[n].pc \in {"buffer", "flush", "held", "send"} THEN 1 ELSE 0
           b == IF n \in buffer[v] /\ Flushing(v) THEN 1 ELSE 0
<1>1. Waiting(n) = Cardinality(C) + Cardinality(T) + o + b
  BY DEF Waiting, Flushing
<1>2. v \in Servers
  BY DEF EventInv, HandsInv
<1>3. Cardinality(C) = IF ByCast(n) THEN 1 ELSE 0
  <2>1. CASE ByCast(n)
    <3>1. PICK m \in Events : n \in cast[m].hold
      BY <2>1 DEF ByCast
    <3>2. \A k \in C : k = m
      BY <3>1 DEF EventInv, PlaceInv, CastHolds
    <3> QED BY <2>1, <3>1, <3>2, CountOne
  <2>2. CASE ~ByCast(n)
    BY <2>2, CountNone DEF ByCast
  <2> QED BY <2>1, <2>2
<1>4. Cardinality(T) = IF ByTimer(n) THEN 1 ELSE 0
  <2>1. CASE ByTimer(n)
    <3>1. PICK m \in Events : n \in timer[m].hold
      BY <2>1 DEF ByTimer
    <3>2. \A k \in T : k = m
      BY <3>1 DEF EventInv, PlaceInv, TimerHolds
    <3> QED BY <2>1, <3>1, <3>2, CountOne
  <2>2. CASE ~ByTimer(n)
    BY <2>2, CountNone DEF ByTimer
  <2> QED BY <2>1, <2>2
<1>5. o = IF Own(n) THEN 1 ELSE 0
  BY DEF Own
<1>6. b = IF n \in buffer[v] THEN 1 ELSE 0
  BY <1>2 DEF EventInv, ScheduleInv
<1>7. /\ n \in buffer[v] => ~Own(n) /\ ~ByCast(n) /\ ~ByTimer(n)
      /\ ByCast(n) => ~Own(n) /\ ~ByTimer(n)
      /\ ByTimer(n) => ~Own(n)
  BY <1>2 DEF EventInv, PlaceInv, BufferedAt, CastHolds, TimerHolds, ByCast, ByTimer, Own
<1> HIDE DEF C, T, o, b
<1> QED BY <1>1, <1>3, <1>4, <1>5, <1>6, <1>7 DEF InHand

LEMMA EventsImply == TypeInv /\ EventInv => EachEventOnce
<1> SUFFICES ASSUME TypeInv, EventInv, NEW n \in Events, NEW c \in expects[n], Attends(c)
             PROVE  Occurrences(n, c) + Waiting(n) = 1
  BY DEF EachEventOnce, Attends
<1>1. c \in Conns /\ cast[n].pc # "none"
  BY DEF TypeInv, EventType, ExpectType, EventInv, ClientInv
<1>2. CASE InHand(n)
  <2>1. Never(n, c)
    BY <1>1, <1>2 DEF EventInv, SentInv, Unsent
  <2> QED BY <1>1, <1>2, <2>1, OccurrencesOne, WaitingOne
<1>3. CASE ~InHand(n)
  <2>1. Once(n, c)
    BY <1>1, <1>3 DEF EventInv, SentInv, Unsent
  <2> QED BY <1>1, <1>3, <2>1, OccurrencesOne, WaitingOne
<1> QED BY <1>2, <1>3

\* Between the broadcast of an event, the buffer, the timer, the flush of a later
\* event and the answers that share the queue, none is lost and none is sent twice.
THEOREM EventsSentOnce == Spec => []EachEventOnce
<1>1. Spec => []TypeInv
  BY InitTypes, NextTypes, PTL DEF Spec
<1>2. Spec => []Listed
  BY <1>1, InitListed, NextListed, PTL DEF Spec
<1>3. Spec => []EventInv
  BY <1>1, <1>2, InitEvents, NextEvents, PTL DEF Spec
<1> QED BY <1>1, <1>3, EventsImply, PTL
=============================================================================
