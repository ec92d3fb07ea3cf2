----------------------- MODULE RemoteClientPoolProofs -----------------------
(* The pool of remote connections, for any number of windows, hosts,       *)
(* worker threads, calls and connections.                                  *)
EXTENDS RemoteClientPool, TLAPS

-----------------------------------------------------------------------------
(* Type correctness *)

\* Connections are numbered by positive naturals.
LEMMA Numbers == Conns \subseteq Nat \ {0} /\ NoConn \notin Conns
BY BoundAssumption DEF Conns, NoConn

\* The initial state is well typed.
LEMMA InitType == Init => TypeOK
BY DEF Init, TypeOK, Idle, TaskRecord, TaskOK, NotCalled, CallRecord, CallOK

\* A step of one worker thread that leaves it in a proper state.
LEMMA TaskStep ==
    ASSUME TypeOK, NEW t \in Tasks, NEW x \in TaskRecord, TaskOK(x),
           task' = [task EXCEPT ![t] = x]
    PROVE  task' \in [Tasks -> TaskRecord] /\ \A u \in Tasks : TaskOK(task'[u])
BY DEF TypeOK

\* A step of one call that leaves it in a proper state.
LEMMA CallStep ==
    ASSUME TypeOK, NEW i \in Calls, NEW x \in CallRecord, CallOK(x),
           call' = [call EXCEPT ![i] = x]
    PROVE  call' \in [Calls -> CallRecord] /\ \A j \in Calls : CallOK(call'[j])
BY DEF TypeOK

\* What release_binding returns into is a proper state.
LEMMA ReleasedType ==
    ASSUME TypeOK, NEW t \in Tasks, ~At(t, "idle")
    PROVE  Released(t) \in TaskRecord /\ TaskOK(Released(t))
<1>1. task[t] \in TaskRecord /\ TaskOK(task[t])
  BY DEF TypeOK
<1>2. CASE task[t].want = NoKey
  BY <1>2 DEF Released, Idle, TaskRecord, TaskOK
<1>3. CASE task[t].want # NoKey
  BY <1>1, <1>3 DEF Released, TaskRecord, TaskOK, At
<1> QED BY <1>2, <1>3

\* Replies keep the types of the calls.
LEMMA ReplyType ==
    ASSUME TypeOK,
           \A i \in Calls : \/ call'[i] = call[i]
                            \/ \E r \in {"answer", "error", "dropped"} :
                                   call'[i] = [call[i] EXCEPT !.reply = r],
           call' = [i \in Calls |-> call'[i]]
    PROVE  call' \in [Calls -> CallRecord] /\ \A i \in Calls : CallOK(call'[i])
<1>1. ASSUME NEW i \in Calls PROVE call'[i] \in CallRecord /\ CallOK(call'[i])
  <2>1. call[i] \in CallRecord /\ CallOK(call[i])
    BY DEF TypeOK
  <2>2. ASSUME NEW r \in {"answer", "error", "dropped"}, call'[i] = [call[i] EXCEPT !.reply = r]
        PROVE  call'[i] \in CallRecord /\ CallOK(call'[i])
    BY <2>1, <2>2 DEF CallRecord, CallOK
  <2> QED BY <2>1, <2>2
<1> QED BY <1>1

\* The end of a connection's thread keeps the types.
LEMMA StopType ==
    ASSUME TypeOK, NEW c \in Conns, LoopStops(c)
    PROVE  TypeOK'
<1>1. \A i \in Calls : \/ call'[i] = call[i]
                       \/ \E r \in {"answer", "error", "dropped"} :
                              call'[i] = [call[i] EXCEPT !.reply = r]
  BY DEF LoopStops
<1>2. call' = [i \in Calls |-> call'[i]]
  BY DEF LoopStops
<1>3. call' \in [Calls -> CallRecord] /\ \A i \in Calls : CallOK(call'[i])
  BY <1>1, <1>2, ReplyType
<1>4. rx' \in [Conns -> Seq(Calls \cup {Bye})]
  <2>1. <<>> \in Seq(Calls \cup {Bye})
    OBVIOUS
  <2> QED BY <2>1 DEF TypeOK, LoopStops
<1>5. pending' \in [Conns -> SUBSET Calls] /\ connected' \in [Conns -> BOOLEAN]
      /\ loop' \in [Conns -> {"none", "running", "ended"}]
  BY DEF TypeOK, LoopStops
<1>6. UNCHANGED <<pool, bindings, keyOf, referrers, task>>
  BY DEF LoopStops
<1> QED BY <1>3, <1>4, <1>5, <1>6 DEF TypeOK

\* Every step of a worker thread keeps the types.
LEMMA WorkerType ==
    ASSUME TypeOK, NEW t \in Tasks, Worker(t)
    PROVE  TypeOK'
<1> USE DEF clientVars, loopVars
<1> DEFINE x == task[t]
<1>1. x \in TaskRecord /\ TaskOK(x)
  BY DEF TypeOK
<1>2. CASE Unbind(t)
  <2> DEFINE k == bindings[x.win]
             y == IF k = NoKey THEN Released(t) ELSE [x EXCEPT !.pc = "find", !.rel = k]
  <2>1. ~At(t, "idle") /\ x.win \in Windows /\ k \in Keys \cup {NoKey}
    BY <1>1, <1>2 DEF Unbind, At, TaskOK, TypeOK
  <2>2. y \in TaskRecord /\ TaskOK(y)
    <3>1. CASE k = NoKey
      BY <2>1, <3>1, ReleasedType
    <3>2. CASE k # NoKey
      BY <1>1, <2>1, <3>2 DEF TaskRecord, TaskOK
    <3> QED BY <3>1, <3>2
  <2>3. task' = [task EXCEPT ![t] = y]
    BY <1>2 DEF Unbind
  <2>4. task' \in [Tasks -> TaskRecord] /\ \A u \in Tasks : TaskOK(task'[u])
    BY <2>2, <2>3, TaskStep
  <2> QED BY <1>2, <2>1, <2>4 DEF Unbind, TypeOK
<1>3. CASE Find(t)
  <2> DEFINE c == pool[x.rel]
             y == IF c = NoConn THEN Released(t) ELSE [x EXCEPT !.pc = "unrefer", !.conn = c]
  <2>1. ~At(t, "idle") /\ x.rel \in Keys /\ x.win \in Windows /\ c \in {NoConn} \cup Conns
    BY <1>1, <1>3 DEF Find, At, TaskOK, TypeOK
  <2>2. y \in TaskRecord /\ TaskOK(y)
    <3>1. CASE c = NoConn
      BY <2>1, <3>1, ReleasedType
    <3>2. CASE c # NoConn
      BY <1>1, <2>1, <3>2 DEF TaskRecord, TaskOK
    <3> QED BY <3>1, <3>2
  <2>3. task' = [task EXCEPT ![t] = y]
    BY <1>3 DEF Find
  <2>4. task' \in [Tasks -> TaskRecord] /\ \A u \in Tasks : TaskOK(task'[u])
    BY <2>2, <2>3, TaskStep
  <2> QED BY <1>3, <2>4 DEF Find, TypeOK
<1>4. CASE Unrefer(t)
  <2> DEFINE left == referrers[x.conn] \ {x.win}
             y == IF left = {} THEN [x EXCEPT !.pc = "close"] ELSE Released(t)
  <2>1. ~At(t, "idle") /\ x.conn \in Conns /\ left \in SUBSET Windows /\ x.pc = "unrefer"
    BY <1>1, <1>4 DEF Unrefer, At, TaskOK, TypeOK
  <2>2. y \in TaskRecord /\ TaskOK(y)
    <3>1. CASE left = {}
      BY <1>1, <2>1, <3>1 DEF TaskRecord, TaskOK
    <3>2. CASE left # {}
      BY <2>1, <3>2, ReleasedType
    <3> QED BY <3>1, <3>2
  <2>3. task' = [task EXCEPT ![t] = y] /\ referrers' = [referrers EXCEPT ![x.conn] = left]
    BY <1>4 DEF Unrefer
  <2>4. task' \in [Tasks -> TaskRecord] /\ \A u \in Tasks : TaskOK(task'[u])
    BY <2>2, <2>3, TaskStep
  <2>5. referrers' \in [Conns -> SUBSET Windows]
    BY <2>1, <2>3 DEF TypeOK
  <2> QED BY <1>4, <2>4, <2>5 DEF Unrefer, TypeOK
<1>5. CASE Close(t)
  <2> DEFINE c == x.conn  y == [x EXCEPT !.pc = "forget"]
  <2>1. c \in Conns /\ x.pc = "close"
    BY <1>1, <1>5 DEF Close, At, TaskOK
  <2>2. y \in TaskRecord /\ TaskOK(y)
    BY <1>1, <2>1 DEF TaskRecord, TaskOK
  <2>3. task' = [task EXCEPT ![t] = y]
    BY <1>5 DEF Close
  <2>4. task' \in [Tasks -> TaskRecord] /\ \A u \in Tasks : TaskOK(task'[u])
    BY <2>2, <2>3, TaskStep
  <2>5. rx' \in [Conns -> Seq(Calls \cup {Bye})]
    <3>1. rx[c] \in Seq(Calls \cup {Bye}) /\ Bye \in Calls \cup {Bye}
      BY <2>1 DEF TypeOK
    <3>2. Append(rx[c], Bye) \in Seq(Calls \cup {Bye})
      BY <3>1
    <3> QED BY <1>5, <2>1, <3>1, <3>2 DEF Close, TypeOK
  <2> QED BY <1>5, <2>4, <2>5 DEF Close, TypeOK
<1>6. CASE Forget(t)
  <2>1. ~At(t, "idle") /\ task' = [task EXCEPT ![t] = Released(t)]
    BY <1>6 DEF Forget, At
  <2>2. task' \in [Tasks -> TaskRecord] /\ \A u \in Tasks : TaskOK(task'[u])
    BY <2>1, ReleasedType, TaskStep
  <2> QED BY <1>6, <2>2 DEF Forget, TypeOK
<1>7. CASE Lookup(t)
  <2> DEFINE c == pool[x.want]
             y == IF Live(c) THEN [x EXCEPT !.pc = "refer", !.conn = c] ELSE [x EXCEPT !.pc = "dial"]
  <2>1. x.want \in Keys /\ x.win \in Windows /\ c \in {NoConn} \cup Conns
    BY <1>1, <1>7 DEF Lookup, At, TaskOK, TypeOK
  <2>2. y \in TaskRecord /\ TaskOK(y)
    BY <1>1, <2>1 DEF TaskRecord, TaskOK, Live
  <2>3. task' = [task EXCEPT ![t] = y]
    BY <1>7 DEF Lookup
  <2>4. task' \in [Tasks -> TaskRecord] /\ \A u \in Tasks : TaskOK(task'[u])
    BY <2>2, <2>3, TaskStep
  <2> QED BY <1>7, <2>4 DEF Lookup, TypeOK
<1>8. CASE DialFails(t)
  <2>1. Idle \in TaskRecord /\ TaskOK(Idle)
    BY DEF Idle, TaskRecord, TaskOK
  <2>2. task' \in [Tasks -> TaskRecord] /\ \A u \in Tasks : TaskOK(task'[u])
    BY <1>8, <2>1, TaskStep DEF DialFails
  <2> QED BY <1>8, <2>2 DEF DialFails, TypeOK
<1>9. CASE Publish(t)
  <2>1. x.want \in Keys /\ x.win \in Windows /\ x.pc = "dial" /\ pool[x.want] \in {NoConn} \cup Conns
    BY <1>1, <1>9 DEF Publish, At, TaskOK, TypeOK
  <2>2. PICK c \in Conns :
            /\ task' = [task EXCEPT ![t] = [x EXCEPT !.pc = "refer", !.conn = c]]
            /\ \/ UNCHANGED <<pool, clientVars, loop>>
               \/ Started(t, c)
    <3>1. CASE Live(pool[x.want])
      BY <1>9, <2>1, <3>1 DEF Publish, Live, Started, TypeOK
    <3>2. CASE ~Live(pool[x.want])
      <4>1. PICK c \in Conns : Started(t, c)
        BY <1>9, <3>2 DEF Publish
      <4>2. task' = [task EXCEPT ![t].pc = "refer", ![t].conn = c]
        BY <4>1 DEF Started
      <4>3. task' = [task EXCEPT ![t] = [x EXCEPT !.pc = "refer", !.conn = c]]
        BY <4>2
      <4> QED BY <4>1, <4>3
    <3> QED BY <3>1, <3>2
  <2>3. [x EXCEPT !.pc = "refer", !.conn = c] \in TaskRecord /\ TaskOK([x EXCEPT !.pc = "refer", !.conn = c])
    BY <1>1, <2>1 DEF TaskRecord, TaskOK
  <2>4. task' \in [Tasks -> TaskRecord] /\ \A u \in Tasks : TaskOK(task'[u])
    BY <2>2, <2>3, TaskStep
  <2>5. /\ pool' \in [Keys -> {NoConn} \cup Conns] /\ keyOf' \in [Conns -> Keys \cup {NoKey}]
        /\ connected' \in [Conns -> BOOLEAN] /\ referrers' \in [Conns -> SUBSET Windows]
        /\ loop' \in [Conns -> {"none", "running", "ended"}]
    <3>1. CASE UNCHANGED <<pool, clientVars, loop>>
      BY <3>1 DEF TypeOK
    <3>2. CASE Started(t, c)
      BY <2>1, <3>2 DEF Started, TypeOK
    <3> QED BY <2>2, <3>1, <3>2
  <2> QED BY <1>9, <2>4, <2>5 DEF Publish, TypeOK
<1>10. CASE Refer(t)
  <2>1. x.pc = "refer" /\ x.win \in Windows /\ x.conn \in Conns
    BY <1>1, <1>10 DEF Refer, At, TaskOK
  <2>2. [x EXCEPT !.pc = "bind"] \in TaskRecord /\ TaskOK([x EXCEPT !.pc = "bind"])
    BY <1>1, <2>1 DEF TaskRecord, TaskOK
  <2>3. task' = [task EXCEPT ![t] = [x EXCEPT !.pc = "bind"]]
    BY <1>10 DEF Refer
  <2>4. task' \in [Tasks -> TaskRecord] /\ \A u \in Tasks : TaskOK(task'[u])
    BY <2>2, <2>3, TaskStep
  <2>5. referrers' \in [Conns -> SUBSET Windows]
    BY <1>10, <2>1 DEF Refer, TypeOK
  <2> QED BY <1>10, <2>4, <2>5 DEF Refer, TypeOK
<1>11. CASE Bind(t)
  <2>1. x.win \in Windows /\ x.want \in Keys
    BY <1>1, <1>11 DEF Bind, At, TaskOK
  <2>2. Idle \in TaskRecord /\ TaskOK(Idle)
    BY DEF Idle, TaskRecord, TaskOK
  <2>3. task' \in [Tasks -> TaskRecord] /\ \A u \in Tasks : TaskOK(task'[u])
    BY <1>11, <2>2, TaskStep DEF Bind
  <2> QED BY <1>11, <2>1, <2>3 DEF Bind, TypeOK
<1> QED
  BY <1>2, <1>3, <1>4, <1>5, <1>6, <1>7, <1>8, <1>9, <1>10, <1>11 DEF Worker

\* Every other step keeps the types.
LEMMA CallType ==
    ASSUME TypeOK, NEW i \in Calls,
           Caller(i) \/ CallTimesOut(i) \/ \E w \in Windows : Invoke(i, w)
    PROVE  TypeOK'
<1> USE DEF clientVars, loopVars
<1> DEFINE x == call[i]
<1>1. x \in CallRecord /\ CallOK(x)
  BY DEF TypeOK
<1>2. Finished \in CallRecord /\ CallOK(Finished)
  BY DEF Finished, NotCalled, CallRecord, CallOK
<1>3. ASSUME NEW w \in Windows, Invoke(i, w) PROVE TypeOK'
  <2> DEFINE y == IF bindings[w] = NoKey THEN Finished
                  ELSE [x EXCEPT !.pc = "lookup", !.key = bindings[w]]
  <2>1. y \in CallRecord /\ CallOK(y)
    BY <1>1, <1>2, <1>3 DEF CallRecord, CallOK, TypeOK
  <2>2. call' = [call EXCEPT ![i] = y]
    BY <1>3 DEF Invoke
  <2>3. call' \in [Calls -> CallRecord] /\ \A j \in Calls : CallOK(call'[j])
    BY <2>1, <2>2, CallStep
  <2> QED BY <1>3, <2>3 DEF Invoke, TypeOK
<1>4. CASE CallLookup(i)
  <2> DEFINE c == pool[x.key]
             y == IF Live(c) THEN [x EXCEPT !.pc = "send", !.conn = c] ELSE Finished
  <2>1. y \in CallRecord /\ CallOK(y)
    BY <1>1, <1>2, <1>4 DEF CallLookup, CallRecord, CallOK, TypeOK, Live
  <2>2. call' = [call EXCEPT ![i] = y]
    BY <1>4 DEF CallLookup
  <2>3. call' \in [Calls -> CallRecord] /\ \A j \in Calls : CallOK(call'[j])
    BY <2>1, <2>2, CallStep
  <2> QED BY <1>4, <2>3 DEF CallLookup, TypeOK
<1>5. CASE CallSend(i)
  <2> DEFINE c == x.conn
             y == IF loop[c] = "running" THEN [x EXCEPT !.pc = "waiting"] ELSE Finished
  <2>1. c \in Conns
    BY <1>1, <1>5 DEF CallSend, CallOK
  <2>2. y \in CallRecord /\ CallOK(y)
    BY <1>1, <1>2, <2>1 DEF CallRecord, CallOK
  <2>3. call' = [call EXCEPT ![i] = y]
    BY <1>5 DEF CallSend
  <2>4. call' \in [Calls -> CallRecord] /\ \A j \in Calls : CallOK(call'[j])
    BY <2>2, <2>3, CallStep
  <2>5. rx' \in [Conns -> Seq(Calls \cup {Bye})]
    <3>1. rx[c] \in Seq(Calls \cup {Bye}) /\ i \in Calls \cup {Bye}
      BY <2>1 DEF TypeOK
    <3>2. Append(rx[c], i) \in Seq(Calls \cup {Bye})
      BY <3>1
    <3> QED BY <1>5, <2>1, <3>1, <3>2 DEF CallSend, TypeOK
  <2> QED BY <1>5, <2>4, <2>5 DEF CallSend, TypeOK
<1>6. CASE CallReturns(i) \/ CallTimesOut(i)
  <2>1. call' = [call EXCEPT ![i] = Finished]
    BY <1>6 DEF CallReturns, CallTimesOut
  <2>2. call' \in [Calls -> CallRecord] /\ \A j \in Calls : CallOK(call'[j])
    BY <1>2, <2>1, CallStep
  <2> QED BY <1>6, <2>2 DEF CallReturns, CallTimesOut, TypeOK
<1> QED BY <1>3, <1>4, <1>5, <1>6 DEF Caller

\* Every step of a connection's thread keeps the types.
LEMMA LoopType ==
    ASSUME TypeOK, NEW c \in Conns, Loop(c) \/ SocketFails(c)
    PROVE  TypeOK'
<1> USE DEF clientVars, loopVars
<1>1. ASSUME NEW s, NEW r \in {"answer", "error"}, Replied(s, r)
      PROVE  call' \in [Calls -> CallRecord] /\ \A i \in Calls : CallOK(call'[i])
  <2>1. \A i \in Calls : call'[i] = call[i] \/ call'[i] = [call[i] EXCEPT !.reply = r]
    BY <1>1 DEF Replied
  <2>2. call' = [i \in Calls |-> call'[i]]
    BY <1>1 DEF Replied
  <2> QED BY <2>1, <2>2, ReplyType
<1>2. CASE TakeInvoke(c)
  <2> DEFINE i == Head(rx[c])
  <2>1. rx[c] \in Seq(Calls \cup {Bye}) /\ rx[c] # <<>> /\ i # Bye
    BY <1>2 DEF TakeInvoke, TypeOK
  <2>2. i \in Calls /\ Tail(rx[c]) \in Seq(Calls \cup {Bye})
    BY <2>1
  <2>3. rx' \in [Conns -> Seq(Calls \cup {Bye})]
    BY <1>2, <2>2 DEF TakeInvoke, TypeOK
  <2>4. CASE pending' = [pending EXCEPT ![c] = @ \cup {i}] /\ UNCHANGED call
    <3>1. pending' \in [Conns -> SUBSET Calls]
      BY <2>2, <2>4 DEF TypeOK
    <3> QED BY <1>2, <2>3, <2>4, <3>1 DEF TakeInvoke, TypeOK
  <2>5. CASE Replied({i}, "error") /\ UNCHANGED pending
    <3>1. call' \in [Calls -> CallRecord] /\ \A j \in Calls : CallOK(call'[j])
      BY <1>1, <2>5
    <3> QED BY <1>2, <2>3, <2>5, <3>1 DEF TakeInvoke, TypeOK
  <2> QED BY <1>2, <2>4, <2>5 DEF TakeInvoke
<1>3. ASSUME NEW i \in Calls, Reply(c, i) PROVE TypeOK'
  <2>1. call' \in [Calls -> CallRecord] /\ \A j \in Calls : CallOK(call'[j])
    BY <1>1, <1>3 DEF Reply
  <2>2. pending' \in [Conns -> SUBSET Calls]
    BY <1>3 DEF Reply, TypeOK
  <2> QED BY <1>3, <2>1, <2>2 DEF Reply, TypeOK
<1>4. CASE TakeBye(c) \/ SeesOrphan(c) \/ SocketFails(c)
  BY <1>4, StopType DEF TakeBye, SeesOrphan, SocketFails
<1> QED BY <1>2, <1>3, <1>4 DEF Loop

\* The start of a connect or a disconnect keeps the types.
LEMMA CommandType ==
    ASSUME TypeOK, NEW t \in Tasks, Command(t)
    PROVE  TypeOK'
<1> USE DEF clientVars, loopVars
<1>1. ASSUME NEW w \in Windows, NEW k \in Keys, Connect(t, w, k) PROVE TypeOK'
  <2> DEFINE y == [Idle EXCEPT !.pc = IF bindings[w] \in {NoKey, k} THEN "lookup" ELSE "unbind",
                               !.win = w, !.want = k]
  <2>1. y \in TaskRecord /\ TaskOK(y)
    BY DEF Idle, TaskRecord, TaskOK
  <2>2. task' = [task EXCEPT ![t] = y]
    BY <1>1 DEF Connect
  <2>3. task' \in [Tasks -> TaskRecord] /\ \A u \in Tasks : TaskOK(task'[u])
    BY <2>1, <2>2, TaskStep
  <2> QED BY <1>1, <2>3 DEF Connect, TypeOK
<1>2. ASSUME NEW w \in Windows, Disconnect(t, w) PROVE TypeOK'
  <2> DEFINE y == [Idle EXCEPT !.pc = "unbind", !.win = w]
  <2>1. y \in TaskRecord /\ TaskOK(y)
    BY DEF Idle, TaskRecord, TaskOK
  <2>2. task' = [task EXCEPT ![t] = y]
    BY <1>2 DEF Disconnect
  <2>3. task' \in [Tasks -> TaskRecord] /\ \A u \in Tasks : TaskOK(task'[u])
    BY <2>1, <2>2, TaskStep
  <2> QED BY <1>2, <2>3 DEF Disconnect, TypeOK
<1> QED BY <1>1, <1>2 DEF Command

\* Every step, stuttering ones included, keeps the types.
LEMMA NextType == TypeOK /\ [Next]_vars => TypeOK'
<1>1. ASSUME TypeOK, UNCHANGED vars PROVE TypeOK'
  BY <1>1 DEF TypeOK, vars, clientVars, loopVars
<1> QED BY <1>1, WorkerType, CommandType, CallType, LoopType DEF Next

-----------------------------------------------------------------------------
(* The inductive invariant *)

\* What the pool holds under an identity is a started connection of that
\* identity, and so is what a call holds.
PoolOwn == \A k \in Keys : pool[k] # NoConn => keyOf[pool[k]] = k /\ loop[pool[k]] # "none"
CallOwn == \A i \in Calls : call[i].conn # NoConn => loop[call[i].conn] # "none"

Inv == PoolOwn /\ CallOwn /\ OwnHostOnly /\ ConnectedIsServed

\* The initial state satisfies it.
LEMMA InitInv == Init => Inv
BY DEF Init, Inv, PoolOwn, CallOwn, OwnHostOnly, ConnectedIsServed, NotCalled

\* A step that starts no connection, pools none and hands no client to a call
\* keeps it.
LEMMA QuietStep ==
    ASSUME Inv, UNCHANGED <<keyOf, loop>>,
           \A c \in Conns : connected'[c] => connected[c],
           \A k \in Keys : pool'[k] \in {pool[k], NoConn},
           \A i \in Calls : \/ call'[i].conn = NoConn
                            \/ call'[i].conn = call[i].conn /\ call'[i].key = call[i].key
    PROVE  Inv'
BY DEF Inv, PoolOwn, CallOwn, OwnHostOnly, ConnectedIsServed

\* The end of a connection's thread keeps it.
LEMMA StopInv ==
    ASSUME TypeOK, Inv, NEW c \in Conns, LoopStops(c), loop[c] = "running"
    PROVE  Inv'
<1>1. \A d \in Conns : /\ loop'[d] = IF d = c THEN "ended" ELSE loop[d]
                       /\ connected'[d] = (d # c /\ connected[d])
  BY DEF LoopStops, TypeOK
<1>2. \A i \in Calls : call'[i].conn = call[i].conn /\ call'[i].key = call[i].key
  BY DEF LoopStops, TypeOK, CallRecord
<1>3. UNCHANGED <<pool, keyOf>>
  BY DEF LoopStops
<1>4. PoolOwn'
  BY <1>1, <1>3 DEF Inv, PoolOwn, TypeOK
<1>5. CallOwn' /\ OwnHostOnly'
  <2>1. \A i \in Calls : call[i].conn # NoConn => call[i].conn \in Conns
    BY DEF TypeOK, CallRecord
  <2> QED BY <1>1, <1>2, <1>3, <2>1 DEF Inv, CallOwn, OwnHostOnly
<1>6. ConnectedIsServed'
  BY <1>1 DEF Inv, ConnectedIsServed
<1> QED BY <1>4, <1>5, <1>6 DEF Inv

\* The start of a connection keeps it: the new one was pooled nowhere and held
\* by no call.
LEMMA StartInv ==
    ASSUME TypeOK, Inv, NEW t \in Tasks, NEW c \in Conns, Started(t, c), task[t].want \in Keys,
           UNCHANGED call
    PROVE  Inv'
<1> DEFINE k == task[t].want
<1>1. loop[c] = "none" /\ k \in Keys
  BY DEF Started
<1>2. \A d \in Conns : /\ loop'[d] = IF d = c THEN "running" ELSE loop[d]
                       /\ keyOf'[d] = IF d = c THEN k ELSE keyOf[d]
                       /\ connected'[d] = (d = c \/ connected[d])
  BY DEF Started, TypeOK
<1>3. \A q \in Keys : pool'[q] = IF q = k THEN c ELSE pool[q]
  BY DEF Started, TypeOK
<1> HIDE DEF k
<1>4. PoolOwn'
  <2>1. pool \in [Keys -> {NoConn} \cup Conns] /\ PoolOwn
    BY DEF Inv, TypeOK
  <2> SUFFICES ASSUME NEW q \in Keys, pool'[q] # NoConn
               PROVE  keyOf'[pool'[q]] = q /\ loop'[pool'[q]] # "none"
    BY DEF PoolOwn
  <2>2. CASE q = k
    BY <1>1, <1>2, <1>3, <2>2
  <2>3. CASE q # k
    <3>1. pool'[q] = pool[q] /\ pool[q] \in Conns
      BY <1>3, <2>1, <2>3
    <3>2. loop[pool[q]] # "none" /\ keyOf[pool[q]] = q
      BY <2>1, <3>1 DEF PoolOwn
    <3> QED BY <1>1, <1>2, <3>1, <3>2
  <2> QED BY <2>2, <2>3
<1>5. CallOwn' /\ OwnHostOnly'
  <2>1. \A i \in Calls : call[i].conn # NoConn => call[i].conn \in Conns /\ call[i].conn # c
    BY <1>1 DEF TypeOK, CallRecord, Inv, CallOwn
  <2> QED BY <1>2, <2>1 DEF Inv, CallOwn, OwnHostOnly
<1>6. ConnectedIsServed'
  BY <1>2 DEF Inv, ConnectedIsServed
<1> QED BY <1>4, <1>5, <1>6 DEF Inv

\* Every step, stuttering ones included, keeps the invariant.
LEMMA NextInv == TypeOK /\ Inv /\ [Next]_vars => Inv'
<1> SUFFICES ASSUME TypeOK, Inv, [Next]_vars PROVE Inv'
  OBVIOUS
<1> USE DEF clientVars, loopVars
<1>1. ASSUME NEW t \in Tasks, Command(t) PROVE Inv'
  BY <1>1, QuietStep DEF Command, Connect, Disconnect
<1>2. ASSUME NEW t \in Tasks, Worker(t) PROVE Inv'
  <2>1. CASE Unbind(t) \/ Find(t) \/ Unrefer(t) \/ Lookup(t) \/ DialFails(t) \/ Refer(t) \/ Bind(t)
    BY <2>1, QuietStep DEF Unbind, Find, Unrefer, Lookup, DialFails, Refer, Bind
  <2>2. CASE Close(t)
    BY <2>2, QuietStep DEF Close, TypeOK
  <2>3. CASE Forget(t)
    BY <2>3, QuietStep DEF Forget, TypeOK
  <2>4. CASE Publish(t)
    <3>1. task[t].want \in Keys
      BY <2>4 DEF Publish, At, TypeOK, TaskOK
    <3>2. CASE UNCHANGED <<pool, clientVars, loop>>
      BY <2>4, <3>2, QuietStep DEF Publish
    <3>3. ASSUME NEW c \in Conns, Started(t, c) PROVE Inv'
      BY <2>4, <3>1, <3>3, StartInv DEF Publish
    <3> QED BY <2>4, <3>2, <3>3 DEF Publish
  <2> QED BY <1>2, <2>1, <2>2, <2>3, <2>4 DEF Worker
<1>3. ASSUME NEW i \in Calls, Caller(i) \/ CallTimesOut(i) \/ \E w \in Windows : Invoke(i, w)
      PROVE  Inv'
  <2>1. ASSUME NEW w \in Windows, Invoke(i, w) PROVE Inv'
    BY <2>1, QuietStep DEF Invoke, NotCalled, Finished, TypeOK
  <2>2. CASE CallLookup(i)
    <3> DEFINE c == pool[call[i].key]
    <3>1. call[i].key \in Keys
      BY <2>2 DEF CallLookup, TypeOK, CallOK
    <3>2. CASE Live(c)
      <4>1. c # NoConn /\ keyOf[c] = call[i].key /\ loop[c] # "none"
        BY <3>1, <3>2 DEF Live, Inv, PoolOwn
      <4>2. \A j \in Calls : /\ call'[j].key = call[j].key
                             /\ call'[j].conn = IF j = i THEN c ELSE call[j].conn
        BY <2>2, <3>2 DEF CallLookup, TypeOK, CallRecord
      <4>3. UNCHANGED <<pool, keyOf, connected, loop>>
        BY <2>2 DEF CallLookup
      <4> HIDE DEF c
      <4> QED BY <4>1, <4>2, <4>3 DEF Inv, PoolOwn, CallOwn, OwnHostOnly, ConnectedIsServed
    <3>3. CASE ~Live(c)
      BY <2>2, <3>3, QuietStep DEF CallLookup, Finished, NotCalled, TypeOK
    <3> QED BY <3>2, <3>3
  <2>3. CASE CallSend(i)
    BY <2>3, QuietStep DEF CallSend, Finished, NotCalled, TypeOK, CallRecord
  <2>4. CASE CallReturns(i) \/ CallTimesOut(i)
    BY <2>4, QuietStep DEF CallReturns, CallTimesOut, Finished, NotCalled, TypeOK
  <2> QED BY <1>3, <2>1, <2>2, <2>3, <2>4 DEF Caller
<1>4. ASSUME NEW c \in Conns, Loop(c) \/ SocketFails(c) PROVE Inv'
  <2>1. CASE TakeInvoke(c)
    <3>1. UNCHANGED <<pool, keyOf, connected, loop>>
      BY <2>1 DEF TakeInvoke
    <3>2. ASSUME NEW j \in Calls PROVE call'[j].conn = call[j].conn /\ call'[j].key = call[j].key
      <4>1. call[j] \in CallRecord
        BY DEF TypeOK
      <4>2. call'[j] = call[j] \/ call'[j] = [call[j] EXCEPT !.reply = "error"]
        <5>1. CASE UNCHANGED call
          BY <5>1
        <5>2. CASE Replied({Head(rx[c])}, "error")
          BY <5>2 DEF Replied
        <5> QED BY <2>1, <5>1, <5>2 DEF TakeInvoke
      <4> QED BY <4>1, <4>2 DEF CallRecord
    <3> QED BY <3>1, <3>2, QuietStep
  <2>2. ASSUME NEW i \in Calls, Reply(c, i) PROVE Inv'
    BY <2>2, QuietStep DEF Reply, Replied, TypeOK, CallRecord
  <2>3. CASE TakeBye(c) \/ SeesOrphan(c) \/ SocketFails(c)
    BY <2>3, StopInv DEF TakeBye, SeesOrphan, SocketFails
  <2> QED BY <1>4, <2>1, <2>2, <2>3 DEF Loop
<1>5. CASE UNCHANGED vars
  BY <1>5, QuietStep DEF vars
<1> QED BY <1>1, <1>2, <1>3, <1>4, <1>5 DEF Next

-----------------------------------------------------------------------------
(* Theorems *)

\* Every variable keeps its type; in particular a worker past the lookup of
\* connect or release_binding holds a client.
THEOREM TypeCorrect == Spec => []TypeOK
BY InitType, NextType, PTL DEF Spec

\* The inductive invariant of the pool.
THEOREM Invariance == Spec => []Inv
BY TypeCorrect, InitInv, NextInv, PTL DEF Spec

\* No call ever rides the connection of another host: invoke_params.
THEOREM CallsStayHome == Spec => []OwnHostOnly
<1>1. Inv => OwnHostOnly
  BY DEF Inv
<1> QED BY <1>1, Invariance, PTL

\* What is shown as connected has a thread: client_loop and its flag.
THEOREM ConnectedHasThread == Spec => []ConnectedIsServed
<1>1. Inv => ConnectedIsServed
  BY DEF Inv
<1> QED BY <1>1, Invariance, PTL

\* A live pooled connection is never replaced: get_or_insert_live_client.
THEOREM LiveIsKept == Spec => LiveIsNotOverwritten
<1> DEFINE Keeps == \A k \in Keys : Live(pool[k]) => pool'[k] \in {pool[k], NoConn}
<1>1. TypeOK /\ [Next]_vars => [Keeps]_vars
  <2> SUFFICES ASSUME TypeOK, Next PROVE Keeps
    OBVIOUS
  <2> USE DEF clientVars, loopVars
  <2>1. ASSUME NEW t \in Tasks, Command(t) PROVE Keeps
    BY <2>1 DEF Command, Connect, Disconnect
  <2>2. ASSUME NEW t \in Tasks, Worker(t) PROVE Keeps
    <3>1. CASE Forget(t)
      BY <3>1 DEF Forget, TypeOK
    <3>2. CASE Publish(t)
      <4>1. ASSUME NEW c \in Conns, Started(t, c), ~Live(pool[task[t].want]) PROVE Keeps
        BY <4>1 DEF Started, TypeOK
      <4> QED BY <3>2, <4>1 DEF Publish
    <3>3. CASE UNCHANGED pool
      BY <3>3
    <3> QED BY <2>2, <3>1, <3>2, <3>3 DEF Worker, Unbind, Find, Unrefer, Close, Lookup,
              DialFails, Refer, Bind
  <2>3. ASSUME NEW i \in Calls, Caller(i) \/ CallTimesOut(i) \/ \E w \in Windows : Invoke(i, w)
        PROVE  Keeps
    BY <2>3 DEF Caller, CallLookup, CallSend, CallReturns, CallTimesOut, Invoke
  <2>4. ASSUME NEW c \in Conns, Loop(c) \/ SocketFails(c) PROVE Keeps
    BY <2>4 DEF Loop, TakeInvoke, TakeBye, SeesOrphan, Reply, SocketFails, LoopStops
  <2> QED BY <2>1, <2>2, <2>3, <2>4 DEF Next
<1>2. Spec => [][Keeps]_vars
  BY <1>1, TypeCorrect, PTL DEF Spec
<1> QED BY <1>2 DEF LiveIsNotOverwritten
=============================================================================
