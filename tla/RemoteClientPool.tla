-------------------------- MODULE RemoteClientPool --------------------------
(* The outbound remote connections of a desktop: RustRemoteClientState and *)
(* client_loop of src-tauri/src/remote_client.rs.  Windows that target the *)
(* same host share one pooled connection; each connection has a thread     *)
(* that owns the socket.                                                   *)
(*                                                                         *)
(* Connects, disconnects and invokes run on blocking worker threads and    *)
(* take the locks of the bindings, the pool and the referrers one after    *)
(* the other, never two together except to publish a client: every lock    *)
(* section is a step.                                                      *)
EXTENDS Naturals, Sequences, FiniteSets

CONSTANTS Windows,      \* window labels
          Keys,         \* connection identities: host, port and token
          Tasks,        \* worker threads that connect or disconnect
          Calls,        \* invokes
          NoKey, NoWin,
          Bye,          \* ClientCommand::Disconnect
          MaxConns      \* bound: connections ever opened

ASSUME NoneAssumption == NoKey \notin Keys /\ NoWin \notin Windows /\ Bye \notin Calls
ASSUME BoundAssumption == MaxConns \in Nat

Conns == 1 .. MaxConns      \* in the order their loops start
NoConn == 0

VARIABLES
    pool,       \* the connection of an identity
    bindings,   \* the identity a window is bound to
    keyOf, connected, referrers,    \* a RunningClient
    loop, rx, pending,              \* its thread, command queue and open invokes
    task,       \* the connect or disconnect a worker thread is at
    call        \* an invoke

clientVars == <<keyOf, connected, referrers>>
loopVars == <<loop, rx, pending>>
vars == <<pool, bindings, clientVars, loopVars, task, call>>

\* A worker thread: where it is, its window, the identity it connects to, the
\* identity it releases, and the client it holds an Arc of.
Idle == [pc |-> "idle", win |-> NoWin, want |-> NoKey, rel |-> NoKey, conn |-> NoConn]
TaskRecord == [pc : {"idle", "unbind", "find", "unrefer", "close", "forget",
                     "lookup", "dial", "refer", "bind"},
               win : Windows \cup {NoWin}, want : Keys \cup {NoKey}, rel : Keys \cup {NoKey},
               conn : {NoConn} \cup Conns]
TaskOK(x) ==
    /\ x.pc # "idle" => x.win \in Windows
    /\ x.pc \in {"lookup", "dial", "refer", "bind"} => x.want \in Keys
    /\ x.pc \in {"find", "unrefer", "close", "forget"} => x.rel \in Keys
    /\ x.pc \in {"unrefer", "close", "forget", "refer", "bind"} => x.conn \in Conns

\* An invoke: where it is, the identity it read, the client it holds, and what
\* arrived on its reply channel ("dropped": the sender is gone).
NotCalled == [pc |-> "unused", key |-> NoKey, conn |-> NoConn, reply |-> "none"]
CallRecord == [pc : {"unused", "lookup", "send", "waiting", "done"}, key : Keys \cup {NoKey},
               conn : {NoConn} \cup Conns, reply : {"none", "answer", "error", "dropped"}]
CallOK(x) ==
    /\ x.pc = "lookup" => x.key \in Keys
    /\ x.pc \in {"send", "waiting"} => x.conn \in Conns

\* What each variable may hold.  In particular a worker past the lookup holds
\* a client.
TypeOK ==
    /\ pool \in [Keys -> {NoConn} \cup Conns]
    /\ bindings \in [Windows -> Keys \cup {NoKey}]
    /\ keyOf \in [Conns -> Keys \cup {NoKey}]
    /\ connected \in [Conns -> BOOLEAN]
    /\ referrers \in [Conns -> SUBSET Windows]
    /\ loop \in [Conns -> {"none", "running", "ended"}]
    /\ rx \in [Conns -> Seq(Calls \cup {Bye})]
    /\ pending \in [Conns -> SUBSET Calls]
    /\ task \in [Tasks -> TaskRecord] /\ \A t \in Tasks : TaskOK(task[t])
    /\ call \in [Calls -> CallRecord] /\ \A i \in Calls : CallOK(call[i])

\* RustRemoteClientState::default.
Init ==
    /\ pool = [k \in Keys |-> NoConn]
    /\ bindings = [w \in Windows |-> NoKey]
    /\ keyOf = [c \in Conns |-> NoKey]
    /\ connected = [c \in Conns |-> FALSE]
    /\ referrers = [c \in Conns |-> {}]
    /\ loop = [c \in Conns |-> "none"]
    /\ rx = [c \in Conns |-> <<>>]
    /\ pending = [c \in Conns |-> {}]
    /\ task = [t \in Tasks |-> Idle]
    /\ call = [i \in Calls |-> NotCalled]

-----------------------------------------------------------------------------
(* connect and disconnect *)

At(t, pc) == task[t].pc = pc
Live(c) == c # NoConn /\ connected[c]

\* connect begins: a window bound elsewhere is released first.
Connect(t, w, k) ==
    /\ At(t, "idle")
    /\ task' = [task EXCEPT ![t] = [Idle EXCEPT
                    !.pc = IF bindings[w] \in {NoKey, k} THEN "lookup" ELSE "unbind",
                    !.win = w, !.want = k]]
    /\ UNCHANGED <<pool, bindings, clientVars, loopVars, call>>

Disconnect(t, w) ==
    /\ At(t, "idle")
    /\ task' = [task EXCEPT ![t] = [Idle EXCEPT !.pc = "unbind", !.win = w]]
    /\ UNCHANGED <<pool, bindings, clientVars, loopVars, call>>

\* release_binding returns: to its caller, or into the rest of connect.
Released(t) ==
    IF task[t].want = NoKey THEN Idle
    ELSE [task[t] EXCEPT !.pc = "lookup", !.rel = NoKey, !.conn = NoConn]

\* release_binding, one lock section at a time: the binding goes,
Unbind(t) ==
    LET k == bindings[task[t].win] IN
    /\ At(t, "unbind")
    /\ bindings' = [bindings EXCEPT ![task[t].win] = NoKey]
    /\ task' = [task EXCEPT ![t] = IF k = NoKey THEN Released(t)
                                   ELSE [@ EXCEPT !.pc = "find", !.rel = k]]
    /\ UNCHANGED <<pool, clientVars, loopVars, call>>

\* the client is looked up,
Find(t) ==
    LET c == pool[task[t].rel] IN
    /\ At(t, "find")
    /\ task' = [task EXCEPT ![t] = IF c = NoConn THEN Released(t)
                                   ELSE [@ EXCEPT !.pc = "unrefer", !.conn = c]]
    /\ UNCHANGED <<pool, bindings, clientVars, loopVars, call>>

\* the window stops referring to it (now_empty is decided here),
Unrefer(t) ==
    LET c == task[t].conn  left == referrers[c] \ {task[t].win} IN
    /\ At(t, "unrefer")
    /\ referrers' = [referrers EXCEPT ![c] = left]
    /\ task' = [task EXCEPT ![t] = IF left = {} THEN [@ EXCEPT !.pc = "close"]
                                   ELSE Released(t)]
    /\ UNCHANGED <<pool, bindings, keyOf, connected, loopVars, call>>

\* the last one closes it (a send to a thread that has ended fails unnoticed),
Close(t) ==
    LET c == task[t].conn IN
    /\ At(t, "close")
    /\ connected' = [connected EXCEPT ![c] = FALSE]
    /\ rx' = [rx EXCEPT ![c] = IF loop[c] = "running" THEN Append(@, Bye) ELSE @]
    /\ task' = [task EXCEPT ![t].pc = "forget"]
    /\ UNCHANGED <<pool, bindings, keyOf, referrers, loop, pending, call>>

\* and removes whatever the pool has under the identity by now.
Forget(t) ==
    /\ At(t, "forget")
    /\ pool' = [pool EXCEPT ![task[t].rel] = NoConn]
    /\ task' = [task EXCEPT ![t] = Released(t)]
    /\ UNCHANGED <<bindings, clientVars, loopVars, call>>

\* Mutant: the pooled client is taken without asking whether there is one.
LookupUnchecked(t) ==
    /\ At(t, "lookup")
    /\ task' = [task EXCEPT ![t].pc = "refer", ![t].conn = pool[task[t].want]]
    /\ UNCHANGED <<pool, bindings, clientVars, loopVars, call>>

\* connect reuses a live client or dials.
Lookup(t) ==
    LET c == pool[task[t].want] IN
    /\ At(t, "lookup")
    /\ task' = [task EXCEPT ![t] = IF Live(c) THEN [@ EXCEPT !.pc = "refer", !.conn = c]
                                   ELSE [@ EXCEPT !.pc = "dial"]]
    /\ UNCHANGED <<pool, bindings, clientVars, loopVars, call>>

DialFails(t) ==
    /\ At(t, "dial")
    /\ task' = [task EXCEPT ![t] = Idle]
    /\ UNCHANGED <<pool, bindings, clientVars, loopVars, call>>

\* A client is made and its thread started: it refers to its first window.
Started(t, c) ==
    /\ loop[c] = "none" /\ \A d \in Conns : d < c => loop[d] # "none"
    /\ loop' = [loop EXCEPT ![c] = "running"]
    /\ keyOf' = [keyOf EXCEPT ![c] = task[t].want]
    /\ connected' = [connected EXCEPT ![c] = TRUE]
    /\ referrers' = [referrers EXCEPT ![c] = {task[t].win}]
    /\ pool' = [pool EXCEPT ![task[t].want] = c]
    /\ task' = [task EXCEPT ![t].pc = "refer", ![t].conn = c]

\* Mutant: the pool is not asked again once the socket is there.
PublishAnyway(t) ==
    /\ At(t, "dial")
    /\ \E c \in Conns : Started(t, c)
    /\ UNCHANGED <<bindings, rx, pending, call>>

\* The dial succeeded: get_or_insert_live_client, under the pool lock.  A
\* socket that lost to another dial is dropped.
Publish(t) ==
    LET c == pool[task[t].want] IN
    /\ At(t, "dial")
    /\ \/ /\ Live(c)
          /\ task' = [task EXCEPT ![t].pc = "refer", ![t].conn = c]
          /\ UNCHANGED <<pool, clientVars, loop>>
       \/ ~Live(c) /\ \E n \in Conns : Started(t, n)
    /\ UNCHANGED <<bindings, rx, pending, call>>

\* The window refers to the client, then it is bound, and connect returns.
Refer(t) ==
    /\ At(t, "refer")
    /\ referrers' = [referrers EXCEPT ![task[t].conn] = @ \cup {task[t].win}]
    /\ task' = [task EXCEPT ![t].pc = "bind"]
    /\ UNCHANGED <<pool, bindings, keyOf, connected, loopVars, call>>
Bind(t) ==
    /\ At(t, "bind")
    /\ bindings' = [bindings EXCEPT ![task[t].win] = task[t].want]
    /\ task' = [task EXCEPT ![t] = Idle]
    /\ UNCHANGED <<pool, clientVars, loopVars, call>>

-----------------------------------------------------------------------------
(* invoke_params *)

Finished == [NotCalled EXCEPT !.pc = "done"]

\* The binding of the window is read; without one the call is refused.
Invoke(i, w) ==
    /\ call[i] = NotCalled
    /\ call' = [call EXCEPT ![i] = IF bindings[w] = NoKey THEN Finished
                                   ELSE [@ EXCEPT !.pc = "lookup", !.key = bindings[w]]]
    /\ UNCHANGED <<pool, bindings, clientVars, loopVars, task>>

\* Mutant: without a client of its own the call takes one of another host.
CallLookupAnywhere(i) ==
    /\ call[i].pc = "lookup"
    /\ \E c \in Conns : /\ connected[c]
                        /\ call' = [call EXCEPT ![i].pc = "send", ![i].conn = c]
    /\ UNCHANGED <<pool, bindings, clientVars, loopVars, task>>

CallLookup(i) ==
    LET c == pool[call[i].key] IN
    /\ call[i].pc = "lookup"
    /\ call' = [call EXCEPT ![i] = IF Live(c) THEN [@ EXCEPT !.pc = "send", !.conn = c]
                                   ELSE Finished]
    /\ UNCHANGED <<pool, bindings, clientVars, loopVars, task>>

\* The command is queued for the thread, unless it has ended.
CallSend(i) ==
    LET c == call[i].conn IN
    /\ call[i].pc = "send"
    /\ rx' = [rx EXCEPT ![c] = IF loop[c] = "running" THEN Append(@, i) ELSE @]
    /\ call' = [call EXCEPT ![i] = IF loop[c] = "running" THEN [@ EXCEPT !.pc = "waiting"]
                                   ELSE Finished]
    /\ UNCHANGED <<pool, bindings, clientVars, loop, pending, task>>

\* The receiver of the reply channel is still there, and has nothing yet.
Expects(i) == call[i].pc = "waiting" /\ call[i].reply = "none"

\* recv_timeout returns: with a reply, or when the caller's patience ends.
CallReturns(i) ==
    /\ call[i].pc = "waiting" /\ call[i].reply # "none"
    /\ call' = [call EXCEPT ![i] = Finished]
    /\ UNCHANGED <<pool, bindings, clientVars, loopVars, task>>
CallTimesOut(i) ==
    /\ Expects(i)
    /\ call' = [call EXCEPT ![i] = Finished]
    /\ UNCHANGED <<pool, bindings, clientVars, loopVars, task>>

-----------------------------------------------------------------------------
(* client_loop *)

\* The client, and with it the sender of the queue, is still referenced.
Held(c) ==
    \/ \E k \in Keys : pool[k] = c
    \/ \E t \in Tasks : task[t].conn = c
    \/ \E i \in Calls : call[i].conn = c

Replied(s, r) ==
    call' = [i \in Calls |-> IF i \in s /\ Expects(i)
                             THEN [call[i] EXCEPT !.reply = r] ELSE call[i]]

\* Mutant: a call is sent and not remembered.
TakeForgets(c) ==
    /\ loop[c] = "running" /\ rx[c] # <<>> /\ Head(rx[c]) # Bye
    /\ rx' = [rx EXCEPT ![c] = Tail(@)]
    /\ UNCHANGED <<pool, bindings, clientVars, loop, pending, task, call>>

\* An Invoke is taken from the queue and sent, or answered when that fails.
TakeInvoke(c) ==
    LET i == Head(rx[c]) IN
    /\ loop[c] = "running" /\ rx[c] # <<>> /\ i # Bye
    /\ rx' = [rx EXCEPT ![c] = Tail(@)]
    /\ \/ pending' = [pending EXCEPT ![c] = @ \cup {i}] /\ UNCHANGED call
       \/ Replied({i}, "error") /\ UNCHANGED pending
    /\ UNCHANGED <<pool, bindings, clientVars, loop, task>>

\* A result or an error frame, or the deadline of the invoke.
Reply(c, i) ==
    /\ loop[c] = "running" /\ i \in pending[c]
    /\ pending' = [pending EXCEPT ![c] = @ \ {i}]
    /\ \E r \in {"answer", "error"} : Replied({i}, r)
    /\ UNCHANGED <<pool, bindings, clientVars, loop, rx, task>>

\* Mutant: the flag is left standing.
LoopStopsSilently(c) ==
    /\ loop' = [loop EXCEPT ![c] = "ended"]
    /\ call' = [i \in Calls |-> IF ~Expects(i) THEN call[i]
                                ELSE IF i \in pending[c] THEN [call[i] EXCEPT !.reply = "error"]
                                ELSE IF \E n \in DOMAIN rx[c] : rx[c][n] = i
                                THEN [call[i] EXCEPT !.reply = "dropped"] ELSE call[i]]
    /\ pending' = [pending EXCEPT ![c] = {}]
    /\ rx' = [rx EXCEPT ![c] = <<>>]
    /\ UNCHANGED <<pool, bindings, clientVars, task>>

\* The thread ends: the flag is cleared, open invokes are answered, and what
\* is still in the queue is dropped with the receiver.
LoopStops(c) ==
    /\ loop' = [loop EXCEPT ![c] = "ended"]
    /\ connected' = [connected EXCEPT ![c] = FALSE]
    /\ call' = [i \in Calls |-> IF ~Expects(i) THEN call[i]
                                ELSE IF i \in pending[c] THEN [call[i] EXCEPT !.reply = "error"]
                                ELSE IF \E n \in DOMAIN rx[c] : rx[c][n] = i
                                THEN [call[i] EXCEPT !.reply = "dropped"] ELSE call[i]]
    /\ pending' = [pending EXCEPT ![c] = {}]
    /\ rx' = [rx EXCEPT ![c] = <<>>]
    /\ UNCHANGED <<pool, bindings, keyOf, referrers, task>>

TakeBye(c) == loop[c] = "running" /\ rx[c] # <<>> /\ Head(rx[c]) = Bye /\ LoopStops(c)

\* Mutant: an empty queue is all the thread ever sees.
SeesOrphanNever(c) == FALSE /\ LoopStops(c)
\* Every sender is gone (TryRecvError::Disconnected).
SeesOrphan(c) == loop[c] = "running" /\ rx[c] = <<>> /\ ~Held(c) /\ LoopStops(c)
\* The host closed the socket, a frame was invalid or a write failed.
SocketFails(c) == loop[c] = "running" /\ LoopStops(c)

-----------------------------------------------------------------------------
Command(t) ==
    \/ \E w \in Windows, k \in Keys : Connect(t, w, k)
    \/ \E w \in Windows : Disconnect(t, w)
Worker(t) ==
    \/ Unbind(t) \/ Find(t) \/ Unrefer(t) \/ Close(t) \/ Forget(t)
    \/ Lookup(t) \/ DialFails(t) \/ Publish(t) \/ Refer(t) \/ Bind(t)
Caller(i) == CallLookup(i) \/ CallSend(i) \/ CallReturns(i)
Loop(c) == TakeInvoke(c) \/ TakeBye(c) \/ SeesOrphan(c) \/ \E i \in Calls : Reply(c, i)

Next ==
    \/ \E t \in Tasks : Command(t) \/ Worker(t)
    \/ \E i \in Calls : Caller(i) \/ CallTimesOut(i) \/ \E w \in Windows : Invoke(i, w)
    \/ \E c \in Conns : Loop(c) \/ SocketFails(c)

Spec == Init /\ [][Next]_vars

\* Worker threads and the threads of the connections run; an open invoke is
\* answered or reaches its deadline.
FairSpec ==
    /\ Spec
    /\ \A t \in Tasks : WF_vars(Worker(t))
    /\ \A i \in Calls : WF_vars(Caller(i))
    /\ \A c \in Conns : /\ WF_vars(TakeInvoke(c) \/ TakeBye(c) \/ SeesOrphan(c))
                        /\ \A i \in Calls : WF_vars(Reply(c, i))

-----------------------------------------------------------------------------
(* Safety *)

\* A call rides only a connection of the host its window was bound to when
\* it was made, whatever connects and disconnects meanwhile (invoke_params:
\* "never fall back to another window's/host's connection").
OwnHostOnly ==
    \A i \in Calls : call[i].conn # NoConn => keyOf[call[i].conn] = call[i].key

\* A connection that is shown as connected has a thread that serves it: no
\* status, reuse or invoke relies on a dead one (connected).
ConnectedIsServed == \A c \in Conns : connected[c] => loop[c] = "running"

\* A pooled connection that is live is never replaced by a competing dial; it
\* can only be removed (get_or_insert_live_client).
LiveIsNotOverwritten ==
    [][\A k \in Keys : Live(pool[k]) => pool'[k] \in {pool[k], NoConn}]_vars

-----------------------------------------------------------------------------
(* Liveness *)

\* The thread of a connection that nobody references any more ends: it does
\* not go on receiving from an orphaned socket (try_recv, Disconnected).
OrphanEnds == \A c \in Conns : loop[c] = "running" /\ ~Held(c) ~> loop[c] = "ended"

\* Every call that waits gets a reply from the thread, so that the caller's
\* own timeout is only a backstop (PENDING_REPLY_GRACE).
CallIsAnswered ==
    \A i \in Calls : call[i].pc = "waiting" ~> (call[i].reply # "none" \/ call[i].pc = "done")
=============================================================================
