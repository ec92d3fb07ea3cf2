---------------------------- MODULE RemoteServer ----------------------------
(* The server for remote clients: remote_server.rs, with the profile        *)
(* contexts of its connections (profile_context.rs).                        *)
(*                                                                          *)
(* A server is started and stopped, and its token is rotated.  Each         *)
(* connection has a thread that logs the client in, sends what is queued    *)
(* for it and reads its frames; each invoke has a thread of its own.  Any   *)
(* thread of the host may broadcast an event; text that streams in is       *)
(* buffered, and flushed by a timer or before an event that must follow it. *)
(*                                                                          *)
(* Merged: stop, whose lock everybody who could notice its steps waits for; *)
(* the look at the server and at its list of clients in a broadcast; a      *)
(* flag of a context and the disconnect that follows.  Left out: the list   *)
(* of recent clients, payloads and compression, contexts of local profiles, *)
(* events a context passes on, more than one stream of text, a data         *)
(* directory that cannot be resolved.                                       *)
EXTENDS Naturals, FiniteSets, Sequences

CONSTANTS MaxServers,       \* bound: servers started
          MaxTokens,        \* bound: tokens
          MaxConns,         \* bound: connections accepted
          MaxEvents,        \* bound: events broadcast
          MaxInvokes,       \* bound: invokes
          ConnLimit,        \* MAX_REMOTE_CONNECTIONS
          InvokeLimit,      \* MAX_REMOTE_INVOKES
          Capacity,         \* REMOTE_OUTBOUND_QUEUE_CAPACITY
          ContextLimit      \* MAX_CONTEXTS

ASSUME BoundAssumption ==
    /\ MaxServers \in Nat /\ MaxTokens \in Nat \ {0} /\ MaxConns \in Nat
    /\ MaxEvents \in Nat /\ MaxInvokes \in Nat
ASSUME LimitAssumption ==
    ConnLimit \in Nat /\ InvokeLimit \in Nat /\ Capacity \in Nat /\ ContextLimit \in Nat

Servers == 1 .. MaxServers
Tokens == 1 .. MaxTokens
Conns == 1 .. MaxConns
Events == 1 .. MaxEvents
Invokes == 1 .. MaxInvokes
None == 0

VARIABLES
    server,     \* the running server
    started,    \* how many were started
    token,      \* the token of a server
    issued,     \* the token file: the last token made
    rotating,   \* whether rotate_token is between its two sections
    clients,    \* the clients a server lists
    conn,       \* the thread of a connection
    queue,      \* what is queued for it
    got,        \* history: how often its client was sent an event
    buffer,     \* the text a server has buffered
    scheduled,  \* flush_scheduled
    cast,       \* the broadcast of an event
    timer,      \* the flush thread spawned when an event was buffered
    expects,    \* history: the clients listed when an event was broadcast, less
                \* those found with contexts of their own when it was sent
    invoke,     \* the thread of an invoke
    context,    \* the profile context an invoke opened
    shut        \* the connections that have closed their contexts

serverVars == <<server, started, token, issued, rotating>>
connVars == <<clients, conn, queue, got>>
eventVars == <<buffer, scheduled, cast, timer, expects>>
invokeVars == <<invoke, context, shut>>
vars == <<serverVars, connVars, eventVars, invokeVars>>

\* A frame: the events it carries, none for the answer to an invoke.
Frame == SUBSET Events
Served == {"greet", "check", "drain", "read"}
Conn == [pc : Served \cup {"unborn", "login", "register", "leave", "close", "ended"},
         home : {None} \cup Servers, token : {None} \cup Tokens, close : BOOLEAN]
Flusher == [pc : {"none", "buffer", "flush", "held", "send", "asleep", "done"},
            server : {None} \cup Servers, hold : Frame]
Invoke == [pc : {"unborn", "run", "open", "get", "close", "validate", "dial", "list", "check",
                 "fail", "reply", "done"},
           conn : {None} \cup Conns, context : {None} \cup Invokes]
Context == [listed : BOOLEAN, closed : BOOLEAN, bound : BOOLEAN]

TypeOK ==
    /\ server \in {None} \cup Servers /\ started \in 0 .. MaxServers
    /\ token \in [Servers -> {None} \cup Tokens] /\ issued \in Tokens
    /\ rotating \in BOOLEAN
    /\ clients \in [Servers -> SUBSET Conns]
    /\ conn \in [Conns -> Conn]
    /\ queue \in [Conns -> Seq(Frame)] /\ \A c \in Conns : Len(queue[c]) <= Capacity
    /\ got \in [Conns -> [Events -> Nat]]
    /\ buffer \in [Servers -> Frame] /\ scheduled \in [Servers -> BOOLEAN]
    /\ cast \in [Events -> Flusher] /\ timer \in [Events -> Flusher]
    /\ expects \in [Events -> SUBSET Conns]
    /\ invoke \in [Invokes -> Invoke]
    /\ context \in [Invokes -> Context]
    /\ shut \subseteq Conns

Unborn == [pc |-> "unborn", home |-> None, token |-> None, close |-> FALSE]
NoFlush == [pc |-> "none", server |-> None, hold |-> {}]
NoInvoke == [pc |-> "unborn", conn |-> None, context |-> None]
NoContext == [listed |-> FALSE, closed |-> FALSE, bound |-> FALSE]

Init ==
    /\ server = None /\ started = 0
    /\ token = [v \in Servers |-> None] /\ issued = 1
    /\ rotating = FALSE
    /\ clients = [v \in Servers |-> {}]
    /\ conn = [c \in Conns |-> Unborn]
    /\ queue = [c \in Conns |-> <<>>]
    /\ got = [c \in Conns |-> [n \in Events |-> 0]]
    /\ buffer = [v \in Servers |-> {}] /\ scheduled = [v \in Servers |-> FALSE]
    /\ cast = [n \in Events |-> NoFlush] /\ timer = [n \in Events |-> NoFlush]
    /\ expects = [n \in Events |-> {}]
    /\ invoke = [i \in Invokes |-> NoInvoke]
    /\ context = [i \in Invokes |-> NoContext]
    /\ shut = {}

At(c, pc) == conn[c].pc = pc
Goes(c, pc) == conn' = [conn EXCEPT ![c].pc = pc]
Home(c) == conn[c].home

-----------------------------------------------------------------------------
(* start, stop and rotate_token, under the lock of the server *)

\* The clients are told to close.
Told(S) == [c \in Conns |-> IF c \in S THEN [conn[c] EXCEPT !.close = TRUE] ELSE conn[c]]

Start ==
    /\ server = None /\ started < MaxServers
    /\ started' = started + 1 /\ server' = started'
    /\ token' = [token EXCEPT ![started'] = issued]
    /\ UNCHANGED <<issued, rotating, connVars, eventVars, invokeVars>>
\* The accept loop has ended when stop returns.
Stop ==
    /\ server # None /\ ~rotating
    /\ conn' = Told(clients[server])
    /\ server' = None
    /\ UNCHANGED <<started, token, issued, rotating, clients, queue, got, eventVars, invokeVars>>
RotateToken ==
    /\ server # None /\ ~rotating /\ issued < MaxTokens
    /\ issued' = issued + 1
    /\ token' = [token EXCEPT ![server] = issued']
    /\ rotating' = TRUE
    /\ UNCHANGED <<server, started, connVars, eventVars, invokeVars>>
\* Mutant: they are forgotten, not told.
RotateForgets ==
    /\ rotating /\ rotating' = FALSE
    /\ clients' = [clients EXCEPT ![server] = {}]
    /\ UNCHANGED <<server, started, token, issued, conn, queue, got, eventVars, invokeVars>>
RotateClients ==
    /\ rotating /\ rotating' = FALSE
    /\ conn' = Told(clients[server])
    /\ clients' = [clients EXCEPT ![server] = {}]
    /\ UNCHANGED <<server, started, token, issued, queue, got, eventVars, invokeVars>>

-----------------------------------------------------------------------------
(* run_accept_loop, handle_client *)

\* A client dials with a token it was given once.  A connection over the limit
\* is dropped.
Handlers(v) == {c \in Conns : Home(c) = v /\ conn[c].pc \notin {"unborn", "ended"}}
Accept(c) ==
    /\ server # None /\ At(c, "unborn") /\ \A d \in Conns : d < c => ~At(d, "unborn")
    /\ Cardinality(Handlers(server)) < ConnLimit
    /\ \E t \in 1 .. issued :
          conn' = [conn EXCEPT ![c] = [pc |-> "login", home |-> server, token |-> t, close |-> FALSE]]
    /\ UNCHANGED <<serverVars, clients, queue, got, eventVars, invokeVars>>

\* The handshake fails, the deadline of the login passes, or its frame is bad.
LoginFails(c) ==
    /\ At(c, "login") /\ Goes(c, "leave")
    /\ UNCHANGED <<serverVars, clients, queue, got, eventVars, invokeVars>>
\* The token is compared with the one of the server, then the client is listed.
ReadToken(c) ==
    /\ At(c, "login")
    /\ Goes(c, IF conn[c].token = token[Home(c)] THEN "register" ELSE "leave")
    /\ UNCHANGED <<serverVars, clients, queue, got, eventVars, invokeVars>>
Register(c) ==
    /\ At(c, "register") /\ Goes(c, "greet")
    /\ clients' = [clients EXCEPT ![Home(c)] = @ \cup {c}]
    /\ UNCHANGED <<serverVars, queue, got, eventVars, invokeVars>>
Greet(c) ==
    /\ At(c, "greet") /\ Goes(c, "check")
    /\ UNCHANGED <<serverVars, clients, queue, got, eventVars, invokeVars>>

\* A round of the loop: close, then a burst of what is queued, then one frame.
Check(c) ==
    /\ At(c, "check")
    /\ Goes(c, IF conn[c].close THEN "leave" ELSE "drain")
    /\ UNCHANGED <<serverVars, clients, queue, got, eventVars, invokeVars>>
SendFrame(c) ==
    /\ At(c, "drain") /\ queue[c] # <<>>
    /\ got' = [got EXCEPT ![c] = [n \in Events |-> @[n] + (IF n \in Head(queue[c]) THEN 1 ELSE 0)]]
    /\ queue' = [queue EXCEPT ![c] = Tail(@)]
    /\ UNCHANGED <<serverVars, clients, conn, eventVars, invokeVars>>
\* Nothing is queued any more, or the burst is over.
Drained(c) ==
    /\ At(c, "drain") /\ Goes(c, "read")
    /\ UNCHANGED <<serverVars, clients, queue, got, eventVars, invokeVars>>
\* Nothing came, or a ping, or an invoke that finds the server busy.
ReadNothing(c) ==
    /\ At(c, "read") /\ Goes(c, "check")
    /\ UNCHANGED <<serverVars, clients, queue, got, eventVars, invokeVars>>
Running(v) == {i \in Invokes : /\ invoke[i].pc \notin {"unborn", "done"}
                               /\ Home(invoke[i].conn) = v}
ReadInvoke(c, i, pc) ==
    /\ At(c, "read") /\ Goes(c, "check")
    /\ invoke[i].pc = "unborn" /\ \A j \in Invokes : j < i => invoke[j].pc # "unborn"
    /\ Cardinality(Running(Home(c))) < InvokeLimit
    /\ \E k \in {j \in Invokes : j < i /\ invoke[j].conn = c} \cup {None} :
          /\ IF pc \in {"get", "close"} THEN k # None /\ invoke[k].pc = "done" ELSE k = None
          /\ invoke' = [invoke EXCEPT ![i] = [pc |-> pc, conn |-> c, context |-> k]]
    /\ UNCHANGED <<serverVars, clients, queue, got, eventVars, context, shut>>
\* The socket fails, the client leaves, or its frame is bad.
ReadEnds(c) ==
    /\ At(c, "read") /\ Goes(c, "leave")
    /\ UNCHANGED <<serverVars, clients, queue, got, eventVars, invokeVars>>
\* Whatever is sent may fail; handle_client then returns at once, and the
\* client stays listed.
SendFails(c) ==
    /\ At(c, "greet") \/ At(c, "read") \/ (At(c, "drain") /\ queue[c] # <<>>)
    /\ Goes(c, "close")
    /\ UNCHANGED <<serverVars, clients, queue, got, eventVars, invokeVars>>
Leave(c) ==
    /\ At(c, "leave") /\ Goes(c, "close")
    /\ clients' = [clients EXCEPT ![Home(c)] = @ \ {c}]
    /\ UNCHANGED <<serverVars, queue, got, eventVars, invokeVars>>

-----------------------------------------------------------------------------
(* Events: broadcast_event *)

HasContexts(c) == \E i \in Invokes : invoke[i].conn = c /\ context[i].listed

\* try_queue_remote_frame: a client that does not read, or has gone, is told to
\* close.
\* Mutant: the queue has no bound.
FitsAlways(c) == ~At(c, "ended")
Fits(c) == ~At(c, "ended") /\ Len(queue[c]) < Capacity

\* send_remote_event_to_clients: who cannot take the frame is not listed any
\* more; a client with contexts has its events from them.
Deliver(v, frame) ==
    LET direct == {c \in clients[v] : ~HasContexts(c)}
        lost == {c \in direct : ~Fits(c)}
    IN /\ queue' = [c \in Conns |-> IF c \in direct \ lost THEN Append(queue[c], frame) ELSE queue[c]]
       /\ conn' = Told(lost)
       /\ clients' = [clients EXCEPT ![v] =
                         {c \in @ \ lost : c \in direct \/ ~conn[c].close}]
       /\ expects' = [n \in Events |-> IF n \in frame THEN {c \in expects[n] : ~HasContexts(c)}
                                      ELSE expects[n]]
       /\ UNCHANGED <<serverVars, got, invokeVars>>

\* An event that is buffered, one that follows what is buffered, or another.
Broadcast(n, pc) ==
    /\ server # None /\ ~rotating /\ clients[server] # {}
    /\ cast[n].pc = "none" /\ \A m \in Events : m < n => cast[m].pc # "none"
    /\ cast' = [cast EXCEPT ![n] = [pc |-> pc, server |-> server, hold |-> {}]]
    /\ expects' = [expects EXCEPT ![n] = clients[server]]
    /\ UNCHANGED <<serverVars, connVars, buffer, scheduled, timer, invokeVars>>
\* enqueue_remote_event: the first event buffered spawns a thread to flush it.
Enqueue(n) ==
    LET v == cast[n].server IN
    /\ cast[n].pc = "buffer"
    /\ cast' = [cast EXCEPT ![n].pc = "done"]
    /\ buffer' = [buffer EXCEPT ![v] = @ \cup {n}]
    /\ scheduled' = [scheduled EXCEPT ![v] = TRUE]
    /\ timer' = IF scheduled[v] THEN timer
                ELSE [timer EXCEPT ![n] = [pc |-> "asleep", server |-> v, hold |-> {}]]
    /\ UNCHANGED <<serverVars, connVars, expects, invokeVars>>
\* flush_remote_event_buffer: what is buffered is taken, then sent.
\* Mutant: the next event is not scheduled.
TakeUnscheduled(v) == buffer' = [buffer EXCEPT ![v] = {}] /\ UNCHANGED scheduled
Take(v) == /\ buffer' = [buffer EXCEPT ![v] = {}]
           /\ scheduled' = [scheduled EXCEPT ![v] = FALSE]
FlushBefore(n) ==
    LET v == cast[n].server IN
    /\ cast[n].pc = "flush"
    /\ Take(v)
    /\ cast' = [cast EXCEPT ![n].pc = IF buffer[v] = {} THEN "send" ELSE "held", ![n].hold = buffer[v]]
    /\ UNCHANGED <<serverVars, connVars, timer, expects, invokeVars>>
SendHeld(n) ==
    /\ cast[n].pc = "held"
    /\ Deliver(cast[n].server, cast[n].hold)
    /\ cast' = [cast EXCEPT ![n].pc = "send", ![n].hold = {}]
    /\ UNCHANGED <<buffer, scheduled, timer>>
SendEvent(n) ==
    /\ cast[n].pc = "send"
    /\ Deliver(cast[n].server, {n})
    /\ cast' = [cast EXCEPT ![n].pc = "done"]
    /\ UNCHANGED <<buffer, scheduled, timer>>
TimerTakes(n) ==
    LET v == timer[n].server IN
    /\ timer[n].pc = "asleep"
    /\ Take(v)
    /\ timer' = [timer EXCEPT ![n].pc = IF buffer[v] = {} THEN "done" ELSE "held", ![n].hold = buffer[v]]
    /\ UNCHANGED <<serverVars, connVars, cast, expects, invokeVars>>
TimerSends(n) ==
    /\ timer[n].pc = "held"
    /\ Deliver(timer[n].server, timer[n].hold)
    /\ timer' = [timer EXCEPT ![n].pc = "done", ![n].hold = {}]
    /\ UNCHANGED <<buffer, scheduled, cast>>

-----------------------------------------------------------------------------
(* Invokes and profile contexts *)

Moves(i, pc) == invoke' = [invoke EXCEPT ![i].pc = pc]
\* The context an invoke works with: that of the invoke that opened it.
Of(i) == invoke[i].context
Closed == [listed |-> FALSE, closed |-> TRUE, bound |-> FALSE]

\* ProfileContexts::open.  There may be no such profile.
\* Mutant: not looked at again under the lock.
OpenUnchecked(i) ==
    /\ invoke[i].pc = "open"
    /\ invoke' = [invoke EXCEPT ![i].pc = "validate", ![i].context = i]
    /\ context' = [context EXCEPT ![i].listed = TRUE]
    /\ UNCHANGED <<serverVars, connVars, eventVars, shut>>
Open(i) ==
    LET mine == {j \in Invokes : invoke[j].conn = invoke[i].conn /\ context[j].listed} IN
    /\ invoke[i].pc = "open"
    /\ \/ Moves(i, "reply") /\ UNCHANGED context
       \/ /\ invoke[i].conn \notin shut /\ Cardinality(mine) < ContextLimit
          /\ invoke' = [invoke EXCEPT ![i].pc = "validate", ![i].context = i]
          /\ context' = [context EXCEPT ![i].listed = TRUE]
    /\ UNCHANGED <<serverVars, connVars, eventVars, shut>>
\* ProfileContexts::get, for an invoke in a context
Get(i) ==
    /\ invoke[i].pc = "get"
    /\ IF invoke[i].conn \in shut \/ ~context[Of(i)].listed
       THEN invoke' = [invoke EXCEPT ![i].pc = "reply", ![i].context = None]
       ELSE Moves(i, "validate")
    /\ UNCHANGED <<serverVars, connVars, eventVars, context, shut>>
\* ProfileContexts::close
CloseContext(i) ==
    /\ invoke[i].pc = "close"
    /\ invoke' = [invoke EXCEPT ![i].pc = "reply", ![i].context = None]
    /\ context' = IF context[Of(i)].listed THEN [context EXCEPT ![Of(i)] = Closed] ELSE context
    /\ UNCHANGED <<serverVars, connVars, eventVars, shut>>

\* ensure_connected, or profile:status, which only validates.  The profile may
\* have been changed.
Validate(i) ==
    /\ invoke[i].pc = "validate"
    /\ \/ /\ ~context[Of(i)].closed
          /\ Moves(i, "dial") \/ (Of(i) # i /\ Moves(i, "reply"))
          /\ UNCHANGED context
       \/ /\ Moves(i, "fail")
          /\ context' = [context EXCEPT ![Of(i)].closed = TRUE,
                             ![Of(i)].bound = IF context[Of(i)].closed THEN @ ELSE FALSE]
    /\ UNCHANGED <<serverVars, connVars, eventVars, shut>>
\* One invoke at a time connects a context (connect_lock).
Dial(i) ==
    /\ invoke[i].pc = "dial"
    /\ \A j \in Invokes : Of(j) = Of(i) => invoke[j].pc \notin {"list", "check"}
    /\ \/ context[Of(i)].bound /\ Moves(i, "reply") /\ UNCHANGED context
       \/ /\ ~context[Of(i)].bound
          /\ Moves(i, "list")
          /\ context' = [context EXCEPT ![Of(i)].bound = TRUE]
       \/ ~context[Of(i)].bound /\ Moves(i, "fail") /\ UNCHANGED context
    /\ UNCHANGED <<serverVars, connVars, eventVars, shut>>
\* The profiles of the other host are asked for; it does not answer, does not
\* have the profile, or does.
ListProfiles(i) ==
    /\ invoke[i].pc = "list"
    /\ \/ Moves(i, "fail") /\ UNCHANGED context
       \/ Moves(i, "fail") /\ context' = [context EXCEPT ![Of(i)].bound = FALSE]
       \/ Moves(i, "check") /\ UNCHANGED context
    /\ UNCHANGED <<serverVars, connVars, eventVars, shut>>
CheckClosed(i) ==
    /\ invoke[i].pc = "check"
    /\ IF context[Of(i)].closed
       THEN Moves(i, "fail") /\ context' = [context EXCEPT ![Of(i)].bound = FALSE]
       ELSE Moves(i, "reply") /\ UNCHANGED context
    /\ UNCHANGED <<serverVars, connVars, eventVars, shut>>
\* What failed to open is closed, if it is still there.
Fail(i) ==
    /\ invoke[i].pc = "fail" /\ Moves(i, "reply")
    /\ context' = IF Of(i) = i /\ context[i].listed THEN [context EXCEPT ![i] = Closed] ELSE context
    /\ UNCHANGED <<serverVars, connVars, eventVars, shut>>
\* The other host closes the connection, or says that the profile has gone, and
\* the context is closed without a disconnect.
Upstream(i) ==
    /\ context[i].bound
    /\ \/ context' = [context EXCEPT ![i].bound = FALSE]
       \/ context' = [context EXCEPT ![i].closed = TRUE]
    /\ UNCHANGED <<serverVars, connVars, eventVars, invoke, shut>>

\* The answer is queued, and the thread lets go of its context: the last one
\* to do so closes it (Drop).
Using(j, k) == invoke[j].context = k /\ invoke[j].pc \notin {"unborn", "get", "close", "done"}
Reply(i) ==
    LET c == invoke[i].conn k == Of(i) IN
    /\ invoke[i].pc \in {"run", "reply"}
    /\ invoke' = [invoke EXCEPT ![i].pc = "done"]
    /\ queue' = IF Fits(c) THEN [queue EXCEPT ![c] = Append(@, {})] ELSE queue
    /\ conn' = IF Fits(c) THEN conn ELSE Told({c})
    /\ context' = IF k # None /\ ~context[k].listed /\ \A j \in Invokes \ {i} : ~Using(j, k)
                  THEN [context EXCEPT ![k] = Closed] ELSE context
    /\ UNCHANGED <<serverVars, clients, got, eventVars, shut>>

\* ConnectionContextGuard: the end of handle_client closes the contexts.
CloseAll(c) ==
    /\ At(c, "close") /\ Goes(c, "ended")
    /\ shut' = shut \cup {c}
    /\ context' = [i \in Invokes |-> IF invoke[i].conn = c /\ context[i].listed THEN Closed
                                     ELSE context[i]]
    /\ queue' = [queue EXCEPT ![c] = <<>>]
    /\ UNCHANGED <<serverVars, clients, got, eventVars, invoke>>

-----------------------------------------------------------------------------
Thread(c) ==
    \/ Accept(c) \/ LoginFails(c) \/ ReadToken(c) \/ Register(c) \/ Greet(c)
    \/ Check(c) \/ SendFrame(c) \/ Drained(c) \/ ReadNothing(c) \/ ReadEnds(c)
    \/ \E i \in Invokes : \E pc \in {"run", "open", "get", "close"} : ReadInvoke(c, i, pc)
    \/ SendFails(c) \/ Leave(c) \/ CloseAll(c)
Event(n) ==
    \/ \E pc \in {"buffer", "flush", "send"} : Broadcast(n, pc)
    \/ Enqueue(n) \/ FlushBefore(n) \/ SendHeld(n) \/ SendEvent(n) \/ TimerTakes(n) \/ TimerSends(n)
Work(i) ==
    \/ Open(i) \/ Get(i) \/ CloseContext(i) \/ Validate(i) \/ Dial(i) \/ ListProfiles(i)
    \/ CheckClosed(i) \/ Fail(i) \/ Reply(i) \/ Upstream(i)

Next ==
    \/ Start \/ Stop \/ RotateToken \/ RotateClients
    \/ \E c \in Conns : Thread(c)
    \/ \E n \in Events : Event(n)
    \/ \E i \in Invokes : Work(i)

Spec == Init /\ [][Next]_vars

-----------------------------------------------------------------------------
(* Properties *)

\* A client the running server serves is on its list, or told to close: no
\* rotation and no full queue leaves one that is served and hears no events.
ServedIsListed ==
    \A c \in Conns : conn[c].pc \in Served /\ Home(c) = server /\ ~conn[c].close
                         => c \in clients[server]

\* An event is on exactly one way to a client that was listed when it was
\* broadcast, or was sent once, as long as the client is served and not told to
\* close, whatever else competes for its queue: neither the timer nor the flush of
\* a later event loses it, repeats it, or leaves it in the buffer with no flush to
\* come.  A client found with contexts when it is sent has its events from them.
Occurrences(n, c) == got[c][n] + Cardinality({p \in DOMAIN queue[c] : n \in queue[c][p]})
Waiting(n) ==
    LET v == cast[n].server IN
    Cardinality({m \in Events : n \in cast[m].hold}) + Cardinality({m \in Events : n \in timer[m].hold})
    + (IF cast[n].pc \in {"buffer", "flush", "held", "send"} THEN 1 ELSE 0)
    + (IF n \in buffer[v] /\ \E m \in Events : timer[m].pc = "asleep" /\ timer[m].server = v
       THEN 1 ELSE 0)
EachEventOnce ==
    \A n \in Events : \A c \in expects[n] :
        conn[c].pc \in Served /\ ~conn[c].close
            => Occurrences(n, c) + Waiting(n) = 1

\* A context of a connection that has ended, or one that was taken off the list,
\* holds no connection to the other host, once the invokes that use it have
\* returned: a connection may end while one of its contexts is being opened.
ClosedContextHoldsNothing ==
    \A i \in Invokes : context[i].bound =>
        \/ context[i].listed /\ ~At(invoke[i].conn, "ended")
        \/ \E j \in Invokes : Using(j, i)
=============================================================================
