---------------------------- MODULE SidecarBridge ----------------------------
(* The bridge from the host to its Node sidecar: SidecarState of           *)
(* src-tauri/src/sidecar.rs.  Commands call it from blocking threads.  The *)
(* first call spawns the sidecar, and a call that finds it dead spawns it  *)
(* again, unless it died too often of late.  Requests go down its stdin,   *)
(* and a reader thread takes the replies from its stdout and hands each to *)
(* the caller that registered the id.                                      *)
EXTENDS Naturals, Sequences

CONSTANTS Calls,        \* calls of the renderer or of remote clients
          NoCall,
          MaxHandles,   \* bound: processes ever spawned
          MaxIds,       \* bound: requests sent to one process
          MaxTime,      \* bound: of the clock
          Limit,        \* RESTART_BACKOFF_LIMIT
          Window,       \* RESTART_BACKOFF_WINDOW
          Block         \* RESTART_BACKOFF_DURATION

ASSUME NoneAssumption == NoCall \notin Calls /\ "nothing" \notin Calls /\ "exited" \notin Calls
ASSUME BoundsAssumption ==
    /\ MaxHandles \in Nat /\ MaxIds \in Nat /\ MaxTime \in Nat
    /\ Limit \in Nat \ {0} /\ Window \in Nat /\ Block \in Nat /\ Block <= Window

Handles == 1 .. MaxHandles  \* a SidecarHandle and its process, in spawn order
NoHandle == 0
Ids == 1 .. MaxIds

VARIABLES
    cur,                        \* SidecarState.inner
    lock,                       \* the call that holds its mutex to spawn
    failures, until,            \* RestartBackoff, blocked up to a time
    now,                        \* the clock
    lastId, pending,            \* next_id and PendingTable of a handle
    child, inbox, outbox,       \* a process, and its two pipes
    reader,                     \* the thread on its stdout
    call, got,                  \* a call, and its reply channel
    served, attempts, given     \* history: see below

backoffVars == <<failures, until>>
tableVars == <<lastId, pending>>
childVars == <<child, inbox, outbox>>
callVars == <<call, got>>
vars == <<cur, lock, backoffVars, now, tableVars, childVars, reader, callVars,
          served, attempts, given>>
\* served: how often a sidecar carried a call out.  attempts: when a spawn was tried.
\* given: the handles dropped because try_wait failed.

\* A call: where it is, the handle it holds an Arc of, and its request id.
NotCalled == [pc |-> "idle", handle |-> NoHandle, id |-> 0]
Ended == {"replied", "refused", "lost"}
CallRecord == [pc : {"idle", "spawning", "ready", "registered", "waiting"} \cup Ended,
               handle : {NoHandle} \cup Handles, id : {0} \cup Ids]
CallOK(x) ==
    /\ x.pc \in {"ready", "registered", "waiting"} => x.handle \in Handles
    /\ x.pc \in {"registered", "waiting"} => x.id \in Ids

\* A line in a pipe: a request, or the reply to it, with its id.
Lines == [id : Ids, of : Calls]

\* What each variable may hold.  In particular an id is never 0 ("reserved
\* for uninitialised", alloc_id), and a failure count never reaches the limit.
TypeOK ==
    /\ cur \in {NoHandle} \cup Handles
    /\ lock \in Calls \cup {NoCall}
    /\ failures \in Seq(Nat) /\ Len(failures) < Limit
    /\ until \in Nat /\ now \in Nat
    /\ lastId \in [Handles -> {0} \cup Ids]
    /\ pending \in [Handles -> [Ids -> Calls \cup {NoCall}]]
    /\ child \in [Handles -> {"none", "alive", "dead"}]
    /\ inbox \in [Handles -> SUBSET Lines]
    /\ outbox \in [Handles -> SUBSET Lines]
    /\ reader \in [Handles -> {"none", "reading", "ended", "broken"}]
    /\ call \in [Calls -> CallRecord] /\ \A c \in Calls : CallOK(call[c])
    /\ got \in [Calls -> Calls \cup {"nothing", "exited"}]
    /\ served \in [Calls -> Nat]
    /\ attempts \in Seq(Nat)
    /\ given \subseteq Handles

\* SidecarState::default.
Init ==
    /\ cur = NoHandle /\ lock = NoCall
    /\ failures = <<>> /\ until = 0 /\ now = 0
    /\ lastId = [h \in Handles |-> 0]
    /\ pending = [h \in Handles |-> [n \in Ids |-> NoCall]]
    /\ child = [h \in Handles |-> "none"]
    /\ inbox = [h \in Handles |-> {}]
    /\ outbox = [h \in Handles |-> {}]
    /\ reader = [h \in Handles |-> "none"]
    /\ call = [c \in Calls |-> NotCalled]
    /\ got = [c \in Calls |-> "nothing"]
    /\ served = [c \in Calls |-> 0] /\ attempts = <<>> /\ given = {}

-----------------------------------------------------------------------------
(* ensure_spawned, under the lock of the state *)

At(c, pc) == call[c].pc = pc
EndAs(c, how) == call' = [call EXCEPT ![c].pc = how]

\* RestartBackoff::record_failure.  Of the failures the first n are too old.
RecordFailure ==
    \E n \in 0 .. Len(failures) :
        LET kept == Append(SubSeq(failures, n + 1, Len(failures)), now) IN
        /\ \A i \in 1 .. n : now - failures[i] > Window
        /\ n < Len(failures) => now - failures[n + 1] <= Window
        /\ IF Len(kept) >= Limit
           THEN failures' = <<>> /\ until' = now + Block
           ELSE failures' = kept /\ UNCHANGED until

Blocked == until > now

\* The sidecar is there and alive.
Found(c) ==
    /\ At(c, "idle") /\ lock = NoCall
    /\ cur # NoHandle /\ child[cur] = "alive"
    /\ call' = [call EXCEPT ![c].pc = "ready", ![c].handle = cur]
    /\ UNCHANGED <<cur, lock, backoffVars, now, tableVars, childVars, reader, got,
                   served, attempts, given>>

\* Mutant: the lock is not waited for.
FoundNoneUnlocked(c) ==
    /\ At(c, "idle") /\ cur = NoHandle
    /\ lock' = c /\ EndAs(c, "spawning")
    /\ UNCHANGED <<cur, backoffVars, now, tableVars, childVars, reader, got,
                   served, attempts, given>>

\* There is none yet: the caller goes on to spawn it, holding the lock.
FoundNone(c) ==
    /\ At(c, "idle") /\ lock = NoCall /\ cur = NoHandle
    /\ lock' = c /\ EndAs(c, "spawning")
    /\ UNCHANGED <<cur, backoffVars, now, tableVars, childVars, reader, got,
                   served, attempts, given>>

\* Mutant: a death is no failure.
FoundDeadUncounted(c) ==
    /\ At(c, "idle") /\ lock = NoCall
    /\ cur # NoHandle
    /\ \/ child[cur] = "dead" /\ UNCHANGED given
       \/ given' = given \cup {cur}
    /\ cur' = NoHandle /\ lock' = c /\ EndAs(c, "spawning")
    /\ UNCHANGED <<backoffVars, now, tableVars, childVars, reader, got, served, attempts>>

\* It exited, or try_wait failed: the handle is dropped and that is a failure.
FoundDead(c) ==
    /\ At(c, "idle") /\ lock = NoCall
    /\ cur # NoHandle
    /\ \/ child[cur] = "dead" /\ UNCHANGED given
       \/ given' = given \cup {cur}
    /\ RecordFailure
    /\ cur' = NoHandle /\ lock' = c /\ EndAs(c, "spawning")
    /\ UNCHANGED <<now, tableVars, childVars, reader, got, served, attempts>>

\* "restart backoff active".
BackedOff(c) ==
    /\ At(c, "spawning") /\ Blocked
    /\ lock' = NoCall /\ EndAs(c, "refused")
    /\ UNCHANGED <<cur, backoffVars, now, tableVars, childVars, reader, got,
                   served, attempts, given>>

SpawnFails(c) ==
    /\ At(c, "spawning") /\ ~Blocked
    /\ attempts' = Append(attempts, now)
    /\ RecordFailure
    /\ lock' = NoCall /\ EndAs(c, "refused")
    /\ UNCHANGED <<cur, now, tableVars, childVars, reader, got, served, given>>

\* spawn_sidecar: a process, its threads and an empty table.
Spawn(c) ==
    /\ At(c, "spawning") /\ ~Blocked
    /\ attempts' = Append(attempts, now)
    /\ \E h \in Handles :
          /\ child[h] = "none" /\ \A g \in 1 .. h - 1 : child[g] # "none"
          /\ child' = [child EXCEPT ![h] = "alive"]
          /\ reader' = [reader EXCEPT ![h] = "reading"]
          /\ cur' = h
          /\ call' = [call EXCEPT ![c].pc = "ready", ![c].handle = h]
    /\ lock' = NoCall
    /\ UNCHANGED <<backoffVars, now, tableVars, inbox, outbox, got, served, given>>

-----------------------------------------------------------------------------
(* call_with_emit *)

\* Mutant: the id before the increment.
RegisterPrevious(c) ==
    LET h == call[c].handle  n == lastId[h] IN
    /\ At(c, "ready") /\ n + 1 \in Ids
    /\ lastId' = [lastId EXCEPT ![h] = n + 1]
    /\ pending' = [pending EXCEPT ![h] = [m \in Ids |-> IF m = n THEN c ELSE @[m]]]
    /\ call' = [call EXCEPT ![c].pc = "registered", ![c].id = n]
    /\ UNCHANGED <<cur, lock, backoffVars, now, childVars, reader, got, served, attempts, given>>

\* alloc_id and the insertion of the reply channel, before the request is sent.
Register(c) ==
    LET h == call[c].handle  n == lastId[h] + 1 IN
    /\ At(c, "ready") /\ n \in Ids
    /\ lastId' = [lastId EXCEPT ![h] = n]
    /\ pending' = [pending EXCEPT ![h][n] = c]
    /\ call' = [call EXCEPT ![c].pc = "registered", ![c].id = n]
    /\ UNCHANGED <<cur, lock, backoffVars, now, childVars, reader, got, served, attempts, given>>

\* PendingTable::take of a caller that gives up.
Unregister(c) == pending' = [pending EXCEPT ![call[c].handle][call[c].id] = NoCall]

\* The request is written while the process has its stdin open.
Write(c) ==
    LET h == call[c].handle IN
    /\ At(c, "registered") /\ child[h] = "alive"
    /\ inbox' = [inbox EXCEPT ![h] = @ \cup {[id |-> call[c].id, of |-> c]}]
    /\ EndAs(c, "waiting")
    /\ UNCHANGED <<cur, lock, backoffVars, now, tableVars, child, outbox, reader, got,
                   served, attempts, given>>

\* Mutant: the error of the write is not looked at.
WriteFailsUnseen(c) ==
    /\ At(c, "registered") /\ child[call[c].handle] = "dead"
    /\ EndAs(c, "waiting")
    /\ UNCHANGED <<cur, lock, backoffVars, now, tableVars, childVars, reader, got,
                   served, attempts, given>>

WriteFails(c) ==
    /\ At(c, "registered") /\ child[call[c].handle] = "dead"
    /\ Unregister(c) /\ EndAs(c, "refused")
    /\ UNCHANGED <<cur, lock, backoffVars, now, lastId, childVars, reader, got,
                   served, attempts, given>>

\* recv_timeout returns what the reader thread sent,
Return(c) ==
    /\ At(c, "waiting") /\ got[c] # "nothing"
    /\ EndAs(c, IF got[c] = "exited" THEN "lost" ELSE "replied")
    /\ UNCHANGED <<cur, lock, backoffVars, now, tableVars, childVars, reader, got,
                   served, attempts, given>>

\* Mutant: a call that timed out is sent again.
TimesOutAgain(c) ==
    /\ At(c, "waiting") /\ got[c] = "nothing"
    /\ Unregister(c) /\ EndAs(c, "ready")
    /\ UNCHANGED <<cur, lock, backoffVars, now, lastId, childVars, reader, got,
                   served, attempts, given>>

\* or the time is up.
TimesOut(c) ==
    /\ At(c, "waiting") /\ got[c] = "nothing"
    /\ Unregister(c) /\ EndAs(c, "lost")
    /\ UNCHANGED <<cur, lock, backoffVars, now, lastId, childVars, reader, got,
                   served, attempts, given>>

-----------------------------------------------------------------------------
(* The process and the reader thread *)

\* A handler runs to its end and its reply is written.  Handlers overlap, so
\* requests are served in any order.
Serve(h, q) ==
    /\ child[h] = "alive" /\ q \in inbox[h]
    /\ inbox' = [inbox EXCEPT ![h] = @ \ {q}]
    /\ outbox' = [outbox EXCEPT ![h] = @ \cup {q}]
    /\ served' = [served EXCEPT ![q.of] = @ + 1]
    /\ UNCHANGED <<cur, lock, backoffVars, now, tableVars, child, reader, callVars,
                   attempts, given>>

\* The process ends, with any of its replies still unwritten.
Dies(h) ==
    /\ child[h] = "alive"
    /\ child' = [child EXCEPT ![h] = "dead"]
    /\ inbox' = [inbox EXCEPT ![h] = {}]
    /\ \E lines \in SUBSET outbox[h] : outbox' = [outbox EXCEPT ![h] = lines]
    /\ UNCHANGED <<cur, lock, backoffVars, now, tableVars, reader, callVars, served,
                   attempts, given>>

\* Mutant: one table for all processes (ids repeat from one to the next).
ReadReplyShared(h, q) ==
    /\ reader[h] = "reading" /\ q \in outbox[h]
    /\ outbox' = [outbox EXCEPT ![h] = @ \ {q}]
    /\ IF cur # NoHandle
       THEN /\ got' = [c \in Calls |-> IF pending[cur][q.id] = c THEN q.of ELSE got[c]]
            /\ pending' = [pending EXCEPT ![cur][q.id] = NoCall]
       ELSE UNCHANGED <<got, pending>>
    /\ UNCHANGED <<cur, lock, backoffVars, now, lastId, child, inbox, reader, call,
                   served, attempts, given>>

\* The channel registered under the id is taken and gets the reply, if it is
\* still there; events and malformed lines are passed over.
ReadReply(h, q) ==
    /\ reader[h] = "reading" /\ q \in outbox[h]
    /\ outbox' = [outbox EXCEPT ![h] = @ \ {q}]
    /\ got' = [c \in Calls |-> IF pending[h][q.id] = c THEN q.of ELSE got[c]]
    /\ pending' = [pending EXCEPT ![h][q.id] = NoCall]
    /\ UNCHANGED <<cur, lock, backoffVars, now, lastId, child, inbox, reader, call,
                   served, attempts, given>>

\* The thread leaves its loop and wakes whoever is registered.
Stop(h, how) ==
    /\ reader' = [reader EXCEPT ![h] = how]
    /\ got' = [c \in Calls |-> IF \E n \in Ids : pending[h][n] = c THEN "exited" ELSE got[c]]
    /\ pending' = [pending EXCEPT ![h] = [n \in Ids |-> NoCall]]

\* stdout is at its end,
ReaderEnds(h) ==
    /\ reader[h] = "reading" /\ child[h] = "dead" /\ outbox[h] = {}
    /\ Stop(h, "ended")
    /\ UNCHANGED <<cur, lock, backoffVars, now, lastId, childVars, call, served,
                   attempts, given>>

\* or a line cannot be read (it is not UTF-8), whatever the process does.
ReaderBreaks(h) ==
    /\ reader[h] = "reading"
    /\ Stop(h, "broken")
    /\ UNCHANGED <<cur, lock, backoffVars, now, lastId, childVars, call, served,
                   attempts, given>>

Tick ==
    /\ now < MaxTime /\ now' = now + 1
    /\ UNCHANGED <<cur, lock, backoffVars, tableVars, childVars, reader, callVars, served,
                   attempts, given>>

-----------------------------------------------------------------------------
Caller(c) ==
    \/ Found(c) \/ FoundNone(c) \/ FoundDead(c) \/ BackedOff(c) \/ SpawnFails(c) \/ Spawn(c)
    \/ Register(c) \/ Write(c) \/ WriteFails(c) \/ Return(c) \/ TimesOut(c)
Process(h) == Dies(h) \/ \E q \in inbox[h] : Serve(h, q)
Reader(h) == ReaderEnds(h) \/ \E q \in outbox[h] : ReadReply(h, q)

Next ==
    \/ \E c \in Calls : Caller(c)
    \/ \E h \in Handles : Process(h) \/ Reader(h) \/ ReaderBreaks(h)
    \/ Tick

Spec == Init /\ [][Next]_vars

-----------------------------------------------------------------------------
(* Safety *)

\* A reply reaches the call it answers: ids repeat from one process to the
\* next, callers time out and late replies arrive (PendingTable, per handle).
OwnReply == \A c \in Calls : got[c] \in Calls => got[c] = c /\ served[c] # 0

\* A call that waits on a dead sidecar whose output has been read to its end
\* has been woken: "wake all pending callers so they don't hang forever".
NobodyIsForgotten ==
    \A c \in Calls :
        /\ At(c, "waiting")
        /\ child[call[c].handle] = "dead" /\ reader[call[c].handle] = "ended"
        => got[c] # "nothing"

\* An entry of a table belongs to a call in progress on that handle: timed
\* out and failed calls leave nothing behind.
NoStaleEntry ==
    \A h \in Handles, n \in Ids :
        LET c == pending[h][n] IN
        c # NoCall => /\ call[c].handle = h /\ call[c].id = n
                      /\ call[c].pc \in {"registered", "waiting"}

\* No second sidecar runs beside the current one, unless the host could not
\* ask for its state: concurrent first calls spawn one (ensure_spawned).
NoStraySidecar ==
    \A h \in Handles : child[h] = "alive" => h = cur \/ h \in given

\* "a broken packaged sidecar cannot create an unbounded spawn loop": of more
\* than Limit spawns in a row, the first and the last are apart by the block.
SpawnsAreSpaced ==
    \A i \in DOMAIN attempts :
        i + Limit \in DOMAIN attempts => attempts[i + Limit] - attempts[i] >= Block

-----------------------------------------------------------------------------
(* Refinement *)

Progress == [c \in Calls |->
    CASE call[c].pc \in {"ready", "registered", "waiting"} -> "open"
      [] call[c].pc \in {"idle", "spawning"} -> "idle"
      [] OTHER -> call[c].pc]

Answer == [c \in Calls |-> IF At(c, "replied") THEN got[c] ELSE NoCall]

Contract == INSTANCE Rpc WITH progress <- Progress, executed <- served, answer <- Answer

\* Over all its processes the bridge is one remote procedure call: a second
\* execution, one after a refusal, or a return with the reply of another call
\* is no step of Rpc.
ImplementsRpc == Contract!Spec
=============================================================================
