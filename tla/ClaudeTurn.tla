----------------------------- MODULE ClaudeTurn -----------------------------
(* The turns of one Claude session in the Node sidecar: handlers           *)
(* claude-send.mjs, claude-session.mjs and claude-permission.mjs, and the  *)
(* long-lived SDK query of lib/live-query.mjs.                             *)
(*                                                                         *)
(* The sidecar is one event loop.  A handler runs up to its first await in *)
(* one step; what follows an await is a step of its own, and the handlers  *)
(* of other requests, frames of the SDK and settled promises come between. *)
(* The session map holds one record per session; stop, reset and resume    *)
(* replace the record while turns begun on the old one still run.          *)
EXTENDS Naturals, Sequences, FiniteSets

CONSTANTS Msgs,         \* client message ids
          NoMsg,        \* the message of a call not made yet
          Convs,        \* conversations the SDK keeps (sdkSessionId)
          NoConv,       \* a record not yet attached to one
          MaxSends,     \* bound: claude.sendMessage calls
          MaxRecs,      \* bound: records the session ever has
          MaxRequests,  \* MAX_CLIENT_MESSAGE_REQUESTS
          MaxPrompts,   \* bound: unanswered prompts of a record
          MaxAsks       \* bound: interrupt() calls under way on a record

ASSUME BoundsAssumption ==
    /\ MaxSends \in Nat /\ MaxRecs \in Nat /\ MaxPrompts \in Nat /\ MaxAsks \in Nat
    /\ MaxRequests \in Nat \ {0}
ASSUME NoneAssumption == NoConv \notin Convs /\ NoMsg \notin Msgs

Sends == 1 .. MaxSends      \* in the order the calls arrive
Recs == 1 .. MaxRecs        \* in the order the records are made
NoSend == 0
NoRec == 0

VARIABLES
    sdk,        \* the SDK module: unloaded, importing, ready or missing
    cur, nextRec,                       \* the session map
    st, rec, msg, prev, cancelled, outcome,     \* a sendMessage call
    esc,        \* history: what Esc or a stop met the call doing
    tail, req, streaming, status, resting,      \* fields of a record
    conv, loading,      \* its conversation, and the one whose history it awaits
    flag, aborted, handle, asks, prompts,       \* its live query and interrupts
    live, turns \* the live query a call built, and the pushes it owes a result

sessVars == <<cur, nextRec>>
callVars == <<st, rec, msg, prev, cancelled, outcome, esc>>
givenVars == <<rec, msg, prev, cancelled, esc>>
queueVars == <<tail, req>>
busyVars == <<streaming, status, resting>>
convVars == <<conv, loading>>
controlVars == <<flag, aborted, handle, asks, prompts>>
liveVars == <<live, turns>>
vars == <<sdk, sessVars, callVars, queueVars, busyVars, convVars, controlVars,
          liveVars>>

Active == {"importing", "building", "pushed", "resolved", "rejected"}
Outcomes == {"none", "stopped", "cancelled", "stub", "failed", "ended",
             "interrupted", "aborted", "error"}

\* What each variable may hold.  In particular no interrupt() call returns
\* twice (interruptTurn awaits the call it made).
TypeOK ==
    /\ sdk \in {"unloaded", "importing", "ready", "missing"}
    /\ cur \in {NoRec} \cup Recs
    /\ nextRec \in 1 .. MaxRecs + 1
    /\ st \in [Sends -> {"unused", "waiting", "done"} \cup Active]
    /\ rec \in [Sends -> {NoRec} \cup Recs]
    /\ msg \in [Sends -> Msgs \cup {NoMsg}]
    /\ prev \in [Sends -> {NoSend} \cup Sends]
    /\ cancelled \in [Sends -> BOOLEAN]
    /\ outcome \in [Sends -> Outcomes]
    /\ esc \in [Sends -> {"no", "waiting", "running", "stopped"}]
    /\ tail \in [Recs -> {NoSend} \cup Sends]
    /\ req \in [Recs -> [Msgs -> {"none", "pending", "done"}]]
    /\ conv \in [Recs -> Convs \cup {NoConv}]
    /\ loading \in [Recs -> Convs \cup {NoConv}]
    /\ streaming \in [Recs -> BOOLEAN]
    /\ status \in [Recs -> BOOLEAN]
    /\ resting \in [Recs -> BOOLEAN]
    /\ flag \in [Recs -> BOOLEAN]
    /\ aborted \in [Recs -> BOOLEAN]
    /\ handle \in [Recs -> {NoSend} \cup Sends]
    /\ asks \in [Recs -> 0 .. MaxAsks]
    /\ prompts \in [Recs -> Seq(Sends)]
    /\ live \in [Sends -> {"none", "open", "closed"}]
    /\ turns \in [Sends -> Seq(Sends)]

\* ensureSession builds a record with these fields; no session exists yet.
Init ==
    /\ sdk = "unloaded"
    /\ cur = NoRec /\ nextRec = 1
    /\ st = [k \in Sends |-> "unused"]
    /\ rec = [k \in Sends |-> NoRec]
    /\ msg = [k \in Sends |-> NoMsg]
    /\ prev = [k \in Sends |-> NoSend]
    /\ cancelled = [k \in Sends |-> FALSE]
    /\ outcome = [k \in Sends |-> "none"]
    /\ esc = [k \in Sends |-> "no"]
    /\ tail = [r \in Recs |-> NoSend]
    /\ req = [r \in Recs |-> [m \in Msgs |-> "none"]]
    /\ conv = [r \in Recs |-> NoConv]
    /\ loading = [r \in Recs |-> NoConv]
    /\ streaming = [r \in Recs |-> FALSE]
    /\ status = [r \in Recs |-> FALSE]
    /\ resting = [r \in Recs |-> FALSE]
    /\ flag = [r \in Recs |-> FALSE]
    /\ aborted = [r \in Recs |-> FALSE]
    /\ handle = [r \in Recs |-> NoSend]
    /\ asks = [r \in Recs |-> 0]
    /\ prompts = [r \in Recs |-> <<>>]
    /\ live = [k \in Sends |-> "none"]
    /\ turns = [k \in Sends |-> <<>>]

--------------------------------------------------------------------------
(* Records and live queries *)

\* ensureSession: the record of the session, or the one built for it now.
Record == IF cur = NoRec THEN nextRec ELSE cur
EnsureRecord ==
    /\ Record \in Recs
    /\ cur' = Record
    /\ nextRec' = IF cur = NoRec THEN nextRec + 1 ELSE nextRec

SendsOf(r) == {k \in Sends : rec[k] = r}
IsOpen(l) == l # NoSend /\ live[l] = "open"

\* The promises of all pushes a live query owes a result are rejected.
Owes(l, k) == l # NoSend /\ \E i \in DOMAIN turns[l] : turns[l][i] = k
Rejected(l) == [k \in Sends |-> IF Owes(l, k) THEN "rejected" ELSE st[k]]

\* Mutant: the deferreds of a closed query are forgotten.
CloseLiveSilently(r) ==
    /\ st' = st
    /\ live' = [l \in Sends |-> IF l = handle[r] THEN "closed" ELSE live[l]]
    /\ turns' = [l \in Sends |-> IF l = handle[r] THEN <<>> ELSE turns[l]]
    /\ handle' = [handle EXCEPT ![r] = NoSend]
    /\ flag' = [flag EXCEPT ![r] = FALSE]

\* closeLiveQuery.  The abort signal is left for the rejected push to read.
CloseLive(r) ==
    /\ st' = Rejected(handle[r])
    /\ live' = [l \in Sends |-> IF l = handle[r] THEN "closed" ELSE live[l]]
    /\ turns' = [l \in Sends |-> IF l = handle[r] THEN <<>> ELSE turns[l]]
    /\ handle' = [handle EXCEPT ![r] = NoSend]
    /\ flag' = [flag EXCEPT ![r] = FALSE]

\* Mutant: closing forgets the abort controller.
TeardownForgets(r) == CloseLive(r) /\ aborted' = [aborted EXCEPT ![r] = FALSE]
\* The abort controller of the latest live query fires, then the query closes.
Teardown(r) == CloseLive(r) /\ aborted' = [aborted EXCEPT ![r] = TRUE]

\* performSendMessage returned: the queue moves on and the request record
\* remembers the answer for a retry.
Finish(k, out) ==
    /\ st' = [st EXCEPT ![k] = "done"]
    /\ outcome' = [outcome EXCEPT ![k] = out]
    /\ tail' = [tail EXCEPT ![rec[k]] = IF @ = k THEN NoSend ELSE @]
    /\ req' = [req EXCEPT ![rec[k]][msg[k]] = "done"]

--------------------------------------------------------------------------
(* claude.sendMessage *)

\* When a call is through, the next one in the queue begins before the event
\* loop turns to anything from outside (both are promise jobs).
Quiet == \A j, k \in Sends : st[k] = "waiting" /\ prev[k] = j => st[j] # "done"

\* The request ids a record remembers, and those it may forget.
Known(r) == {m \in Msgs : req[r][m] # "none"}
Finished(r) == {m \in Msgs : req[r][m] = "done"}

\* Mutant: any request may go, finished or not.
PrunedAny(r, D) ==
    \/ D = {} /\ Cardinality(Known(r)) < MaxRequests
    \/ D \subseteq Known(r) /\ Cardinality(Known(r) \ D) = MaxRequests - 1

\* pruneClientMessageRequests: finished requests go until there is room.
\* The code takes the oldest; here any may be the oldest.
Pruned(r, D) ==
    /\ D \subseteq Finished(r)
    /\ \/ D = {} /\ Cardinality(Known(r)) < MaxRequests
       \/ Cardinality(Known(r) \ D) = MaxRequests - 1
       \/ D = Finished(r) /\ Cardinality(Known(r) \ D) >= MaxRequests

\* The handler up to its return: the call joins the queue of the record.  A
\* request id the record remembers is answered at once and changes nothing.
Send(k, m) ==
    LET r == Record IN
    /\ Quiet /\ st[k] = "unused" /\ \A j \in 1 .. k - 1 : st[j] # "unused"
    /\ EnsureRecord
    /\ req[r][m] = "none"
    /\ \E D \in SUBSET Known(r) :
          /\ Pruned(r, D)
          /\ req' = [req EXCEPT ![r] = [n \in Msgs |-> IF n = m THEN "pending"
                                        ELSE IF n \in D THEN "none" ELSE @[n]]]
    /\ st' = [st EXCEPT ![k] = "waiting"]
    /\ rec' = [rec EXCEPT ![k] = r]
    /\ msg' = [msg EXCEPT ![k] = m]
    /\ prev' = [prev EXCEPT ![k] = tail[r]]
    /\ tail' = [tail EXCEPT ![r] = k]
    /\ UNCHANGED <<sdk, cancelled, outcome, esc, busyVars, convVars, controlVars, liveVars>>

\* A record resumed without a working folder, or started with a blank one, is
\* dropped before the call joins the queue.  Folders are not kept here: any
\* record may be such a one.  What it runs is neither stopped nor closed.
SendNoFolder ==
    /\ Quiet /\ cur # NoRec
    /\ cur' = NoRec
    /\ UNCHANGED <<sdk, nextRec, callVars, queueVars, busyVars, convVars, controlVars, liveVars>>

\* Mutant: a call does not wait for the one before it.
TurnAtOnce(k) == st[k] = "waiting"
\* The promise the call chains behind has settled.
Turn(k) == st[k] = "waiting" /\ \A j \in Sends : j = prev[k] => st[j] = "done"

BeginStopped(k) ==
    /\ Turn(k) /\ cur # rec[k]
    /\ Finish(k, "stopped")
    /\ UNCHANGED <<sdk, sessVars, givenVars, busyVars, convVars, controlVars, liveVars>>

BeginCancelled(k) ==
    /\ Turn(k) /\ cur = rec[k] /\ cancelled[k]
    /\ Finish(k, "cancelled")
    /\ UNCHANGED <<sdk, sessVars, givenVars, busyVars, convVars, controlVars, liveVars>>

\* What performSendMessage does before it awaits anything.
Starts(k) ==
    /\ Turn(k) /\ cur = rec[k] /\ ~cancelled[k]
    /\ resting' = [resting EXCEPT ![rec[k]] = FALSE]

\* loadAnthropicSdk: the first caller imports the module.
BeginImport(k) ==
    /\ sdk = "unloaded" /\ Starts(k)
    /\ sdk' = "importing"
    /\ st' = [st EXCEPT ![k] = "importing"]
    /\ status' = [status EXCEPT ![rec[k]] = TRUE]
    /\ UNCHANGED <<sessVars, givenVars, outcome, queueVars, streaming, convVars,
                   controlVars, liveVars>>

\* Whoever asks before the import is through gets null, as after a failure,
\* and answers the prompt with a stub.
BeginStub(k) ==
    /\ sdk \in {"importing", "missing"} /\ Starts(k)
    /\ Finish(k, "stub")
    /\ status' = [status EXCEPT ![rec[k]] = FALSE]
    /\ UNCHANGED <<sdk, sessVars, givenVars, streaming, convVars, controlVars, liveVars>>

\* Mutant: every call builds a query of its own.
PrepareAnew(k) == st' = [st EXCEPT ![k] = "building"] /\ UNCHANGED <<turns, streaming>>

\* ensureLiveQuery finds an open query and push() queues the prompt there, or
\* it starts to build one, looking up the binary and the plugins first.
Prepare(k) ==
    LET r == rec[k]  l == handle[r] IN
    IF IsOpen(l)
    THEN /\ st' = [st EXCEPT ![k] = "pushed"]
         /\ turns' = [turns EXCEPT ![l] = Append(@, k)]
         /\ streaming' = [streaming EXCEPT ![r] = TRUE]
    ELSE /\ st' = [st EXCEPT ![k] = "building"]
         /\ UNCHANGED <<turns, streaming>>

BeginReady(k) ==
    /\ sdk = "ready" /\ Starts(k)
    /\ Prepare(k)
    /\ status' = [status EXCEPT ![rec[k]] = TRUE]
    /\ UNCHANGED <<sdk, sessVars, givenVars, outcome, queueVars, convVars, controlVars, live>>

Imported(k) ==
    /\ st[k] = "importing"
    /\ sdk' = "ready"
    /\ Prepare(k)
    /\ UNCHANGED <<sessVars, givenVars, outcome, queueVars, status, resting, convVars,
                   controlVars, live>>

ImportFails(k) ==
    /\ st[k] = "importing"
    /\ sdk' = "missing"
    /\ Finish(k, "stub")
    /\ status' = [status EXCEPT ![rec[k]] = FALSE]
    /\ UNCHANGED <<sessVars, givenVars, streaming, resting, convVars, controlVars, liveVars>>

\* Another session or a read-only query imports the module.
ImportElsewhere ==
    /\ Quiet /\ sdk = "unloaded" /\ sdk' = "importing"
    /\ UNCHANGED <<sessVars, callVars, queueVars, busyVars, convVars, controlVars, liveVars>>
ImportedElsewhere ==
    /\ Quiet /\ sdk = "importing" /\ \A k \in Sends : st[k] # "importing"
    /\ sdk' \in {"ready", "missing"}
    /\ UNCHANGED <<sessVars, callVars, queueVars, busyVars, convVars, controlVars, liveVars>>

\* The rest of ensureLiveQuery and the push.  Nothing is looked at again: the
\* record may have been put to rest, aborted or replaced in the meantime.
Built(k) ==
    LET r == rec[k] IN
    /\ st[k] = "building"
    /\ st' = [st EXCEPT ![k] = "pushed"]
    /\ live' = [live EXCEPT ![k] = "open"]
    /\ turns' = [turns EXCEPT ![k] = <<k>>]
    /\ handle' = [handle EXCEPT ![r] = k]
    /\ aborted' = [aborted EXCEPT ![r] = FALSE]
    /\ streaming' = [streaming EXCEPT ![r] = TRUE]
    /\ status' = [status EXCEPT ![r] = TRUE]
    /\ UNCHANGED <<sdk, sessVars, givenVars, outcome, queueVars, resting, convVars, flag,
                   asks, prompts>>

\* The working folder is gone or the query cannot be made.
BuildFails(k) ==
    /\ st[k] = "building"
    /\ Finish(k, "failed")
    /\ status' = [status EXCEPT ![rec[k]] = FALSE]
    /\ UNCHANGED <<sdk, sessVars, givenVars, streaming, resting, convVars, controlVars, liveVars>>

\* Mutant: the interrupt request is left standing.
SettleResolvedKeepsFlag(k) ==
    LET r == rec[k] IN
    /\ st[k] = "resolved"
    /\ Finish(k, IF flag[r] THEN "interrupted" ELSE "ended")
    /\ handle' = [handle EXCEPT ![r] = IF IsOpen(@) THEN @ ELSE NoSend]
    /\ status' = [status EXCEPT ![r] = FALSE]
    /\ streaming' = [streaming EXCEPT ![r] = FALSE]
    /\ UNCHANGED <<sdk, sessVars, givenVars, resting, convVars, flag, aborted, asks, prompts,
                   liveVars>>

\* performSendMessage after its push resolved, one turn of the event loop
\* later (setImmediate): an interrupt requested meanwhile is this turn's.
SettleResolved(k) ==
    LET r == rec[k] IN
    /\ st[k] = "resolved"
    /\ Finish(k, IF flag[r] THEN "interrupted" ELSE "ended")
    /\ handle' = [handle EXCEPT ![r] = IF IsOpen(@) THEN @ ELSE NoSend]
    /\ flag' = [flag EXCEPT ![r] = FALSE]
    /\ status' = [status EXCEPT ![r] = FALSE]
    /\ streaming' = [streaming EXCEPT ![r] = FALSE]
    /\ UNCHANGED <<sdk, sessVars, givenVars, resting, convVars, aborted, asks, prompts, liveVars>>

\* Mutant: a failed turn leaves its status standing.
SettleRejectedKeepsStatus(k) ==
    LET r == rec[k] IN
    /\ st[k] = "rejected"
    /\ Finish(k, IF flag[r] THEN "interrupted" ELSE IF aborted[r] THEN "aborted" ELSE "error")
    /\ handle' = [handle EXCEPT ![r] = IF flag[r] THEN @ ELSE NoSend]
    /\ flag' = [flag EXCEPT ![r] = FALSE]
    /\ streaming' = [streaming EXCEPT ![r] = FALSE]
    /\ UNCHANGED <<sdk, sessVars, givenVars, status, resting, convVars, aborted, asks, prompts,
                   liveVars>>

\* The catch of performSendMessage.
SettleRejected(k) ==
    LET r == rec[k] IN
    /\ st[k] = "rejected"
    /\ Finish(k, IF flag[r] THEN "interrupted" ELSE IF aborted[r] THEN "aborted" ELSE "error")
    /\ handle' = [handle EXCEPT ![r] = IF flag[r] THEN @ ELSE NoSend]
    /\ flag' = [flag EXCEPT ![r] = FALSE]
    /\ status' = [status EXCEPT ![r] = FALSE]
    /\ streaming' = [streaming EXCEPT ![r] = FALSE]
    /\ UNCHANGED <<sdk, sessVars, givenVars, resting, convVars, aborted, asks, prompts, liveVars>>

--------------------------------------------------------------------------
(* The live query: frames, prompts, and its end *)

\* processMessage: every frame that bears a session id names the conversation.
Names(r) == \E v \in Convs \cup {conv[r]} : conv' = [conv EXCEPT ![r] = v]

\* The API has answered: a frame of a stream, of the assistant or of a tool clears
\* the status.
Responded(l) ==
    LET r == rec[l] IN
    /\ Quiet /\ IsOpen(l) /\ Names(r)
    /\ status' = [status EXCEPT ![r] = FALSE]
    /\ UNCHANGED <<sdk, sessVars, callVars, queueVars, streaming, resting, loading,
                   controlVars, liveVars>>
\* A compaction within a turn sets it again,
Compacting(l) ==
    LET r == rec[l] IN
    /\ Quiet /\ IsOpen(l) /\ Names(r) /\ streaming[r]
    /\ status' = [status EXCEPT ![r] = TRUE]
    /\ UNCHANGED <<sdk, sessVars, callVars, queueVars, streaming, resting, loading,
                   controlVars, liveVars>>
\* and the other frames leave it: the first of a query, lists of commands, tasks.
Notice(l) ==
    /\ Quiet /\ IsOpen(l) /\ Names(rec[l])
    /\ UNCHANGED <<sdk, sessVars, callVars, queueVars, busyVars, loading, controlVars, liveVars>>

\* A result frame answers the oldest push.  A turn that waits for an answer
\* of the user has no result unless it was interrupted.
Result(l) ==
    LET k == Head(turns[l])  r == rec[l] IN
    /\ Quiet /\ IsOpen(l) /\ turns[l] # <<>>
    /\ flag[r] \/ \A i \in DOMAIN prompts[r] : prompts[r][i] # k
    /\ st' = [st EXCEPT ![k] = "resolved"]
    /\ turns' = [turns EXCEPT ![l] = Tail(@)]
    /\ Names(r)
    /\ UNCHANGED <<sdk, sessVars, givenVars, outcome, queueVars, busyVars, loading,
                   controlVars, live>>

\* Mutant: the drain loop ends without rejecting what is owed.
LiveDiesSilently(l) ==
    /\ Quiet /\ IsOpen(l)
    /\ live' = [live EXCEPT ![l] = "closed"]
    /\ turns' = [turns EXCEPT ![l] = <<>>]
    /\ UNCHANGED <<sdk, sessVars, callVars, queueVars, busyVars, convVars, controlVars>>

\* The generator throws or ends: the drain loop rejects what is owed.  The
\* record keeps its handle on the closed query.
LiveDies(l) ==
    /\ Quiet /\ IsOpen(l)
    /\ st' = Rejected(l)
    /\ live' = [live EXCEPT ![l] = "closed"]
    /\ turns' = [turns EXCEPT ![l] = <<>>]
    /\ UNCHANGED <<sdk, sessVars, givenVars, outcome, queueVars, busyVars, convVars, controlVars>>

\* buildCanUseTool: the running turn asks the user and waits.
Ask(l) ==
    LET k == Head(turns[l])  r == rec[l] IN
    /\ Quiet /\ IsOpen(l) /\ turns[l] # <<>>
    /\ Len(prompts[r]) < MaxPrompts /\ \A i \in DOMAIN prompts[r] : prompts[r][i] # k
    /\ prompts' = [prompts EXCEPT ![r] = Append(@, k)]
    /\ UNCHANGED <<sdk, sessVars, callVars, queueVars, busyVars, convVars, flag, aborted,
                   handle, asks, liveVars>>

\* resolvePermission, resolveAskUser: the user answers one of the prompts.
Answer(i) ==
    /\ Quiet /\ cur # NoRec /\ i \in DOMAIN prompts[cur]
    /\ prompts' = [prompts EXCEPT ![cur] = SubSeq(@, 1, i - 1) \o SubSeq(@, i + 1, Len(@))]
    /\ UNCHANGED <<sdk, sessVars, callVars, queueVars, busyVars, convVars, flag, aborted,
                   handle, asks, liveVars>>

--------------------------------------------------------------------------
(* Stopping, pausing and replacing *)

\* pendingSendCancel is the token of the record's latest call.
Latest(r, k) == k \in SendsOf(r) /\ \A j \in SendsOf(r) : j <= k
CancelWaiting ==
    cancelled' = [k \in Sends |-> cancelled[k] \/ Latest(cur, k)]

\* History: what each call of the record was at when the user stepped in.
Note(marks) ==
    esc' = [k \in Sends |-> IF k \in SendsOf(cur) /\ st[k] \in DOMAIN marks
                            THEN marks[st[k]] ELSE esc[k]]

\* claude.interruptTurn with a turn to interrupt, up to its await.
InterruptTurn ==
    /\ Quiet /\ cur # NoRec
    /\ handle[cur] # NoSend /\ streaming[cur]
    /\ asks[cur] < MaxAsks
    /\ CancelWaiting
    /\ Note([waiting |-> "waiting", pushed |-> "running", resolved |-> "running",
             rejected |-> "running"])
    /\ flag' = [flag EXCEPT ![cur] = TRUE]
    /\ asks' = [asks EXCEPT ![cur] = @ + 1]
    /\ UNCHANGED <<sdk, sessVars, st, rec, msg, prev, outcome, queueVars, busyVars, convVars,
                   aborted, handle, prompts, liveVars>>

\* The same with none: only the queue is cancelled.
InterruptNothing ==
    /\ Quiet /\ cur # NoRec
    /\ handle[cur] = NoSend \/ ~streaming[cur]
    /\ CancelWaiting
    /\ Note([waiting |-> "waiting"])
    /\ UNCHANGED <<sdk, sessVars, st, rec, msg, prev, outcome, queueVars, busyVars, convVars,
                   controlVars, liveVars>>

\* Mutant: a call returns that nobody awaits.
InterruptReturnsTwice(r) ==
    /\ Quiet /\ asks' = [asks EXCEPT ![r] = @ - 1]
    /\ \E failed \in BOOLEAN : flag' = [flag EXCEPT ![r] = @ /\ ~failed]
    /\ UNCHANGED <<sdk, sessVars, callVars, queueVars, busyVars, convVars, aborted, handle,
                   prompts, liveVars>>

\* interrupt() returned; when it failed the request is taken back.
InterruptReturns(r) ==
    /\ Quiet /\ asks[r] > 0
    /\ asks' = [asks EXCEPT ![r] = @ - 1]
    /\ \E failed \in BOOLEAN : flag' = [flag EXCEPT ![r] = @ /\ ~failed]
    /\ UNCHANGED <<sdk, sessVars, callVars, queueVars, busyVars, convVars, aborted, handle,
                   prompts, liveVars>>

\* claude.abortSession
Abort ==
    /\ Quiet /\ cur # NoRec
    /\ CancelWaiting
    /\ Note([waiting |-> "waiting", pushed |-> "stopped"])
    /\ Teardown(cur)
    /\ streaming' = [streaming EXCEPT ![cur] = FALSE]
    /\ UNCHANGED <<sdk, sessVars, rec, msg, prev, outcome, queueVars, status, resting, convVars,
                   asks, prompts>>

\* claude.restSession and claude.wakeSession.  Calls in the queue stay there.
Rest ==
    /\ Quiet /\ cur # NoRec
    /\ Teardown(cur)
    /\ Note([pushed |-> "stopped"])
    /\ streaming' = [streaming EXCEPT ![cur] = FALSE]
    /\ resting' = [resting EXCEPT ![cur] = TRUE]
    /\ UNCHANGED <<sdk, sessVars, rec, msg, prev, cancelled, outcome, queueVars, status, convVars, asks, prompts>>
Wake ==
    /\ Quiet /\ cur # NoRec
    /\ resting' = [resting EXCEPT ![cur] = FALSE]
    /\ UNCHANGED <<sdk, sessVars, callVars, queueVars, streaming, status, convVars,
                   controlVars, liveVars>>

\* setModel with a new context window, or a control call that failed.
Rebuild ==
    /\ Quiet /\ cur # NoRec
    /\ handle[cur] # NoSend
    /\ IsOpen(handle[cur]) \/ streaming[cur]
    /\ CloseLive(cur)
    /\ UNCHANGED <<sdk, sessVars, givenVars, outcome, queueVars, busyVars, convVars, aborted,
                   asks, prompts>>

\* claude.startSession: a record, attached to a conversation if one is given.
Start(v) ==
    /\ Quiet /\ EnsureRecord
    /\ conv' = [conv EXCEPT ![Record] = IF v = NoConv THEN @ ELSE v]
    /\ UNCHANGED <<sdk, callVars, queueVars, busyVars, loading, controlVars, liveVars>>

\* claude.stopSession and claude.resetSession
Drop ==
    /\ Quiet /\ cur # NoRec
    /\ Teardown(cur)
    /\ Note([pushed |-> "stopped"])
    /\ cur' = NoRec
    /\ UNCHANGED <<sdk, nextRec, rec, msg, prev, cancelled, outcome, queueVars, busyVars, convVars, asks, prompts>>

\* claude.resumeSession up to its await, unless the session is live on the
\* conversation already: a new record, whose history is to be loaded.
NewRecord(v) ==
    /\ nextRec \in Recs
    /\ cur' = nextRec /\ nextRec' = nextRec + 1
    /\ loading' = [loading EXCEPT ![nextRec] = v]
Resume(v) ==
    /\ Quiet /\ cur # NoRec
    /\ ~(conv[cur] = v /\ (streaming[cur] \/ IsOpen(handle[cur])))
    /\ Teardown(cur)
    /\ Note([pushed |-> "stopped"])
    /\ NewRecord(v)
    /\ UNCHANGED <<sdk, rec, msg, prev, cancelled, outcome, queueVars, busyVars, conv, asks, prompts>>
ResumeAbsent(v) ==
    /\ Quiet /\ cur = NoRec
    /\ NewRecord(v)
    /\ UNCHANGED <<sdk, callVars, queueVars, busyVars, conv, controlVars, liveVars>>

\* The history was found, and the record attached to the conversation, or not.
ResumeLoaded(r) ==
    /\ Quiet /\ loading[r] # NoConv
    /\ \E found \in BOOLEAN :
          conv' = [conv EXCEPT ![r] = IF found THEN loading[r] ELSE @]
    /\ loading' = [loading EXCEPT ![r] = NoConv]
    /\ UNCHANGED <<sdk, sessVars, callVars, queueVars, busyVars, controlVars, liveVars>>

--------------------------------------------------------------------------
Begin(k) == BeginStopped(k) \/ BeginCancelled(k) \/ BeginImport(k) \/ BeginStub(k)
            \/ BeginReady(k)

\* What the event loop, the file system and the module loader always do.
Loop(k) ==
    \/ Begin(k)
    \/ Imported(k) \/ ImportFails(k)
    \/ Built(k) \/ BuildFails(k)
    \/ SettleResolved(k) \/ SettleRejected(k)

\* Requests of the host, frames of the SDK, and the rest of the sidecar.
Outside ==
    \/ SendNoFolder \/ \E k \in Sends, m \in Msgs : Send(k, m)
    \/ ImportElsewhere \/ ImportedElsewhere
    \/ \E l \in Sends : Responded(l) \/ Compacting(l) \/ Notice(l) \/ Result(l)
                       \/ LiveDies(l) \/ Ask(l)
    \/ \E i \in 1 .. MaxPrompts : Answer(i)
    \/ InterruptTurn \/ InterruptNothing
    \/ \E r \in Recs : InterruptReturns(r) \/ ResumeLoaded(r)
    \/ Abort \/ Rest \/ Wake \/ Rebuild \/ Drop
    \/ \E v \in Convs : Resume(v) \/ ResumeAbsent(v)
    \/ \E v \in Convs \cup {NoConv} : Start(v)

Next == (\E k \in Sends : Loop(k)) \/ Outside

Spec == Init /\ [][Next]_vars

\* The event loop never starves a continuation; the SDK ends a turn that can end
\* again and again; the user answers the prompt the panel shows.
FairSpec ==
    /\ Spec
    /\ \A k \in Sends : WF_vars(Loop(k)) /\ SF_vars(Result(k))
    /\ WF_vars(Answer(1))

--------------------------------------------------------------------------
(* Safety *)

\* One turn at a time: a call of a record runs only when every earlier call
\* of that record is through (the sendQueue chain of claude.sendMessage).
SerialTurns ==
    \A j, k \in Sends :
        (j < k /\ rec[j] = rec[k] /\ st[k] \in Active) => st[j] = "done"

\* A retry of an unfinished prompt always finds it: its request is still
\* remembered as pending, and no other unfinished call of the record has the
\* same id (clientMessageRequests and its pruning).
RetryFindsUnfinished ==
    \A k \in Sends : st[k] \notin {"unused", "done"} =>
        /\ req[rec[k]][msg[k]] = "pending"
        /\ \A j \in SendsOf(rec[k]) \ {k} :
               msg[j] = msg[k] => st[j] = "done"

\* A record never loses the query it has to stop: as long as one it built is
\* open, liveQuery is that query (ensureLiveQuery, closeLiveQuery).
HandleKept == \A l \in Sends : live[l] = "open" => handle[rec[l]] = l

\* No push waits on a closed query: whoever closes one rejects what it owes
\* (LiveQuery.close, _drain), and an open one owes every pushed turn.
NoStrandedTurn ==
    \A k \in Sends : st[k] = "pushed" => \E l \in Sends : live[l] = "open" /\ Owes(l, k)

\* An interrupt is never charged to a turn it was not aimed at: a turn ends
\* as interrupted only if Esc was pressed while it ran (interruptRequested).
InterruptHitsItsTurn ==
    \A k \in Sends : outcome[k] = "interrupted" => esc[k] = "running"

\* A turn the user stopped is not reported as an error: the abort signal
\* outlives the query until the rejected push has read it.
StopIsNotAnError ==
    \A k \in Sends : esc[k] = "stopped" => outcome[k] # "error"

\* The panel shows the session busy (isStreaming of buildSessionMeta: streaming
\* or a status) from the moment a call becomes the turn until the SDK is through
\* with it, across aborts and rests of earlier turns, answers and compactions;
\* and it shows it only while there is a call that is not settled.
BusyIsShown ==
    /\ \A k \in Sends : st[k] \in {"importing", "building"} => status[rec[k]]
    /\ \A k \in Sends : st[k] = "pushed" => streaming[rec[k]]
    /\ \A r \in Recs : streaming[r] \/ status[r] => \E k \in SendsOf(r) : st[k] \in Active

--------------------------------------------------------------------------
(* Liveness *)

\* Every prompt sent is settled, unless its record is replaced: nothing in
\* the queue waits for ever on a turn, a prompt or a closed query.
SendSettles ==
    \A k \in Sends : st[k] = "waiting" ~> (st[k] = "done" \/ cur # rec[k])

--------------------------------------------------------------------------
(* What a comment in the code says of it, and it does not always do *)

\* "Esc always cancels whatever is still waiting in the send queue"
\* (interruptTurn, abortSession): the token of the latest call is cancelled.
EscCancelsWaiting ==
    \A k \in Sends : esc[k] = "waiting" /\ prev[k] # NoSend =>
        st[k] \in {"waiting", "done"} /\ outcome[k] \in {"none", "stopped", "cancelled"}
=============================================================================
