-------------------------- MODULE ClaudeTurnProofs --------------------------
(* The queue and query properties of ClaudeTurn, for every number of calls *)
(* and records and every set of messages and conversations.                *)
EXTENDS ClaudeTurn, TLAPS

-----------------------------------------------------------------------------
(* The inductive invariant *)

\* Calls are made in order, and a call belongs to a record once it is made.
Made ==
    /\ \A k \in Sends : (st[k] = "unused" => rec[k] = NoRec /\ live[k] = "none")
                        /\ (st[k] # "unused" => rec[k] \in Recs /\ msg[k] \in Msgs)
    /\ \A j, k \in Sends : j < k /\ st[j] = "unused" => st[k] = "unused"

\* Whatever runs or is through has no unfinished call of its record before it.
Ordered ==
    \A j, k \in Sends :
        j < k /\ rec[j] = rec[k] /\ st[k] \notin {"unused", "waiting"} => st[j] = "done"

\* A waiting call waits for the last unfinished call before it.
WaitsForLast ==
    \A j, k \in Sends :
        st[k] = "waiting" /\ j < k /\ rec[j] = rec[k] /\ st[j] # "done"
            => prev[k] # NoSend /\ j <= prev[k]

\* What a waiting call waits for is an earlier call of the same record.
WaitsForEarlier ==
    \A k \in Sends :
        st[k] = "waiting" /\ prev[k] # NoSend => prev[k] < k /\ rec[prev[k]] = rec[k]

\* The queue of a record ends in its last unfinished call.
TailIsLast ==
    /\ \A j \in Sends : st[j] \notin {"unused", "done"}
                            => tail[rec[j]] # NoSend /\ j <= tail[rec[j]]
    /\ \A r \in Recs : tail[r] # NoSend => rec[tail[r]] = r

\* A query owes at most one result, to a pushed call of its own record, and
\* only while it is open.
OwesOne ==
    \A l \in Sends :
        /\ Len(turns[l]) <= 1
        /\ \A k \in Sends : Owes(l, k) => /\ st[k] = "pushed" /\ rec[k] = rec[l]
                                          /\ live[l] = "open"

\* A record whose call builds a query, or whose push was rejected, has none.
NoneOpen ==
    \A k, l \in Sends :
        st[k] \in {"building", "rejected"} /\ live[l] = "open" => rec[l] # rec[k]

\* A record holds on to a query of its own.
HandleOwn == \A r \in Recs : handle[r] # NoSend => rec[handle[r]] = r

Inv == /\ Made /\ Ordered /\ WaitsForLast /\ WaitsForEarlier /\ TailIsLast
       /\ HandleOwn /\ RetryFindsUnfinished /\ OwesOne /\ NoStrandedTurn /\ HandleKept /\ NoneOpen

\* Every earlier call of the record is through.
First(k) == \A j \in Sends : j < k /\ rec[j] = rec[k] => st[j] = "done"

-----------------------------------------------------------------------------
(* Type correctness *)

\* Calls and records are numbered by positive naturals.
LEMMA Numbers == Sends \subseteq Nat \ {0} /\ Recs \subseteq Nat \ {0}
BY BoundsAssumption DEF Sends, Recs

\* The initial state is well typed.
LEMMA InitType == Init => TypeOK
BY BoundsAssumption, Numbers DEF Init, TypeOK, Active, Outcomes, NoRec, NoSend, Recs


\* Comparisons of calls, as facts about numbers.
LEMMA Order ==
    /\ \A i, j \in Sends : i <= j <=> i < j \/ i = j
    /\ \A i, j \in Sends : i < j \/ i = j \/ j < i
    /\ \A i, j \in Sends : ~(i < j /\ j < i) /\ ~(i < i)
    /\ \A i \in Sends : i <= i
    /\ \A i, j, k \in Sends : i < j /\ j < k => i < k
BY Numbers

\* A frame that names the conversation of a record.
LEMMA NamesTypes ==
    ASSUME TypeOK, NEW r, Names(r)
    PROVE  conv' \in [Recs -> Convs \cup {NoConv}]
<1>1. PICK v \in Convs \cup {conv[r]} : conv' = [conv EXCEPT ![r] = v]
  BY DEF Names
<1>2. conv \in [Recs -> Convs \cup {NoConv}] /\ (r \in Recs => v \in Convs \cup {NoConv})
  BY <1>1 DEF TypeOK
<1> QED BY <1>1, <1>2

\* prepare keeps the types of what it changes.
LEMMA PrepareTypes ==
    ASSUME TypeOK, NEW k \in Sends, Prepare(k)
    PROVE  /\ st' \in [Sends -> {"unused", "waiting", "done"} \cup Active]
           /\ turns' \in [Sends -> Seq(Sends)]
           /\ streaming' \in [Recs -> BOOLEAN]
<1> DEFINE r == rec[k]
           l == handle[r]
<1>1. /\ st \in [Sends -> {"unused", "waiting", "done"} \cup Active]
      /\ turns \in [Sends -> Seq(Sends)] /\ streaming \in [Recs -> BOOLEAN]
  BY DEF TypeOK
<1>2. "pushed" \in Active /\ "building" \in Active
  BY DEF Active
<1>3. CASE IsOpen(l)
  <2>1. /\ st' = [st EXCEPT ![k] = "pushed"]
        /\ turns' = [turns EXCEPT ![l] = Append(@, k)]
        /\ streaming' = [streaming EXCEPT ![r] = TRUE]
    BY <1>3 DEF Prepare
  <2> HIDE DEF l, r
  <2>3. l \in Sends => Append(turns[l], k) \in Seq(Sends)
    BY <1>1
  <2>4. st' \in [Sends -> {"unused", "waiting", "done"} \cup Active]
    BY <1>1, <1>2, <2>1
  <2>5. turns' \in [Sends -> Seq(Sends)]
    BY <1>1, <2>1, <2>3
  <2>6. streaming' \in [Recs -> BOOLEAN]
    BY <1>1, <2>1
  <2> QED BY <2>4, <2>5, <2>6
<1>4. CASE ~IsOpen(l)
  <2>1. st' = [st EXCEPT ![k] = "building"] /\ turns' = turns /\ streaming' = streaming
    BY <1>4 DEF Prepare
  <2> QED BY <1>1, <1>2, <2>1
<1> QED BY <1>3, <1>4

\* Every step keeps the types.
LEMMA NextType == TypeOK /\ [Next]_vars => TypeOK'
<1> SUFFICES ASSUME TypeOK, [Next]_vars PROVE TypeOK'
  OBVIOUS
<1> USE Numbers DEF TypeOK, NoSend, NoRec
<1>1. ASSUME NEW k \in Sends, BeginStopped(k) PROVE TypeOK'
  BY <1>1 DEF BeginStopped, Finish, sessVars, callVars, queueVars, busyVars, convVars,
     controlVars, liveVars, givenVars, Active, Outcomes
<1>2. ASSUME NEW k \in Sends, BeginCancelled(k) PROVE TypeOK'
  BY <1>2 DEF BeginCancelled, Finish, sessVars, callVars, queueVars, busyVars, convVars,
     controlVars, liveVars, givenVars, Active, Outcomes
<1>3. ASSUME NEW k \in Sends, BeginImport(k) PROVE TypeOK'
  BY <1>3 DEF BeginImport, Starts, sessVars, callVars, queueVars, busyVars, convVars,
     controlVars, liveVars, givenVars, Active, Outcomes
<1>4. ASSUME NEW k \in Sends, BeginStub(k) PROVE TypeOK'
  BY <1>4 DEF BeginStub, Starts, Finish, sessVars, callVars, queueVars, busyVars, convVars,
     controlVars, liveVars, givenVars, Active, Outcomes
<1>5. ASSUME NEW k \in Sends, BeginReady(k) PROVE TypeOK'
  <2>0. Prepare(k) /\ resting' = [resting EXCEPT ![rec[k]] = FALSE]
        /\ status' = [status EXCEPT ![rec[k]] = TRUE]
        /\ UNCHANGED <<sdk, sessVars, givenVars, outcome, queueVars, convVars, controlVars, live>>
    BY <1>5 DEF BeginReady, Starts
  <2> HIDE DEF TypeOK
  <2>1. /\ st' \in [Sends -> {"unused", "waiting", "done"} \cup Active]
        /\ turns' \in [Sends -> Seq(Sends)]
        /\ streaming' \in [Recs -> BOOLEAN]
    BY <2>0, PrepareTypes
  <2>2. resting' \in [Recs -> BOOLEAN] /\ status' \in [Recs -> BOOLEAN]
    BY <2>0 DEF TypeOK
  <2> QED
    BY <2>0, <2>1, <2>2 DEF TypeOK, sessVars, queueVars, convVars, controlVars, givenVars
<1>6. ASSUME NEW k \in Sends, Imported(k) PROVE TypeOK'
  <2>0. Prepare(k) /\ sdk' = "ready"
        /\ UNCHANGED <<sessVars, givenVars, outcome, queueVars, status, resting, convVars, controlVars, live>>
    BY <1>6 DEF Imported
  <2> HIDE DEF TypeOK
  <2>1. /\ st' \in [Sends -> {"unused", "waiting", "done"} \cup Active]
        /\ turns' \in [Sends -> Seq(Sends)]
        /\ streaming' \in [Recs -> BOOLEAN]
    BY <2>0, PrepareTypes
  <2> QED
    BY <2>0, <2>1 DEF TypeOK, sessVars, queueVars, convVars, controlVars, givenVars
<1>7. ASSUME NEW k \in Sends, ImportFails(k) PROVE TypeOK'
  BY <1>7 DEF ImportFails, Finish, sessVars, callVars, queueVars, busyVars, convVars,
     controlVars, liveVars, givenVars, Active, Outcomes
<1>8. ASSUME NEW k \in Sends, Built(k) PROVE TypeOK'
  <2>1. st' \in [Sends -> {"unused", "waiting", "done"} \cup Active]
    BY <1>8 DEF Built, Active, Outcomes
  <2>2. live' \in [Sends -> {"none", "open", "closed"}]
    BY <1>8 DEF Built, Active, Outcomes
  <2>3. turns' \in [Sends -> Seq(Sends)]
    BY <1>8 DEF Built, Active, Outcomes
  <2>4. handle' \in [Recs -> {NoSend} \cup Sends]
    BY <1>8 DEF Built, Active, Outcomes
  <2>5. aborted' \in [Recs -> BOOLEAN]
    BY <1>8 DEF Built, Active, Outcomes
  <2>6. streaming' \in [Recs -> BOOLEAN]
    BY <1>8 DEF Built, Active, Outcomes
  <2>7. status' \in [Recs -> BOOLEAN]
    BY <1>8 DEF Built, Active, Outcomes
  <2> QED
    BY <1>8, <2>1, <2>2, <2>3, <2>4, <2>5, <2>6, <2>7 DEF Built, sessVars, callVars,
       queueVars, busyVars, convVars, controlVars, liveVars, givenVars
<1>9. ASSUME NEW k \in Sends, BuildFails(k) PROVE TypeOK'
  BY <1>9 DEF BuildFails, Finish, sessVars, callVars, queueVars, busyVars, convVars,
     controlVars, liveVars, givenVars, Active, Outcomes
<1>10. ASSUME NEW k \in Sends, SettleResolved(k) PROVE TypeOK'
  BY <1>10 DEF SettleResolved, Finish, sessVars, callVars, queueVars, busyVars, convVars,
     controlVars, liveVars, givenVars, Active, Outcomes
<1>11. ASSUME NEW k \in Sends, SettleRejected(k) PROVE TypeOK'
  BY <1>11 DEF SettleRejected, Finish, sessVars, callVars, queueVars, busyVars, convVars,
     controlVars, liveVars, givenVars, Active, Outcomes
<1>12. ASSUME NEW k \in Sends, NEW m \in Msgs, Send(k, m) PROVE TypeOK'
  <2>1. cur' \in {NoRec} \cup Recs
    BY <1>12 DEF Send, EnsureRecord, Record, Active, Outcomes
  <2>2. nextRec' \in 1 .. MaxRecs + 1
    <3>1. nextRec \in Recs => nextRec + 1 \in 1 .. MaxRecs + 1
      BY BoundsAssumption DEF Recs
    <3> QED BY <1>12, <3>1 DEF Send, EnsureRecord, Record
  <2>3. req' \in [Recs -> [Msgs -> {"none", "pending", "done"}]]
    BY <1>12 DEF Send, EnsureRecord, Record, Active, Outcomes
  <2>4. st' \in [Sends -> {"unused", "waiting", "done"} \cup Active]
    BY <1>12 DEF Send, EnsureRecord, Record, Active, Outcomes
  <2>5. rec' \in [Sends -> {NoRec} \cup Recs]
    BY <1>12 DEF Send, EnsureRecord, Record, Active, Outcomes
  <2>6. msg' \in [Sends -> Msgs \cup {NoMsg}]
    BY <1>12 DEF Send, EnsureRecord, Record, Active, Outcomes
  <2>7. prev' \in [Sends -> {NoSend} \cup Sends]
    BY <1>12 DEF Send, EnsureRecord, Record, Active, Outcomes
  <2>8. tail' \in [Recs -> {NoSend} \cup Sends]
    BY <1>12 DEF Send, EnsureRecord, Record, Active, Outcomes
  <2> QED
    BY <1>12, <2>1, <2>2, <2>3, <2>4, <2>5, <2>6, <2>7, <2>8 DEF Send, EnsureRecord, Record,
       sessVars, callVars, queueVars, busyVars, convVars, controlVars, liveVars, givenVars
<1>13. CASE ImportElsewhere
  BY <1>13 DEF ImportElsewhere, sessVars, callVars, queueVars, busyVars, convVars, controlVars,
     liveVars, givenVars, Active, Outcomes
<1>14. CASE ImportedElsewhere
  BY <1>14 DEF ImportedElsewhere, sessVars, callVars, queueVars, busyVars, convVars,
     controlVars, liveVars, givenVars, Active, Outcomes
<1>15. ASSUME NEW l \in Sends, Responded(l) PROVE TypeOK'
  <2>1. status' \in [Recs -> BOOLEAN]
    BY <1>15 DEF Responded, IsOpen, Active, Outcomes
  <2>2. conv' \in [Recs -> Convs \cup {NoConv}]
    BY <1>15, NamesTypes DEF Responded
  <2> QED
    BY <1>15, <2>1, <2>2 DEF Responded, IsOpen, sessVars, callVars, queueVars, busyVars,
       convVars, controlVars, liveVars, givenVars
<1>16. ASSUME NEW l \in Sends, Compacting(l) PROVE TypeOK'
  <2>1. status' \in [Recs -> BOOLEAN]
    BY <1>16 DEF Compacting, IsOpen, Active, Outcomes
  <2>2. conv' \in [Recs -> Convs \cup {NoConv}]
    BY <1>16, NamesTypes DEF Compacting
  <2> QED
    BY <1>16, <2>1, <2>2 DEF Compacting, IsOpen, sessVars, callVars, queueVars, busyVars,
       convVars, controlVars, liveVars, givenVars
<1>17. ASSUME NEW l \in Sends, Result(l) PROVE TypeOK'
  <2>1. st' \in [Sends -> {"unused", "waiting", "done"} \cup Active]
    BY <1>17 DEF Result, IsOpen, Active, Outcomes
  <2>2. turns' \in [Sends -> Seq(Sends)]
    BY <1>17 DEF Result, IsOpen, Active, Outcomes
  <2>3. conv' \in [Recs -> Convs \cup {NoConv}]
    BY <1>17, NamesTypes DEF Result
  <2> QED
    BY <1>17, <2>1, <2>2, <2>3 DEF Result, IsOpen, sessVars, callVars, queueVars, busyVars,
       convVars, controlVars, liveVars, givenVars
<1>18. ASSUME NEW l \in Sends, LiveDies(l) PROVE TypeOK'
  <2>1. st' \in [Sends -> {"unused", "waiting", "done"} \cup Active]
    BY <1>18 DEF LiveDies, IsOpen, Rejected, Active, Outcomes
  <2>2. live' \in [Sends -> {"none", "open", "closed"}]
    BY <1>18 DEF LiveDies, IsOpen, Rejected, Active, Outcomes
  <2>3. turns' \in [Sends -> Seq(Sends)]
    BY <1>18 DEF LiveDies, IsOpen, Rejected, Active, Outcomes
  <2> QED
    BY <1>18, <2>1, <2>2, <2>3 DEF LiveDies, IsOpen, Rejected, sessVars, callVars, queueVars,
       busyVars, convVars, controlVars, liveVars, givenVars
<1>19. ASSUME NEW l \in Sends, Ask(l) PROVE TypeOK'
  <2>1. prompts' \in [Recs -> Seq(Sends)]
    <3>1. turns[l] \in Seq(Sends) /\ turns[l] # <<>>
      BY <1>19 DEF Ask
    <3>2. Head(turns[l]) \in Sends
      BY <3>1
    <3>3. \A s \in Seq(Sends) : Append(s, Head(turns[l])) \in Seq(Sends)
      BY <3>2
    <3>4. prompts' = [prompts EXCEPT ![rec[l]] = Append(@, Head(turns[l]))]
      BY <1>19 DEF Ask
    <3> QED BY <3>3, <3>4
  <2> QED
    BY <1>19, <2>1 DEF Ask, IsOpen, sessVars, callVars, queueVars, busyVars, convVars,
       controlVars, liveVars, givenVars
<1>20. ASSUME NEW i \in 1 .. MaxPrompts, Answer(i) PROVE TypeOK'
  <2>1. prompts' \in [Recs -> Seq(Sends)]
    BY <1>20 DEF Answer, Active, Outcomes
  <2> QED
    BY <1>20, <2>1 DEF Answer, sessVars, callVars, queueVars, busyVars, convVars, controlVars,
       liveVars, givenVars
<1>21. CASE InterruptTurn
  <2>1. cancelled' \in [Sends -> BOOLEAN]
    BY <1>21 DEF InterruptTurn, CancelWaiting, Note, Active, Outcomes
  <2>2. esc' \in [Sends -> {"no", "waiting", "running", "stopped"}]
    BY <1>21 DEF InterruptTurn, CancelWaiting, Note, Active, Outcomes
  <2>3. flag' \in [Recs -> BOOLEAN]
    BY <1>21 DEF InterruptTurn, CancelWaiting, Note, Active, Outcomes
  <2>4. asks' \in [Recs -> 0 .. MaxAsks]
    <3>1. \A x \in 0 .. MaxAsks : x < MaxAsks => x + 1 \in 0 .. MaxAsks
      BY BoundsAssumption
    <3> QED BY <1>21, <3>1 DEF InterruptTurn
  <2> QED
    BY <1>21, <2>1, <2>2, <2>3, <2>4 DEF InterruptTurn, CancelWaiting, Note, sessVars,
       callVars, queueVars, busyVars, convVars, controlVars, liveVars, givenVars
<1>22. CASE InterruptNothing
  <2>1. cancelled' \in [Sends -> BOOLEAN]
    BY <1>22 DEF InterruptNothing, CancelWaiting, Note, Active, Outcomes
  <2>2. esc' \in [Sends -> {"no", "waiting", "running", "stopped"}]
    BY <1>22 DEF InterruptNothing, CancelWaiting, Note, Active, Outcomes
  <2> QED
    BY <1>22, <2>1, <2>2 DEF InterruptNothing, CancelWaiting, Note, sessVars, callVars,
       queueVars, busyVars, convVars, controlVars, liveVars, givenVars
<1>23. ASSUME NEW r \in Recs, InterruptReturns(r) PROVE TypeOK'
  <2>1. asks' \in [Recs -> 0 .. MaxAsks]
    <3>1. \A x \in 0 .. MaxAsks : x > 0 => x - 1 \in 0 .. MaxAsks
      BY BoundsAssumption
    <3> QED BY <1>23, <3>1 DEF InterruptReturns
  <2>2. flag' \in [Recs -> BOOLEAN]
    BY <1>23 DEF InterruptReturns, Active, Outcomes
  <2> QED
    BY <1>23, <2>1, <2>2 DEF InterruptReturns, sessVars, callVars, queueVars, busyVars,
       convVars, controlVars, liveVars, givenVars
<1>24. ASSUME NEW r \in Recs, ResumeLoaded(r) PROVE TypeOK'
  <2>1. conv' \in [Recs -> Convs \cup {NoConv}]
    BY <1>24 DEF ResumeLoaded, Active, Outcomes
  <2>2. loading' \in [Recs -> Convs \cup {NoConv}]
    BY <1>24 DEF ResumeLoaded, Active, Outcomes
  <2> QED
    BY <1>24, <2>1, <2>2 DEF ResumeLoaded, sessVars, callVars, queueVars, busyVars, convVars,
       controlVars, liveVars, givenVars
<1>25. CASE Abort
  <2>1. st' \in [Sends -> {"unused", "waiting", "done"} \cup Active]
    BY <1>25 DEF Abort, CancelWaiting, Note, Teardown, CloseLive, Rejected, Active, Outcomes
  <2>2. live' \in [Sends -> {"none", "open", "closed"}]
    BY <1>25 DEF Abort, CancelWaiting, Note, Teardown, CloseLive, Rejected, Active, Outcomes
  <2>3. turns' \in [Sends -> Seq(Sends)]
    BY <1>25 DEF Abort, CancelWaiting, Note, Teardown, CloseLive, Rejected, Active, Outcomes
  <2>4. handle' \in [Recs -> {NoSend} \cup Sends]
    BY <1>25 DEF Abort, CancelWaiting, Note, Teardown, CloseLive, Rejected, Active, Outcomes
  <2>5. flag' \in [Recs -> BOOLEAN]
    BY <1>25 DEF Abort, CancelWaiting, Note, Teardown, CloseLive, Rejected, Active, Outcomes
  <2>6. aborted' \in [Recs -> BOOLEAN]
    BY <1>25 DEF Abort, CancelWaiting, Note, Teardown, CloseLive, Rejected, Active, Outcomes
  <2>7. esc' \in [Sends -> {"no", "waiting", "running", "stopped"}]
    BY <1>25 DEF Abort, CancelWaiting, Note, Teardown, CloseLive, Rejected, Active, Outcomes
  <2>8. cancelled' \in [Sends -> BOOLEAN]
    BY <1>25 DEF Abort, CancelWaiting, Note, Teardown, CloseLive, Rejected, Active, Outcomes
  <2>9. streaming' \in [Recs -> BOOLEAN]
    BY <1>25 DEF Abort, CancelWaiting, Note, Teardown, CloseLive, Rejected, Active, Outcomes
  <2> QED
    BY <1>25, <2>1, <2>2, <2>3, <2>4, <2>5, <2>6, <2>7, <2>8, <2>9 DEF Abort, CancelWaiting,
       Note, Teardown, CloseLive, Rejected, sessVars, callVars, queueVars, busyVars, convVars,
       controlVars, liveVars, givenVars
<1>26. CASE Rest
  <2>1. st' \in [Sends -> {"unused", "waiting", "done"} \cup Active]
    BY <1>26 DEF Rest, Note, Teardown, CloseLive, Rejected, Active, Outcomes
  <2>2. live' \in [Sends -> {"none", "open", "closed"}]
    BY <1>26 DEF Rest, Note, Teardown, CloseLive, Rejected, Active, Outcomes
  <2>3. turns' \in [Sends -> Seq(Sends)]
    BY <1>26 DEF Rest, Note, Teardown, CloseLive, Rejected, Active, Outcomes
  <2>4. handle' \in [Recs -> {NoSend} \cup Sends]
    BY <1>26 DEF Rest, Note, Teardown, CloseLive, Rejected, Active, Outcomes
  <2>5. flag' \in [Recs -> BOOLEAN]
    BY <1>26 DEF Rest, Note, Teardown, CloseLive, Rejected, Active, Outcomes
  <2>6. aborted' \in [Recs -> BOOLEAN]
    BY <1>26 DEF Rest, Note, Teardown, CloseLive, Rejected, Active, Outcomes
  <2>7. esc' \in [Sends -> {"no", "waiting", "running", "stopped"}]
    BY <1>26 DEF Rest, Note, Teardown, CloseLive, Rejected, Active, Outcomes
  <2>8. streaming' \in [Recs -> BOOLEAN]
    BY <1>26 DEF Rest, Note, Teardown, CloseLive, Rejected, Active, Outcomes
  <2>9. resting' \in [Recs -> BOOLEAN]
    BY <1>26 DEF Rest, Note, Teardown, CloseLive, Rejected, Active, Outcomes
  <2> QED
    BY <1>26, <2>1, <2>2, <2>3, <2>4, <2>5, <2>6, <2>7, <2>8, <2>9 DEF Rest, Note, Teardown,
       CloseLive, Rejected, sessVars, callVars, queueVars, busyVars, convVars, controlVars,
       liveVars, givenVars
<1>27. CASE Wake
  BY <1>27 DEF Wake, sessVars, callVars, queueVars, busyVars, convVars, controlVars, liveVars,
     givenVars, Active, Outcomes
<1>28. CASE Rebuild
  <2>1. st' \in [Sends -> {"unused", "waiting", "done"} \cup Active]
    BY <1>28 DEF Rebuild, CloseLive, Rejected, Active, Outcomes
  <2>2. live' \in [Sends -> {"none", "open", "closed"}]
    BY <1>28 DEF Rebuild, CloseLive, Rejected, Active, Outcomes
  <2>3. turns' \in [Sends -> Seq(Sends)]
    BY <1>28 DEF Rebuild, CloseLive, Rejected, Active, Outcomes
  <2>4. handle' \in [Recs -> {NoSend} \cup Sends]
    BY <1>28 DEF Rebuild, CloseLive, Rejected, Active, Outcomes
  <2>5. flag' \in [Recs -> BOOLEAN]
    BY <1>28 DEF Rebuild, CloseLive, Rejected, Active, Outcomes
  <2> QED
    BY <1>28, <2>1, <2>2, <2>3, <2>4, <2>5 DEF Rebuild, CloseLive, Rejected, sessVars,
       callVars, queueVars, busyVars, convVars, controlVars, liveVars, givenVars
<1>29. CASE Drop
  <2>1. st' \in [Sends -> {"unused", "waiting", "done"} \cup Active]
    BY <1>29 DEF Drop, Note, Teardown, CloseLive, Rejected, Active, Outcomes
  <2>2. live' \in [Sends -> {"none", "open", "closed"}]
    BY <1>29 DEF Drop, Note, Teardown, CloseLive, Rejected, Active, Outcomes
  <2>3. turns' \in [Sends -> Seq(Sends)]
    BY <1>29 DEF Drop, Note, Teardown, CloseLive, Rejected, Active, Outcomes
  <2>4. handle' \in [Recs -> {NoSend} \cup Sends]
    BY <1>29 DEF Drop, Note, Teardown, CloseLive, Rejected, Active, Outcomes
  <2>5. flag' \in [Recs -> BOOLEAN]
    BY <1>29 DEF Drop, Note, Teardown, CloseLive, Rejected, Active, Outcomes
  <2>6. aborted' \in [Recs -> BOOLEAN]
    BY <1>29 DEF Drop, Note, Teardown, CloseLive, Rejected, Active, Outcomes
  <2>7. esc' \in [Sends -> {"no", "waiting", "running", "stopped"}]
    BY <1>29 DEF Drop, Note, Teardown, CloseLive, Rejected, Active, Outcomes
  <2>8. cur' \in {NoRec} \cup Recs
    BY <1>29 DEF Drop, Note, Teardown, CloseLive, Rejected, Active, Outcomes
  <2> QED
    BY <1>29, <2>1, <2>2, <2>3, <2>4, <2>5, <2>6, <2>7, <2>8 DEF Drop, Note, Teardown,
       CloseLive, Rejected, sessVars, callVars, queueVars, busyVars, convVars, controlVars,
       liveVars, givenVars
<1>30. ASSUME NEW v \in Convs, Resume(v) PROVE TypeOK'
  <2>1. st' \in [Sends -> {"unused", "waiting", "done"} \cup Active]
    BY <1>30 DEF Resume, Note, Teardown, CloseLive, Rejected, NewRecord, Active, Outcomes
  <2>2. live' \in [Sends -> {"none", "open", "closed"}]
    BY <1>30 DEF Resume, Note, Teardown, CloseLive, Rejected, NewRecord, Active, Outcomes
  <2>3. turns' \in [Sends -> Seq(Sends)]
    BY <1>30 DEF Resume, Note, Teardown, CloseLive, Rejected, NewRecord, Active, Outcomes
  <2>4. handle' \in [Recs -> {NoSend} \cup Sends]
    BY <1>30 DEF Resume, Note, Teardown, CloseLive, Rejected, NewRecord, Active, Outcomes
  <2>5. flag' \in [Recs -> BOOLEAN]
    BY <1>30 DEF Resume, Note, Teardown, CloseLive, Rejected, NewRecord, Active, Outcomes
  <2>6. aborted' \in [Recs -> BOOLEAN]
    BY <1>30 DEF Resume, Note, Teardown, CloseLive, Rejected, NewRecord, Active, Outcomes
  <2>7. esc' \in [Sends -> {"no", "waiting", "running", "stopped"}]
    BY <1>30 DEF Resume, Note, Teardown, CloseLive, Rejected, NewRecord, Active, Outcomes
  <2>8. cur' \in {NoRec} \cup Recs
    BY <1>30 DEF Resume, Note, Teardown, CloseLive, Rejected, NewRecord, Active, Outcomes
  <2>9. nextRec' \in 1 .. MaxRecs + 1
    <3>1. nextRec \in Recs => nextRec + 1 \in 1 .. MaxRecs + 1
      BY BoundsAssumption DEF Recs
    <3> QED BY <1>30, <3>1 DEF Resume, NewRecord
  <2>10. loading' \in [Recs -> Convs \cup {NoConv}]
    BY <1>30 DEF Resume, Note, Teardown, CloseLive, Rejected, NewRecord, Active, Outcomes
  <2> QED
    BY <1>30, <2>1, <2>2, <2>3, <2>4, <2>5, <2>6, <2>7, <2>8, <2>9, <2>10 DEF Resume, Note,
       Teardown, CloseLive, Rejected, NewRecord, sessVars, callVars, queueVars, busyVars,
       convVars, controlVars, liveVars, givenVars
<1>31. ASSUME NEW v \in Convs, ResumeAbsent(v) PROVE TypeOK'
  <2>1. cur' \in {NoRec} \cup Recs
    BY <1>31 DEF ResumeAbsent, NewRecord, Active, Outcomes
  <2>2. nextRec' \in 1 .. MaxRecs + 1
    <3>1. nextRec \in Recs => nextRec + 1 \in 1 .. MaxRecs + 1
      BY BoundsAssumption DEF Recs
    <3> QED BY <1>31, <3>1 DEF ResumeAbsent, NewRecord
  <2>3. loading' \in [Recs -> Convs \cup {NoConv}]
    BY <1>31 DEF ResumeAbsent, NewRecord, Active, Outcomes
  <2> QED
    BY <1>31, <2>1, <2>2, <2>3 DEF ResumeAbsent, NewRecord, sessVars, callVars, queueVars,
       busyVars, convVars, controlVars, liveVars, givenVars
<1>32. ASSUME NEW v \in Convs \cup {NoConv}, Start(v) PROVE TypeOK'
  <2>1. cur' \in {NoRec} \cup Recs
    BY <1>32 DEF Start, EnsureRecord, Record, Active, Outcomes
  <2>2. nextRec' \in 1 .. MaxRecs + 1
    <3>1. nextRec \in Recs => nextRec + 1 \in 1 .. MaxRecs + 1
      BY BoundsAssumption DEF Recs
    <3> QED BY <1>32, <3>1 DEF Start, EnsureRecord, Record
  <2>3. conv' \in [Recs -> Convs \cup {NoConv}]
    BY <1>32 DEF Start, EnsureRecord, Record, Active, Outcomes
  <2> QED
    BY <1>32, <2>1, <2>2, <2>3 DEF Start, EnsureRecord, Record, sessVars, callVars, queueVars,
       busyVars, convVars, controlVars, liveVars, givenVars
<1>34. ASSUME NEW l \in Sends, Notice(l) PROVE TypeOK'
  <2>1. conv' \in [Recs -> Convs \cup {NoConv}]
    BY <1>34, NamesTypes DEF Notice
  <2> QED
    BY <1>34, <2>1 DEF Notice, sessVars, callVars, queueVars, busyVars, convVars, controlVars,
       liveVars
<1>35. CASE SendNoFolder
  BY <1>35 DEF SendNoFolder, callVars, queueVars, busyVars, convVars, controlVars, liveVars
<1>33. CASE UNCHANGED vars
  BY <1>33 DEF vars, sessVars, callVars, queueVars, busyVars, convVars, controlVars, liveVars,
     givenVars
<1> QED
  BY <1>1, <1>2, <1>3, <1>4, <1>5, <1>6, <1>7, <1>8, <1>9, <1>10, <1>11, <1>12, <1>13, <1>14,
     <1>15, <1>16, <1>17, <1>18, <1>19, <1>20, <1>21, <1>22, <1>23, <1>24, <1>25, <1>26, <1>27,
     <1>28, <1>29, <1>30, <1>31, <1>32, <1>33, <1>34, <1>35 DEF Next, Loop, Begin, Outside

-----------------------------------------------------------------------------
(* The steps of the queue *)

\* The variables the invariant speaks of.
coreVars == <<st, rec, msg, prev, tail, req, handle, live, turns>>

\* A step that touches none of them keeps it.
LEMMA CoreStep == Inv /\ UNCHANGED coreVars => Inv'
BY DEF coreVars, Inv, Made, Ordered, WaitsForLast, WaitsForEarlier, TailIsLast, HandleOwn,
       RetryFindsUnfinished, SendsOf, OwesOne, Owes, NoStrandedTurn, HandleKept, NoneOpen

\* The initial state satisfies the invariant.
LEMMA InitInv == Init => Inv
BY DEF Init, Inv, Made, Ordered, WaitsForLast, WaitsForEarlier, TailIsLast, HandleOwn,
       RetryFindsUnfinished, SendsOf, OwesOne, Owes, NoStrandedTurn, HandleKept, NoneOpen

\* When its turn comes, a waiting call is the first of its record.
LEMMA TurnIsFirst ==
    ASSUME TypeOK, Inv, NEW k \in Sends, Turn(k)
    PROVE  First(k)
<1> SUFFICES ASSUME NEW j \in Sends, j < k, rec[j] = rec[k], st[j] # "done"
             PROVE FALSE
  BY DEF First
<1>1. st[k] = "waiting" /\ (prev[k] # NoSend => st[prev[k]] = "done")
  BY DEF Turn, TypeOK
<1>2. prev[k] # NoSend /\ j <= prev[k]
  BY <1>1 DEF Inv, WaitsForLast
<1>3. prev[k] \in Sends /\ prev[k] < k /\ rec[prev[k]] = rec[k] /\ st[prev[k]] = "done"
  BY <1>1, <1>2 DEF Inv, WaitsForEarlier, TypeOK
<1>4. j = prev[k] \/ j < prev[k]
  BY <1>2, <1>3, Order
<1>5. st[j] = "done"
  BY <1>3, <1>4 DEF Inv, Ordered
<1> QED BY <1>5

\* A running call is the first of its record.
LEMMA RunnerIsFirst ==
    ASSUME Inv, NEW k \in Sends, st[k] \notin {"unused", "waiting"}
    PROVE  First(k)
BY DEF Inv, Ordered, First

\* claude.sendMessage keeps the invariant.
LEMMA SendStep ==
    ASSUME TypeOK, Inv, NEW k \in Sends, NEW m \in Msgs, Send(k, m)
    PROVE  Inv'
<1> DEFINE r == Record
<1>1. r \in Recs /\ req[r][m] = "none" /\ NoRec \notin Recs /\ NoSend \notin Sends
  BY Numbers DEF Send, EnsureRecord, NoRec, NoSend
<1>2. /\ st[k] = "unused" /\ rec[k] = NoRec /\ live[k] = "none"
      /\ \A j \in Sends : j < k => st[j] # "unused"
      /\ \A j \in Sends : k < j => st[j] = "unused" /\ rec[j] = NoRec
  <2>1. \A j \in 1 .. k - 1 : st[j] # "unused"
    BY DEF Send
  <2>2. \A j \in Sends : j < k => j \in 1 .. k - 1
    BY Numbers
  <2> QED BY <2>1, <2>2 DEF Send, Inv, Made
<1>3. \A j \in Sends : /\ st'[j] = IF j = k THEN "waiting" ELSE st[j]
                       /\ rec'[j] = IF j = k THEN r ELSE rec[j]
                       /\ msg'[j] = IF j = k THEN m ELSE msg[j]
                       /\ prev'[j] = IF j = k THEN tail[r] ELSE prev[j]
  BY DEF Send, TypeOK
<1>4. \A q \in Recs : tail'[q] = IF q = r THEN k ELSE tail[q]
  BY DEF Send, TypeOK
<1>5. PICK D \in SUBSET Known(r) : /\ D \subseteq Finished(r)
                                   /\ req' = [req EXCEPT ![r] = [n \in Msgs |-> IF n = m THEN "pending"
                                                  ELSE IF n \in D THEN "none" ELSE @[n]]]
  BY DEF Send, Pruned
<1>6. /\ \A q \in Recs, n \in Msgs : q # r => req'[q][n] = req[q][n]
      /\ \A n \in Msgs : n # m /\ req[r][n] = "pending" => req'[r][n] = "pending"
      /\ req'[r][m] = "pending"
  BY <1>1, <1>5 DEF Finished, TypeOK
<1>7. UNCHANGED <<handle, live, turns>>
  BY DEF Send, controlVars, liveVars
<1> HIDE DEF r
<1>8. \A j \in Sends : /\ Owes(j, k)' <=> Owes(j, k)
                       /\ \A i \in Sends : Owes(j, i)' <=> Owes(j, i)
  BY <1>7 DEF Owes
<1>9. \A j \in Sends : ~Owes(j, k)
  BY <1>2 DEF Inv, OwesOne
<1>10. Made'
  BY <1>1, <1>2, <1>3, <1>7, Numbers DEF Inv, Made
<1>11. Ordered'
  BY <1>1, <1>2, <1>3, Numbers DEF Inv, Ordered
<1>12. WaitsForLast'
  <2> SUFFICES ASSUME NEW i \in Sends, NEW j \in Sends, st'[j] = "waiting", i < j,
                      rec'[i] = rec'[j], st'[i] # "done"
               PROVE  prev'[j] # NoSend /\ i <= prev'[j]
    BY DEF WaitsForLast
  <2>1. CASE j = k
    <3>1. i # k /\ rec[i] = r /\ st[i] \notin {"unused", "done"}
      BY <1>2, <1>3, <2>1, Order
    <3>2. tail[r] # NoSend /\ i <= tail[r]
      BY <3>1 DEF Inv, TailIsLast
    <3> QED BY <1>3, <2>1, <3>2
  <2>2. CASE j # k
    <3>1. i # k
      BY <1>2, <1>3, <2>2
    <3> QED BY <1>3, <2>2, <3>1 DEF Inv, WaitsForLast
  <2> QED BY <2>1, <2>2
<1>13. WaitsForEarlier'
  <2> SUFFICES ASSUME NEW j \in Sends, st'[j] = "waiting", prev'[j] # NoSend
               PROVE  prev'[j] < j /\ rec'[prev'[j]] = rec'[j]
    BY DEF WaitsForEarlier
  <2>1. CASE j = k
    <3>1. prev'[k] = tail[r] /\ tail[r] \in Sends /\ rec[tail[r]] = r
      BY <1>1, <1>3, <2>1 DEF Inv, TailIsLast, TypeOK
    <3>2. tail[r] # k /\ ~(k < tail[r])
      BY <1>1, <1>2, <3>1
    <3>3. tail[r] < k
      BY <3>1, <3>2, Order
    <3>4. rec'[tail[r]] = r /\ rec'[k] = r
      BY <1>3, <3>1, <3>2
    <3> QED BY <2>1, <3>1, <3>3, <3>4
  <2>2. CASE j # k
    <3>1. prev[j] \in Sends /\ prev[j] < j /\ rec[prev[j]] = rec[j] /\ rec[j] \in Recs
      BY <1>3, <2>2 DEF Inv, WaitsForEarlier, Made, TypeOK
    <3> QED BY <1>1, <1>2, <1>3, <2>2, <3>1
  <2> QED BY <2>1, <2>2
<1>14. TailIsLast'
  <2>1. ASSUME NEW j \in Sends, st'[j] \notin {"unused", "done"}
        PROVE  tail'[rec'[j]] # NoSend /\ j <= tail'[rec'[j]]
    <3>1. rec'[j] \in Recs
      BY <1>1, <1>3, <2>1 DEF Inv, Made
    <3>2. CASE rec'[j] = r
      <4>1. j = k \/ j < k
        BY <1>2, <1>3, <2>1, Order
      <4>2. tail'[r] = k /\ j <= k /\ k # NoSend
        BY <1>1, <1>4, <4>1, Order
      <4> QED BY <3>2, <4>2
    <3>3. CASE rec'[j] # r
      BY <1>1, <1>3, <1>4, <2>1, <3>1, <3>3 DEF Inv, TailIsLast
    <3> QED BY <3>2, <3>3
  <2>2. ASSUME NEW q \in Recs, tail'[q] # NoSend
        PROVE  rec'[tail'[q]] = q
    <3>1. CASE q = r
      BY <1>3, <1>4, <3>1
    <3>2. CASE q # r
      <4>1. tail[q] \in Sends /\ rec[tail[q]] = q /\ tail'[q] = tail[q]
        BY <1>4, <2>2, <3>2 DEF Inv, TailIsLast, TypeOK
      <4>2. tail[q] # k
        BY <1>1, <1>2, <4>1
      <4> QED BY <1>3, <4>1, <4>2
    <3> QED BY <3>1, <3>2
  <2> QED BY <2>1, <2>2 DEF TailIsLast
<1>15. HandleOwn'
  BY <1>1, <1>2, <1>3, <1>7 DEF Inv, HandleOwn, TypeOK
<1>16. RetryFindsUnfinished'
  <2> SUFFICES ASSUME NEW i \in Sends, st'[i] \notin {"unused", "done"}
               PROVE  /\ req'[rec'[i]][msg'[i]] = "pending"
                      /\ \A j \in Sends \ {i} : rec'[j] = rec'[i] /\ msg'[j] = msg'[i]
                                                    => st'[j] = "done"
    BY DEF RetryFindsUnfinished, SendsOf
  <2>1. CASE i = k
    <3>1. \A j \in Sends \ {k} : rec[j] = r /\ msg[j] = m => st[j] = "done"
      BY <1>1 DEF Inv, RetryFindsUnfinished, Made
    <3> QED BY <1>3, <1>6, <2>1, <3>1
  <2>2. CASE i # k
    <3>1. /\ req[rec[i]][msg[i]] = "pending" /\ rec[i] \in Recs /\ msg[i] \in Msgs
          /\ \A j \in Sends \ {i} : rec[j] = rec[i] /\ msg[j] = msg[i] => st[j] = "done"
      BY <1>3, <2>2 DEF Inv, RetryFindsUnfinished, SendsOf, Made
    <3>2. ~(rec[i] = r /\ msg[i] = m)
      BY <1>1, <3>1
    <3>3. req'[rec[i]][msg[i]] = "pending"
      BY <1>6, <3>1, <3>2
    <3> QED BY <1>2, <1>3, <2>2, <3>1, <3>2, <3>3
  <2> QED BY <2>1, <2>2
<1>17. OwesOne'
  BY <1>3, <1>7, <1>8, <1>9, <1>2 DEF Inv, OwesOne
<1>18. NoStrandedTurn'
  BY <1>3, <1>7, <1>8 DEF Inv, NoStrandedTurn
<1>19. HandleKept'
  BY <1>2, <1>3, <1>7 DEF Inv, HandleKept
<1>20. NoneOpen'
  BY <1>2, <1>3, <1>7 DEF Inv, NoneOpen
<1> QED BY <1>10, <1>11, <1>12, <1>13, <1>14, <1>15, <1>16, <1>17, <1>18, <1>19, <1>20 DEF Inv


\* The end of a call that is the first of its record keeps the invariant, if
\* the record holds on to every open query.
LEMMA FinishStep ==
    ASSUME TypeOK, Inv, NEW k \in Sends, NEW out, Finish(k, out), First(k),
           st[k] \notin {"unused", "done", "pushed"}, UNCHANGED <<rec, msg, prev, live, turns>>,
           \A r \in Recs : \/ handle'[r] = handle[r]
                           \/ handle'[r] = NoSend /\ \A l \in Sends : live[l] = "open" => rec[l] # r
    PROVE  Inv'
<1>1. /\ rec[k] \in Recs /\ msg[k] \in Msgs /\ NoSend \notin Sends
      /\ \A j \in Sends : st[j] # "unused" => rec[j] \in Recs
  BY Numbers DEF Inv, Made, NoSend
<1>2. \A j \in Sends : st'[j] = IF j = k THEN "done" ELSE st[j]
  BY DEF Finish, TypeOK
<1>3. \A r \in Recs : tail'[r] = IF r = rec[k] /\ tail[r] = k THEN NoSend ELSE tail[r]
  BY <1>1 DEF Finish, TypeOK
<1>4. \A r \in Recs, m \in Msgs : r # rec[k] \/ m # msg[k] => req'[r][m] = req[r][m]
  BY <1>1 DEF Finish, TypeOK
<1>5. \A l, j \in Sends : Owes(l, j)' <=> Owes(l, j)
  BY DEF Owes
<1>6. Made'
  BY <1>2 DEF Inv, Made
<1>7. Ordered'
  BY <1>2 DEF Inv, Ordered, First
<1>8. WaitsForLast' /\ WaitsForEarlier'
  BY <1>2 DEF Inv, WaitsForLast, WaitsForEarlier
<1>9. TailIsLast'
  <2>1. ASSUME NEW j \in Sends, st'[j] \notin {"unused", "done"}
        PROVE  tail'[rec'[j]] # NoSend /\ j <= tail'[rec'[j]]
    <3>1. j # k /\ st[j] \notin {"unused", "done"} /\ rec[j] \in Recs /\ rec'[j] = rec[j]
      BY <1>1, <1>2, <2>1
    <3>2. tail[rec[j]] # NoSend /\ j <= tail[rec[j]]
      BY <3>1 DEF Inv, TailIsLast
    <3>3. ~(rec[j] = rec[k] /\ tail[rec[j]] = k)
      <4> SUFFICES ASSUME rec[j] = rec[k], tail[rec[j]] = k PROVE FALSE
        OBVIOUS
      <4>1. j < k
        BY <3>1, <3>2, Order
      <4> QED BY <3>1, <4>1 DEF First
    <3> QED BY <1>3, <3>1, <3>2, <3>3
  <2> QED BY <1>3, <2>1 DEF Inv, TailIsLast
<1>10. HandleOwn'
  BY DEF Inv, HandleOwn
<1>11. RetryFindsUnfinished'
  <2> SUFFICES ASSUME NEW i \in Sends, st'[i] \notin {"unused", "done"}
               PROVE  /\ req'[rec[i]][msg[i]] = "pending"
                      /\ \A j \in Sends \ {i} : rec[j] = rec[i] /\ msg[j] = msg[i]
                                                    => st'[j] = "done"
    BY DEF RetryFindsUnfinished, SendsOf
  <2>1. i # k /\ st[i] \notin {"unused", "done"} /\ rec[i] \in Recs /\ msg[i] \in Msgs
    BY <1>2 DEF Inv, Made
  <2>2. /\ req[rec[i]][msg[i]] = "pending"
        /\ \A j \in Sends \ {i} : rec[j] = rec[i] /\ msg[j] = msg[i] => st[j] = "done"
    BY <2>1 DEF Inv, RetryFindsUnfinished, SendsOf
  <2>3. rec[i] # rec[k] \/ msg[i] # msg[k]
    BY <2>1, <2>2
  <2> QED BY <1>2, <1>4, <2>1, <2>2, <2>3
<1>12. OwesOne'
  BY <1>2, <1>5 DEF Inv, OwesOne
<1>13. NoStrandedTurn' /\ NoneOpen'
  BY <1>2, <1>5 DEF Inv, NoStrandedTurn, NoneOpen
<1>14. HandleKept'
  BY <1>1 DEF Inv, HandleKept, Made
<1> QED BY <1>6, <1>7, <1>8, <1>9, <1>10, <1>11, <1>12, <1>13, <1>14 DEF Inv

\* The first call of a record goes on to import or to build.
LEMMA RunStep ==
    ASSUME TypeOK, Inv, NEW k \in Sends, NEW s \in {"importing", "building"}, First(k),
           st[k] \notin {"unused", "done", "pushed"}, st' = [st EXCEPT ![k] = s],
           UNCHANGED <<rec, msg, prev, tail, req, handle, live, turns>>,
           s = "building" => ~IsOpen(handle[rec[k]])
    PROVE  Inv'
<1>1. \A j \in Sends : st'[j] = IF j = k THEN s ELSE st[j]
  BY DEF TypeOK
<1>2. \A l, j \in Sends : Owes(l, j)' <=> Owes(l, j)
  BY DEF Owes
<1>3. s = "building" => \A l \in Sends : live[l] = "open" => rec[l] # rec[k]
  BY Numbers DEF Inv, HandleKept, IsOpen, NoSend
<1>4. Made' /\ WaitsForLast' /\ WaitsForEarlier' /\ TailIsLast'
  BY <1>1 DEF Inv, Made, WaitsForLast, WaitsForEarlier, TailIsLast
<1>5. Ordered'
  BY <1>1 DEF Inv, Ordered, First
<1>6. HandleOwn' /\ HandleKept'
  BY DEF Inv, HandleOwn, HandleKept
<1>7. RetryFindsUnfinished'
  BY <1>1 DEF Inv, RetryFindsUnfinished, SendsOf
<1>8. OwesOne' /\ NoStrandedTurn'
  BY <1>1, <1>2 DEF Inv, OwesOne, NoStrandedTurn
<1>9. NoneOpen'
  BY <1>1, <1>3 DEF Inv, NoneOpen
<1> QED BY <1>4, <1>5, <1>6, <1>7, <1>8, <1>9 DEF Inv

\* Two calls of a record never run at the same time.
LEMMA OneRuns ==
    ASSUME Inv, NEW i \in Sends, NEW k \in Sends, rec[i] = rec[k], First(k),
           st[k] # "done", st[i] \notin {"unused", "waiting", "done"}
    PROVE  i = k
<1>1. i < k \/ i = k \/ k < i
  BY Order
<1>2. ~(i < k)
  BY DEF First
<1>3. ~(k < i)
  BY DEF Inv, Ordered
<1> QED BY <1>1, <1>2, <1>3

\* The first call of a record is pushed to a query that owes nothing, new or
\* open already.
LEMMA PushStep ==
    ASSUME TypeOK, Inv, NEW k \in Sends, NEW l \in Sends, First(k), rec[l] = rec[k],
           st[k] \notin {"unused", "done", "pushed"}, st' = [st EXCEPT ![k] = "pushed"],
           UNCHANGED <<rec, msg, prev, tail, req>>,
           live' = [live EXCEPT ![l] = "open"], handle' = [handle EXCEPT ![rec[k]] = l],
           turns' = [turns EXCEPT ![l] = <<k>>],
           \A i \in Sends : ~Owes(l, i),
           \A i \in Sends : live[i] = "open" /\ rec[i] = rec[k] => i = l
    PROVE  Inv'
<1>1. /\ \A j \in Sends : /\ st'[j] = IF j = k THEN "pushed" ELSE st[j]
                          /\ live'[j] = IF j = l THEN "open" ELSE live[j]
                          /\ turns'[j] = IF j = l THEN <<k>> ELSE turns[j]
      /\ rec[k] \in Recs
      /\ \A r \in Recs : handle'[r] = IF r = rec[k] THEN l ELSE handle[r]
  BY DEF TypeOK, Inv, Made
<1>2. \A j, i \in Sends : Owes(j, i)' <=> IF j = l THEN i = k ELSE Owes(j, i)
  <2>1. ASSUME NEW j \in Sends, NEW i \in Sends
        PROVE  Owes(j, i)' <=> IF j = l THEN i = k ELSE Owes(j, i)
    <3>1. CASE j = l
      <4>1. turns'[j] = <<k>> /\ j # NoSend
        BY <1>1, <3>1, Numbers DEF NoSend
      <4>2. Owes(j, i)' <=> i = k
        BY <4>1 DEF Owes
      <4> QED BY <3>1, <4>2
    <3>2. CASE j # l
      BY <1>1, <3>2 DEF Owes
    <3> QED BY <3>1, <3>2
  <2> QED BY <2>1
<1>3. Made'
  <2>1. l # k => st[l] # "unused"
    BY <1>1, Numbers DEF Inv, Made, NoRec
  <2> QED BY <1>1, <2>1 DEF Inv, Made
<1>4. WaitsForLast' /\ WaitsForEarlier' /\ TailIsLast'
  BY <1>1 DEF Inv, WaitsForLast, WaitsForEarlier, TailIsLast
<1>5. Ordered'
  BY <1>1 DEF Inv, Ordered, First
<1>6. HandleOwn' /\ HandleKept'
  <2>1. \A j \in Sends : live[j] = "open" => rec[j] \in Recs
    BY DEF Inv, Made
  <2> QED BY <1>1, <2>1 DEF Inv, HandleOwn, HandleKept
<1>7. RetryFindsUnfinished'
  BY <1>1 DEF Inv, RetryFindsUnfinished, SendsOf
<1>8. OwesOne'
  <2> SUFFICES ASSUME NEW j \in Sends
               PROVE  /\ Len(turns'[j]) <= 1
                      /\ \A i \in Sends : Owes(j, i)' => /\ st'[i] = "pushed" /\ rec[i] = rec[j]
                                                         /\ live'[j] = "open"
    BY DEF OwesOne
  <2>1. CASE j = l
    <3>1. live'[j] = "open" /\ Len(turns'[j]) <= 1
      <4>1. turns'[j] = <<k>> /\ live'[j] = "open"
        BY <1>1, <2>1
      <4>2. Len(<<k>>) <= 1
        OBVIOUS
      <4> QED BY <4>1, <4>2
    <3>2. ASSUME NEW i \in Sends, Owes(j, i)'
          PROVE  st'[i] = "pushed" /\ rec[i] = rec[j]
      <4>1. i = k
        BY <1>2, <2>1, <3>2
      <4> QED BY <1>1, <2>1, <4>1
    <3> QED BY <3>1, <3>2
  <2>2. CASE j # l
    BY <1>1, <1>2, <2>2 DEF Inv, OwesOne
  <2> QED BY <2>1, <2>2
<1>9. NoStrandedTurn'
  <2> SUFFICES ASSUME NEW i \in Sends, st'[i] = "pushed"
               PROVE  \E j \in Sends : live'[j] = "open" /\ Owes(j, i)'
    BY DEF NoStrandedTurn
  <2>1. CASE i = k
    BY <1>1, <1>2, <2>1
  <2>2. CASE i # k
    <3>1. PICK j \in Sends : live[j] = "open" /\ Owes(j, i)
      BY <1>1, <2>2 DEF Inv, NoStrandedTurn
    <3> QED BY <1>1, <1>2, <3>1
  <2> QED BY <2>1, <2>2
<1>10. NoneOpen'
  <2> SUFFICES ASSUME NEW i \in Sends, NEW j \in Sends, st'[i] \in {"building", "rejected"},
                      live'[j] = "open", rec[j] = rec[i]
               PROVE  FALSE
    BY DEF NoneOpen
  <2>1. i # k /\ st[i] \in {"building", "rejected"}
    BY <1>1
  <2>2. rec[i] # rec[k]
    BY <2>1, OneRuns
  <2> QED BY <1>1, <2>1, <2>2 DEF Inv, NoneOpen
<1> QED BY <1>3, <1>4, <1>5, <1>6, <1>7, <1>8, <1>9, <1>10 DEF Inv

\* Prepare keeps the invariant.
LEMMA PrepareStep ==
    ASSUME TypeOK, Inv, NEW k \in Sends, Prepare(k), First(k),
           st[k] \notin {"unused", "done", "pushed"},
           UNCHANGED <<rec, msg, prev, tail, req, handle, live>>
    PROVE  Inv'
<1> DEFINE l == handle[rec[k]]
<1>1. rec[k] \in Recs
  BY DEF Inv, Made
<1>2. CASE IsOpen(l)
  <2>1. l \in Sends /\ rec[l] = rec[k] /\ live[l] = "open"
    BY <1>1, <1>2 DEF IsOpen, TypeOK, Inv, HandleOwn
  <2>2. ASSUME NEW i \in Sends PROVE ~Owes(l, i)
    <3> SUFFICES ASSUME Owes(l, i) PROVE FALSE
      OBVIOUS
    <3>1. st[i] = "pushed" /\ rec[i] = rec[l]
      BY <2>1 DEF Inv, OwesOne
    <3>2. i = k
      BY <2>1, <3>1, OneRuns
    <3> QED BY <3>1, <3>2
  <2>3. turns[l] = <<>>
    <3> SUFFICES ASSUME turns[l] # <<>> PROVE FALSE
      OBVIOUS
    <3>1. turns[l] \in Seq(Sends)
      BY <2>1 DEF TypeOK
    <3>2. 1 \in DOMAIN turns[l] /\ turns[l][1] \in Sends
      BY <3>1
    <3>3. Owes(l, turns[l][1])
      BY <2>1, <3>2, Numbers DEF Owes, NoSend
    <3> QED BY <2>2, <3>2, <3>3
  <2>4. turns' = [turns EXCEPT ![l] = <<k>>] /\ st' = [st EXCEPT ![k] = "pushed"]
    <3>1. Append(turns[l], k) = <<k>>
      BY <2>3
    <3>2. turns' = [turns EXCEPT ![l] = Append(turns[l], k)] /\ st' = [st EXCEPT ![k] = "pushed"]
      BY <1>2 DEF Prepare
    <3> QED BY <3>1, <3>2
  <2>5. live' = [live EXCEPT ![l] = "open"] /\ handle' = [handle EXCEPT ![rec[k]] = l]
    BY <2>1 DEF TypeOK
  <2>6. \A i \in Sends : live[i] = "open" /\ rec[i] = rec[k] => i = l
    BY DEF Inv, HandleKept
  <2> QED BY <2>1, <2>2, <2>4, <2>5, <2>6, PushStep
<1>3. CASE ~IsOpen(l)
  <2>1. st' = [st EXCEPT ![k] = "building"] /\ turns' = turns
    BY <1>3 DEF Prepare
  <2> QED BY <1>3, <2>1, RunStep
<1> QED BY <1>2, <1>3

\* A result frame keeps the invariant.
LEMMA ResultStep ==
    ASSUME TypeOK, Inv, NEW l \in Sends, Result(l)
    PROVE  Inv'
<1> DEFINE k == Head(turns[l])
<1>1. turns[l] # <<>> /\ turns[l] \in Seq(Sends) /\ Len(turns[l]) <= 1
  BY DEF Result, TypeOK, Inv, OwesOne
<1>2. k \in Sends /\ turns[l] = <<k>> /\ Tail(turns[l]) = <<>>
  BY <1>1
<1>3. Owes(l, k)
  BY <1>2, Numbers DEF Owes, NoSend
<1>4. st[k] = "pushed" /\ rec[k] = rec[l]
  BY <1>2, <1>3 DEF Inv, OwesOne
<1>5. /\ UNCHANGED <<rec, msg, prev, tail, req, handle, live>>
      /\ \A j \in Sends : /\ st'[j] = IF j = k THEN "resolved" ELSE st[j]
                          /\ turns'[j] = IF j = l THEN <<>> ELSE turns[j]
  BY <1>2 DEF Result, TypeOK, sessVars, givenVars, queueVars, controlVars
<1>6. \A i, j \in Sends : Owes(j, i)' <=> j # l /\ Owes(j, i)
  BY <1>5 DEF Owes
<1>7. ASSUME NEW i \in Sends, Owes(l, i) PROVE i = k
  BY <1>2, <1>7 DEF Owes
<1> HIDE DEF k
<1>8. Made' /\ WaitsForLast' /\ WaitsForEarlier' /\ TailIsLast' /\ Ordered'
  BY <1>4, <1>5 DEF Inv, Made, WaitsForLast, WaitsForEarlier, TailIsLast, Ordered
<1>9. HandleOwn' /\ HandleKept' /\ NoneOpen'
  BY <1>5 DEF Inv, HandleOwn, HandleKept, NoneOpen
<1>10. RetryFindsUnfinished'
  BY <1>4, <1>5 DEF Inv, RetryFindsUnfinished, SendsOf
<1>11. OwesOne'
  <2>1. ASSUME NEW j \in Sends PROVE Len(turns'[j]) <= 1
    BY <1>5 DEF Inv, OwesOne
  <2>2. ASSUME NEW i \in Sends, NEW j \in Sends, j # l, Owes(j, i)
        PROVE  st'[i] = "pushed" /\ rec[i] = rec[j] /\ live[j] = "open"
    <3>1. st[i] = "pushed" /\ rec[i] = rec[j] /\ live[j] = "open"
      BY <2>2 DEF Inv, OwesOne
    <3>2. i # k
      <4> SUFFICES ASSUME i = k PROVE FALSE
        OBVIOUS
      <4>1. rec[j] = rec[l] /\ live[l] = "open"
        BY <1>3, <1>4, <3>1, <1>2 DEF Inv, OwesOne
      <4>2. j = l
        BY <3>1, <4>1 DEF Inv, HandleKept
      <4> QED BY <2>2, <4>2
    <3> QED BY <1>5, <3>1, <3>2
  <2> QED BY <1>5, <1>6, <2>1, <2>2 DEF OwesOne
<1>12. NoStrandedTurn'
  <2> SUFFICES ASSUME NEW i \in Sends, st'[i] = "pushed"
               PROVE  \E j \in Sends : live'[j] = "open" /\ Owes(j, i)'
    BY DEF NoStrandedTurn
  <2>1. i # k /\ st[i] = "pushed"
    BY <1>5
  <2>2. PICK j \in Sends : live[j] = "open" /\ Owes(j, i)
    BY <2>1 DEF Inv, NoStrandedTurn
  <2>3. j # l
    BY <1>7, <2>1, <2>2
  <2> QED BY <1>5, <1>6, <2>2, <2>3
<1> QED BY <1>8, <1>9, <1>10, <1>11, <1>12 DEF Inv

\* The end of query l, or of none, keeps the invariant, whoever brings it
\* about and whether or not the record lets go of its handle.
LEMMA CloseStep ==
    ASSUME TypeOK, Inv, NEW l, l \in Sends => st[l] # "unused", l \in Sends \cup {NoSend},
           UNCHANGED <<rec, msg, prev, tail, req>>,
           st' = Rejected(l),
           \A j \in Sends : /\ live'[j] = IF j = l THEN "closed" ELSE live[j]
                            /\ turns'[j] = IF j = l THEN <<>> ELSE turns[j],
           \A r \in Recs : handle'[r] = handle[r] \/ (handle'[r] = NoSend /\ handle[r] = l)
    PROVE  Inv'
<1>1. \A i \in Sends : st'[i] = IF Owes(l, i) THEN "rejected" ELSE st[i]
  BY DEF Rejected
<1>2. \A i \in Sends : Owes(l, i) => /\ l \in Sends /\ st[i] = "pushed" /\ rec[i] = rec[l]
                                     /\ live[l] = "open"
  BY DEF Owes, Inv, OwesOne
<1>3. \A i, j \in Sends : Owes(j, i)' <=> j # l /\ Owes(j, i)
  BY DEF Owes
<1>4. \A j \in Sends : live[j] = "open" => rec[j] \in Recs
  BY DEF Inv, Made
<1>5. Made' /\ WaitsForLast' /\ WaitsForEarlier' /\ TailIsLast' /\ Ordered'
  BY <1>1, <1>2 DEF Inv, Made, WaitsForLast, WaitsForEarlier, TailIsLast, Ordered
<1>6. HandleOwn'
  BY DEF Inv, HandleOwn
<1>7. HandleKept'
  BY <1>4 DEF Inv, HandleKept
<1>8. RetryFindsUnfinished'
  BY <1>1, <1>2 DEF Inv, RetryFindsUnfinished, SendsOf
<1>9. NoneOpen'
  <2> SUFFICES ASSUME NEW i \in Sends, NEW j \in Sends, st'[i] \in {"building", "rejected"},
                      live'[j] = "open", rec[j] = rec[i]
               PROVE  FALSE
    BY DEF NoneOpen
  <2>1. j # l /\ live[j] = "open"
    OBVIOUS
  <2>2. CASE Owes(l, i)
    <3>1. handle[rec[j]] = j /\ handle[rec[l]] = l /\ rec[l] = rec[j]
      BY <1>2, <2>1, <2>2 DEF Inv, HandleKept
    <3> QED BY <2>1, <3>1
  <2>3. CASE ~Owes(l, i)
    BY <1>1, <2>1, <2>3 DEF Inv, NoneOpen
  <2> QED BY <2>2, <2>3
<1>10. OwesOne'
  <2>1. ASSUME NEW j \in Sends PROVE Len(turns'[j]) <= 1
    BY DEF Inv, OwesOne
  <2>2. ASSUME NEW i \in Sends, NEW j \in Sends, j # l, Owes(j, i)
        PROVE  st'[i] = "pushed" /\ rec[i] = rec[j] /\ live'[j] = "open"
    <3>1. st[i] = "pushed" /\ rec[i] = rec[j] /\ live[j] = "open"
      BY <2>2 DEF Inv, OwesOne
    <3>2. ~Owes(l, i)
      <4> SUFFICES ASSUME Owes(l, i) PROVE FALSE
        OBVIOUS
      <4>1. l \in Sends /\ rec[j] = rec[l] /\ live[l] = "open"
        BY <1>2, <3>1
      <4>2. j = l
        BY <3>1, <4>1 DEF Inv, HandleKept
      <4> QED BY <2>2, <4>2
    <3> QED BY <1>1, <2>2, <3>1, <3>2
  <2> QED BY <1>3, <2>1, <2>2 DEF OwesOne
<1>11. NoStrandedTurn'
  <2> SUFFICES ASSUME NEW i \in Sends, st'[i] = "pushed"
               PROVE  \E j \in Sends : live'[j] = "open" /\ Owes(j, i)'
    BY DEF NoStrandedTurn
  <2>1. ~Owes(l, i) /\ st[i] = "pushed"
    BY <1>1
  <2>2. PICK j \in Sends : live[j] = "open" /\ Owes(j, i)
    BY <2>1 DEF Inv, NoStrandedTurn
  <2> QED BY <1>3, <2>1, <2>2
<1> QED BY <1>5, <1>6, <1>7, <1>8, <1>9, <1>10, <1>11 DEF Inv

\* closeLiveQuery keeps the invariant.
LEMMA CloseLiveStep ==
    ASSUME TypeOK, Inv, NEW r \in Recs, CloseLive(r), UNCHANGED <<rec, msg, prev, tail, req>>
    PROVE  Inv'
<1> DEFINE l == handle[r]
<1>1. l \in Sends \cup {NoSend} /\ (l \in Sends => st[l] # "unused")
  <2>1. l \in Sends \cup {NoSend} /\ NoSend \notin Sends /\ NoRec \notin Recs
    BY Numbers DEF TypeOK, NoSend, NoRec
  <2>2. l \in Sends => rec[l] = r
    BY <2>1 DEF Inv, HandleOwn
  <2>3. \A j \in Sends : st[j] = "unused" => rec[j] = NoRec
    BY DEF Inv, Made
  <2> QED BY <2>1, <2>2, <2>3
<1>2. /\ st' = Rejected(l)
      /\ \A j \in Sends : /\ live'[j] = IF j = l THEN "closed" ELSE live[j]
                          /\ turns'[j] = IF j = l THEN <<>> ELSE turns[j]
      /\ \A q \in Recs : handle'[q] = handle[q] \/ (handle'[q] = NoSend /\ handle[q] = l)
  BY DEF CloseLive, TypeOK
<1> HIDE DEF l
<1> QED BY <1>1, <1>2, CloseStep

-----------------------------------------------------------------------------
(* Every step *)

\* The event loop's own steps keep the invariant.
LEMMA LoopStep ==
    ASSUME TypeOK, Inv, NEW k \in Sends, Loop(k)
    PROVE  Inv'
<1> USE DEF sessVars, givenVars, queueVars, controlVars, liveVars
<1>1. Turn(k) => First(k) /\ st[k] = "waiting"
  BY TurnIsFirst DEF Turn
<1>2. st[k] \in {"importing", "building", "resolved", "rejected"} => First(k)
  BY RunnerIsFirst
<1>3. rec[k] \in Recs \/ st[k] = "unused"
  BY DEF Inv, Made
<1>4. CASE BeginStopped(k)
  BY <1>1, <1>4, FinishStep DEF BeginStopped
<1>5. CASE BeginCancelled(k)
  BY <1>1, <1>5, FinishStep DEF BeginCancelled
<1>6. CASE BeginImport(k)
  BY <1>1, <1>6, RunStep DEF BeginImport, Starts
<1>7. CASE BeginStub(k)
  BY <1>1, <1>7, FinishStep DEF BeginStub, Starts
<1>8. CASE BeginReady(k)
  BY <1>1, <1>8, PrepareStep DEF BeginReady, Starts
<1>9. CASE Imported(k)
  BY <1>2, <1>9, PrepareStep DEF Imported
<1>10. CASE ImportFails(k)
  BY <1>2, <1>10, FinishStep DEF ImportFails
<1>11. CASE Built(k)
  <2>1. /\ st[k] = "building" /\ st' = [st EXCEPT ![k] = "pushed"]
        /\ live' = [live EXCEPT ![k] = "open"] /\ turns' = [turns EXCEPT ![k] = <<k>>]
        /\ handle' = [handle EXCEPT ![rec[k]] = k]
        /\ UNCHANGED <<rec, msg, prev, tail, req>>
    BY <1>11 DEF Built
  <2>2. \A i \in Sends : ~Owes(k, i)
    <3> SUFFICES ASSUME NEW i \in Sends, Owes(k, i) PROVE FALSE
      OBVIOUS
    <3>1. live[k] = "open"
      BY DEF Inv, OwesOne
    <3> QED BY <2>1, <3>1 DEF Inv, NoneOpen
  <2>3. \A i \in Sends : live[i] = "open" /\ rec[i] = rec[k] => i = k
    BY <2>1 DEF Inv, NoneOpen
  <2> QED BY <1>2, <2>1, <2>2, <2>3, PushStep
<1>12. CASE BuildFails(k)
  BY <1>2, <1>12, FinishStep DEF BuildFails
<1>13. CASE SettleResolved(k)
  <2>1. /\ st[k] = "resolved" /\ UNCHANGED <<rec, msg, prev, live, turns>>
        /\ handle' = [handle EXCEPT ![rec[k]] = IF IsOpen(@) THEN @ ELSE NoSend]
    BY <1>13 DEF SettleResolved
  <2>2. ~IsOpen(handle[rec[k]]) => \A l \in Sends : live[l] = "open" => rec[l] # rec[k]
    BY Numbers DEF IsOpen, NoSend, Inv, HandleKept
  <2>3. \A r \in Recs : \/ handle'[r] = handle[r]
                        \/ handle'[r] = NoSend /\ \A l \in Sends : live[l] = "open" => rec[l] # r
    BY <2>1, <2>2 DEF TypeOK
  <2>4. PICK out : Finish(k, out)
    BY <1>13 DEF SettleResolved
  <2> QED BY <1>2, <2>1, <2>3, <2>4, FinishStep
<1>14. CASE SettleRejected(k)
  <2>1. /\ st[k] = "rejected" /\ UNCHANGED <<rec, msg, prev, live, turns>>
        /\ handle' = [handle EXCEPT ![rec[k]] = IF flag[rec[k]] THEN @ ELSE NoSend]
    BY <1>14 DEF SettleRejected
  <2>2. \A l \in Sends : live[l] = "open" => rec[l] # rec[k]
    BY <2>1 DEF Inv, NoneOpen
  <2>3. \A r \in Recs : \/ handle'[r] = handle[r]
                        \/ handle'[r] = NoSend /\ \A l \in Sends : live[l] = "open" => rec[l] # r
    BY <2>1, <2>2 DEF TypeOK
  <2>4. PICK out : Finish(k, out)
    BY <1>14 DEF SettleRejected
  <2> QED BY <1>2, <2>1, <2>3, <2>4, FinishStep
<1> QED
  BY <1>4, <1>5, <1>6, <1>7, <1>8, <1>9, <1>10, <1>11, <1>12, <1>13, <1>14 DEF Loop, Begin

\* The other steps that close a query keep it.
LEMMA LiveDiesStep ==
    ASSUME TypeOK, Inv, NEW l \in Sends, LiveDies(l)
    PROVE  Inv'
<1>1. /\ UNCHANGED <<rec, msg, prev, tail, req, handle>> /\ st' = Rejected(l)
      /\ \A j \in Sends : /\ live'[j] = IF j = l THEN "closed" ELSE live[j]
                          /\ turns'[j] = IF j = l THEN <<>> ELSE turns[j]
  BY DEF LiveDies, TypeOK, givenVars, queueVars, controlVars
<1>2. st[l] # "unused"
  BY DEF LiveDies, IsOpen, Inv, Made
<1> QED BY <1>1, <1>2, CloseStep

\* The steps from outside keep the invariant.
LEMMA OutsideStep ==
    ASSUME TypeOK, Inv, Outside
    PROVE  Inv'
<1> USE DEF sessVars, callVars, givenVars, queueVars, controlVars, liveVars
<1>1. ASSUME NEW k \in Sends, NEW m \in Msgs, Send(k, m) PROVE Inv'
  BY <1>1, SendStep
<1>2. CASE SendNoFolder \/ ImportElsewhere \/ ImportedElsewhere
  BY <1>2, CoreStep DEF SendNoFolder, ImportElsewhere, ImportedElsewhere, coreVars
<1>3. ASSUME NEW l \in Sends, Responded(l) \/ Compacting(l) \/ Notice(l) \/ Ask(l)
      PROVE  Inv'
  BY <1>3, CoreStep DEF Responded, Compacting, Notice, Ask, coreVars
<1>4. ASSUME NEW l \in Sends, Result(l) PROVE Inv'
  BY <1>4, ResultStep
<1>5. ASSUME NEW l \in Sends, LiveDies(l) PROVE Inv'
  BY <1>5, LiveDiesStep
<1>6. ASSUME NEW i \in 1 .. MaxPrompts, Answer(i) PROVE Inv'
  BY <1>6, CoreStep DEF Answer, coreVars
<1>7. CASE InterruptTurn \/ InterruptNothing
  BY <1>7, CoreStep DEF InterruptTurn, InterruptNothing, coreVars
<1>8. ASSUME NEW r \in Recs, InterruptReturns(r) \/ ResumeLoaded(r) PROVE Inv'
  BY <1>8, CoreStep DEF InterruptReturns, ResumeLoaded, coreVars
<1>9. cur # NoRec => cur \in Recs
  BY DEF TypeOK
<1>10. CASE Abort
  BY <1>9, <1>10, CloseLiveStep DEF Abort, Teardown
<1>11. CASE Rest
  BY <1>9, <1>11, CloseLiveStep DEF Rest, Teardown
<1>12. CASE Wake
  BY <1>12, CoreStep DEF Wake, coreVars
<1>13. CASE Rebuild
  BY <1>9, <1>13, CloseLiveStep DEF Rebuild
<1>14. CASE Drop
  BY <1>9, <1>14, CloseLiveStep DEF Drop, Teardown
<1>15. ASSUME NEW v \in Convs, Resume(v) PROVE Inv'
  BY <1>9, <1>15, CloseLiveStep DEF Resume, Teardown
<1>16. ASSUME NEW v \in Convs, ResumeAbsent(v) PROVE Inv'
  BY <1>16, CoreStep DEF ResumeAbsent, coreVars
<1>17. ASSUME NEW v \in Convs \cup {NoConv}, Start(v) PROVE Inv'
  BY <1>17, CoreStep DEF Start, coreVars
<1> QED
  BY <1>1, <1>2, <1>3, <1>4, <1>5, <1>6, <1>7, <1>8, <1>10, <1>11, <1>12, <1>13, <1>14, <1>15,
     <1>16, <1>17 DEF Outside

\* Every step, stuttering ones included, keeps the invariant.
LEMMA NextInv == TypeOK /\ Inv /\ [Next]_vars => Inv'
<1>1. ASSUME UNCHANGED vars, Inv PROVE Inv'
  BY <1>1, CoreStep DEF vars, callVars, queueVars, controlVars, liveVars, coreVars
<1> QED BY <1>1, LoopStep, OutsideStep DEF Next

-----------------------------------------------------------------------------
(* What the panel shows, and what a stop or an interrupt does *)

\* A call whose turn was handed to a query and has not been settled yet.
Settling == {"pushed", "resolved", "rejected"}

\* Only one call imports the SDK, and nothing is built before it is ready.
SdkInv ==
    /\ \A k \in Sends : st[k] = "importing" => sdk = "importing"
    /\ \A j, k \in Sends : st[j] = "importing" /\ st[k] = "importing" => j = k
    /\ \A l \in Sends : st[l] = "building" \/ live[l] = "open" => sdk = "ready"

\* A record that streams has a turn to settle, one that is busy has a call that
\* runs, and while one prepares its turn or has handed it on the record is busy.
BusyInv ==
    /\ \A r \in Recs : streaming[r] => \E k \in SendsOf(r) : st[k] \in Settling
    /\ \A r \in Recs : status[r] => \E k \in SendsOf(r) : st[k] \in Active
    /\ \A k \in Sends : st[k] \in {"importing", "building"} => status[rec[k]]
    /\ \A k \in Sends : st[k] = "pushed" => streaming[rec[k]]

\* An interrupt that is requested is the interrupt of the turn to be settled.
FlagInv == \A r \in Recs : flag[r] => \E k \in SendsOf(r) : st[k] \in Settling /\ esc[k] = "running"

\* A turn that was stopped waits to read the abort signal.
StopInv ==
    \A k \in Sends : esc[k] = "stopped" =>
        /\ st[k] \in {"rejected", "done"} /\ outcome[k] # "error"
        /\ st[k] = "rejected" => aborted[rec[k]]

\* An outcome is that of a call that is through.
EndInv ==
    \A k \in Sends : /\ st[k] # "done" => outcome[k] = "none"
                     /\ outcome[k] = "interrupted" => esc[k] = "running"

Shown == SdkInv /\ BusyInv /\ FlagInv /\ StopInv /\ EndInv

LEMMA InitShown == Init => Shown
BY DEF Init, Shown, SdkInv, BusyInv, FlagInv, StopInv, EndInv

\* A call that is first in its record moves on, and takes along what its record shows.
LEMMA MoveShown ==
    ASSUME TypeOK, Inv, Shown, NEW k \in Sends, NEW x, First(k), rec[k] \in Recs,
           st[k] \notin {"unused", "done", "pushed"}, st' = [st EXCEPT ![k] = x],
           UNCHANGED <<rec, esc>>,
           \A j \in Sends \ {k} : outcome'[j] = outcome[j],
           \A r \in Recs \ {rec[k]} : /\ streaming'[r] = streaming[r] /\ status'[r] = status[r]
                                      /\ flag'[r] = flag[r] /\ aborted'[r] = aborted[r],
           streaming'[rec[k]] => x \in Settling \/ (streaming[rec[k]] /\ st[k] \notin Settling),
           status'[rec[k]] => x \in Active \/ (status[rec[k]] /\ st[k] \notin Active),
           x \in {"importing", "building"} => status'[rec[k]],
           x = "pushed" => streaming'[rec[k]],
           flag'[rec[k]] => flag[rec[k]] /\ st[k] \notin Settling,
           st[k] = "rejected" => x = "done" /\ (outcome'[k] = "error" => ~aborted[rec[k]]),
           st[k] # "rejected" => outcome'[k] # "error",
           outcome'[k] = "interrupted" => flag[rec[k]],
           x # "done" => outcome'[k] = outcome[k]
    PROVE  BusyInv' /\ FlagInv' /\ StopInv' /\ EndInv'
<1> DEFINE r == rec[k]
<1>1. /\ st'[k] = x /\ \A j \in Sends \ {k} : st'[j] = st[j]
      /\ \A q \in Recs : SendsOf(q)' = SendsOf(q)
      /\ k \in SendsOf(r)
  BY DEF TypeOK, SendsOf
<1>2. \A j \in SendsOf(r) : st[j] \in Active => j = k
  BY OneRuns DEF SendsOf, Active
<1>3. st[k] \notin Settling => ~streaming[r] /\ ~flag[r]
  BY <1>2 DEF Shown, BusyInv, FlagInv, Settling, Active
<1>4. st[k] \notin Active => ~status[r]
  BY <1>2 DEF Shown, BusyInv
<1>5. \A q \in Recs \ {r} : \A j \in SendsOf(q) : st'[j] = st[j]
  BY <1>1 DEF SendsOf
<1>6. BusyInv'
  <2>1. \A q \in Recs : streaming'[q] => \E j \in SendsOf(q) : st'[j] \in Settling
    <3> SUFFICES ASSUME NEW q \in Recs, streaming'[q] PROVE \E j \in SendsOf(q) : st'[j] \in Settling
      OBVIOUS
    <3>1. CASE q = r
      BY <1>1, <1>3, <3>1
    <3>2. CASE q # r
      BY <1>5, <3>2 DEF Shown, BusyInv
    <3> QED BY <3>1, <3>2
  <2>2. \A q \in Recs : status'[q] => \E j \in SendsOf(q) : st'[j] \in Active
    <3> SUFFICES ASSUME NEW q \in Recs, status'[q] PROVE \E j \in SendsOf(q) : st'[j] \in Active
      OBVIOUS
    <3>1. CASE q = r
      BY <1>1, <1>4, <3>1
    <3>2. CASE q # r
      BY <1>5, <3>2 DEF Shown, BusyInv
    <3> QED BY <3>1, <3>2
  <2>3. ASSUME NEW j \in Sends, st'[j] \in {"importing", "building"} PROVE status'[rec[j]]
    <3>1. CASE j = k
      BY <1>1, <2>3, <3>1
    <3>2. CASE j # k
      <4>1. st[j] \in {"importing", "building"}
        BY <1>1, <2>3, <3>2
      <4>2. rec[j] \in Recs \ {r}
        BY <1>2, <3>2, <4>1 DEF SendsOf, Active, Inv, Made
      <4> QED BY <4>1, <4>2 DEF Shown, BusyInv
    <3> QED BY <3>1, <3>2
  <2>4. ASSUME NEW j \in Sends, st'[j] = "pushed" PROVE streaming'[rec[j]]
    <3>1. CASE j = k
      BY <1>1, <2>4, <3>1
    <3>2. CASE j # k
      <4>1. st[j] = "pushed"
        BY <1>1, <2>4, <3>2
      <4>2. rec[j] \in Recs \ {r}
        BY <1>2, <3>2, <4>1 DEF SendsOf, Active, Inv, Made
      <4> QED BY <4>1, <4>2 DEF Shown, BusyInv
    <3> QED BY <3>1, <3>2
  <2> QED BY <1>1, <2>1, <2>2, <2>3, <2>4 DEF BusyInv
<1>7. FlagInv'
  <2> SUFFICES ASSUME NEW q \in Recs, flag'[q]
               PROVE  \E j \in SendsOf(q) : st'[j] \in Settling /\ esc[j] = "running"
    BY <1>1 DEF FlagInv
  <2>1. q # r /\ flag[q]
    BY <1>3
  <2> QED BY <1>5, <2>1 DEF Shown, FlagInv
<1>8. StopInv'
  <2> SUFFICES ASSUME NEW j \in Sends, esc[j] = "stopped"
               PROVE  /\ st'[j] \in {"rejected", "done"} /\ outcome'[j] # "error"
                      /\ st'[j] = "rejected" => aborted'[rec[j]]
    BY DEF StopInv
  <2>1. /\ st[j] \in {"rejected", "done"} /\ outcome[j] # "error"
        /\ st[j] = "rejected" => aborted[rec[j]]
    BY DEF Shown, StopInv
  <2>2. CASE j = k
    BY <1>1, <2>1, <2>2
  <2>3. CASE j # k
    <3>1. st[j] = "rejected" => rec[j] \in Recs \ {r}
      BY <1>2, <2>3 DEF SendsOf, Active, Inv, Made
    <3> QED BY <1>1, <2>1, <2>3, <3>1
  <2> QED BY <2>2, <2>3
<1>9. EndInv'
  <2> SUFFICES ASSUME NEW j \in Sends
               PROVE  /\ st'[j] # "done" => outcome'[j] = "none"
                      /\ outcome'[j] = "interrupted" => esc[j] = "running"
    BY DEF EndInv
  <2>1. CASE j = k
    <3>1. flag[r] => esc[k] = "running"
      BY <1>2 DEF Shown, FlagInv, Settling, Active
    <3> QED BY <1>1, <2>1, <3>1 DEF Shown, EndInv
  <2>2. CASE j # k
    BY <1>1, <2>2 DEF Shown, EndInv
  <2> QED BY <2>1, <2>2
<1> QED BY <1>6, <1>7, <1>8, <1>9

\* Whoever acts on the session or the query from outside settles no call.
LEMMA OutsideShown ==
    ASSUME TypeOK, Inv, Shown, UNCHANGED <<rec, outcome>>,
           \A k \in Sends : \/ st'[k] = st[k]
                            \/ st[k] = "pushed" /\ st'[k] \in {"resolved", "rejected"},
           \A r \in Recs : streaming'[r] => streaming[r],
           \A r \in Recs : streaming[r] => \/ streaming'[r]
                                           \/ \A k \in SendsOf(r) : st'[k] # "pushed",
           \A r \in Recs : status'[r] => status[r] \/ streaming[r],
           \A r \in Recs : status[r] => \/ status'[r]
                                        \/ \A k \in SendsOf(r) : st[k] \notin {"importing", "building"},
           \A r \in Recs : flag'[r] =>
               \/ flag[r] /\ \A k \in SendsOf(r) : esc'[k] = esc[k]
               \/ streaming[r] /\ \A k \in SendsOf(r) : st[k] \in Settling => esc'[k] = "running",
           \A r \in Recs : aborted[r] => aborted'[r],
           \A k \in Sends : \/ esc'[k] = esc[k]
                            \/ esc'[k] \in {"waiting", "running"} /\ st[k] # "done"
                            \/ /\ esc'[k] = "stopped" /\ st[k] = "pushed"
                               /\ st'[k] = "rejected" /\ aborted'[rec[k]]
    PROVE  BusyInv' /\ FlagInv' /\ StopInv' /\ EndInv'
<1>1. /\ \A q \in Recs : SendsOf(q)' = SendsOf(q) /\ SendsOf(q) \subseteq Sends
      /\ \A k \in Sends : st[k] \in Settling => st'[k] \in Settling
      /\ \A k \in Sends : st[k] \in Active => st'[k] \in Active
      /\ \A k \in Sends : st'[k] \in {"importing", "building"} => st[k] = st'[k]
      /\ \A k \in Sends : st[k] \in Settling => st[k] \in Active
  BY DEF SendsOf, Settling, Active
<1>2. /\ \A r \in Recs : streaming[r] => \E k \in SendsOf(r) : st[k] \in Settling
      /\ \A r \in Recs : status[r] => \E k \in SendsOf(r) : st[k] \in Active
      /\ \A k \in Sends : st[k] \in {"importing", "building"} => status[rec[k]]
  BY DEF Shown, BusyInv
<1>3. BusyInv'
  <2>1. \A r \in Recs : streaming'[r] => \E k \in SendsOf(r) : st'[k] \in Settling
    BY <1>1, <1>2
  <2>2. \A r \in Recs : status'[r] => \E k \in SendsOf(r) : st'[k] \in Active
    BY <1>1, <1>2
  <2>3. ASSUME NEW k \in Sends, st'[k] \in {"importing", "building"} PROVE status'[rec[k]]
    <3>1. st[k] \in {"importing", "building"} /\ status[rec[k]]
      BY <1>1, <1>2, <2>3
    <3>2. rec[k] \in Recs /\ k \in SendsOf(rec[k])
      BY <3>1 DEF Inv, Made, SendsOf
    <3> QED BY <3>1, <3>2
  <2>4. ASSUME NEW k \in Sends, st'[k] = "pushed" PROVE streaming'[rec[k]]
    <3>1. st[k] = "pushed" /\ streaming[rec[k]]
      BY <2>4 DEF Shown, BusyInv
    <3>2. rec[k] \in Recs /\ k \in SendsOf(rec[k])
      BY <3>1 DEF Inv, Made, SendsOf
    <3> QED BY <2>4, <3>1, <3>2
  <2> QED BY <1>1, <2>1, <2>2, <2>3, <2>4 DEF BusyInv
<1>4. FlagInv'
  <2> SUFFICES ASSUME NEW r \in Recs, flag'[r]
               PROVE  \E k \in SendsOf(r) : st'[k] \in Settling /\ esc'[k] = "running"
    BY <1>1 DEF FlagInv
  <2>1. CASE flag[r] /\ \A k \in SendsOf(r) : esc'[k] = esc[k]
    BY <1>1, <2>1 DEF Shown, FlagInv
  <2>2. CASE streaming[r] /\ \A k \in SendsOf(r) : st[k] \in Settling => esc'[k] = "running"
    BY <1>1, <1>2, <2>2
  <2> QED BY <2>1, <2>2
<1>5. StopInv'
  <2> SUFFICES ASSUME NEW k \in Sends, esc'[k] = "stopped"
               PROVE  /\ st'[k] \in {"rejected", "done"} /\ outcome[k] # "error"
                      /\ st'[k] = "rejected" => aborted'[rec[k]]
    BY DEF StopInv
  <2>1. CASE esc[k] = "stopped"
    <3>1. /\ st[k] \in {"rejected", "done"} /\ outcome[k] # "error"
          /\ st[k] = "rejected" => aborted[rec[k]]
      BY <2>1 DEF Shown, StopInv
    <3>2. st'[k] = st[k] /\ (st[k] = "rejected" => rec[k] \in Recs)
      BY <3>1 DEF Inv, Made
    <3> QED BY <3>1, <3>2
  <2>2. CASE st[k] = "pushed" /\ st'[k] = "rejected" /\ aborted'[rec[k]]
    BY <2>2 DEF Shown, EndInv
  <2> QED BY <2>1, <2>2
<1>6. EndInv'
  BY DEF Shown, EndInv
<1> QED BY <1>3, <1>4, <1>5, <1>6

\* A new call joins the queue.
LEMMA SendShown ==
    ASSUME TypeOK, Inv, Shown, NEW k \in Sends, NEW m \in Msgs, Send(k, m)
    PROVE  BusyInv' /\ FlagInv' /\ StopInv' /\ EndInv'
<1>1. /\ st[k] = "unused" /\ rec[k] = NoRec /\ NoRec \notin Recs
      /\ st' = [st EXCEPT ![k] = "waiting"] /\ rec' = [rec EXCEPT ![k] = Record]
      /\ UNCHANGED <<outcome, esc, streaming, status, flag, aborted>>
  BY Numbers DEF Send, Inv, Made, busyVars, controlVars, NoRec
<1>2. /\ st'[k] = "waiting" /\ \A j \in Sends \ {k} : st'[j] = st[j] /\ rec'[j] = rec[j]
      /\ \A r \in Recs : SendsOf(r) \subseteq SendsOf(r)' \ {k}
  BY <1>1 DEF TypeOK, SendsOf
<1>3. \A r \in Recs : \A j \in SendsOf(r) : st'[j] = st[j]
  BY <1>1, <1>2 DEF SendsOf
<1>4. BusyInv'
  BY <1>1, <1>2, <1>3 DEF Shown, BusyInv
<1>5. FlagInv'
  BY <1>1, <1>2, <1>3 DEF Shown, FlagInv
<1>6. StopInv'
  BY <1>1, <1>2 DEF Shown, StopInv
<1>7. EndInv'
  BY <1>1, <1>2 DEF Shown, EndInv
<1> QED BY <1>4, <1>5, <1>6, <1>7

\* A call hands its turn to an open query, or starts to build one.
LEMMA PrepareShown ==
    ASSUME TypeOK, Inv, Shown, NEW k \in Sends, Prepare(k), First(k), rec[k] \in Recs,
           st[k] \in {"waiting", "importing"}, UNCHANGED <<rec, esc, outcome, flag, aborted>>,
           \A r \in Recs \ {rec[k]} : status'[r] = status[r], status'[rec[k]]
    PROVE  BusyInv' /\ FlagInv' /\ StopInv' /\ EndInv'
<1>1. outcome[k] = "none"
  BY DEF Shown, EndInv
<1>2. \A j \in SendsOf(rec[k]) : st[j] \in Active => j = k
  BY OneRuns DEF SendsOf, Active
<1>3. ~flag[rec[k]]
  BY <1>2 DEF Shown, FlagInv, Settling, Active
<1>4. CASE IsOpen(handle[rec[k]])
  <2>1. st' = [st EXCEPT ![k] = "pushed"] /\ streaming' = [streaming EXCEPT ![rec[k]] = TRUE]
    BY <1>4 DEF Prepare
  <2>2. streaming'[rec[k]] /\ \A r \in Recs \ {rec[k]} : streaming'[r] = streaming[r]
    BY <2>1 DEF TypeOK
  <2> QED BY <1>1, <1>3, <2>1, <2>2, MoveShown DEF Settling, Active
<1>5. CASE ~IsOpen(handle[rec[k]])
  <2>1. st' = [st EXCEPT ![k] = "building"] /\ streaming' = streaming
    BY <1>5 DEF Prepare
  <2> QED BY <1>1, <1>3, <2>1, MoveShown DEF Settling, Active
<1> QED BY <1>4, <1>5

\* What Finish does to the outcomes.
LEMMA FinishShown ==
    ASSUME TypeOK, NEW k \in Sends, NEW out, Finish(k, out)
    PROVE  /\ st' = [st EXCEPT ![k] = "done"] /\ outcome'[k] = out
           /\ \A j \in Sends \ {k} : outcome'[j] = outcome[j]
BY DEF Finish, TypeOK

\* The event loop's own steps.
LEMMA LoopShown ==
    ASSUME TypeOK, Inv, Shown, NEW k \in Sends, Loop(k)
    PROVE  BusyInv' /\ FlagInv' /\ StopInv' /\ EndInv'
<1> DEFINE r == rec[k]
<1>1. Turn(k) => First(k) /\ st[k] = "waiting"
  BY TurnIsFirst DEF Turn
<1>2. st[k] \in {"importing", "building", "resolved", "rejected"} => First(k)
  BY RunnerIsFirst
<1>3. st[k] # "unused" => rec[k] \in Recs
  BY DEF Inv, Made
<1>4. \A j \in SendsOf(r) : First(k) /\ st[k] # "done" /\ st[j] \in Active => j = k
  BY OneRuns DEF SendsOf, Active
<1>5. First(k) /\ st[k] \notin Settling \cup {"unused", "done"} => ~flag[r] /\ ~streaming[r]
  BY <1>3, <1>4 DEF Shown, FlagInv, BusyInv, Settling, Active
<1>6. CASE BeginStopped(k) \/ BeginCancelled(k)
  <2>1. PICK out \in {"stopped", "cancelled"} : Finish(k, out)
    BY <1>6 DEF BeginStopped, BeginCancelled
  <2>2. st[k] = "waiting" /\ UNCHANGED <<rec, esc, streaming, status, flag, aborted>>
    BY <1>1, <1>6 DEF BeginStopped, BeginCancelled, givenVars, busyVars, controlVars
  <2> QED BY <1>1, <1>3, <1>5, <1>6, <2>1, <2>2, FinishShown, MoveShown
      DEF BeginStopped, BeginCancelled, Settling, Active
<1>7. CASE BeginImport(k)
  <2>1. /\ st[k] = "waiting" /\ st' = [st EXCEPT ![k] = "importing"]
        /\ UNCHANGED <<rec, esc, outcome, streaming, flag, aborted>>
        /\ status'[r] /\ \A q \in Recs \ {r} : status'[q] = status[q]
    BY <1>1, <1>3, <1>7 DEF BeginImport, Starts, TypeOK, givenVars, controlVars
  <2>2. outcome[k] = "none"
    BY <2>1 DEF Shown, EndInv
  <2> QED BY <1>1, <1>3, <1>5, <1>7, <2>1, <2>2, MoveShown DEF BeginImport, Starts, Settling, Active
<1>8. CASE BeginStub(k) \/ ImportFails(k) \/ BuildFails(k)
  <2>1. PICK out \in {"stub", "failed"} : Finish(k, out)
    BY <1>8 DEF BeginStub, ImportFails, BuildFails
  <2>2. /\ st[k] \in {"waiting", "importing", "building"} /\ First(k)
        /\ UNCHANGED <<rec, esc, streaming, flag, aborted>>
        /\ status' = [status EXCEPT ![r] = FALSE]
    BY <1>1, <1>2, <1>8 DEF BeginStub, Starts, ImportFails, BuildFails, givenVars, controlVars
  <2>3. rec[k] \in Recs
    BY <1>3, <2>2
  <2>4. ~status'[r] /\ \A q \in Recs \ {r} : status'[q] = status[q]
    BY <2>2, <2>3 DEF TypeOK
  <2> QED BY <1>5, <2>1, <2>2, <2>3, <2>4, FinishShown, MoveShown DEF Settling
<1>9. CASE BeginReady(k)
  <2>1. /\ Prepare(k) /\ st[k] = "waiting" /\ UNCHANGED <<rec, esc, outcome, flag, aborted>>
        /\ status'[r] /\ \A q \in Recs \ {r} : status'[q] = status[q]
    BY <1>1, <1>3, <1>9 DEF BeginReady, Starts, TypeOK, givenVars, controlVars
  <2> QED BY <1>1, <1>3, <1>9, <2>1, PrepareShown DEF BeginReady, Starts
<1>10. CASE Imported(k)
  <2>1. /\ Prepare(k) /\ st[k] = "importing" /\ UNCHANGED <<rec, esc, outcome, status, flag, aborted>>
    BY <1>10 DEF Imported, givenVars, controlVars
  <2> QED BY <1>2, <1>3, <2>1, PrepareShown DEF Shown, BusyInv
<1>11. CASE Built(k)
  <2>1. /\ st[k] = "building" /\ st' = [st EXCEPT ![k] = "pushed"] /\ UNCHANGED <<rec, esc, outcome, flag>>
        /\ streaming' = [streaming EXCEPT ![r] = TRUE] /\ status' = [status EXCEPT ![r] = TRUE]
        /\ aborted' = [aborted EXCEPT ![r] = FALSE]
    BY <1>11 DEF Built, givenVars
  <2>2. /\ streaming'[r]
        /\ \A q \in Recs \ {r} : /\ streaming'[q] = streaming[q] /\ status'[q] = status[q]
                                 /\ aborted'[q] = aborted[q]
    BY <1>3, <2>1 DEF TypeOK
  <2>3. outcome[k] = "none"
    BY <2>1 DEF Shown, EndInv
  <2> QED BY <1>2, <1>3, <1>5, <2>1, <2>2, <2>3, MoveShown DEF Settling, Active
<1>12. CASE SettleResolved(k) \/ SettleRejected(k)
  <2>1. PICK out : /\ Finish(k, out)
                   /\ out = "error" => st[k] = "rejected" /\ ~aborted[r]
                   /\ out = "interrupted" => flag[r]
    BY <1>12 DEF SettleResolved, SettleRejected
  <2>2. /\ st[k] \in {"resolved", "rejected"} /\ UNCHANGED <<rec, esc, aborted>>
        /\ flag' = [flag EXCEPT ![r] = FALSE] /\ status' = [status EXCEPT ![r] = FALSE]
        /\ streaming' = [streaming EXCEPT ![r] = FALSE]
    BY <1>12 DEF SettleResolved, SettleRejected, givenVars
  <2>3. rec[k] \in Recs /\ First(k)
    BY <1>2, <1>3, <2>2
  <2>4. /\ ~flag'[r] /\ ~status'[r] /\ ~streaming'[r]
        /\ \A q \in Recs \ {r} : /\ streaming'[q] = streaming[q] /\ status'[q] = status[q]
                                 /\ flag'[q] = flag[q]
    BY <2>2, <2>3 DEF TypeOK
  <2>5. /\ st' = [st EXCEPT ![k] = "done"] /\ outcome'[k] = out
        /\ \A j \in Sends \ {k} : outcome'[j] = outcome[j]
    BY <2>1, FinishShown
  <2>6. \A q \in Recs \ {r} : aborted'[q] = aborted[q]
    BY <2>2
  <2>7. st[k] # "rejected" => outcome'[k] # "error"
    BY <2>1, <2>5
  <2>8. st[k] = "rejected" => (outcome'[k] = "error" => ~aborted[r])
    BY <2>1, <2>5
  <2>9. outcome'[k] = "interrupted" => flag[r]
    BY <2>1, <2>5
  <2> QED BY <2>2, <2>3, <2>4, <2>5, <2>6, <2>7, <2>8, <2>9, MoveShown
<1> QED BY <1>6, <1>7, <1>8, <1>9, <1>10, <1>11, <1>12 DEF Loop, Begin

\* A turn that is pushed is owed by the query its record holds on to, so whoever
\* closes that query rejects it.
LEMMA ClosingRejects ==
    ASSUME TypeOK, Inv, NEW r \in Recs, NEW k \in SendsOf(r), st[k] = "pushed"
    PROVE  Rejected(handle[r])[k] = "rejected"
<1>1. PICK l \in Sends : live[l] = "open" /\ Owes(l, k)
  BY DEF Inv, NoStrandedTurn, SendsOf
<1>2. rec[l] = r /\ handle[r] = l
  BY <1>1 DEF Inv, OwesOne, HandleKept, SendsOf
<1> QED BY <1>1, <1>2 DEF Rejected, SendsOf

\* Closing a query settles no call but rejects those it owes.
LEMMA RejectedCalls ==
    ASSUME TypeOK, Inv, NEW l \in {NoSend} \cup Sends, st' = Rejected(l), NEW k \in Sends
    PROVE  st'[k] = st[k] \/ (st[k] = "pushed" /\ st'[k] = "rejected")
BY DEF Rejected, Owes, Inv, OwesOne, TypeOK

\* Abort, rest, stop, reset and resume: the query of the session is torn down.
LEMMA TeardownShown ==
    ASSUME TypeOK, Inv, Shown, cur \in Recs, Teardown(cur), UNCHANGED <<rec, outcome, status>>,
           \A r \in Recs : streaming'[r] => streaming[r],
           \A r \in Recs \ {cur} : streaming'[r] = streaming[r],
           \A k \in Sends : \/ esc'[k] = esc[k]
                            \/ k \in SendsOf(cur) /\ esc'[k] = "waiting" /\ st[k] = "waiting"
                            \/ k \in SendsOf(cur) /\ esc'[k] = "stopped" /\ st[k] = "pushed"
    PROVE  BusyInv' /\ FlagInv' /\ StopInv' /\ EndInv'
<1>1. /\ st' = Rejected(handle[cur]) /\ handle[cur] \in {NoSend} \cup Sends
      /\ ~flag'[cur] /\ \A r \in Recs \ {cur} : flag'[r] = flag[r]
      /\ aborted'[cur] /\ \A r \in Recs \ {cur} : aborted'[r] = aborted[r]
  BY DEF Teardown, CloseLive, TypeOK
<1>2. \A k \in Sends : st'[k] = st[k] \/ (st[k] = "pushed" /\ st'[k] = "rejected")
  BY <1>1, RejectedCalls
<1>3. \A k \in SendsOf(cur) : st[k] = "pushed" => st'[k] = "rejected"
  BY <1>1, ClosingRejects
<1>4. \A k \in SendsOf(cur) : rec[k] = cur
  BY DEF SendsOf
<1>5. \A r \in Recs \ {cur} : \A k \in SendsOf(r) : k \in Sends /\ k \notin SendsOf(cur)
  BY DEF SendsOf
<1>6. \A k \in Sends : \/ esc'[k] = esc[k]
                       \/ esc'[k] \in {"waiting", "running"} /\ st[k] # "done"
                       \/ /\ esc'[k] = "stopped" /\ st[k] = "pushed"
                          /\ st'[k] = "rejected" /\ aborted'[rec[k]]
  BY <1>1, <1>3, <1>4
<1>7. \A r \in Recs : flag'[r] => flag[r] /\ \A k \in SendsOf(r) : esc'[k] = esc[k]
  BY <1>1, <1>5
<1>8. \A k \in SendsOf(cur) : st'[k] # "pushed"
  BY <1>2, <1>3 DEF SendsOf
<1>9. \A r \in Recs : streaming[r] => \/ streaming'[r]
                                      \/ \A k \in SendsOf(r) : st'[k] # "pushed"
  BY <1>8
<1> QED BY <1>1, <1>2, <1>6, <1>7, <1>9, OutsideShown

\* What Esc and a stop leave in the history.
LEMMA Noted ==
    ASSUME TypeOK, NEW marks, Note(marks), NEW k \in Sends
    PROVE  \/ esc'[k] = esc[k]
           \/ k \in SendsOf(cur) /\ st[k] \in DOMAIN marks /\ esc'[k] = marks[st[k]]
BY DEF Note, TypeOK

\* What comes from outside.
LEMMA OutsideStepShown ==
    ASSUME TypeOK, Inv, Shown, Outside
    PROVE  BusyInv' /\ FlagInv' /\ StopInv' /\ EndInv'
<1> DEFINE Goal == BusyInv' /\ FlagInv' /\ StopInv' /\ EndInv'
<1>1. ASSUME UNCHANGED <<st, rec, outcome, esc, streaming, status, aborted>>,
             \A r \in Recs : flag'[r] => flag[r]
      PROVE  Goal
  BY <1>1, OutsideShown
<1>2. ASSUME NEW k \in Sends, NEW m \in Msgs, Send(k, m) PROVE Goal
  BY <1>2, SendShown
<1>3. CASE ImportElsewhere \/ ImportedElsewhere
  BY <1>1, <1>3 DEF ImportElsewhere, ImportedElsewhere, callVars, busyVars, controlVars
<1>4. ASSUME NEW l \in Sends, Responded(l) PROVE Goal
  <2>1. /\ IsOpen(l) /\ status' = [status EXCEPT ![rec[l]] = FALSE] /\ rec[l] \in Recs
        /\ UNCHANGED <<st, rec, outcome, esc, streaming, flag, aborted>>
    BY <1>4 DEF Responded, IsOpen, Inv, Made, callVars, controlVars
  <2>2. \A r \in Recs : /\ status'[r] => status[r]
                        /\ status[r] => status'[r] \/ r = rec[l]
    BY <2>1 DEF TypeOK
  <2>3. \A k \in SendsOf(rec[l]) : st[k] # "building"
    BY <2>1 DEF Inv, NoneOpen, SendsOf, IsOpen
  <2>4. \A k \in SendsOf(rec[l]) : st[k] # "importing"
    BY <2>1 DEF Shown, SdkInv, SendsOf, IsOpen
  <2> QED BY <2>1, <2>2, <2>3, <2>4, OutsideShown
<1>5. ASSUME NEW l \in Sends, Compacting(l) PROVE Goal
  <2>1. /\ streaming[rec[l]] /\ status' = [status EXCEPT ![rec[l]] = TRUE]
        /\ UNCHANGED <<st, rec, outcome, esc, streaming, flag, aborted>>
    BY <1>5 DEF Compacting, callVars, controlVars
  <2>2. \A r \in Recs : /\ status'[r] => status[r] \/ streaming[r]
                        /\ status[r] => status'[r]
    BY <2>1 DEF TypeOK
  <2> QED BY <2>1, <2>2, OutsideShown
<1>6. ASSUME NEW l \in Sends, Result(l) PROVE Goal
  <2>1. /\ turns[l] # <<>> /\ turns[l] \in Seq(Sends)
        /\ st' = [st EXCEPT ![Head(turns[l])] = "resolved"]
        /\ UNCHANGED <<rec, outcome, esc, streaming, status, flag, aborted>>
    BY <1>6 DEF Result, TypeOK, givenVars, busyVars, controlVars
  <2>2. Head(turns[l]) \in Sends /\ turns[l][1] = Head(turns[l]) /\ 1 \in DOMAIN turns[l]
    BY <2>1
  <2>3. Owes(l, Head(turns[l]))
    BY <2>2, Numbers DEF Owes, NoSend
  <2>4. st[Head(turns[l])] = "pushed"
    BY <2>2, <2>3 DEF Inv, OwesOne
  <2>5. \A k \in Sends : st'[k] = st[k] \/ (st[k] = "pushed" /\ st'[k] \in {"resolved", "rejected"})
    BY <2>1, <2>2, <2>4 DEF TypeOK
  <2> QED BY <2>1, <2>5, OutsideShown
<1>7. ASSUME NEW l \in Sends, LiveDies(l) PROVE Goal
  <2>1. st' = Rejected(l) /\ UNCHANGED <<rec, outcome, esc, streaming, status, flag, aborted>>
    BY <1>7 DEF LiveDies, givenVars, busyVars, controlVars
  <2>2. \A k \in Sends : st'[k] = st[k] \/ (st[k] = "pushed" /\ st'[k] \in {"resolved", "rejected"})
    BY <2>1, RejectedCalls
  <2> QED BY <2>1, <2>2, OutsideShown
<1>8. ASSUME NEW l \in Sends, Ask(l) PROVE Goal
  BY <1>1, <1>8 DEF Ask, callVars, busyVars
<1>9. ASSUME NEW i \in 1 .. MaxPrompts, Answer(i) PROVE Goal
  BY <1>1, <1>9 DEF Answer, callVars, busyVars
<1>10. cur # NoRec => cur \in Recs
  BY DEF TypeOK
<1>11. CASE InterruptTurn
  <2>1. /\ cur \in Recs /\ streaming[cur]
        /\ Note([waiting |-> "waiting", pushed |-> "running", resolved |-> "running", rejected |-> "running"])
        /\ flag' = [flag EXCEPT ![cur] = TRUE]
        /\ UNCHANGED <<st, rec, outcome, streaming, status, aborted>>
    BY <1>10, <1>11 DEF InterruptTurn, busyVars
  <2>2. \A k \in Sends : /\ k \in SendsOf(cur) /\ st[k] \in Settling => esc'[k] = "running"
                         /\ k \notin SendsOf(cur) => esc'[k] = esc[k]
                         /\ esc'[k] = esc[k] \/ (esc'[k] \in {"waiting", "running"} /\ st[k] # "done")
    BY <2>1 DEF Note, Settling
  <2>3. \A r \in Recs \ {cur} : \A k \in SendsOf(r) : k \in Sends /\ k \notin SendsOf(cur)
    BY DEF SendsOf
  <2>4. \A r \in Recs : flag'[r] =>
               \/ flag[r] /\ \A k \in SendsOf(r) : esc'[k] = esc[k]
               \/ streaming[r] /\ \A k \in SendsOf(r) : st[k] \in Settling => esc'[k] = "running"
    <3> SUFFICES ASSUME NEW r \in Recs, flag'[r]
                 PROVE  \/ flag[r] /\ \A k \in SendsOf(r) : esc'[k] = esc[k]
                        \/ streaming[r] /\ \A k \in SendsOf(r) : st[k] \in Settling => esc'[k] = "running"
      OBVIOUS
    <3>1. CASE r = cur
      <4>1. \A k \in SendsOf(r) : k \in Sends
        BY DEF SendsOf
      <4> QED BY <2>1, <2>2, <3>1, <4>1
    <3>2. CASE r # cur
      BY <2>1, <2>2, <2>3, <3>2 DEF TypeOK
    <3> QED BY <3>1, <3>2
  <2> QED BY <2>1, <2>2, <2>4, OutsideShown
<1>12. CASE InterruptNothing
  <2>1. /\ Note([waiting |-> "waiting"])
        /\ UNCHANGED <<st, rec, outcome, streaming, status, flag, aborted>>
    BY <1>12 DEF InterruptNothing, busyVars, controlVars
  <2>2. \A k \in Sends : esc'[k] = esc[k] \/ (esc'[k] = "waiting" /\ st[k] = "waiting")
    BY <2>1 DEF Note
  <2>3. \A r \in Recs : flag[r] => \E k \in SendsOf(r) : st[k] \in Settling /\ esc'[k] = "running"
    BY <2>2 DEF Shown, FlagInv, SendsOf, Settling
  <2>4. BusyInv' /\ StopInv' /\ EndInv'
    BY <2>1, <2>2 DEF Shown, BusyInv, StopInv, EndInv, SendsOf
  <2> QED BY <2>1, <2>3, <2>4 DEF FlagInv, SendsOf
<1>13. ASSUME NEW r \in Recs, InterruptReturns(r) PROVE Goal
  <2>1. UNCHANGED <<st, rec, outcome, esc, streaming, status, aborted>>
    BY <1>13 DEF InterruptReturns, callVars, busyVars
  <2>2. \A q \in Recs : flag'[q] => flag[q]
    BY <1>13 DEF InterruptReturns, TypeOK
  <2> QED BY <1>1, <2>1, <2>2
<1>14. ASSUME NEW r \in Recs, ResumeLoaded(r) PROVE Goal
  BY <1>1, <1>14 DEF ResumeLoaded, callVars, busyVars, controlVars
<1>15. ASSUME Teardown(cur), cur # NoRec, UNCHANGED <<rec, outcome, status>>,
              \A r \in Recs : streaming'[r] => streaming[r],
              \A r \in Recs \ {cur} : streaming'[r] = streaming[r],
              Note([pushed |-> "stopped"]) \/ Note([waiting |-> "waiting", pushed |-> "stopped"])
       PROVE  Goal
  <2>1. \A k \in Sends : \/ esc'[k] = esc[k]
                         \/ k \in SendsOf(cur) /\ esc'[k] = "waiting" /\ st[k] = "waiting"
                         \/ k \in SendsOf(cur) /\ esc'[k] = "stopped" /\ st[k] = "pushed"
    <3>1. CASE Note([pushed |-> "stopped"])
      BY <3>1, Noted
    <3>2. CASE Note([waiting |-> "waiting", pushed |-> "stopped"])
      BY <3>2, Noted
    <3> QED BY <1>15, <3>1, <3>2
  <2> QED BY <1>10, <1>15, <2>1, TeardownShown
<1>16. CASE Abort
  BY <1>15, <1>16 DEF Abort, TypeOK
<1>17. CASE Rest
  BY <1>15, <1>17 DEF Rest, TypeOK
<1>18. CASE Wake
  BY <1>1, <1>18 DEF Wake, callVars, controlVars
<1>19. CASE Rebuild
  <2>1. /\ st' = Rejected(handle[cur]) /\ handle[cur] \in {NoSend} \cup Sends
        /\ UNCHANGED <<rec, outcome, esc, streaming, status, aborted>>
        /\ \A r \in Recs : flag'[r] => flag[r]
    BY <1>10, <1>19 DEF Rebuild, CloseLive, TypeOK, givenVars, busyVars
  <2>2. \A k \in Sends : st'[k] = st[k] \/ (st[k] = "pushed" /\ st'[k] \in {"resolved", "rejected"})
    BY <2>1, RejectedCalls
  <2> QED BY <2>1, <2>2, OutsideShown
<1>20. CASE Drop
  BY <1>15, <1>20 DEF Drop, busyVars
<1>21. ASSUME NEW v \in Convs, Resume(v) PROVE Goal
  BY <1>15, <1>21 DEF Resume, busyVars
<1>22. ASSUME NEW v \in Convs, ResumeAbsent(v) PROVE Goal
  BY <1>1, <1>22 DEF ResumeAbsent, callVars, busyVars, controlVars
<1>23. ASSUME NEW v \in Convs \cup {NoConv}, Start(v) PROVE Goal
  BY <1>1, <1>23 DEF Start, callVars, busyVars, controlVars
<1>24. CASE SendNoFolder \/ \E l \in Sends : Notice(l)
  BY <1>1, <1>24 DEF SendNoFolder, Notice, callVars, busyVars, controlVars
<1> QED
  BY <1>2, <1>3, <1>4, <1>5, <1>6, <1>7, <1>8, <1>9, <1>11, <1>12, <1>13, <1>14, <1>16, <1>17, <1>18,
     <1>19, <1>20, <1>21, <1>22, <1>23, <1>24 DEF Outside

\* The import of the SDK, and what is built with it.
LEMMA SdkStep ==
    ASSUME TypeOK, Inv, Shown, Next
    PROVE  SdkInv'
<1>1. ASSUME sdk' = sdk, \A k \in Sends : st'[k] \in {"importing", "building"} => st'[k] = st[k],
             \A l \in Sends : live'[l] = "open" => live[l] = "open"
      PROVE  SdkInv'
  BY <1>1 DEF Shown, SdkInv
<1>2. ASSUME NEW k \in Sends, Loop(k) PROVE SdkInv'
  <2>1. ASSUME Prepare(k), live' = live, sdk' = "ready",
               \A j \in Sends \ {k} : st[j] # "importing"
        PROVE  SdkInv'
    <3>1. \A j \in Sends : st'[j] # "importing"
      BY <2>1 DEF Prepare, TypeOK
    <3> QED BY <2>1, <3>1 DEF SdkInv
  <2>2. ASSUME NEW out, Finish(k, out), live' = live, sdk' = sdk PROVE SdkInv'
    BY <1>1, <2>2 DEF Finish, TypeOK
  <2>3. CASE BeginStopped(k) \/ BeginCancelled(k) \/ BeginStub(k) \/ BuildFails(k)
             \/ SettleResolved(k) \/ SettleRejected(k)
    BY <2>2, <2>3
    DEF BeginStopped, BeginCancelled, BeginStub, BuildFails, SettleResolved, SettleRejected, liveVars
  <2>4. CASE BeginImport(k)
    BY <2>4 DEF BeginImport, Shown, SdkInv, TypeOK, liveVars
  <2>5. CASE BeginReady(k)
    BY <2>1, <2>5 DEF BeginReady, Shown, SdkInv
  <2>6. CASE Imported(k)
    BY <2>1, <2>6 DEF Imported, Shown, SdkInv
  <2>7. CASE ImportFails(k)
    <3>1. /\ st[k] = "importing" /\ sdk' = "missing" /\ live' = live
          /\ st' = [st EXCEPT ![k] = "done"]
      BY <2>7 DEF ImportFails, Finish, liveVars
    <3> QED BY <3>1 DEF Shown, SdkInv, TypeOK
  <2>8. CASE Built(k)
    BY <2>8 DEF Built, Shown, SdkInv, TypeOK
  <2> QED BY <1>2, <2>3, <2>4, <2>5, <2>6, <2>7, <2>8 DEF Loop, Begin
<1>3. ASSUME NEW l \in {NoSend} \cup Sends, st' = Rejected(l), sdk' = sdk,
             \A j \in Sends : live'[j] = IF j = l THEN "closed" ELSE live[j]
      PROVE  SdkInv'
  BY <1>1, <1>3, RejectedCalls
<1>4. ASSUME NEW r \in Recs, CloseLive(r), sdk' = sdk PROVE SdkInv'
  BY <1>3, <1>4 DEF CloseLive, TypeOK
<1>5. cur # NoRec => cur \in Recs
  BY DEF TypeOK
<1>6. CASE Abort \/ Rest \/ Rebuild \/ Drop \/ \E v \in Convs : Resume(v)
  <2>1. cur \in Recs /\ CloseLive(cur) /\ sdk' = sdk
    BY <1>5, <1>6 DEF Abort, Rest, Rebuild, Drop, Resume, Teardown
  <2> QED BY <1>4, <2>1
<1>7. ASSUME NEW l \in Sends, LiveDies(l) PROVE SdkInv'
  <2>1. \A j \in Sends : live'[j] = IF j = l THEN "closed" ELSE live[j]
    BY <1>7 DEF LiveDies, TypeOK
  <2> QED BY <1>3, <1>7, <2>1 DEF LiveDies
<1>8. ASSUME NEW l \in Sends, Result(l) PROVE SdkInv'
  BY <1>1, <1>8 DEF Result, TypeOK
<1>9. ASSUME NEW k \in Sends, NEW m \in Msgs, Send(k, m) PROVE SdkInv'
  BY <1>1, <1>9 DEF Send, TypeOK, liveVars
<1>10. CASE ImportElsewhere \/ ImportedElsewhere
  BY <1>10 DEF ImportElsewhere, ImportedElsewhere, Shown, SdkInv, callVars, liveVars
<1>11. CASE UNCHANGED <<sdk, st, live>>
  BY <1>1, <1>11
<1>12. ASSUME NEW l \in Sends, Responded(l) \/ Compacting(l) \/ Notice(l) \/ Ask(l)
       PROVE  SdkInv'
  BY <1>11, <1>12 DEF Responded, Compacting, Notice, Ask, callVars, liveVars
<1>13. ASSUME NEW i \in 1 .. MaxPrompts, Answer(i) PROVE SdkInv'
  BY <1>11, <1>13 DEF Answer, callVars, liveVars
<1>14. ASSUME NEW r \in Recs, InterruptReturns(r) \/ ResumeLoaded(r) PROVE SdkInv'
  BY <1>11, <1>14 DEF InterruptReturns, ResumeLoaded, callVars, liveVars
<1>15. CASE SendNoFolder \/ InterruptTurn \/ InterruptNothing \/ Wake
  BY <1>11, <1>15 DEF SendNoFolder, InterruptTurn, InterruptNothing, Wake, callVars, liveVars
<1>16. ASSUME NEW v \in Convs, Resume(v) \/ ResumeAbsent(v) PROVE SdkInv'
  BY <1>6, <1>11, <1>16 DEF ResumeAbsent, callVars, liveVars
<1>17. ASSUME NEW v \in Convs \cup {NoConv}, Start(v) PROVE SdkInv'
  BY <1>11, <1>17 DEF Start, callVars, liveVars
<1>18. CASE Outside
  BY <1>6, <1>7, <1>8, <1>9, <1>10, <1>12, <1>13, <1>14, <1>15, <1>16, <1>17, <1>18 DEF Outside
<1> QED BY <1>2, <1>18 DEF Next

\* Every step, stuttering ones included.
LEMMA NextShown == TypeOK /\ Inv /\ Shown /\ [Next]_vars => Shown'
<1>1. ASSUME UNCHANGED vars, Shown PROVE Shown'
  BY <1>1
  DEF vars, callVars, busyVars, controlVars, liveVars, Shown, SdkInv, BusyInv, FlagInv, StopInv, EndInv, SendsOf
<1> QED BY <1>1, LoopShown, OutsideStepShown, SdkStep DEF Next, Shown

-----------------------------------------------------------------------------
(* Theorems *)

\* Every variable keeps its type; in particular every interrupt() call of a
\* record returns at most once (claude.interruptTurn).
THEOREM TypeCorrect == Spec => []TypeOK
BY InitType, NextType, PTL DEF Spec

\* The inductive invariant of the queue and the queries.
THEOREM Invariance == Spec => []Inv
BY TypeCorrect, InitInv, NextInv, PTL DEF Spec

\* One turn of a record at a time: the sendQueue chain of claude.sendMessage.
THEOREM TurnsAreSerial == Spec => []SerialTurns
<1>1. Inv => SerialTurns
  BY DEF Inv, Ordered, SerialTurns, Active
<1> QED BY <1>1, Invariance, PTL

\* The request record of an unfinished prompt is never pruned, and its id is
\* never given to a second call: clientMessageRequests.
THEOREM RetriesAreFound == Spec => []RetryFindsUnfinished
<1>1. Inv => RetryFindsUnfinished
  BY DEF Inv
<1> QED BY <1>1, Invariance, PTL

\* A record never loses a query it has open: ensureLiveQuery, closeLiveQuery
\* and the handle that performSendMessage drops after a turn.
THEOREM HandlesAreKept == Spec => []HandleKept
<1>1. Inv => HandleKept
  BY DEF Inv
<1> QED BY <1>1, Invariance, PTL

\* A push never waits on a closed query: LiveQuery.close and the drain loop.
THEOREM NoTurnIsStranded == Spec => []NoStrandedTurn
<1>1. Inv => NoStrandedTurn
  BY DEF Inv
<1> QED BY <1>1, Invariance, PTL


\* The same for what the panel shows and what stops and interrupts leave.
THEOREM ShownInvariance == Spec => []Shown
BY TypeCorrect, Invariance, InitShown, NextShown, PTL DEF Spec

\* An interrupt ends the turn it was meant for, and no other one
\* (interruptRequested, performSendMessage).
THEOREM InterruptsHit == Spec => []InterruptHitsItsTurn
<1>1. Shown => InterruptHitsItsTurn
  BY DEF Shown, EndInv, InterruptHitsItsTurn
<1> QED BY <1>1, ShownInvariance, PTL

\* A turn the user stopped is never reported as an error: its push reads the
\* abort signal after the query is gone (closeLiveQuery, performSendMessage).
THEOREM StopsAreNoErrors == Spec => []StopIsNotAnError
<1>1. Shown => StopIsNotAnError
  BY DEF Shown, StopInv, StopIsNotAnError
<1> QED BY <1>1, ShownInvariance, PTL

\* A record is busy from the moment a call becomes its turn until the SDK is
\* through with it, and only while one of its calls is not settled (isStreaming
\* of buildSessionMeta).
THEOREM BusyShown == Spec => []BusyIsShown
<1>1. Shown => BusyIsShown
  BY DEF Shown, BusyInv, BusyIsShown, Settling, Active
<1> QED BY <1>1, ShownInvariance, PTL
=============================================================================
