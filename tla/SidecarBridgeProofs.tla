------------------------- MODULE SidecarBridgeProofs -------------------------
(* The sidecar bridge, for any number of calls, processes and request ids, *)
(* and any backoff: types, the tables and replies, and the contract of Rpc.*)
EXTENDS SidecarBridge, SequenceTheorems, TLAPS

-----------------------------------------------------------------------------
(* How a step moves a call *)

\* A step takes one call to a place, a handle and an id, and no other call.
Moved(c, pc, handle, id) ==
    \A d \in Calls :
        /\ call'[d].pc = IF d = c THEN pc ELSE call[d].pc
        /\ call'[d].handle = IF d = c THEN handle ELSE call[d].handle
        /\ call'[d].id = IF d = c THEN id ELSE call[d].id

\* A step that moves one call properly keeps the calls in their type.
LEMMA MovedTyped ==
    ASSUME TypeOK, NEW c \in Calls, NEW x \in CallRecord, CallOK(x),
           call' = [call EXCEPT ![c] = x]
    PROVE  /\ call' \in [Calls -> CallRecord] /\ \A d \in Calls : CallOK(call'[d])
           /\ Moved(c, x.pc, x.handle, x.id)
BY DEF TypeOK, Moved

\* A call that only changes its place.
LEMMA EndTyped ==
    ASSUME TypeOK, NEW c \in Calls, NEW how \in Ended \cup {"spawning", "waiting"},
           EndAs(c, how), how = "waiting" => At(c, "registered")
    PROVE  /\ call' \in [Calls -> CallRecord] /\ \A d \in Calls : CallOK(call'[d])
           /\ Moved(c, how, call[c].handle, call[c].id)
<1> DEFINE x == [call[c] EXCEPT !.pc = how]
<1>1. call[c] \in CallRecord /\ CallOK(call[c])
  BY DEF TypeOK
<1>2. x \in CallRecord /\ CallOK(x) /\ x.pc = how /\ x.handle = call[c].handle /\ x.id = call[c].id
  BY <1>1 DEF CallRecord, CallOK, Ended, At
<1>3. call' = [call EXCEPT ![c] = x]
  BY DEF EndAs
<1> HIDE DEF x
<1> QED BY <1>2, <1>3, MovedTyped

\* What the steps that give a call its handle or its id do to it.
ReadyAs(c, h) == call' = [call EXCEPT ![c].pc = "ready", ![c].handle = h]
RegisteredAs(c, n) == call' = [call EXCEPT ![c].pc = "registered", ![c].id = n]

\* A call that gets its handle.
LEMMA ReadyTyped ==
    ASSUME TypeOK, NEW c \in Calls, NEW h \in Handles, ReadyAs(c, h)
    PROVE  /\ call' \in [Calls -> CallRecord] /\ \A d \in Calls : CallOK(call'[d])
           /\ Moved(c, "ready", h, call[c].id)
<1> DEFINE x == [call[c] EXCEPT !.pc = "ready", !.handle = h]
<1>1. call[c] \in CallRecord /\ CallOK(call[c])
  BY DEF TypeOK
<1>2. x \in CallRecord /\ CallOK(x) /\ x.pc = "ready" /\ x.handle = h /\ x.id = call[c].id
  BY <1>1 DEF CallRecord, CallOK
<1>3. call' = [call EXCEPT ![c] = x]
  BY DEF ReadyAs
<1> HIDE DEF x
<1> QED BY <1>2, <1>3, MovedTyped

\* A call that gets its id.
LEMMA RegisteredTyped ==
    ASSUME TypeOK, NEW c \in Calls, NEW n \in Ids, At(c, "ready"), RegisteredAs(c, n)
    PROVE  /\ call' \in [Calls -> CallRecord] /\ \A d \in Calls : CallOK(call'[d])
           /\ Moved(c, "registered", call[c].handle, n)
<1> DEFINE x == [call[c] EXCEPT !.pc = "registered", !.id = n]
<1>1. call[c] \in CallRecord /\ CallOK(call[c])
  BY DEF TypeOK
<1>2. x \in CallRecord /\ CallOK(x) /\ x.pc = "registered" /\ x.handle = call[c].handle /\ x.id = n
  BY <1>1 DEF CallRecord, CallOK, At
<1>3. call' = [call EXCEPT ![c] = x]
  BY DEF RegisteredAs
<1> HIDE DEF x
<1> QED BY <1>2, <1>3, MovedTyped

-----------------------------------------------------------------------------
(* Type correctness *)

\* The initial state is well typed.
LEMMA InitType == Init => TypeOK
<1> SUFFICES ASSUME Init PROVE TypeOK
  OBVIOUS
<1>1. <<>> \in Seq(Nat) /\ Len(<<>>) = 0
  OBVIOUS
<1> QED BY <1>1, BoundsAssumption DEF Init, TypeOK, NotCalled, CallRecord, CallOK

\* Recording a failure keeps the count below the limit.
LEMMA FailureTyped ==
    ASSUME TypeOK, RecordFailure
    PROVE  failures' \in Seq(Nat) /\ Len(failures') < Limit /\ until' \in Nat
<1>1. PICK n \in 0 .. Len(failures) :
        LET kept == Append(SubSeq(failures, n + 1, Len(failures)), now) IN
        IF Len(kept) >= Limit
        THEN failures' = <<>> /\ until' = now + Block
        ELSE failures' = kept /\ UNCHANGED until
  BY DEF RecordFailure
<1> DEFINE old == SubSeq(failures, n + 1, Len(failures))
           kept == Append(old, now)
<1>2. failures \in Seq(Nat) /\ now \in Nat /\ until \in Nat /\ Len(failures) \in Nat
  BY DEF TypeOK
<1>3. \A i \in n + 1 .. Len(failures) : failures[i] \in Nat
  BY <1>2
<1>4. old \in Seq(Nat)
  BY <1>2, <1>3, SubSeqProperties
<1>5. kept \in Seq(Nat) /\ Len(kept) \in Nat
  BY <1>2, <1>4, AppendProperties
<1>6. CASE Len(kept) >= Limit
  <2>1. failures' = <<>> /\ until' = now + Block
    BY <1>1, <1>6
  <2>2. <<>> \in Seq(Nat) /\ Len(<<>>) = 0
    OBVIOUS
  <2> QED BY <1>2, <2>1, <2>2, BoundsAssumption
<1>7. CASE ~(Len(kept) >= Limit)
  <2>1. failures' = kept /\ until' = until
    BY <1>1, <1>7
  <2> QED BY <1>2, <1>5, <1>7, <2>1, BoundsAssumption
<1> QED BY <1>6, <1>7

\* Every step of a call keeps the types.
LEMMA CallerType ==
    ASSUME TypeOK, NEW c \in Calls, Caller(c)
    PROVE  TypeOK'
<1> USE DEF backoffVars, tableVars, childVars, callVars
<1>0. call[c] \in CallRecord /\ CallOK(call[c])
  BY DEF TypeOK
<1>1. CASE Found(c)
  <2>1. cur \in Handles
    BY <1>1 DEF Found, TypeOK
  <2>2. call' \in [Calls -> CallRecord] /\ \A d \in Calls : CallOK(call'[d])
    BY <1>1, <2>1, ReadyTyped DEF Found, ReadyAs
  <2> QED BY <1>1, <2>2 DEF Found, TypeOK
<1>2. CASE FoundNone(c)
  <2>1. call' \in [Calls -> CallRecord] /\ \A d \in Calls : CallOK(call'[d])
    BY <1>2, EndTyped DEF FoundNone
  <2> QED BY <1>2, <2>1 DEF FoundNone, TypeOK
<1>3. CASE FoundDead(c)
  <2>1. call' \in [Calls -> CallRecord] /\ \A d \in Calls : CallOK(call'[d])
    BY <1>3, EndTyped DEF FoundDead
  <2>2. failures' \in Seq(Nat) /\ Len(failures') < Limit /\ until' \in Nat
    BY <1>3, FailureTyped DEF FoundDead
  <2>3. given' \subseteq Handles
    BY <1>3 DEF FoundDead, TypeOK
  <2> QED BY <1>3, <2>1, <2>2, <2>3 DEF FoundDead, TypeOK
<1>4. CASE BackedOff(c)
  <2>1. call' \in [Calls -> CallRecord] /\ \A d \in Calls : CallOK(call'[d])
    BY <1>4, EndTyped DEF BackedOff, Ended
  <2> QED BY <1>4, <2>1 DEF BackedOff, TypeOK
<1>5. CASE SpawnFails(c)
  <2>1. call' \in [Calls -> CallRecord] /\ \A d \in Calls : CallOK(call'[d])
    BY <1>5, EndTyped DEF SpawnFails, Ended
  <2>2. failures' \in Seq(Nat) /\ Len(failures') < Limit /\ until' \in Nat
    BY <1>5, FailureTyped DEF SpawnFails
  <2>3. attempts' \in Seq(Nat)
    BY <1>5, AppendProperties DEF SpawnFails, TypeOK
  <2> QED BY <1>5, <2>1, <2>2, <2>3 DEF SpawnFails, TypeOK
<1>6. CASE Spawn(c)
  <2>1. PICK h \in Handles :
          /\ child' = [child EXCEPT ![h] = "alive"]
          /\ reader' = [reader EXCEPT ![h] = "reading"]
          /\ cur' = h
          /\ call' = [call EXCEPT ![c].pc = "ready", ![c].handle = h]
    BY <1>6 DEF Spawn
  <2>2. call' \in [Calls -> CallRecord] /\ \A d \in Calls : CallOK(call'[d])
    BY <2>1, ReadyTyped DEF ReadyAs
  <2>3. attempts' \in Seq(Nat)
    BY <1>6, AppendProperties DEF Spawn, TypeOK
  <2> QED BY <1>6, <2>1, <2>2, <2>3 DEF Spawn, TypeOK
<1>7. CASE Register(c)
  <2> DEFINE h == call[c].handle  n == lastId[h] + 1
  <2>1. h \in Handles /\ n \in Ids /\ call' = [call EXCEPT ![c].pc = "registered", ![c].id = n]
    BY <1>0, <1>7 DEF Register, At, CallOK
  <2>2. call' \in [Calls -> CallRecord] /\ \A d \in Calls : CallOK(call'[d])
    BY <1>7, <2>1, RegisteredTyped DEF Register, RegisteredAs
  <2>3. lastId' \in [Handles -> {0} \cup Ids] /\ pending' \in [Handles -> [Ids -> Calls \cup {NoCall}]]
    BY <1>7, <2>1 DEF Register, TypeOK
  <2> QED BY <1>7, <2>2, <2>3 DEF Register, TypeOK
<1>8. CASE Write(c)
  <2>1. call[c].handle \in Handles /\ call[c].id \in Ids
    BY <1>0, <1>8 DEF Write, At, CallOK
  <2>2. call' \in [Calls -> CallRecord] /\ \A d \in Calls : CallOK(call'[d])
    BY <1>8, EndTyped DEF Write
  <2>3. [id |-> call[c].id, of |-> c] \in Lines
    BY <2>1 DEF Lines
  <2>4. inbox' \in [Handles -> SUBSET Lines]
    BY <1>8, <2>1, <2>3 DEF Write, TypeOK
  <2> QED BY <1>8, <2>2, <2>4 DEF Write, TypeOK
<1>9. CASE WriteFails(c)
  <2>1. call' \in [Calls -> CallRecord] /\ \A d \in Calls : CallOK(call'[d])
    BY <1>9, EndTyped DEF WriteFails, Ended
  <2>2. pending' \in [Handles -> [Ids -> Calls \cup {NoCall}]]
    BY <1>9 DEF WriteFails, Unregister, TypeOK
  <2> QED BY <1>9, <2>1, <2>2 DEF WriteFails, TypeOK
<1>10. CASE Return(c)
  <2>1. call' \in [Calls -> CallRecord] /\ \A d \in Calls : CallOK(call'[d])
    BY <1>10, EndTyped DEF Return, Ended
  <2> QED BY <1>10, <2>1 DEF Return, TypeOK
<1>11. CASE TimesOut(c)
  <2>1. call' \in [Calls -> CallRecord] /\ \A d \in Calls : CallOK(call'[d])
    BY <1>11, EndTyped DEF TimesOut, Ended
  <2>2. pending' \in [Handles -> [Ids -> Calls \cup {NoCall}]]
    BY <1>11 DEF TimesOut, Unregister, TypeOK
  <2> QED BY <1>11, <2>1, <2>2 DEF TimesOut, TypeOK
<1> QED BY <1>1, <1>2, <1>3, <1>4, <1>5, <1>6, <1>7, <1>8, <1>9, <1>10, <1>11 DEF Caller

\* The end of a reader thread keeps the types.
LEMMA StopType ==
    ASSUME TypeOK, NEW h \in Handles, NEW how \in {"ended", "broken"}, Stop(h, how)
    PROVE  /\ reader' \in [Handles -> {"none", "reading", "ended", "broken"}]
           /\ got' \in [Calls -> Calls \cup {"nothing", "exited"}]
           /\ pending' \in [Handles -> [Ids -> Calls \cup {NoCall}]]
BY DEF Stop, TypeOK

\* Every step of a process, of its reader and of the clock keeps the types.
LEMMA ProcessType ==
    ASSUME TypeOK,
           \/ \E h \in Handles : Process(h) \/ Reader(h) \/ ReaderBreaks(h)
           \/ Tick
    PROVE  TypeOK'
<1> USE DEF backoffVars, tableVars, childVars, callVars
<1>1. ASSUME NEW h \in Handles, Dies(h) PROVE TypeOK'
  <2>1. outbox' \in [Handles -> SUBSET Lines]
    BY <1>1 DEF Dies, TypeOK
  <2> QED BY <1>1, <2>1 DEF Dies, TypeOK
<1>2. ASSUME NEW h \in Handles, NEW q \in inbox[h], Serve(h, q) PROVE TypeOK'
  <2>1. q \in Lines /\ q.of \in Calls
    BY DEF TypeOK, Lines
  <2> QED BY <1>2, <2>1 DEF Serve, TypeOK
<1>3. ASSUME NEW h \in Handles, NEW q \in outbox[h], ReadReply(h, q) PROVE TypeOK'
  <2>1. q \in Lines /\ q.of \in Calls /\ q.id \in Ids
    BY DEF TypeOK, Lines
  <2>2. got' \in [Calls -> Calls \cup {"nothing", "exited"}]
    BY <1>3, <2>1 DEF ReadReply, TypeOK
  <2>3. pending' \in [Handles -> [Ids -> Calls \cup {NoCall}]]
    BY <1>3, <2>1 DEF ReadReply, TypeOK
  <2> QED BY <1>3, <2>2, <2>3 DEF ReadReply, TypeOK
<1>4. ASSUME NEW h \in Handles, ReaderEnds(h) PROVE TypeOK'
  BY <1>4, StopType DEF ReaderEnds, TypeOK
<1>5. ASSUME NEW h \in Handles, ReaderBreaks(h) PROVE TypeOK'
  BY <1>5, StopType DEF ReaderBreaks, TypeOK
<1>6. ASSUME Tick PROVE TypeOK'
  BY <1>6 DEF Tick, TypeOK
<1> QED BY <1>1, <1>2, <1>3, <1>4, <1>5, <1>6 DEF Process, Reader

\* Every step keeps the types.
LEMMA NextType == TypeOK /\ [Next]_vars => TypeOK'
<1> SUFFICES ASSUME TypeOK, [Next]_vars PROVE TypeOK'
  OBVIOUS
<1>1. CASE \E c \in Calls : Caller(c)
  BY <1>1, CallerType
<1>2. CASE \/ \E h \in Handles : Process(h) \/ Reader(h) \/ ReaderBreaks(h)
           \/ Tick
  BY <1>2, ProcessType
<1>3. CASE UNCHANGED vars
  BY <1>3 DEF vars, backoffVars, tableVars, childVars, callVars, TypeOK
<1> QED BY <1>1, <1>2, <1>3 DEF Next

\* The types hold for ever: no id is 0 and no failure count reaches the limit.
THEOREM TypeCorrect == Spec => []TypeOK
BY InitType, NextType, PTL DEF Spec

-----------------------------------------------------------------------------
(* The inductive invariant: tables, pipes and calls *)

\* The ids of a handle are handed out in order, to calls that register.
IdsGiven ==
    \A c \in Calls :
        /\ call[c].pc \in {"idle", "spawning", "ready"} => call[c].id = 0
        /\ call[c].id # 0 => /\ call[c].handle \in Handles
                             /\ call[c].id <= lastId[call[c].handle]
IdsDistinct ==
    \A c, d \in Calls :
        /\ call[c].id # 0 /\ call[c].id = call[d].id
        /\ call[c].handle = call[d].handle
        => c = d

\* Whoever spawns holds the lock, and there is no current handle meanwhile.
LockHeld == \A c \in Calls : At(c, "spawning") => lock = c /\ cur = NoHandle

\* A call is in the table of its handle until it is answered, and one in the
\* table of a process whose output has ended has not written yet.
StillListed ==
    \A c \in Calls :
        call[c].pc \in {"registered", "waiting"} /\ got[c] = "nothing"
        => pending[call[c].handle][call[c].id] = c
Unanswered ==
    /\ \A h \in Handles, n \in Ids :
           pending[h][n] # NoCall => got[pending[h][n]] = "nothing"
    /\ \A c \in Calls :
           call[c].pc \in {"idle", "spawning", "ready"} => got[c] = "nothing"
EndedReader ==
    \A h \in Handles : reader[h] = "ended" =>
        /\ child[h] = "dead"
        /\ \A n \in Ids : pending[h][n] # NoCall => call[pending[h][n]].pc = "registered"

\* A line in a pipe bears the handle and the id of the call it belongs to; a
\* request has not been served and a reply has.
LinesOwned ==
    \A h \in Handles : \A q \in inbox[h] \cup outbox[h] :
        /\ call[q.of].handle = h /\ call[q.of].id = q.id
        /\ call[q.of].pc \in {"waiting", "replied", "lost"}
LinesServed ==
    \A h \in Handles : /\ \A q \in inbox[h] : served[q.of] = 0
                       /\ \A q \in outbox[h] : served[q.of] # 0
ServedCalls ==
    \A c \in Calls : /\ served[c] # 0 => call[c].pc \in {"waiting", "replied", "lost"}
                     /\ call[c].pc = "replied" => served[c] # 0
                     /\ served[c] \in {0, 1}

Inv ==
    /\ TypeOK /\ IdsGiven /\ IdsDistinct /\ LockHeld /\ NoStaleEntry /\ NoStraySidecar
    /\ StillListed /\ Unanswered /\ EndedReader /\ LinesOwned /\ LinesServed /\ ServedCalls /\ OwnReply

-----------------------------------------------------------------------------
(* The inductive invariant: spawns and failures *)

\* Every attempt but that of the current process has failed, once.
Failed == IF cur = NoHandle THEN Len(attempts) ELSE Len(attempts) - 1

\* The failures remembered are those of the last attempts that failed, and
\* came after them.  An attempt whose failure was forgotten is either older
\* than the block or before the block that is on.
Spaced ==
    /\ LockHeld /\ SpawnsAreSpaced
    /\ Len(failures) <= Failed
    /\ until <= now + Block
    /\ \A k \in DOMAIN attempts : attempts[k] <= now
    /\ \A j \in DOMAIN failures : attempts[Failed - Len(failures) + j] <= failures[j]
    /\ \A k \in 1 .. Failed - Len(failures) :
           attempts[k] + Block <= now \/ attempts[k] + Block <= until

\* The initial state satisfies the invariants.
LEMMA InitInv == Init => Inv /\ Spaced
<1> SUFFICES ASSUME Init PROVE Inv /\ Spaced
  OBVIOUS
<1>1. TypeOK
  BY InitType
<1>2. Len(<<>>) = 0 /\ DOMAIN <<>> = {}
  OBVIOUS
<1>3. IdsGiven /\ IdsDistinct /\ LockHeld /\ NoStaleEntry /\ NoStraySidecar
  BY NoneAssumption DEF Init, NotCalled, IdsGiven, IdsDistinct, LockHeld, NoStaleEntry,
     NoStraySidecar, At
<1>4. StillListed /\ Unanswered /\ EndedReader /\ LinesOwned /\ LinesServed /\ ServedCalls
      /\ OwnReply
  BY NoneAssumption DEF Init, NotCalled, StillListed, Unanswered, EndedReader, LinesOwned,
     LinesServed, ServedCalls, OwnReply
<1>5. failures = <<>> /\ attempts = <<>> /\ Failed = 0 /\ until = 0 /\ now = 0
  BY <1>2 DEF Init, Failed
<1>6. Spaced
  BY <1>2, <1>3, <1>5, BoundsAssumption DEF Spaced, SpawnsAreSpaced
<1> QED BY <1>1, <1>3, <1>4, <1>6 DEF Inv

-----------------------------------------------------------------------------
(* Steps of a call *)

\* What every step of a call before it registers leaves alone.
Tables == IdsGiven /\ IdsDistinct /\ NoStaleEntry /\ StillListed /\ Unanswered
          /\ EndedReader /\ LinesOwned /\ LinesServed /\ ServedCalls /\ OwnReply

\* Such a step touches no table and no pipe, whatever becomes of the call.
LEMMA EarlyStep ==
    ASSUME Inv, TypeOK', NEW c \in Calls, NEW p \in {"spawning", "ready", "refused"}, NEW h,
           call[c].pc \in {"idle", "spawning"}, Moved(c, p, h, call[c].id),
           UNCHANGED <<lastId, pending, inbox, outbox, got, served>>,
           \A g \in Handles : /\ child[g] = "dead" => child'[g] = "dead"
                              /\ reader'[g] = "ended" => reader[g] = "ended"
    PROVE  Tables'
<1> USE DEF Inv, Moved
<1>0. call[c].id = 0
  BY DEF IdsGiven
<1>1. IdsGiven'
  BY <1>0 DEF IdsGiven
<1>2. IdsDistinct'
  BY <1>0 DEF IdsDistinct
<1>3. NoStaleEntry'
  <2> SUFFICES ASSUME NEW g \in Handles, NEW n \in Ids, pending[g][n] # NoCall
               PROVE  LET d == pending[g][n] IN
                      /\ call'[d].handle = g /\ call'[d].id = n
                      /\ call'[d].pc \in {"registered", "waiting"}
    BY DEF NoStaleEntry
  <2> DEFINE d == pending[g][n]
  <2>1. d \in Calls
    BY DEF TypeOK
  <2>2. call[d].handle = g /\ call[d].id = n /\ call[d].pc \in {"registered", "waiting"}
    BY DEF NoStaleEntry
  <2>3. d # c
    BY <2>2
  <2> QED BY <2>1, <2>2, <2>3
<1>4. StillListed' /\ Unanswered'
  BY DEF StillListed, Unanswered
<1>5. EndedReader'
  <2> SUFFICES ASSUME NEW g \in Handles, reader'[g] = "ended"
               PROVE  /\ child'[g] = "dead"
                      /\ \A n \in Ids : pending[g][n] # NoCall
                                        => call'[pending[g][n]].pc = "registered"
    BY DEF EndedReader
  <2>1. \A n \in Ids : pending[g][n] # NoCall =>
            pending[g][n] \in Calls /\ call[pending[g][n]].pc = "registered"
    BY DEF EndedReader, TypeOK
  <2> QED BY <2>1 DEF EndedReader
<1>6. LinesOwned'
  <2> SUFFICES ASSUME NEW g \in Handles, NEW q \in inbox[g] \cup outbox[g]
               PROVE  /\ call'[q.of].handle = g /\ call'[q.of].id = q.id
                      /\ call'[q.of].pc \in {"waiting", "replied", "lost"}
    BY DEF LinesOwned
  <2>1. q.of \in Calls
    BY DEF TypeOK, Lines
  <2>2. call[q.of].handle = g /\ call[q.of].id = q.id
        /\ call[q.of].pc \in {"waiting", "replied", "lost"}
    BY DEF LinesOwned
  <2> QED BY <2>1, <2>2
<1>7. LinesServed' /\ OwnReply'
  BY DEF LinesServed, OwnReply
<1>8. ServedCalls'
  BY DEF ServedCalls
<1> QED BY <1>1, <1>2, <1>3, <1>4, <1>5, <1>6, <1>7, <1>8 DEF Tables

\* The steps of ensure_spawned.
LEMMA EnsureStep ==
    ASSUME Inv, TypeOK', NEW c \in Calls,
           Found(c) \/ FoundNone(c) \/ FoundDead(c) \/ BackedOff(c) \/ SpawnFails(c) \/ Spawn(c)
    PROVE  Inv'
<1> USE DEF Inv
<1>1. CASE Found(c)
  <2>1. cur \in Handles /\ ReadyAs(c, cur)
    BY <1>1 DEF Found, TypeOK, ReadyAs
  <2>2. Moved(c, "ready", cur, call[c].id)
    BY <2>1, ReadyTyped
  <2>3. Tables'
    BY <1>1, <2>2, EarlyStep DEF Found, At, tableVars, childVars
  <2>4. LockHeld' /\ NoStraySidecar'
    <3>1. UNCHANGED <<lock, cur, child, given>>
      BY <1>1 DEF Found, childVars
    <3> QED BY <2>2, <3>1 DEF Moved, LockHeld, NoStraySidecar, At
  <2> QED BY <2>3, <2>4 DEF Tables
<1>2. CASE FoundNone(c)
  <2>1. Moved(c, "spawning", call[c].handle, call[c].id)
    BY <1>2, EndTyped DEF FoundNone
  <2>2. Tables'
    BY <1>2, <2>1, EarlyStep DEF FoundNone, At, tableVars, childVars
  <2>3. LockHeld' /\ NoStraySidecar'
    BY <1>2, <2>1, NoneAssumption DEF FoundNone, Moved, LockHeld, NoStraySidecar, At, childVars
  <2> QED BY <2>2, <2>3 DEF Tables
<1>3. CASE FoundDead(c)
  <2>1. Moved(c, "spawning", call[c].handle, call[c].id)
    BY <1>3, EndTyped DEF FoundDead
  <2>2. Tables'
    BY <1>3, <2>1, EarlyStep DEF FoundDead, At, tableVars, childVars
  <2>3. LockHeld' /\ NoStraySidecar'
    BY <1>3, <2>1, NoneAssumption DEF FoundDead, Moved, LockHeld, NoStraySidecar, At, childVars
  <2> QED BY <2>2, <2>3 DEF Tables
<1>4. CASE BackedOff(c)
  <2>1. Moved(c, "refused", call[c].handle, call[c].id)
    BY <1>4, EndTyped DEF BackedOff, Ended
  <2>2. Tables'
    BY <1>4, <2>1, EarlyStep DEF BackedOff, At, tableVars, childVars
  <2>3. LockHeld' /\ NoStraySidecar'
    BY <1>4, <2>1, NoneAssumption DEF BackedOff, Moved, LockHeld, NoStraySidecar, At, childVars
  <2> QED BY <2>2, <2>3 DEF Tables
<1>5. CASE SpawnFails(c)
  <2>1. Moved(c, "refused", call[c].handle, call[c].id)
    BY <1>5, EndTyped DEF SpawnFails, Ended
  <2>2. Tables'
    BY <1>5, <2>1, EarlyStep DEF SpawnFails, At, tableVars, childVars
  <2>3. LockHeld' /\ NoStraySidecar'
    BY <1>5, <2>1, NoneAssumption DEF SpawnFails, Moved, LockHeld, NoStraySidecar, At, childVars
  <2> QED BY <2>2, <2>3 DEF Tables
<1>6. CASE Spawn(c)
  <2>1. PICK h \in Handles :
          /\ child[h] = "none"
          /\ child' = [child EXCEPT ![h] = "alive"]
          /\ reader' = [reader EXCEPT ![h] = "reading"]
          /\ cur' = h
          /\ call' = [call EXCEPT ![c].pc = "ready", ![c].handle = h]
    BY <1>6 DEF Spawn
  <2>2. Moved(c, "ready", h, call[c].id)
    BY <2>1, ReadyTyped DEF ReadyAs
  <2>3. \A g \in Handles : /\ child[g] = "dead" => child'[g] = "dead"
                           /\ reader'[g] = "ended" => reader[g] = "ended"
    BY <2>1 DEF TypeOK
  <2>a. UNCHANGED <<lastId, pending, inbox, outbox, got, served>>
    BY <1>6 DEF Spawn, tableVars
  <2>b. call[c].pc = "spawning"
    BY <1>6 DEF Spawn, At
  <2>4. Tables'
    BY <2>2, <2>3, <2>a, <2>b, EarlyStep
  <2>5. LockHeld' /\ NoStraySidecar'
    <3>1. At(c, "spawning") /\ given' = given
      BY <1>6 DEF Spawn
    <3>2. LockHeld'
      <4>1. \A d \in Calls : call'[d].pc # "spawning"
        BY <2>2, <3>1 DEF Moved, LockHeld, At
      <4> QED BY <4>1 DEF LockHeld, At
    <3>3. \A g \in Handles : child[g] = "alive" => g \in given
      BY <3>1 DEF NoStraySidecar, LockHeld, Handles, NoHandle
    <3>4. \A g \in Handles : child'[g] = "alive" => child[g] = "alive" \/ g = cur'
      BY <2>1 DEF TypeOK
    <3> QED BY <3>1, <3>2, <3>3, <3>4 DEF NoStraySidecar
  <2> QED BY <2>4, <2>5 DEF Tables
<1> QED BY <1>1, <1>2, <1>3, <1>4, <1>5, <1>6

\* The registration: a new id, larger than all of its handle.
LEMMA RegisterStep ==
    ASSUME Inv, TypeOK', NEW c \in Calls, Register(c)
    PROVE  Inv'
<1> USE DEF Inv
<1> DEFINE h == call[c].handle
           n == lastId[h] + 1
<1>a. RegisteredAs(c, n)
  BY DEF Register, RegisteredAs
<1>b. n \in Ids
  BY DEF Register
<1>c. call[c].pc = "ready"
  BY DEF Register, At
<1>d. h \in Handles
  BY <1>c DEF TypeOK, CallOK
<1>0. RegisteredAs(c, n) /\ n \in Ids /\ call[c].pc = "ready"
  BY <1>a, <1>b, <1>c
<1>1. h \in Handles /\ n \in Ids /\ lastId[h] \in Nat /\ call[c].pc = "ready"
  BY <1>0, <1>d DEF TypeOK, Ids
<1>2. Moved(c, "registered", h, n)
  BY <1>0, RegisteredTyped DEF At
<1>3. /\ \A g \in Handles : lastId'[g] = IF g = h THEN n ELSE lastId[g]
      /\ \A g \in Handles, m \in Ids :
             pending'[g][m] = IF g = h /\ m = n THEN c ELSE pending[g][m]
  BY <1>1 DEF Register, TypeOK
<1>4. UNCHANGED <<cur, lock, child, inbox, outbox, reader, got, served, given>>
  BY DEF Register, childVars
<1>5. \A d \in Calls : call[d].id # 0 =>
          call[d].handle \in Handles /\ call[d].id <= lastId[call[d].handle]
  BY DEF IdsGiven
<1>6. \A g \in Handles : lastId[g] \in Nat
  BY DEF TypeOK, Ids
<1>7. \A d \in Calls : call[d].id \in Nat
  BY DEF TypeOK, CallRecord, Ids
<1> HIDE DEF n, h
<1>8. n \in Nat /\ n > lastId[h]
  BY <1>1 DEF n
<1>9. IdsGiven'
  BY <1>1, <1>2, <1>3, <1>6, <1>7, <1>8 DEF IdsGiven, Moved
<1>10. IdsDistinct'
  BY <1>1, <1>2, <1>5, <1>6, <1>7, <1>8 DEF IdsDistinct, Moved
<1>11. NoStaleEntry'
  <2> SUFFICES ASSUME NEW g \in Handles, NEW m \in Ids, pending'[g][m] # NoCall
               PROVE  LET d == pending'[g][m] IN
                      /\ call'[d].handle = g /\ call'[d].id = m
                      /\ call'[d].pc \in {"registered", "waiting"}
    BY DEF NoStaleEntry
  <2>1. CASE g = h /\ m = n
    BY <1>2, <1>3, <2>1 DEF Moved
  <2>2. CASE ~(g = h /\ m = n)
    <3> DEFINE d == pending[g][m]
    <3>1. pending'[g][m] = d /\ d \in Calls
      BY <1>3, <2>2 DEF TypeOK
    <3>2. call[d].handle = g /\ call[d].id = m /\ call[d].pc \in {"registered", "waiting"}
      BY <3>1 DEF NoStaleEntry
    <3>3. d # c
      BY <1>1, <3>2
    <3> QED BY <1>2, <3>1, <3>2, <3>3 DEF Moved
  <2> QED BY <2>1, <2>2
<1>12. StillListed'
  <2> SUFFICES ASSUME NEW d \in Calls, call'[d].pc \in {"registered", "waiting"},
                      got[d] = "nothing"
               PROVE  pending'[call'[d].handle][call'[d].id] = d
    BY <1>4 DEF StillListed
  <2>1. CASE d = c
    BY <1>1, <1>2, <1>3, <2>1 DEF Moved
  <2>2. CASE d # c
    <3>1. /\ call'[d].handle = call[d].handle /\ call'[d].id = call[d].id
          /\ pending[call[d].handle][call[d].id] = d
          /\ call[d].handle \in Handles /\ call[d].id \in Ids
      BY <1>2, <2>2 DEF Moved, StillListed, TypeOK, CallOK
    <3>2. ~(call[d].handle = h /\ call[d].id = n)
      BY <1>5, <1>6, <1>7, <1>8, <3>1 DEF Ids
    <3> QED BY <1>3, <3>1, <3>2
  <2> QED BY <2>1, <2>2
<1>13. EndedReader'
  <2> SUFFICES ASSUME NEW g \in Handles, reader[g] = "ended"
               PROVE  /\ child[g] = "dead"
                      /\ \A m \in Ids : pending'[g][m] # NoCall
                                        => call'[pending'[g][m]].pc = "registered"
    BY <1>4 DEF EndedReader
  <2>1. \A m \in Ids : pending[g][m] # NoCall =>
            pending[g][m] \in Calls /\ call[pending[g][m]].pc = "registered"
    BY DEF EndedReader, TypeOK
  <2>2. \A d \in Calls : call[d].pc = "registered" => call'[d].pc = "registered"
    BY <1>2 DEF Moved
  <2>3. call'[c].pc = "registered"
    BY <1>2 DEF Moved
  <2> QED BY <1>3, <2>1, <2>2, <2>3 DEF EndedReader
<1>14. LinesOwned'
  <2> SUFFICES ASSUME NEW g \in Handles, NEW q \in inbox[g] \cup outbox[g]
               PROVE  /\ call'[q.of].handle = g /\ call'[q.of].id = q.id
                      /\ call'[q.of].pc \in {"waiting", "replied", "lost"}
    BY <1>4 DEF LinesOwned
  <2>1. q.of \in Calls
    BY DEF TypeOK, Lines
  <2>2. call[q.of].handle = g /\ call[q.of].id = q.id
        /\ call[q.of].pc \in {"waiting", "replied", "lost"}
    BY DEF LinesOwned
  <2> QED BY <1>1, <1>2, <2>1, <2>2 DEF Moved
<1>15. LinesServed' /\ OwnReply' /\ NoStraySidecar'
  BY <1>4 DEF LinesServed, OwnReply, NoStraySidecar
<1>16. Unanswered'
  <2>1. \A d \in Calls : call'[d].pc \in {"idle", "spawning", "ready"} => got[d] = "nothing"
    BY <1>2 DEF Unanswered, Moved
  <2>2. got[c] = "nothing"
    BY <1>1 DEF Unanswered
  <2>3. \A g \in Handles, m \in Ids : pending'[g][m] # NoCall => got[pending'[g][m]] = "nothing"
    BY <1>3, <2>2 DEF Unanswered
  <2> QED BY <1>4, <2>1, <2>3 DEF Unanswered
<1>17. ServedCalls' /\ LockHeld'
  BY <1>1, <1>2, <1>4 DEF ServedCalls, LockHeld, Moved, At
<1> QED BY <1>9, <1>10, <1>11, <1>12, <1>13, <1>14, <1>15, <1>16, <1>17

\* A call that leaves the table or its channel behind: it changes its place
\* only, and its own entry may go.
LEMMA LateStep ==
    ASSUME Inv, TypeOK', NEW c \in Calls, NEW p \in Ended,
           call[c].pc \in {"registered", "waiting"},
           p = "refused" => call[c].pc = "registered",
           p = "replied" => served[c] # 0,
           Moved(c, p, call[c].handle, call[c].id),
           \A g \in Handles, m \in Ids :
               pending'[g][m] = IF g = call[c].handle /\ m = call[c].id THEN NoCall
                                ELSE pending[g][m],
           UNCHANGED <<cur, lock, lastId, child, inbox, outbox, reader, got, served, given>>
    PROVE  Inv'
<1> USE DEF Inv, Ended
<1>1. call[c].handle \in Handles /\ call[c].id \in Ids
  BY DEF TypeOK, CallOK
<1>2. IdsGiven' /\ IdsDistinct'
  BY DEF IdsGiven, IdsDistinct, Moved
<1>3. \A g \in Handles, m \in Ids : pending'[g][m] # NoCall =>
          /\ pending'[g][m] = pending[g][m] /\ pending[g][m] \in Calls
          /\ pending[g][m] # c
          /\ call'[pending[g][m]].handle = g /\ call'[pending[g][m]].id = m
          /\ call'[pending[g][m]].pc = call[pending[g][m]].pc
          /\ call[pending[g][m]].pc \in {"registered", "waiting"}
  <2> SUFFICES ASSUME NEW g \in Handles, NEW m \in Ids, pending'[g][m] # NoCall
               PROVE  LET d == pending[g][m] IN
                      /\ pending'[g][m] = d /\ d \in Calls /\ d # c
                      /\ call'[d].handle = g /\ call'[d].id = m
                      /\ call'[d].pc = call[d].pc
                      /\ call[d].pc \in {"registered", "waiting"}
    OBVIOUS
  <2> DEFINE d == pending[g][m]
  <2>1. pending'[g][m] = d /\ d \in Calls /\ ~(g = call[c].handle /\ m = call[c].id)
    BY DEF TypeOK
  <2>2. call[d].handle = g /\ call[d].id = m /\ call[d].pc \in {"registered", "waiting"}
    BY <2>1 DEF NoStaleEntry
  <2>3. d # c
    BY <2>1, <2>2
  <2> QED BY <2>1, <2>2, <2>3 DEF Moved
<1>4. NoStaleEntry'
  BY <1>3 DEF NoStaleEntry
<1>5. EndedReader' /\ Unanswered'
  BY <1>3 DEF EndedReader, Unanswered, Moved
<1>6. StillListed'
  <2> SUFFICES ASSUME NEW d \in Calls, call'[d].pc \in {"registered", "waiting"},
                      got[d] = "nothing"
               PROVE  pending'[call'[d].handle][call'[d].id] = d
    BY DEF StillListed
  <2>1. d # c /\ call[d].pc \in {"registered", "waiting"}
        /\ call'[d].handle = call[d].handle /\ call'[d].id = call[d].id
    BY DEF Moved
  <2>2. /\ pending[call[d].handle][call[d].id] = d
        /\ call[d].handle \in Handles /\ call[d].id \in Ids /\ call[d].id # 0
    BY <2>1 DEF StillListed, TypeOK, CallOK, Ids
  <2>3. ~(call[d].handle = call[c].handle /\ call[d].id = call[c].id)
    BY <2>1, <2>2 DEF IdsDistinct
  <2> QED BY <2>1, <2>2, <2>3
<1>7. LinesOwned'
  <2> SUFFICES ASSUME NEW g \in Handles, NEW q \in inbox[g] \cup outbox[g]
               PROVE  /\ call'[q.of].handle = g /\ call'[q.of].id = q.id
                      /\ call'[q.of].pc \in {"waiting", "replied", "lost"}
    BY DEF LinesOwned
  <2>1. q.of \in Calls
    BY DEF TypeOK, Lines
  <2>2. call[q.of].handle = g /\ call[q.of].id = q.id
        /\ call[q.of].pc \in {"waiting", "replied", "lost"}
    BY DEF LinesOwned
  <2> QED BY <2>1, <2>2 DEF Moved
<1>8. LinesServed' /\ OwnReply' /\ NoStraySidecar'
  BY DEF LinesServed, OwnReply, NoStraySidecar
<1>9. ServedCalls' /\ LockHeld'
  BY DEF ServedCalls, LockHeld, Moved, At
<1> QED BY <1>2, <1>4, <1>5, <1>6, <1>7, <1>8, <1>9

\* The request goes out to a living process, whose output has not ended.
LEMMA WriteStep ==
    ASSUME Inv, TypeOK', NEW c \in Calls, Write(c)
    PROVE  Inv'
<1> USE DEF Inv
<1> DEFINE h == call[c].handle
           q == [id |-> call[c].id, of |-> c]
<1>1. call[c].pc = "registered" /\ child[h] = "alive"
  BY DEF Write, At
<1>2. h \in Handles /\ call[c].id \in Ids
  BY <1>1 DEF TypeOK, CallOK
<1>3. Moved(c, "waiting", call[c].handle, call[c].id)
  BY EndTyped DEF Write
<1>4. UNCHANGED <<cur, lock, lastId, pending, child, outbox, reader, got, served, given>>
  BY DEF Write, tableVars
<1>5. \A g \in Handles : inbox'[g] = IF g = h THEN inbox[g] \cup {q} ELSE inbox[g]
  BY DEF Write, TypeOK
<1>6. \A d \in Calls : /\ call'[d].handle = call[d].handle /\ call'[d].id = call[d].id
                       /\ call'[d].pc = IF d = c THEN "waiting" ELSE call[d].pc
  BY <1>3 DEF Moved
<1>7. q.of = c /\ q.id = call[c].id
  OBVIOUS
<1> HIDE DEF h, q
<1>8. IdsGiven' /\ IdsDistinct'
  BY <1>1, <1>4, <1>6 DEF IdsGiven, IdsDistinct
<1>9. \A g \in Handles, m \in Ids : pending[g][m] # NoCall =>
          /\ pending[g][m] \in Calls
          /\ call[pending[g][m]].handle = g /\ call[pending[g][m]].id = m
          /\ call[pending[g][m]].pc \in {"registered", "waiting"}
  BY DEF NoStaleEntry, TypeOK
<1>10. NoStaleEntry'
  BY <1>4, <1>6, <1>9 DEF NoStaleEntry
<1>11. StillListed' /\ Unanswered'
  BY <1>1, <1>4, <1>6 DEF StillListed, Unanswered
<1>12. EndedReader'
  <2>1. \A g \in Handles, m \in Ids :
            reader[g] = "ended" /\ pending[g][m] # NoCall => pending[g][m] # c
    BY <1>1, <1>9 DEF EndedReader, h
  <2> QED BY <1>4, <1>6, <1>9, <2>1 DEF EndedReader
<1>13. LinesOwned'
  <2> SUFFICES ASSUME NEW g \in Handles, NEW r \in inbox'[g] \cup outbox'[g]
               PROVE  /\ call'[r.of].handle = g /\ call'[r.of].id = r.id
                      /\ call'[r.of].pc \in {"waiting", "replied", "lost"}
    BY DEF LinesOwned
  <2>1. CASE r = q /\ g = h
    BY <1>6, <1>7, <2>1 DEF h
  <2>2. CASE ~(r = q /\ g = h)
    <3>1. r \in inbox[g] \cup outbox[g]
      BY <1>4, <1>5, <2>2
    <3>2. r.of \in Calls
      BY <3>1 DEF TypeOK, Lines
    <3> QED BY <1>6, <3>1, <3>2 DEF LinesOwned
  <2> QED BY <2>1, <2>2
<1>14. LinesServed'
  <2>1. served[c] = 0
    BY <1>1 DEF ServedCalls
  <2> QED BY <1>4, <1>5, <1>7, <2>1 DEF LinesServed
<1>15. ServedCalls' /\ LockHeld' /\ OwnReply' /\ NoStraySidecar'
  BY <1>1, <1>4, <1>6 DEF ServedCalls, LockHeld, At, OwnReply, NoStraySidecar
<1> QED BY <1>8, <1>10, <1>11, <1>12, <1>13, <1>14, <1>15

\* The three ways a call ends once it is registered.
LEMMA EndStep ==
    ASSUME Inv, TypeOK', NEW c \in Calls, WriteFails(c) \/ Return(c) \/ TimesOut(c)
    PROVE  Inv'
<1> USE DEF Inv
<1>1. CASE WriteFails(c) \/ TimesOut(c)
  <2> DEFINE p == IF WriteFails(c) THEN "refused" ELSE "lost"
  <2>1. /\ call[c].pc \in {"registered", "waiting"}
        /\ p = "refused" => call[c].pc = "registered"
        /\ p \in Ended /\ p # "replied"
    BY <1>1 DEF WriteFails, TimesOut, At, Ended
  <2>2. EndAs(c, p)
    BY <1>1 DEF WriteFails, TimesOut, At
  <2>3. Moved(c, p, call[c].handle, call[c].id)
    BY <2>1, <2>2, EndTyped DEF Ended
  <2>4. Unregister(c)
    BY <1>1 DEF WriteFails, TimesOut
  <2>5. \A g \in Handles, m \in Ids :
            pending'[g][m] = IF g = call[c].handle /\ m = call[c].id THEN NoCall
                             ELSE pending[g][m]
    BY <2>4 DEF Unregister, TypeOK
  <2>6. UNCHANGED <<cur, lock, lastId, child, inbox, outbox, reader, got, served, given>>
    BY <1>1 DEF WriteFails, TimesOut, childVars
  <2> HIDE DEF p
  <2> QED BY <2>1, <2>3, <2>5, <2>6, LateStep
<1>2. CASE Return(c)
  <2> DEFINE p == IF got[c] = "exited" THEN "lost" ELSE "replied"
  <2>1. call[c].pc = "waiting" /\ got[c] # "nothing"
    BY <1>2 DEF Return, At
  <2>2. p \in Ended /\ p # "refused"
    BY DEF Ended
  <2>3. p = "replied" => served[c] # 0
    BY <2>1 DEF OwnReply, TypeOK
  <2>4. EndAs(c, p)
    BY <1>2 DEF Return
  <2>5. Moved(c, p, call[c].handle, call[c].id)
    BY <2>2, <2>4, EndTyped DEF Ended
  <2>6. UNCHANGED <<cur, lock, lastId, pending, child, inbox, outbox, reader, got, served, given>>
    BY <1>2 DEF Return, childVars, tableVars
  <2>7. call[c].handle \in Handles /\ call[c].id \in Ids /\ call[c].id # 0
    BY <2>1 DEF TypeOK, CallOK, Ids
  <2>8. pending[call[c].handle][call[c].id] = NoCall
    <3> DEFINE d == pending[call[c].handle][call[c].id]
    <3>1. SUFFICES ASSUME d # NoCall PROVE FALSE
      OBVIOUS
    <3>2. d \in Calls
      BY <2>7, <3>1 DEF TypeOK
    <3>3. call[d].handle = call[c].handle /\ call[d].id = call[c].id /\ got[d] = "nothing"
      BY <2>7, <3>1 DEF NoStaleEntry, Unanswered
    <3>4. d = c
      BY <2>7, <3>2, <3>3 DEF IdsDistinct
    <3> QED BY <2>1, <3>3, <3>4
  <2> HIDE DEF p
  <2> QED BY <2>1, <2>2, <2>3, <2>5, <2>6, <2>8, LateStep
<1> QED BY <1>1, <1>2

-----------------------------------------------------------------------------
(* Steps of a process and of its reader *)

\* The reader takes entries of one table, answers their calls and drops lines.
LEMMA AnswerStep ==
    ASSUME Inv, TypeOK', NEW h \in Handles, NEW Gone \in SUBSET Ids,
           \A g \in Handles, m \in Ids :
               pending'[g][m] = IF g = h /\ m \in Gone THEN NoCall ELSE pending[g][m],
           \A c \in Calls :
               IF \E m \in Gone : pending[h][m] = c
               THEN /\ got'[c] # "nothing"
                    /\ got'[c] \in Calls => got'[c] = c /\ served[c] # 0
               ELSE got'[c] = got[c],
           \A g \in Handles : inbox'[g] \subseteq inbox[g] /\ outbox'[g] \subseteq outbox[g],
           \A g \in Handles : reader'[g] = "ended" =>
               reader[g] = "ended" \/ (g = h /\ child[h] = "dead" /\ Gone = Ids),
           UNCHANGED <<cur, lock, lastId, child, call, served, given>>
    PROVE  Inv'
<1> USE DEF Inv
<1>1. \A g \in Handles, m \in Ids : pending[g][m] # NoCall =>
          /\ pending[g][m] \in Calls
          /\ call[pending[g][m]].handle = g /\ call[pending[g][m]].id = m
          /\ call[pending[g][m]].pc \in {"registered", "waiting"}
  BY DEF NoStaleEntry, TypeOK
<1>2. IdsGiven' /\ IdsDistinct' /\ LockHeld' /\ ServedCalls' /\ NoStraySidecar'
  BY DEF IdsGiven, IdsDistinct, LockHeld, At, ServedCalls, NoStraySidecar
<1>3. NoStaleEntry'
  BY <1>1 DEF NoStaleEntry
<1>4. StillListed'
  <2> SUFFICES ASSUME NEW d \in Calls, call[d].pc \in {"registered", "waiting"},
                      got'[d] = "nothing"
               PROVE  pending'[call[d].handle][call[d].id] = d
    BY DEF StillListed
  <2>1. call[d].handle \in Handles /\ call[d].id \in Ids
    BY DEF TypeOK, CallOK
  <2>2. got[d] = "nothing" /\ ~ \E m \in Gone : pending[h][m] = d
    OBVIOUS
  <2>3. pending[call[d].handle][call[d].id] = d
    BY <2>2 DEF StillListed
  <2> QED BY <2>1, <2>2, <2>3
<1>5. Unanswered'
  <2>1. ASSUME NEW g \in Handles, NEW m \in Ids, pending'[g][m] # NoCall
        PROVE  got'[pending'[g][m]] = "nothing"
    <3> DEFINE d == pending[g][m]
    <3>1. pending'[g][m] = d /\ ~(g = h /\ m \in Gone) /\ d \in Calls
      BY <1>1, <2>1
    <3>2. call[d].handle = g /\ call[d].id = m /\ got[d] = "nothing"
      BY <1>1, <2>1, <3>1 DEF Unanswered
    <3>3. ~ \E k \in Gone : pending[h][k] = d
      BY <1>1, <2>1, <3>1, <3>2
    <3> QED BY <3>1, <3>2, <3>3
  <2>2. ASSUME NEW d \in Calls, call[d].pc \in {"idle", "spawning", "ready"}
        PROVE  got'[d] = "nothing"
    <3>1. ~ \E k \in Gone : pending[h][k] = d
      BY <1>1, <2>2, NoneAssumption
    <3> QED BY <2>2, <3>1 DEF Unanswered
  <2> QED BY <2>1, <2>2 DEF Unanswered
<1>6. EndedReader'
  BY DEF EndedReader
<1>7. LinesOwned' /\ LinesServed'
  BY DEF LinesOwned, LinesServed
<1>8. OwnReply'
  BY DEF OwnReply
<1> QED BY <1>2, <1>3, <1>4, <1>5, <1>6, <1>7, <1>8

\* A reply is taken off the output.
LEMMA ReadReplyStep ==
    ASSUME Inv, TypeOK', NEW h \in Handles, NEW q \in outbox[h], ReadReply(h, q)
    PROVE  Inv'
<1> USE DEF Inv
<1>1. q \in Lines /\ q.of \in Calls /\ q.id \in Ids /\ q.id # 0
  BY DEF TypeOK, Lines, Ids
<1>2. call[q.of].handle = h /\ call[q.of].id = q.id /\ served[q.of] # 0
  BY DEF LinesOwned, LinesServed
<1>3. UNCHANGED <<cur, lock, lastId, child, inbox, reader, call, served, given>>
  BY DEF ReadReply
<1>4. \A g \in Handles, m \in Ids :
          pending'[g][m] = IF g = h /\ m \in {q.id} THEN NoCall ELSE pending[g][m]
  BY <1>1 DEF ReadReply, TypeOK
<1>5. \A c \in Calls : pending[h][q.id] = c => c = q.of
  <2> SUFFICES ASSUME NEW c \in Calls, pending[h][q.id] = c PROVE c = q.of
    OBVIOUS
  <2>1. call[c].handle = h /\ call[c].id = q.id
    BY <1>1, NoneAssumption DEF NoStaleEntry
  <2> QED BY <1>1, <1>2, <2>1 DEF IdsDistinct
<1>6. \A c \in Calls : got'[c] = IF pending[h][q.id] = c THEN q.of ELSE got[c]
  BY DEF ReadReply
<1>7. q.of # "nothing"
  BY <1>1, NoneAssumption
<1>8. \A g \in Handles : inbox'[g] \subseteq inbox[g] /\ outbox'[g] \subseteq outbox[g]
  BY <1>3 DEF ReadReply, TypeOK
<1> DEFINE Gone == {q.id}
<1>9. Gone \in SUBSET Ids
  BY <1>1
<1>10. \A c \in Calls :
           IF \E m \in Gone : pending[h][m] = c
           THEN /\ got'[c] # "nothing"
                /\ got'[c] \in Calls => got'[c] = c /\ served[c] # 0
           ELSE got'[c] = got[c]
  BY <1>2, <1>5, <1>6, <1>7
<1>11. \A g \in Handles, m \in Ids :
           pending'[g][m] = IF g = h /\ m \in Gone THEN NoCall ELSE pending[g][m]
  BY <1>4
<1> HIDE DEF Gone
<1> QED BY <1>3, <1>8, <1>9, <1>10, <1>11, AnswerStep

\* The reader leaves its loop, at the end of the output or before.
LEMMA StopStep ==
    ASSUME Inv, TypeOK', NEW h \in Handles, ReaderEnds(h) \/ ReaderBreaks(h)
    PROVE  Inv'
<1> USE DEF Inv
<1>1. PICK how \in {"ended", "broken"} : Stop(h, how) /\ (how = "ended" => child[h] = "dead")
  BY DEF ReaderEnds, ReaderBreaks
<1>2. UNCHANGED <<cur, lock, lastId, child, inbox, outbox, call, served, given>>
  BY DEF ReaderEnds, ReaderBreaks, childVars
<1>3. \A g \in Handles, m \in Ids :
          pending'[g][m] = IF g = h /\ m \in Ids THEN NoCall ELSE pending[g][m]
  BY <1>1 DEF Stop, TypeOK
<1>4. \A c \in Calls :
          got'[c] = IF \E n \in Ids : pending[h][n] = c THEN "exited" ELSE got[c]
  BY <1>1 DEF Stop
<1>5. \A g \in Handles : reader'[g] = "ended" =>
          reader[g] = "ended" \/ (g = h /\ child[h] = "dead" /\ Ids = Ids)
  BY <1>1 DEF Stop, TypeOK
<1> DEFINE Gone == Ids
<1>6. \A c \in Calls :
          IF \E m \in Gone : pending[h][m] = c
          THEN /\ got'[c] # "nothing"
               /\ got'[c] \in Calls => got'[c] = c /\ served[c] # 0
          ELSE got'[c] = got[c]
  BY <1>4, NoneAssumption
<1> QED BY <1>2, <1>3, <1>5, <1>6, AnswerStep

\* A request is served: it was the only line of its call.
LEMMA ServeStep ==
    ASSUME Inv, TypeOK', NEW h \in Handles, NEW q \in inbox[h], Serve(h, q)
    PROVE  Inv'
<1> USE DEF Inv
<1>1. q \in Lines /\ q.of \in Calls
  BY DEF TypeOK, Lines
<1>2. UNCHANGED <<cur, lock, lastId, pending, child, reader, call, got, given>>
  BY DEF Serve, tableVars, callVars
<1>3. /\ \A g \in Handles : inbox'[g] = IF g = h THEN inbox[g] \ {q} ELSE inbox[g]
      /\ \A g \in Handles : outbox'[g] = IF g = h THEN outbox[g] \cup {q} ELSE outbox[g]
      /\ served' = [served EXCEPT ![q.of] = @ + 1]
  BY DEF Serve, TypeOK
<1>4. call[q.of].handle = h /\ call[q.of].id = q.id
      /\ call[q.of].pc \in {"waiting", "replied", "lost"}
  BY DEF LinesOwned
<1>5. IdsGiven' /\ IdsDistinct' /\ LockHeld' /\ NoStraySidecar'
  BY <1>2 DEF IdsGiven, IdsDistinct, LockHeld, At, NoStraySidecar
<1>6. NoStaleEntry' /\ StillListed' /\ Unanswered' /\ EndedReader'
  BY <1>2 DEF NoStaleEntry, StillListed, Unanswered, EndedReader
<1>7. LinesOwned'
  <2> SUFFICES ASSUME NEW g \in Handles, NEW r \in inbox'[g] \cup outbox'[g]
               PROVE  r \in inbox[g] \cup outbox[g]
    BY <1>2 DEF LinesOwned
  <2> QED BY <1>3
<1>a. served[q.of] = 0 /\ served \in [Calls -> Nat]
  BY DEF LinesServed, TypeOK
<1>b. \A c \in Calls : served'[c] = IF c = q.of THEN 1 ELSE served[c]
  BY <1>1, <1>3, <1>a
<1>8. LinesServed'
  <2>1. ASSUME NEW g \in Handles, NEW r \in inbox'[g] PROVE served'[r.of] = 0
    <3>1. r \in inbox[g] /\ ~(g = h /\ r = q)
      BY <1>3, <2>1
    <3>2. served[r.of] = 0 /\ call[r.of].handle = g /\ call[r.of].id = r.id
      BY <3>1 DEF LinesServed, LinesOwned
    <3>3. r \in Lines
      BY <3>1 DEF TypeOK
    <3>4. r.of = q.of => g = h /\ r.id = q.id
      BY <1>4, <3>2
    <3>5. r.of = q.of /\ r.id = q.id => r = q
      BY <1>1, <3>3 DEF Lines
    <3>6. r.of # q.of
      <4> SUFFICES ASSUME r.of = q.of PROVE FALSE
        OBVIOUS
      <4>1. g = h /\ r.id = q.id
        BY <3>4
      <4>2. r = q
        BY <3>5, <4>1
      <4>3. ~(g = h /\ r = q)
        BY <3>1
      <4> QED BY <4>1, <4>2, <4>3
    <3>7. r.of \in Calls
      BY <3>3 DEF Lines
    <3> QED BY <1>b, <3>2, <3>6, <3>7
  <2>2. ASSUME NEW g \in Handles, NEW r \in outbox'[g] PROVE served'[r.of] # 0
    <3>1. r.of \in Calls /\ (served[r.of] # 0 \/ r.of = q.of)
      <4>1. r = q \/ r \in outbox[g]
        BY <1>3, <2>2
      <4>2. CASE r = q
        BY <1>1, <4>2
      <4>3. CASE r \in outbox[g]
        BY <4>3 DEF LinesServed, TypeOK, Lines
      <4> QED BY <4>1, <4>2, <4>3
    <3> QED BY <1>b, <3>1
  <2> QED BY <2>1, <2>2 DEF LinesServed
<1>9. ServedCalls' /\ OwnReply'
  BY <1>1, <1>2, <1>b, <1>4 DEF ServedCalls, OwnReply
<1> QED BY <1>5, <1>6, <1>7, <1>8, <1>9

\* A process ends, and the lines it leaves are its own still.
LEMMA DiesStep ==
    ASSUME Inv, TypeOK', NEW h \in Handles, Dies(h)
    PROVE  Inv'
<1> USE DEF Inv
<1>1. UNCHANGED <<cur, lock, lastId, pending, reader, call, got, served, given>>
  BY DEF Dies, tableVars, callVars
<1>2. \A g \in Handles : /\ inbox'[g] \subseteq inbox[g] /\ outbox'[g] \subseteq outbox[g]
                         /\ child[g] = "dead" => child'[g] = "dead"
                         /\ child'[g] = "alive" => child[g] = "alive"
  BY DEF Dies, TypeOK
<1>3. IdsGiven' /\ IdsDistinct' /\ LockHeld' /\ NoStraySidecar'
  BY <1>1, <1>2 DEF IdsGiven, IdsDistinct, LockHeld, At, NoStraySidecar
<1>4. NoStaleEntry' /\ StillListed' /\ Unanswered' /\ EndedReader'
  BY <1>1, <1>2 DEF NoStaleEntry, StillListed, Unanswered, EndedReader
<1>5. LinesOwned' /\ LinesServed' /\ ServedCalls' /\ OwnReply'
  BY <1>1, <1>2 DEF LinesOwned, LinesServed, ServedCalls, OwnReply
<1> QED BY <1>3, <1>4, <1>5

-----------------------------------------------------------------------------
(* The theorems on replies *)

\* Every step keeps the invariant.
LEMMA NextInv == Inv /\ [Next]_vars => Inv'
<1> SUFFICES ASSUME Inv, [Next]_vars PROVE Inv'
  OBVIOUS
<1>1. TypeOK'
  BY NextType DEF Inv
<1>2. ASSUME NEW c \in Calls, Caller(c) PROVE Inv'
  BY <1>1, <1>2, EnsureStep, RegisterStep, WriteStep, EndStep DEF Caller
<1>3. ASSUME NEW h \in Handles, Process(h) \/ Reader(h) \/ ReaderBreaks(h) PROVE Inv'
  BY <1>1, <1>3, DiesStep, ServeStep, StopStep, ReadReplyStep DEF Process, Reader
<1>4. CASE Tick \/ UNCHANGED vars
  <2>1. UNCHANGED <<cur, lock, lastId, pending, child, inbox, outbox, reader, call, got,
                    served, given>>
    BY <1>4 DEF Tick, vars, tableVars, childVars, callVars
  <2>2. IdsGiven' /\ IdsDistinct' /\ LockHeld' /\ NoStraySidecar' /\ NoStaleEntry'
    BY <2>1 DEF Inv, IdsGiven, IdsDistinct, LockHeld, At, NoStraySidecar, NoStaleEntry
  <2>3. StillListed' /\ Unanswered' /\ EndedReader' /\ LinesOwned' /\ LinesServed'
    BY <2>1 DEF Inv, StillListed, Unanswered, EndedReader, LinesOwned, LinesServed
  <2>4. ServedCalls' /\ OwnReply'
    BY <2>1 DEF Inv, ServedCalls, OwnReply
  <2> QED BY <1>1, <2>2, <2>3, <2>4 DEF Inv
<1> QED BY <1>2, <1>3, <1>4 DEF Next

\* A reply only ever reaches the call it answers, however ids repeat from one
\* process to the next and however late it comes.
THEOREM RepliesAreOwn == Spec => []OwnReply
<1>1. Inv => OwnReply
  BY DEF Inv
<1> QED BY <1>1, InitInv, NextInv, PTL DEF Spec

\* Calls that timed out or failed leave nothing in a table.
THEOREM TablesAreClean == Spec => []NoStaleEntry
<1>1. Inv => NoStaleEntry
  BY DEF Inv
<1> QED BY <1>1, InitInv, NextInv, PTL DEF Spec

\* One sidecar at a time, but for those the host could not ask for their state.
THEOREM OneSidecar == Spec => []NoStraySidecar
<1>1. Inv => NoStraySidecar
  BY DEF Inv
<1> QED BY <1>1, InitInv, NextInv, PTL DEF Spec

\* When a sidecar has died and its output is read to the end, every call that
\* waits on it has been woken.
THEOREM EveryoneIsWoken == Spec => []NobodyIsForgotten
<1>1. Inv => NobodyIsForgotten
  <2> SUFFICES ASSUME Inv, NEW c \in Calls, At(c, "waiting"),
                      reader[call[c].handle] = "ended", got[c] = "nothing"
               PROVE  FALSE
    BY DEF NobodyIsForgotten
  <2> USE DEF Inv
  <2>1. call[c].pc = "waiting" /\ call[c].handle \in Handles /\ call[c].id \in Ids
    BY DEF TypeOK, CallOK, At
  <2>2. pending[call[c].handle][call[c].id] = c
    BY <2>1 DEF StillListed
  <2> QED BY <2>1, <2>2, NoneAssumption DEF EndedReader
<1> QED BY <1>1, InitInv, NextInv, PTL DEF Spec
-----------------------------------------------------------------------------
(* The theorem on spawns *)

\* A sequence and the one with an element more.
LEMMA AppendFacts ==
    ASSUME NEW s \in Seq(Nat), NEW e \in Nat
    PROVE  /\ Append(s, e) \in Seq(Nat) /\ Len(Append(s, e)) = Len(s) + 1
           /\ Append(s, e)[Len(s) + 1] = e
           /\ \A j \in 1 .. Len(s) : Append(s, e)[j] = s[j]
BY AppendProperties

\* Where the last L of F attempts are.
LEMMA LastOnes ==
    ASSUME NEW F \in Nat, NEW L \in Nat, L <= F
    PROVE  /\ \A j \in 1 .. L : F - L + j \in 1 .. F
           /\ \A k \in 1 .. F - L : k \in 1 .. F
           /\ \A k \in 1 .. F : k \in 1 .. F + 1 /\ k <= F
OBVIOUS

\* An attempt whose failure is too old to count is older than the block.
LEMMA OldFailure ==
    ASSUME NEW a \in Nat, NEW f \in Nat, NEW t \in Nat, a <= f, t - f > Window
    PROVE  a + Block <= t
BY BoundsAssumption

\* The elements of a sequence of numbers.
LEMMA SequenceElements == ASSUME NEW A \in Seq(Nat) PROVE \A j \in 1 .. Len(A) : A[j] \in Nat
OBVIOUS

\* The elements of a sequence of F + 1 numbers.
LEMMA SequenceRange ==
    ASSUME NEW A \in Seq(Nat), NEW F \in Nat, Len(A) = F + 1
    PROVE  \A k \in 1 .. F + 1 : A[k] \in Nat
OBVIOUS

\* A failure recorded for the last of F + 1 attempts keeps the failures those
\* of the last attempts, and forgets only attempts that are old or blocked.
LEMMA FailureSpaced ==
    ASSUME TypeOK, RecordFailure, NEW A \in Seq(Nat), NEW F \in Nat, Len(A) = F + 1,
           Len(failures) <= F, until <= now + Block,
           \A k \in 1 .. F + 1 : A[k] <= now,
           \A j \in 1 .. Len(failures) : A[F - Len(failures) + j] <= failures[j],
           \A k \in 1 .. F - Len(failures) : A[k] + Block <= now \/ A[k] + Block <= until
    PROVE  /\ Len(failures') <= F + 1 /\ until' <= now + Block
           /\ \A j \in 1 .. Len(failures') : A[F + 1 - Len(failures') + j] <= failures'[j]
           /\ \A k \in 1 .. F + 1 - Len(failures') :
                  A[k] + Block <= now \/ A[k] + Block <= until'
<1>1. PICK n \in 0 .. Len(failures) :
        LET kept == Append(SubSeq(failures, n + 1, Len(failures)), now) IN
        /\ \A i \in 1 .. n : now - failures[i] > Window
        /\ IF Len(kept) >= Limit
           THEN failures' = <<>> /\ until' = now + Block
           ELSE failures' = kept /\ UNCHANGED until
  BY DEF RecordFailure
<1> DEFINE L == Len(failures)
           old == SubSeq(failures, n + 1, L)
           kept == Append(old, now)
<1>2. failures \in Seq(Nat) /\ now \in Nat /\ until \in Nat /\ L \in Nat /\ n \in Nat /\ n <= L
  BY DEF TypeOK
<1>3. Block \in Nat /\ Window \in Nat /\ Block <= Window
  BY BoundsAssumption
<1>4. \A k \in 1 .. F + 1 : A[k] \in Nat
  BY SequenceRange
<1>5. \A j \in 1 .. L : failures[j] \in Nat
  <2>1. failures \in Seq(Nat)
    BY <1>2
  <2> QED BY <2>1, SequenceElements
<1>6. CASE Len(kept) >= Limit
  <2>1. failures' = <<>> /\ until' = now + Block
    BY <1>1, <1>6
  <2>2. Len(failures') = 0
    BY <2>1
  <2> QED BY <1>2, <1>3, <1>4, <2>1, <2>2
<1>7. CASE ~(Len(kept) >= Limit)
  <2>1. failures' = kept /\ until' = until
    BY <1>1, <1>7
  <2>2. /\ old \in Seq(Nat) /\ Len(old) = L - n
        /\ \A j \in 1 .. L - n : old[j] = failures[n + j]
    <3>0. n + 1 \in Int /\ L \in Int /\ n + 1 \in Nat
      BY <1>2
    <3>1. \A i \in n + 1 .. L : failures[i] \in Nat
      BY <1>2, <1>5
    <3>2. /\ old \in Seq(Nat) /\ Len(old) = IF n + 1 <= L THEN L - (n + 1) + 1 ELSE 0
          /\ \A j \in 1 .. L - (n + 1) + 1 : old[j] = failures[n + 1 + j - 1]
      BY <1>2, <3>0, <3>1, SubSeqProperties
    <3>3. Len(old) = L - n
      BY <1>2, <3>2
    <3>4. ASSUME NEW j \in 1 .. L - n PROVE old[j] = failures[n + j]
      <4>1. j \in 1 .. L - (n + 1) + 1 /\ n + 1 + j - 1 = n + j
        BY <1>2
      <4> QED BY <3>2, <4>1
    <3> QED BY <3>2, <3>3, <3>4
  <2> HIDE DEF old
  <2>3. /\ Len(failures') = L - n + 1
        /\ \A j \in 1 .. L - n : failures'[j] = failures[n + j]
        /\ failures'[L - n + 1] = now
    <3>1. Len(kept) = Len(old) + 1 /\ kept[Len(old) + 1] = now
          /\ \A j \in 1 .. Len(old) : kept[j] = old[j]
      BY <1>2, <2>2, AppendFacts
    <3> QED BY <2>1, <2>2, <3>1
  <2> HIDE DEF kept
  <2>4. \A j \in 1 .. L - n + 1 : A[F + 1 - (L - n + 1) + j] <= failures'[j]
    <3> SUFFICES ASSUME NEW j \in 1 .. L - n + 1
                 PROVE  A[F + 1 - (L - n + 1) + j] <= failures'[j]
      OBVIOUS
    <3>1. CASE j = L - n + 1
      <4>1. F + 1 - (L - n + 1) + j = F + 1
        BY <1>2, <3>1
      <4> QED BY <2>3, <3>1, <4>1
    <3>2. CASE j # L - n + 1
      <4>1. j \in 1 .. L - n /\ n + j \in 1 .. L
        BY <1>2, <3>2
      <4>2. F + 1 - (L - n + 1) + j = F - L + (n + j)
        BY <1>2
      <4>3. A[F - L + (n + j)] <= failures[n + j]
        BY <4>1
      <4> QED BY <2>3, <4>1, <4>2, <4>3
    <3> QED BY <3>1, <3>2
  <2>5. \A k \in 1 .. F + 1 - (L - n + 1) : A[k] + Block <= now \/ A[k] + Block <= until'
    <3> SUFFICES ASSUME NEW k \in 1 .. F - L + n
                 PROVE  A[k] + Block <= now \/ A[k] + Block <= until'
      BY <1>2
    <3>1. CASE k <= F - L
      BY <1>2, <2>1, <3>1
    <3>2. CASE k > F - L
      <4>1. k - (F - L) \in 1 .. n /\ k - (F - L) \in 1 .. L /\ F - L + (k - (F - L)) = k
        BY <1>2, <3>2
      <4>2. A[k] <= failures[k - (F - L)]
        BY <4>1
      <4>3. now - failures[k - (F - L)] > Window
        BY <1>1, <4>1
      <4>a. k \in 1 .. F + 1
        BY <1>2
      <4>b. A[k] \in Nat
        BY <1>4, <4>a
      <4>c. failures[k - (F - L)] \in Nat
        BY <1>5, <4>1
      <4>4. A[k] \in Nat /\ failures[k - (F - L)] \in Nat
        BY <4>b, <4>c
      <4>5. A[k] + Block <= now
        BY <1>2, <4>2, <4>3, <4>4, OldFailure
      <4> QED BY <4>5
    <3> QED BY <1>2, <3>1, <3>2
  <2> QED BY <1>2, <2>1, <2>3, <2>4, <2>5
<1> QED BY <1>6, <1>7

\* An attempt made while no block is on is apart from the one Limit before it.
LEMMA AttemptSpaced ==
    ASSUME TypeOK, Spaced, cur = NoHandle, until <= now, attempts' = Append(attempts, now)
    PROVE  /\ SpawnsAreSpaced'
           /\ attempts' \in Seq(Nat) /\ Len(attempts') = Len(attempts) + 1
           /\ \A k \in 1 .. Len(attempts) + 1 : attempts'[k] <= now
           /\ \A j \in 1 .. Len(failures) :
                  attempts'[Len(attempts) - Len(failures) + j] <= failures[j]
           /\ \A k \in 1 .. Len(attempts) - Len(failures) :
                  attempts'[k] + Block <= now \/ attempts'[k] + Block <= until
<1> DEFINE F == Len(attempts)
           L == Len(failures)
<1>1. attempts \in Seq(Nat) /\ now \in Nat /\ until \in Nat /\ F \in Nat /\ L \in Nat /\ L < Limit
  BY DEF TypeOK
<1>2. Block \in Nat /\ Limit \in Nat \ {0}
  BY BoundsAssumption
<1>3. /\ attempts' \in Seq(Nat) /\ Len(attempts') = F + 1
      /\ \A k \in 1 .. F + 1 : attempts'[k] = IF k <= F THEN attempts[k] ELSE now
  BY <1>1, AppendProperties
<1>4. \A k \in 1 .. F : attempts[k] \in Nat
  BY <1>1, ElementOfSeq
<1>5. \A i \in 1 .. F : i + Limit \in 1 .. F => attempts[i + Limit] - attempts[i] >= Block
  BY <1>1 DEF Spaced, SpawnsAreSpaced
<1>6. \A k \in 1 .. F - L : attempts[k] + Block <= now
  <2>1. \A k \in 1 .. F - L : attempts[k] + Block <= now \/ attempts[k] + Block <= until
    BY DEF Spaced, Failed
  <2> QED BY <1>1, <1>2, <1>4, <2>1
<1>7. ASSUME NEW i \in 1 .. F + 1, i + Limit \in 1 .. F + 1
      PROVE  attempts'[i + Limit] - attempts'[i] >= Block
  <2>1. i \in 1 .. F /\ attempts'[i] = attempts[i]
    BY <1>1, <1>2, <1>3, <1>7
  <2>2. CASE i + Limit <= F
    BY <1>1, <1>2, <1>3, <1>5, <1>7, <2>1, <2>2
  <2>3. CASE i + Limit = F + 1
    <3>1. i \in 1 .. F - L
      BY <1>1, <1>2, <2>1, <2>3
    <3>2. attempts'[i + Limit] = now
      BY <1>1, <1>3, <1>7, <2>3
    <3>3. attempts[i] + Block <= now /\ attempts[i] \in Nat
      BY <1>4, <1>6, <2>1, <3>1
    <3>4. now - attempts[i] >= Block
      BY <1>1, <1>2, <3>3
    <3> QED BY <2>1, <3>2, <3>4
  <2>4. i + Limit <= F \/ i + Limit = F + 1
    BY <1>1, <1>2, <1>7
  <2> QED BY <2>2, <2>3, <2>4
<1>8. DOMAIN attempts' = 1 .. F + 1
  BY <1>1, <1>3
<1>9. SpawnsAreSpaced'
  BY <1>7, <1>8 DEF SpawnsAreSpaced
<1>10. /\ L <= F
       /\ \A k \in 1 .. F : attempts[k] <= now
       /\ \A j \in 1 .. L : attempts[F - L + j] <= failures[j]
  BY <1>1 DEF Spaced, Failed
<1>11. /\ \A j \in 1 .. L : F - L + j \in 1 .. F
       /\ \A k \in 1 .. F - L : k \in 1 .. F
       /\ \A k \in 1 .. F : k \in 1 .. F + 1 /\ k <= F
  BY <1>1, <1>10, LastOnes
<1>12. \A k \in 1 .. F : attempts'[k] = attempts[k]
  BY <1>3, <1>11
<1>13. \A k \in 1 .. F + 1 : attempts'[k] <= now
  BY <1>1, <1>3, <1>10
<1>14. \A j \in 1 .. L : attempts'[F - L + j] <= failures[j]
  BY <1>10, <1>11, <1>12
<1>15. \A k \in 1 .. F - L : attempts'[k] + Block <= now
  BY <1>6, <1>11, <1>12
<1> QED BY <1>3, <1>9, <1>13, <1>14, <1>15

\* Every step keeps the spawns and the failures in step.
LEMMA NextSpaced == Inv /\ Spaced /\ [Next]_vars => Spaced'
<1> SUFFICES ASSUME Inv, Spaced, [Next]_vars PROVE Spaced'
  OBVIOUS
<1> DEFINE L == Len(failures)
<1>1. TypeOK /\ LockHeld /\ LockHeld' /\ TypeOK'
  BY NextInv DEF Inv
<1>2. /\ attempts \in Seq(Nat) /\ failures \in Seq(Nat) /\ now \in Nat /\ until \in Nat
      /\ Len(attempts) \in Nat /\ L \in Nat
      /\ DOMAIN attempts = 1 .. Len(attempts) /\ DOMAIN failures = 1 .. L
  BY <1>1 DEF TypeOK
<1>3. Block \in Nat
  BY BoundsAssumption
<1>4. \A k \in 1 .. Len(attempts) : attempts[k] \in Nat
  BY <1>2, ElementOfSeq
<1>s. /\ SpawnsAreSpaced /\ L <= Failed /\ until <= now + Block
      /\ \A k \in 1 .. Len(attempts) : attempts[k] <= now
      /\ \A j \in 1 .. L : attempts[Failed - L + j] <= failures[j]
      /\ \A k \in 1 .. Failed - L : attempts[k] + Block <= now \/ attempts[k] + Block <= until
  BY <1>2 DEF Spaced
<1>5. CASE UNCHANGED <<attempts, failures, until, now>> /\ ((cur = NoHandle) <=> (cur' = NoHandle))
  <2>1. Failed' = Failed
    BY <1>5 DEF Failed
  <2> QED BY <1>1, <1>5, <2>1 DEF Spaced, SpawnsAreSpaced
<1>6. CASE Tick
  <2>1. UNCHANGED <<attempts, failures, until, cur>> /\ now' = now + 1
    BY <1>6 DEF Tick, backoffVars
  <2>2. Failed' = Failed /\ SpawnsAreSpaced'
    BY <2>1 DEF Failed, Spaced, SpawnsAreSpaced
  <2>3. Failed \in Int /\ (\A k \in 1 .. Failed - L : k \in 1 .. Len(attempts))
    BY <1>2 DEF Failed
  <2>4. until <= now' + Block /\ \A k \in DOMAIN attempts : attempts[k] <= now'
    BY <1>2, <1>3, <1>4, <2>1 DEF Spaced
  <2>5. \A k \in 1 .. Failed - L : attempts[k] + Block <= now' \/ attempts[k] + Block <= until
    <3> SUFFICES ASSUME NEW k \in 1 .. Failed - L, attempts[k] + Block <= now
                 PROVE  attempts[k] + Block <= now'
      BY <1>s
    <3>1. attempts[k] \in Nat
      BY <1>4, <2>3
    <3> QED BY <1>2, <1>3, <2>1, <3>1
  <2> QED BY <1>1, <2>1, <2>2, <2>4, <2>5 DEF Spaced
<1>7. ASSUME NEW c \in Calls, FoundDead(c) PROVE Spaced'
  <2> DEFINE F == Len(attempts) - 1
  <2>1. cur # NoHandle /\ cur' = NoHandle /\ RecordFailure /\ UNCHANGED <<attempts, now>>
    BY <1>7 DEF FoundDead
  <2>2. Failed = F /\ Failed' = F + 1 /\ L <= F
    BY <1>2, <2>1 DEF Failed, Spaced
  <2>3. F \in Nat /\ Len(attempts) = F + 1
    BY <1>2, <2>2
  <2>4. /\ until <= now + Block
        /\ \A k \in 1 .. F + 1 : attempts[k] <= now
        /\ \A j \in 1 .. L : attempts[F - L + j] <= failures[j]
        /\ \A k \in 1 .. F - L : attempts[k] + Block <= now \/ attempts[k] + Block <= until
    BY <1>2, <2>2, <2>3 DEF Spaced
  <2> HIDE DEF F
  <2>5. /\ Len(failures') <= F + 1 /\ until' <= now + Block
        /\ \A j \in 1 .. Len(failures') : attempts[F + 1 - Len(failures') + j] <= failures'[j]
        /\ \A k \in 1 .. F + 1 - Len(failures') :
               attempts[k] + Block <= now \/ attempts[k] + Block <= until'
    BY <1>1, <1>2, <2>1, <2>2, <2>3, <2>4, FailureSpaced
  <2>6. DOMAIN failures' = 1 .. Len(failures')
    BY <1>1 DEF TypeOK
  <2>7. SpawnsAreSpaced'
    BY <1>s, <2>1 DEF SpawnsAreSpaced
  <2>8. /\ Len(failures') <= Failed' /\ until' <= now' + Block
        /\ \A k \in DOMAIN attempts' : attempts'[k] <= now'
        /\ \A j \in DOMAIN failures' : attempts'[Failed' - Len(failures') + j] <= failures'[j]
        /\ \A k \in 1 .. Failed' - Len(failures') :
               attempts'[k] + Block <= now' \/ attempts'[k] + Block <= until'
    <3>1. \A k \in DOMAIN attempts' : attempts'[k] <= now'
      <4>1. now' = now /\ attempts' = attempts /\ \A k \in DOMAIN attempts : attempts[k] <= now
        BY <1>2, <2>1 DEF Spaced
      <4> QED BY <4>1
    <3>2. Len(failures') <= Failed' /\ until' <= now' + Block
      <4>1. now' = now /\ Failed' = F + 1
        BY <2>1, <2>2
      <4>2. Len(failures') <= F + 1 /\ until' <= now + Block
        BY <2>5
      <4> QED BY <4>1, <4>2
    <3>3. \A j \in DOMAIN failures' : attempts'[Failed' - Len(failures') + j] <= failures'[j]
      <4>1. attempts' = attempts /\ Failed' = F + 1 /\ F \in Nat
        BY <2>1, <2>2, <2>3
      <4>2. Failed' - Len(failures') = F + 1 - Len(failures')
        BY <4>1
      <4>3. \A j \in DOMAIN failures' : attempts[F + 1 - Len(failures') + j] <= failures'[j]
        BY <2>5, <2>6
      <4> HIDE DEF L
      <4> QED BY <4>1, <4>2, <4>3
    <3>4. \A k \in 1 .. Failed' - Len(failures') :
              attempts'[k] + Block <= now' \/ attempts'[k] + Block <= until'
      <4>1. now' = now /\ attempts' = attempts /\ Failed' = F + 1 /\ F \in Nat
        BY <2>1, <2>2, <2>3
      <4>2. Failed' - Len(failures') = F + 1 - Len(failures')
        BY <4>1
      <4> HIDE DEF L
      <4> QED BY <2>5, <4>1, <4>2
    <3> QED BY <3>1, <3>2, <3>3, <3>4
  <2> QED BY <1>1, <2>7, <2>8 DEF Spaced
<1>8. ASSUME NEW c \in Calls, SpawnFails(c) PROVE Spaced'
  <2> DEFINE F == Len(attempts)
  <2>1. /\ cur = NoHandle /\ cur' = NoHandle /\ RecordFailure /\ now' = now
        /\ until <= now /\ attempts' = Append(attempts, now)
    BY <1>1, <1>2, <1>8 DEF SpawnFails, LockHeld, At, Blocked
  <2>2. /\ SpawnsAreSpaced' /\ attempts' \in Seq(Nat) /\ Len(attempts') = F + 1
        /\ \A k \in 1 .. F + 1 : attempts'[k] <= now
        /\ \A j \in 1 .. L : attempts'[F - L + j] <= failures[j]
        /\ \A k \in 1 .. F - L : attempts'[k] + Block <= now \/ attempts'[k] + Block <= until
    BY <1>1, <2>1, AttemptSpaced
  <2>3. Failed = F /\ Failed' = F + 1 /\ L <= F /\ F \in Nat
    BY <1>2, <2>1, <2>2 DEF Failed, Spaced
  <2>4. /\ until <= now + Block
        /\ \A k \in 1 .. F + 1 : attempts'[k] <= now
        /\ \A j \in 1 .. L : attempts'[F - L + j] <= failures[j]
        /\ \A k \in 1 .. F - L : attempts'[k] + Block <= now \/ attempts'[k] + Block <= until
    BY <1>s, <2>2
  <2> HIDE DEF F
  <2>5. /\ Len(failures') <= F + 1 /\ until' <= now + Block
        /\ \A j \in 1 .. Len(failures') : attempts'[F + 1 - Len(failures') + j] <= failures'[j]
        /\ \A k \in 1 .. F + 1 - Len(failures') :
               attempts'[k] + Block <= now \/ attempts'[k] + Block <= until'
    BY <1>1, <2>1, <2>2, <2>3, <2>4, FailureSpaced
  <2>6. DOMAIN failures' = 1 .. Len(failures') /\ DOMAIN attempts' = 1 .. F + 1
    BY <1>1, <2>2 DEF TypeOK
  <2>8. /\ Len(failures') <= Failed' /\ until' <= now' + Block
        /\ \A k \in DOMAIN attempts' : attempts'[k] <= now'
        /\ \A j \in DOMAIN failures' : attempts'[Failed' - Len(failures') + j] <= failures'[j]
        /\ \A k \in 1 .. Failed' - Len(failures') :
               attempts'[k] + Block <= now' \/ attempts'[k] + Block <= until'
    <3>1. \A k \in DOMAIN attempts' : attempts'[k] <= now'
      BY <2>1, <2>4, <2>6
    <3>2. Len(failures') <= Failed' /\ until' <= now' + Block
      BY <2>1, <2>3, <2>5
    <3>3. \A j \in DOMAIN failures' : attempts'[Failed' - Len(failures') + j] <= failures'[j]
      BY <2>3, <2>5, <2>6
    <3>4. \A k \in 1 .. Failed' - Len(failures') :
              attempts'[k] + Block <= now' \/ attempts'[k] + Block <= until'
      <4>1. now' = now /\ Failed' = F + 1 /\ F \in Nat
        BY <2>1, <2>3
      <4>2. Failed' - Len(failures') = F + 1 - Len(failures')
        BY <4>1
      <4> HIDE DEF L
      <4> QED BY <2>5, <4>1, <4>2
    <3> QED BY <3>1, <3>2, <3>3, <3>4
  <2> QED BY <1>1, <2>2, <2>8 DEF Spaced
<1>9. ASSUME NEW c \in Calls, Spawn(c) PROVE Spaced'
  <2> DEFINE F == Len(attempts)
  <2>1. /\ cur = NoHandle /\ UNCHANGED <<failures, until, now>>
        /\ until <= now /\ attempts' = Append(attempts, now)
    BY <1>1, <1>2, <1>9 DEF Spawn, LockHeld, At, Blocked, backoffVars
  <2>2. /\ SpawnsAreSpaced' /\ attempts' \in Seq(Nat) /\ Len(attempts') = F + 1
        /\ \A k \in 1 .. F + 1 : attempts'[k] <= now
        /\ \A j \in 1 .. L : attempts'[F - L + j] <= failures[j]
        /\ \A k \in 1 .. F - L : attempts'[k] + Block <= now \/ attempts'[k] + Block <= until
    BY <1>1, <2>1, AttemptSpaced
  <2>3. cur' # NoHandle
    BY <1>9 DEF Spawn, Handles, NoHandle
  <2>4. Failed = F /\ Failed' = F /\ L <= F /\ F \in Nat
    BY <1>2, <2>1, <2>2, <2>3 DEF Failed, Spaced
  <2>5. /\ until <= now + Block
        /\ \A k \in 1 .. F + 1 : attempts'[k] <= now
        /\ \A j \in 1 .. L : attempts'[F - L + j] <= failures[j]
        /\ \A k \in 1 .. F - L : attempts'[k] + Block <= now \/ attempts'[k] + Block <= until
    BY <1>s, <2>2
  <2>6. DOMAIN attempts' = 1 .. F + 1
    BY <2>2
  <2> HIDE DEF F
  <2>8. /\ Len(failures') <= Failed' /\ until' <= now' + Block
        /\ \A k \in DOMAIN attempts' : attempts'[k] <= now'
        /\ \A j \in DOMAIN failures' : attempts'[Failed' - Len(failures') + j] <= failures'[j]
        /\ \A k \in 1 .. Failed' - Len(failures') :
               attempts'[k] + Block <= now' \/ attempts'[k] + Block <= until'
    BY <1>2, <2>1, <2>4, <2>5, <2>6
  <2> QED BY <1>1, <2>2, <2>8 DEF Spaced
<1>10. ASSUME NEW c \in Calls, Caller(c), ~FoundDead(c), ~SpawnFails(c), ~Spawn(c)
       PROVE  UNCHANGED <<attempts, failures, until, now, cur>>
  BY <1>10 DEF Caller, Found, FoundNone, BackedOff, Register, Write, WriteFails, Return,
     TimesOut, backoffVars
<1>11. ASSUME NEW h \in Handles, Process(h) \/ Reader(h) \/ ReaderBreaks(h)
       PROVE  UNCHANGED <<attempts, failures, until, now, cur>>
  BY <1>11 DEF Process, Reader, Dies, Serve, ReaderEnds, ReaderBreaks, ReadReply, backoffVars
<1>12. CASE UNCHANGED vars
  BY <1>5, <1>12 DEF vars, backoffVars
<1> QED BY <1>5, <1>6, <1>7, <1>8, <1>9, <1>10, <1>11, <1>12 DEF Next

\* A sidecar that keeps dying is not spawned without end: of any Limit + 1
\* attempts in a row the last comes at least Block after the first.
THEOREM SpawnsSpaced == Spec => []SpawnsAreSpaced
<1>1. Spaced => SpawnsAreSpaced
  BY DEF Spaced
<1> QED BY <1>1, InitInv, NextInv, NextSpaced, PTL DEF Spec
-----------------------------------------------------------------------------
(* The bridge implements the contract of Rpc *)

\* What the contract sees of a place.
Stage(pc) ==
    CASE pc \in {"ready", "registered", "waiting"} -> "open"
      [] pc \in {"idle", "spawning"} -> "idle"
      [] OTHER -> pc

\* A step that takes one call to another place is seen as one of that call.
LEMMA Seen ==
    ASSUME NEW c \in Calls, NEW pc, NEW handle, NEW id, Moved(c, pc, handle, id)
    PROVE  /\ Progress \in [Calls -> {Stage(call[d].pc) : d \in Calls}]
           /\ Progress[c] = Stage(call[c].pc)
           /\ Progress' = [Progress EXCEPT ![c] = Stage(pc)]
           /\ pc # "replied" /\ call[c].pc # "replied" /\ got' = got => Answer' = Answer
           /\ pc = "replied" /\ got' = got => Answer' = [Answer EXCEPT ![c] = got[c]]
<1>1. Progress = [d \in Calls |-> Stage(call[d].pc)]
  BY DEF Progress, Stage
<1>2. Progress' = [d \in Calls |-> Stage(call'[d].pc)]
  BY DEF Progress, Stage
<1>3. \A d \in Calls : call'[d].pc = IF d = c THEN pc ELSE call[d].pc
  BY DEF Moved
<1>4. /\ Answer = [d \in Calls |-> IF call[d].pc = "replied" THEN got[d] ELSE NoCall]
      /\ Answer' = [d \in Calls |-> IF call'[d].pc = "replied" THEN got'[d] ELSE NoCall]
  BY DEF Answer, At
<1> QED BY <1>1, <1>2, <1>3, <1>4

\* Every step of the bridge is a step of the contract, or none.
LEMMA NextContract == Inv /\ [Next]_vars => [Contract!Next]_(Contract!vars)
<1> SUFFICES ASSUME Inv, [Next]_vars PROVE Contract!Next \/ UNCHANGED <<Progress, served, Answer>>
  BY DEF Contract!vars
<1> USE DEF Inv
<1>1. ASSUME NEW c \in Calls, Found(c) \/ Spawn(c) PROVE Contract!Ask(c)
  <2>1. PICK h \in Handles : ReadyAs(c, h)
    BY <1>1 DEF Found, Spawn, ReadyAs, TypeOK
  <2>2. Moved(c, "ready", h, call[c].id)
    BY <2>1, ReadyTyped
  <2>3. call[c].pc \in {"idle", "spawning"} /\ served' = served /\ got' = got
    BY <1>1 DEF Found, Spawn, At
  <2> QED BY <2>2, <2>3, Seen DEF Stage, Contract!Ask
<1>2. ASSUME NEW c \in Calls, FoundNone(c) \/ FoundDead(c)
      PROVE  UNCHANGED <<Progress, served, Answer>>
  <2>1. Moved(c, "spawning", call[c].handle, call[c].id)
    BY <1>2, EndTyped DEF FoundNone, FoundDead
  <2>2. call[c].pc = "idle" /\ served' = served /\ got' = got
    BY <1>2 DEF FoundNone, FoundDead, At
  <2> QED BY <2>1, <2>2, Seen DEF Stage
<1>3. ASSUME NEW c \in Calls, BackedOff(c) \/ SpawnFails(c) \/ WriteFails(c)
      PROVE  Contract!Refuse(c)
  <2>1. Moved(c, "refused", call[c].handle, call[c].id)
    BY <1>3, EndTyped DEF BackedOff, SpawnFails, WriteFails, Ended
  <2>2. call[c].pc \in {"spawning", "registered"} /\ served' = served /\ got' = got
    BY <1>3 DEF BackedOff, SpawnFails, WriteFails, At
  <2>3. served[c] = 0
    BY <2>2 DEF ServedCalls
  <2> QED BY <2>1, <2>2, <2>3, Seen DEF Stage, Contract!Refuse
<1>4. ASSUME NEW c \in Calls, Register(c) PROVE UNCHANGED <<Progress, served, Answer>>
  <2>1. call[c].pc = "ready" /\ served' = served /\ got' = got
    BY <1>4 DEF Register, At
  <2>2. PICK n \in Ids : RegisteredAs(c, n)
    BY <1>4 DEF Register, RegisteredAs
  <2>3. Moved(c, "registered", call[c].handle, n)
    BY <2>1, <2>2, RegisteredTyped DEF At
  <2> QED BY <2>1, <2>3, Seen DEF Stage
<1>5. ASSUME NEW c \in Calls, Write(c) PROVE UNCHANGED <<Progress, served, Answer>>
  <2>1. Moved(c, "waiting", call[c].handle, call[c].id)
    BY <1>5, EndTyped DEF Write
  <2>2. call[c].pc = "registered" /\ served' = served /\ got' = got
    BY <1>5 DEF Write, At
  <2> QED BY <2>1, <2>2, Seen DEF Stage
<1>6. ASSUME NEW c \in Calls, Return(c) \/ TimesOut(c)
      PROVE  Contract!Reply(c) \/ Contract!Lose(c)
  <2>1. call[c].pc = "waiting" /\ served' = served /\ got' = got
    BY <1>6 DEF Return, TimesOut, At
  <2>2. PICK p \in {"lost", "replied"} :
            EndAs(c, p) /\ (p = "replied" => served[c] = 1 /\ got[c] = c)
    <3>1. got[c] \in Calls => got[c] = c /\ served[c] = 1
      BY DEF OwnReply, ServedCalls
    <3> QED BY <1>6, <3>1 DEF Return, TimesOut, TypeOK
  <2>3. Moved(c, p, call[c].handle, call[c].id)
    BY <2>2, EndTyped DEF Ended
  <2> QED BY <2>1, <2>2, <2>3, Seen DEF Stage, Contract!Reply, Contract!Lose
<1>7. ASSUME NEW h \in Handles, NEW q \in inbox[h], Serve(h, q)
      PROVE  q.of \in Calls /\ Contract!Execute(q.of)
  <2>1. q.of \in Calls /\ served[q.of] = 0
        /\ call[q.of].pc \in {"waiting", "replied", "lost"}
    BY DEF TypeOK, Lines, LinesOwned, LinesServed
  <2>2. call[q.of].pc # "replied"
    BY <2>1 DEF ServedCalls
  <2>3. call' = call /\ got' = got /\ served' = [served EXCEPT ![q.of] = 1]
    BY <1>7, <2>1 DEF Serve, callVars, TypeOK
  <2>4. Progress' = Progress /\ Answer' = Answer
    BY <2>3 DEF Progress, Answer, At
  <2>5. Progress[q.of] \in {"open", "lost"}
    BY <2>1, <2>2 DEF Progress
  <2> QED BY <2>1, <2>3, <2>4, <2>5 DEF Contract!Execute
<1>8. ASSUME NEW h \in Handles, Dies(h) \/ Reader(h) \/ ReaderBreaks(h)
      PROVE  UNCHANGED <<Progress, served, Answer>>
  <2>1. call' = call /\ served' = served
    BY <1>8 DEF Dies, Reader, ReaderEnds, ReaderBreaks, ReadReply, callVars
  <2>2. \A c \in Calls : call[c].pc = "replied" =>
            \A n \in Ids : pending[h][n] # c
    BY NoneAssumption DEF NoStaleEntry
  <2>3. \A c \in Calls : call[c].pc = "replied" => got'[c] = got[c]
    <3>1. CASE Dies(h)
      BY <3>1 DEF Dies, callVars
    <3>2. CASE ReaderEnds(h) \/ ReaderBreaks(h)
      BY <2>2, <3>2 DEF ReaderEnds, ReaderBreaks, Stop
    <3>3. ASSUME NEW q \in outbox[h], ReadReply(h, q)
          PROVE  \A c \in Calls : call[c].pc = "replied" => got'[c] = got[c]
      <4>1. q.id \in Ids
        BY DEF TypeOK, Lines
      <4> QED BY <2>2, <3>3, <4>1 DEF ReadReply
    <3> QED BY <1>8, <3>1, <3>2, <3>3 DEF Reader
  <2> QED BY <2>1, <2>3 DEF Progress, Answer, At
<1>9. CASE Tick \/ UNCHANGED vars
  BY <1>9 DEF Tick, vars, callVars, Progress, Answer, At
<1>10. ASSUME NEW c \in Calls, Caller(c)
       PROVE  Contract!Ask(c) \/ Contract!Refuse(c) \/ Contract!Reply(c) \/ Contract!Lose(c)
              \/ UNCHANGED <<Progress, served, Answer>>
  BY <1>1, <1>2, <1>3, <1>4, <1>5, <1>6, <1>10 DEF Caller
<1> QED BY <1>7, <1>8, <1>9, <1>10 DEF Next, Process, Contract!Next

\* Over all its processes the bridge is one remote procedure call: a request is
\* executed at most once (served counts) and never after a refusal, and a call
\* returns only with the reply to this very request.
THEOREM Implements == Spec => ImplementsRpc
<1>1. Init => Contract!Init
  BY DEF Init, NotCalled, Progress, Answer, At, Contract!Init
<1> QED BY <1>1, InitInv, NextInv, NextContract, PTL DEF Spec, ImplementsRpc, Contract!Spec
=============================================================================
