------------------------ MODULE PtyLifecycleProofs ------------------------
(* The safety properties of PtyLifecycle, for every set of ids and callers *)
(* and every bound on generations and output.                              *)
EXTENDS PtyLifecycle, TLAPS

USE DEF childVars

-----------------------------------------------------------------------------
(* Type correctness *)

\* The initial state is well typed.
LEMMA InitType == Init => TypeOK
BY BoundsAssumption DEF Init, TypeOK, Entries, Absent, Calls, Idle, ThreadStates, StopPhases,
   Took, Ops, StartPcs

\* The entry and call values the actions write are legal ones.
LEMMA EntryTypes ==
    /\ Absent \in Entries
    /\ \A g \in Gens : StartingEntry(g) \in Entries /\ ActiveEntry(g) \in Entries
    /\ \A e \in Entries : e.gen \in Gens \cup {0}
                         /\ e.kind \in {"absent", "starting", "active"}
                         /\ (e.kind # "absent" => e.gen \in Gens)
                         /\ (e.kind = "absent" => e = Absent)
                         /\ (e.kind = "active" => e = ActiveEntry(e.gen))
                         /\ (e.kind = "starting" => e = StartingEntry(e.gen))
BY DEF Entries, Absent, StartingEntry, ActiveEntry

\* The call records the actions write.
LEMMA CallMade ==
    /\ Idle \in Calls
    /\ \A pc \in StartPcs \cup {"stopping"}, op \in Ops, i \in Ids, g \in Gens :
          [pc |-> pc, op |-> op, id |-> i, gen |-> g] \in Calls
    /\ \A i \in Ids : [pc |-> "reserve", op |-> "restart", id |-> i, gen |-> 0] \in Calls
BY DEF Calls

\* What a legal call record looks like in each of its states.
LEMMA CallParts ==
    \A r \in Calls :
        /\ r.pc \in StartPcs \cup {"stopping", "reserve", "idle"}
        /\ r.pc \in StartPcs \cup {"stopping"} => r.id \in Ids /\ r.gen \in Gens /\ r.op \in Ops
        /\ r.pc = "reserve" => r.id \in Ids /\ r.gen = 0
        /\ r.pc = "idle" => r = Idle /\ r.gen = 0
        /\ r.gen \in Gens \cup {0}
BY DEF Calls, Idle, StartPcs, Ops

\* Updates of a call that is starting a session.
LEMMA CallUpdates ==
    \A r \in Calls : r.pc \in StartPcs =>
        /\ \A pc \in StartPcs : [r EXCEPT !.pc = pc] \in Calls
        /\ [r EXCEPT !.op = "create", !.pc = "stopping"] \in Calls
<1> SUFFICES ASSUME NEW r \in Calls, r.pc \in StartPcs
             PROVE  /\ \A pc \in StartPcs : [r EXCEPT !.pc = pc] \in Calls
                    /\ [r EXCEPT !.op = "create", !.pc = "stopping"] \in Calls
  OBVIOUS
<1>1. r \in [pc : StartPcs \cup {"stopping"}, op : Ops, id : Ids, gen : Gens]
  BY DEF Calls, Idle, StartPcs
<1>2. \A pc \in StartPcs :
          [r EXCEPT !.pc = pc] \in [pc : StartPcs \cup {"stopping"}, op : Ops, id : Ids, gen : Gens]
  BY <1>1
<1>3. [r EXCEPT !.op = "create", !.pc = "stopping"]
          \in [pc : StartPcs \cup {"stopping"}, op : Ops, id : Ids, gen : Gens]
  BY <1>1 DEF Ops
<1> QED BY <1>2, <1>3 DEF Calls

\* One lemma per action whose new values take an argument to type.
LEMMA ReserveType ==
    ASSUME TypeOK, NEW c \in Callers, NEW i \in Ids, NEW op \in Ops, Reserve(c, i, op)
    PROVE  TypeOK'
<1>0. nextGen' \in 1 .. MaxGen + 1
  BY BoundsAssumption DEF Reserve, Gens
<1>1. CASE entry[i] = Absent
  <2>1. entry' \in [Ids -> Entries]
    BY <1>1, EntryTypes DEF TypeOK, Reserve
  <2>2. home' \in [Gens -> Ids \cup {NoId}]
    BY <1>1 DEF TypeOK, Reserve
  <2>3. call' \in [Callers -> Calls]
    BY <1>1, CallMade DEF TypeOK, Reserve, StartPcs
  <2> QED BY <1>0, <2>1, <2>2, <2>3 DEF TypeOK, Reserve, threadVars, stopVars, outVars
<1>2. CASE entry[i] # Absent
  <2>1. call' \in [Callers -> Calls]
    BY <1>2, CallMade DEF TypeOK, Reserve
  <2> QED BY <1>0, <1>2, <2>1 DEF TypeOK, Reserve, threadVars, stopVars, outVars
<1> QED BY <1>1, <1>2

\* Taking a session out of the map keeps the types.
LEMMA TakeType ==
    ASSUME TypeOK, NEW c \in Callers, NEW i \in Ids, NEW op \in Ops, Take(c, i, op)
    PROVE  TypeOK'
<1>1. entry' \in [Ids -> Entries]
  BY EntryTypes DEF TypeOK, Take
<1>2. CASE entry[i].kind = "active"
  <2>1. entry[i].gen \in Gens
    BY <1>2, EntryTypes DEF TypeOK
  <2>2. call' \in [Callers -> Calls]
    <3>1. \E m \in Calls : call' = [call EXCEPT ![c] = m]
      BY <1>2, <2>1, CallMade DEF Take
    <3> QED BY <3>1 DEF TypeOK
  <2>3. phase' \in [Gens -> {"none", "done"} \cup StopPhases] /\ UNCHANGED <<late, gaveUp>>
    BY <1>2, <2>1 DEF TypeOK, Take, BeginStop, StopPhases
  <2> QED BY <1>1, <2>2, <2>3 DEF TypeOK, Take, threadVars, outVars
<1>3. CASE entry[i].kind # "active"
  BY <1>1, <1>3 DEF TypeOK, Take, threadVars, stopVars, outVars
<1> QED BY <1>2, <1>3

\* So does the return of a shutdown.
LEMMA FinishStopType ==
    ASSUME TypeOK, NEW c \in Callers, FinishStop(c)
    PROVE  TypeOK'
<1>1. call[c].gen \in Gens /\ call[c].id \in Ids
  BY CallParts DEF TypeOK, FinishStop
<1>2. call' \in [Callers -> Calls]
  BY <1>1, CallMade DEF TypeOK, FinishStop
<1>3. exits' \in [Gens -> Nat]
  BY <1>1 DEF TypeOK, FinishStop
<1> QED BY <1>2, <1>3 DEF TypeOK, FinishStop, threadVars, stopVars, outVars

\* So does the watcher taking its session.
LEMMA WatchTakeType ==
    ASSUME TypeOK, NEW g \in Gens, WatchTake(g)
    PROVE  TypeOK'
<1>1. entry' \in [Ids -> Entries]
  BY EntryTypes DEF TypeOK, WatchTake
<1>2. watcher' \in [Gens -> {"none", "polling", "exited", "failed", "stopping", "done"} \cup Took]
  BY DEF TypeOK, WatchTake, Took
<1> QED BY <1>1, <1>2 DEF TypeOK, WatchTake, stopVars, outVars

\* So does announcing the exit.
LEMMA WatchAnnounceType ==
    ASSUME TypeOK, NEW g \in Gens, WatchAnnounce(g)
    PROVE  TypeOK'
<1>1. phase' \in [Gens -> {"none", "done"} \cup StopPhases]
  BY DEF TypeOK, WatchAnnounce, BeginStop, StopPhases
<1>2. watcher' \in [Gens -> {"none", "polling", "exited", "failed", "stopping", "done"} \cup Took]
  BY DEF TypeOK, WatchAnnounce, Took
<1>3. exits' \in [Gens -> Nat]
  BY DEF TypeOK, WatchAnnounce
<1> QED BY <1>1, <1>2, <1>3 DEF TypeOK, WatchAnnounce, BeginStop, hostVars, outVars

\* So does a flush, which never takes more than is buffered.
LEMMA FlushType ==
    ASSUME TypeOK, NEW g \in Gens, Flush(g)
    PROVE  TypeOK'
<1>1. PICK n \in 1 .. buffered[g] :
        /\ buffered' = [buffered EXCEPT ![g] = @ - n]
        /\ IF entry[home[g]] = ActiveEntry(g)
           THEN inflight' = [inflight EXCEPT ![g] = n] /\ UNCHANGED dropped
           ELSE dropped' = [dropped EXCEPT ![g] = @ + n] /\ UNCHANGED inflight
  BY DEF Flush
<1>2. n \in Nat /\ buffered[g] \in Nat /\ dropped[g] \in Nat /\ n <= buffered[g]
  BY DEF TypeOK
<1>3. buffered' \in [Gens -> Nat]
  BY <1>1, <1>2 DEF TypeOK
<1>4. inflight' \in [Gens -> Nat] /\ dropped' \in [Gens -> Nat]
  BY <1>1, <1>2 DEF TypeOK
<1> QED BY <1>3, <1>4 DEF TypeOK, Flush, hostVars, threadVars, stopVars

\* So does a write within the bound.
LEMMA ChildWritesType ==
    ASSUME TypeOK, NEW g \in Gens, ChildWrites(g)
    PROVE  TypeOK'
<1>1. written[g] \in 0 .. MaxChunks /\ written[g] + 1 \in 0 .. MaxChunks
  BY BoundsAssumption DEF TypeOK, ChildWrites
<1>2. written' \in [Gens -> 0 .. MaxChunks]
  BY <1>1 DEF TypeOK, ChildWrites
<1>3. pipe' \in [Gens -> Nat]
  BY DEF TypeOK, ChildWrites
<1> QED BY <1>2, <1>3 DEF TypeOK, ChildWrites, hostVars, threadVars, stopVars

\* Every step keeps the types.
LEMMA TypeStep == TypeOK /\ [Next]_vars => TypeOK'
<1> SUFFICES ASSUME TypeOK, [Next]_vars PROVE TypeOK'
  OBVIOUS
<1> USE DEF TypeOK, hostVars, threadVars, stopVars, outVars
<1>1. CASE UNCHANGED vars
  BY <1>1 DEF vars
<1>2. ASSUME NEW c \in Callers, NEW i \in Ids, Create(c, i) PROVE TypeOK'
  BY <1>2, ReserveType DEF Create, Ops
<1>3. ASSUME NEW c \in Callers, NEW i \in Ids, Kill(c, i) PROVE TypeOK'
  BY <1>3, TakeType DEF Kill, Ops
<1>4. ASSUME NEW c \in Callers, NEW i \in Ids, KillWithExit(c, i) PROVE TypeOK'
  BY <1>4, TakeType DEF KillWithExit, Ops
<1>5. ASSUME NEW c \in Callers, NEW i \in Ids, Restart(c, i) PROVE TypeOK'
  BY <1>5, TakeType DEF Restart, Ops
<1>6. ASSUME NEW c \in Callers, OpenFails(c) PROVE TypeOK'
  BY <1>6, EntryTypes, CallMade, CallParts, CallUpdates, call[c] \in Calls DEF OpenFails, Unreserve, StartPcs
<1>7. ASSUME NEW c \in Callers, Spawn(c) PROVE TypeOK'
  BY <1>7, EntryTypes, CallMade, CallParts, CallUpdates, call[c] \in Calls DEF Spawn, StartPcs
<1>8. ASSUME NEW c \in Callers, WireFails(c) PROVE TypeOK'
  <2>1. call[c].gen \in Gens
    BY <1>8, CallParts, call[c] \in Calls DEF WireFails, StartPcs
  <2>2. unwired' \subseteq Gens /\ writer' \in [Gens -> ThreadStates]
    BY <1>8, <2>1 DEF WireFails, ThreadStates
  <2> QED BY <1>8, <2>2, EntryTypes, CallMade DEF WireFails, Unreserve
<1>9. ASSUME NEW c \in Callers, Wire(c) PROVE TypeOK'
  BY <1>9, EntryTypes, CallMade, CallParts, CallUpdates, call[c] \in Calls DEF Wire, ThreadStates, StartPcs
<1>10. ASSUME NEW c \in Callers, Commit(c) PROVE TypeOK'
  BY <1>10, EntryTypes, CallMade, CallParts, CallUpdates, call[c] \in Calls DEF Commit, ThreadStates, StartPcs
<1>11. ASSUME NEW c \in Callers, CancelStart(c) PROVE TypeOK'
  <2>1. call[c].gen \in Gens /\ call[c].id \in Ids
    BY <1>11, CallParts, CallMade, call[c] \in Calls DEF CancelStart, StartPcs
  <2>2. call' \in [Callers -> Calls]
    BY <1>11, CallParts, CallUpdates, call[c] \in Calls DEF CancelStart
  <2> DEFINE g == call[c].gen
  <2>3. reader' = [reader EXCEPT ![g] = "done"] /\ watcher' = [watcher EXCEPT ![g] = "done"]
        /\ BeginStop(g, TRUE, FALSE)
        /\ UNCHANGED <<entry, nextGen, home, child, unwired, writer, coalescer, exits, outVars>>
    BY <1>11 DEF CancelStart
  <2> HIDE DEF g
  <2>4. g \in Gens
    BY <2>1 DEF g
  <2>5. /\ reader' \in [Gens -> ThreadStates]
        /\ watcher' \in [Gens -> {"none", "polling", "exited", "failed", "stopping", "done"} \cup Took]
    BY <2>3, <2>4 DEF ThreadStates
  <2>6. phase' \in [Gens -> {"none", "done"} \cup StopPhases] /\ UNCHANGED <<late, gaveUp>>
    BY <2>3, <2>4 DEF BeginStop, StopPhases
  <2> QED BY <2>2, <2>3, <2>5, <2>6
<1>12. ASSUME NEW c \in Callers, RestartReserve(c) PROVE TypeOK'
  BY <1>12, ReserveType, CallParts, call[c] \in Calls DEF RestartReserve, Ops
<1>13. ASSUME NEW c \in Callers, FinishStop(c) PROVE TypeOK'
  BY <1>13, FinishStopType
<1>14. ASSUME NEW g \in Gens, Deadline(g) PROVE TypeOK'
  BY <1>14, EntryTypes DEF Deadline
<1>15. ASSUME NEW g \in Gens, AwaitWatcher(g) PROVE TypeOK'
  BY <1>15, EntryTypes DEF AwaitWatcher, Await, StopPhases
<1>16. ASSUME NEW g \in Gens, KillChild(g) PROVE TypeOK'
  BY <1>16, EntryTypes DEF KillChild, StopPhases
<1>17. ASSUME NEW g \in Gens, AwaitChild(g) PROVE TypeOK'
  BY <1>17, EntryTypes DEF AwaitChild, StopPhases
<1>18. ASSUME NEW g \in Gens, AwaitWriter(g) PROVE TypeOK'
  BY <1>18, EntryTypes DEF AwaitWriter, Await, StopPhases
<1>19. ASSUME NEW g \in Gens, AwaitReader(g) PROVE TypeOK'
  BY <1>19, EntryTypes DEF AwaitReader, Await, StopPhases
<1>20. ASSUME NEW g \in Gens, AwaitOutput(g) PROVE TypeOK'
  BY <1>20, EntryTypes DEF AwaitOutput, Await, StopPhases
<1>21. ASSUME NEW g \in Gens, AwaitChildFails(g) PROVE TypeOK'
  BY <1>21, EntryTypes DEF AwaitChildFails, StopPhases
<1>22. ASSUME NEW g \in Gens, WatchPoll(g) PROVE TypeOK'
  BY <1>22, EntryTypes DEF WatchPoll
<1>23. ASSUME NEW g \in Gens, WatchTake(g) PROVE TypeOK'
  BY <1>23, WatchTakeType
<1>24. ASSUME NEW g \in Gens, WatchAnnounce(g) PROVE TypeOK'
  BY <1>24, WatchAnnounceType
<1>25. ASSUME NEW g \in Gens, WatchFinish(g) PROVE TypeOK'
  BY <1>25, EntryTypes DEF WatchFinish
<1>26. ASSUME NEW g \in Gens, WatchFails(g) PROVE TypeOK'
  BY <1>26, EntryTypes DEF WatchFails
<1>27. ASSUME NEW g \in Gens, ReaderReads(g) PROVE TypeOK'
  BY <1>27, EntryTypes DEF ReaderReads
<1>28. ASSUME NEW g \in Gens, ReaderEnds(g) PROVE TypeOK'
  BY <1>28, EntryTypes DEF ReaderEnds, ThreadStates
<1>29. ASSUME NEW g \in Gens, Flush(g) PROVE TypeOK'
  BY <1>29, FlushType
<1>30. ASSUME NEW g \in Gens, Publish(g) PROVE TypeOK'
  BY <1>30, EntryTypes DEF Publish
<1>31. ASSUME NEW g \in Gens, CoalescerEnds(g) PROVE TypeOK'
  BY <1>31, EntryTypes DEF CoalescerEnds, ThreadStates
<1>32. ASSUME NEW g \in Gens, WriterEnds(g) PROVE TypeOK'
  BY <1>32, EntryTypes DEF WriterEnds, ThreadStates
<1>33. ASSUME NEW g \in Gens, ChildExits(g) PROVE TypeOK'
  BY <1>33, EntryTypes DEF ChildExits
<1>34. ASSUME NEW g \in Gens, ChildWrites(g) PROVE TypeOK'
  BY <1>34, ChildWritesType
<1> QED
  BY <1>1, <1>2, <1>3, <1>4, <1>5, <1>6, <1>7, <1>8, <1>9, <1>10, <1>11, <1>12, <1>13, <1>14,
     <1>15, <1>16, <1>17, <1>18, <1>19, <1>20, <1>21, <1>22, <1>23, <1>24, <1>25, <1>26, <1>27,
     <1>28, <1>29, <1>30, <1>31, <1>32, <1>33, <1>34
     DEF Next, CallerStep, GenStep, StartStep, StopStep, WatcherStep, OutputStep

\* Every variable keeps its type whatever the callers, the threads and the
\* children do.
THEOREM TypeCorrect == Spec => []TypeOK
BY InitType, TypeStep, PTL DEF Spec

---------------------------------------------------------------------------
(* The inductive invariant *)

Live == {"running", "killed"}
Closing == {"writer", "reader", "output", "done"}

\* Generations not handed out yet have not been touched.
FreshInv ==
    /\ \A i \in Ids : entry[i].gen < nextGen
    /\ \A c \in Callers : call[c].gen < nextGen
    /\ \A g \in Gens : g >= nextGen =>
          /\ child[g] = "none" /\ reader[g] = "none" /\ watcher[g] = "none"
          /\ phase[g] = "none" /\ exits[g] = 0

\* Whoever names a generation knows the id it was started for, and so does its
\* watcher.
HomeInv ==
    /\ \A i \in Ids : entry[i] # Absent => home[entry[i].gen] = i
    /\ \A c \in Callers : call[c].gen # 0 => home[call[c].gen] = call[c].id
    /\ \A g \in Gens : watcher[g] # "none" => home[g] \in Ids

\* While a command starts a generation nothing else has touched it.
StartInv ==
    \A c \in Callers : call[c].pc \in StartPcs =>
        LET g == call[c].gen IN
        /\ reader[g] = "none" /\ watcher[g] = "none"
        /\ phase[g] = "none" /\ exits[g] = 0
        /\ child[g] # "killed"
        /\ call[c].pc = "opening" => child[g] = "none"

\* A generation in the map is watched, and neither stopping nor announced.
MapInv ==
    \A i \in Ids : entry[i].kind = "active" =>
        LET g == entry[i].gen IN
        /\ watcher[g] \in {"polling", "exited", "failed"}
        /\ reader[g] # "none" /\ phase[g] = "none" /\ exits[g] = 0

\* One command at most deals with a generation, and if it stops it, the
\* generation's watcher does not.
CallerInv ==
    /\ \A c, d \in Callers : call[c].gen # 0 /\ call[c].gen = call[d].gen => c = d
    /\ \A c \in Callers : call[c].pc = "stopping" =>
          LET g == call[c].gen IN
          /\ phase[g] # "none" /\ exits[g] = 0
          /\ watcher[g] \notin Took \cup {"stopping"}

\* A watcher that took its session out of the map is alone with it.
TookInv ==
    \A g \in Gens : watcher[g] \in Took \cup {"stopping"} =>
        /\ \A c \in Callers : call[c].gen # g
        /\ watcher[g] \in Took => phase[g] = "none" /\ exits[g] = 0

\* What is known of the child where the shutdown no longer looks at it.
ChildInv ==
    \A g \in Gens :
        /\ watcher[g] \in {"exited", "tookExited"} => child[g] = "exited"
        /\ phase[g] \in Closing /\ child[g] \in Live => gaveUp[g]

AnnounceInv == \A g \in Gens : exits[g] <= 1

Inv == /\ TypeOK /\ FreshInv /\ HomeInv /\ StartInv /\ MapInv /\ CallerInv
       /\ TookInv /\ ChildInv /\ AnnounceInv /\ NoLeakedChild

\* Generations are positive numbers; 0 stands for none.
LEMMA GensNat == \A g \in Gens : g \in Nat /\ g # 0
BY BoundsAssumption DEF Gens

\* What the types say of the entries and the calls of a state.
LEMMA EntryFacts ==
    ASSUME TypeOK, NEW i \in Ids
    PROVE  /\ entry[i].gen \in Nat
           /\ entry[i] # Absent => entry[i].gen \in Gens
           /\ entry[i].kind = "active" <=> entry[i] = ActiveEntry(entry[i].gen)
           /\ entry[i].kind = "active" => entry[i] # Absent
<1>1. entry[i] \in Entries
  BY DEF TypeOK
<1>2. \A g \in Gens : g \in Nat
  BY GensNat
<1> QED BY <1>1, <1>2 DEF Entries, Absent, ActiveEntry

\* The same for the calls.
LEMMA CallFacts ==
    ASSUME TypeOK, NEW c \in Callers
    PROVE  /\ call[c].gen \in Nat
           /\ call[c].gen # 0 <=> call[c].gen \in Gens
           /\ call[c].pc \in StartPcs \cup {"stopping"} =>
                 call[c].gen \in Gens /\ call[c].id \in Ids
           /\ call[c].pc \in {"idle", "reserve"} => call[c].gen = 0
<1>1. call[c] \in Calls
  BY DEF TypeOK
<1>2. call[c].gen \in Gens \cup {0}
  BY <1>1, CallParts
<1>3. \A g \in Gens : g \in Nat /\ g # 0
  BY GensNat
<1>4. /\ call[c].pc \in StartPcs \cup {"stopping"} =>
            call[c].gen \in Gens /\ call[c].id \in Ids
      /\ call[c].pc \in {"idle", "reserve"} => call[c].gen = 0
  BY <1>1, CallParts
<1> QED BY <1>2, <1>3, <1>4

---------------------------------------------------------------------------
(* Every action preserves it *)

\* Reserving uses a generation nothing refers to yet.
LEMMA ReserveInv ==
    ASSUME Inv, TypeOK', NEW c \in Callers, NEW i \in Ids, NEW op \in Ops,
           call[c].pc \in {"idle", "reserve"}, Reserve(c, i, op)
    PROVE  Inv'
<1> USE DEF hostVars, threadVars, stopVars, outVars
<1>1. /\ nextGen \in Gens /\ nextGen \in Nat /\ nextGen' = nextGen + 1
      /\ call[c].gen = 0
      /\ \A g \in Gens : g \in Nat /\ g # 0
  BY CallFacts, GensNat DEF Reserve, Inv
<1>2. /\ child[nextGen] = "none" /\ reader[nextGen] = "none" /\ watcher[nextGen] = "none"
      /\ phase[nextGen] = "none" /\ exits[nextGen] = 0
  BY <1>1 DEF Inv, FreshInv
<1>3. /\ \A j \in Ids : entry[j].gen \in Nat /\ entry[j].gen # nextGen /\ entry[j].gen < nextGen + 1
      /\ \A d \in Callers : call[d].gen \in Nat /\ call[d].gen # nextGen /\ call[d].gen < nextGen + 1
  <2>1. /\ \A j \in Ids : entry[j].gen \in Nat
        /\ \A d \in Callers : call[d].gen \in Nat
    BY EntryFacts, CallFacts DEF Inv
  <2> QED BY <1>1, <2>1 DEF Inv, FreshInv
<1>4. UNCHANGED <<child, reader, watcher, phase, exits, gaveUp>>
  BY DEF Reserve
<1>5. CASE entry[i] = Absent
  <2>1. /\ \A j \in Ids : entry'[j] = IF j = i THEN StartingEntry(nextGen) ELSE entry[j]
        /\ \A g \in Gens : home'[g] = IF g = nextGen THEN i ELSE home[g]
        /\ \A d \in Callers :
              call'[d] = IF d = c THEN [pc |-> "opening", op |-> op, id |-> i, gen |-> nextGen]
                                  ELSE call[d]
    BY <1>1, <1>5 DEF Reserve, Inv, TypeOK
  <2>2. StartingEntry(nextGen).gen = nextGen /\ StartingEntry(nextGen).kind = "starting"
    BY DEF StartingEntry
  <2>3. FreshInv'
    BY <1>1, <1>3, <1>4, <2>1, <2>2 DEF Inv, FreshInv
  <2>4. HomeInv'
    BY <1>1, <1>3, <1>4, <2>1, <2>2, EntryFacts, CallFacts DEF Inv, HomeInv
  <2>5. StartInv'
    BY <1>2, <1>3, <1>4, <2>1 DEF Inv, StartInv, StartPcs
  <2>6. MapInv'
    BY <1>4, <2>1, <2>2 DEF Inv, MapInv
  <2>7. CallerInv'
    BY <1>3, <1>4, <2>1 DEF Inv, CallerInv
  <2>8. TookInv'
    BY <1>2, <1>4, <2>1 DEF Inv, TookInv, Took
  <2>9. ChildInv' /\ AnnounceInv'
    BY <1>4 DEF Inv, ChildInv, AnnounceInv
  <2>10. NoLeakedChild'
    <3>1. \A g \in Gens : Stopping(g) => Stopping(g)'
      BY <1>4 DEF Stopping
    <3>2. \A g \in Gens : Starting(g) => Starting(g)'
      BY <1>1, <2>1 DEF Starting, StartPcs
    <3>3. \A g \in Gens : InMap(g) => InMap(g)'
      BY <1>5, <2>1 DEF InMap, ActiveEntry, Absent
    <3> QED BY <1>4, <3>1, <3>2, <3>3 DEF Inv, NoLeakedChild, Reserve
  <2> QED BY <2>3, <2>4, <2>5, <2>6, <2>7, <2>8, <2>9, <2>10 DEF Inv
<1>6. CASE entry[i] # Absent
  <2>1. /\ UNCHANGED <<entry, home>>
        /\ \A d \in Callers : call'[d] = IF d = c THEN Idle ELSE call[d]
    BY <1>6 DEF Reserve, Inv, TypeOK
  <2>2. Idle.gen = 0 /\ Idle.pc = "idle"
    BY DEF Idle
  <2>3. FreshInv'
    BY <1>1, <1>3, <1>4, <2>1, <2>2 DEF Inv, FreshInv
  <2>4. HomeInv' /\ MapInv' /\ ChildInv' /\ AnnounceInv'
    BY <1>4, <2>1, <2>2 DEF Inv, HomeInv, MapInv, ChildInv, AnnounceInv
  <2>5. StartInv'
    BY <1>4, <2>1, <2>2 DEF Inv, StartInv, StartPcs
  <2>8. TookInv'
    BY <1>1, <1>4, <2>1, <2>2 DEF Inv, TookInv
  <2>7. CallerInv'
    BY <1>1, <1>4, <2>1, <2>2 DEF Inv, CallerInv
  <2>6. NoLeakedChild'
    <3>1. \A g \in Gens : Stopping(g) => Stopping(g)'
      BY <1>4 DEF Stopping
    <3>2. \A g \in Gens : Starting(g) => Starting(g)'
      BY <1>1, <2>1 DEF Starting, StartPcs
    <3>3. \A g \in Gens : InMap(g) => InMap(g)'
      BY <2>1 DEF InMap
    <3> QED BY <1>4, <3>1, <3>2, <3>3 DEF Inv, NoLeakedChild, Reserve
  <2> QED BY <2>3, <2>4, <2>5, <2>6, <2>7, <2>8 DEF Inv
<1> QED BY <1>5, <1>6

\* A start that failed before it spawned leaves nothing behind.
LEMMA OpenFailsInv ==
    ASSUME Inv, TypeOK', NEW c \in Callers, OpenFails(c)
    PROVE  Inv'
<1> USE DEF hostVars, threadVars, stopVars, outVars
<1>1. FreshInv' /\ HomeInv'
  BY EntryFacts, CallFacts DEF Inv, TypeOK, FreshInv, HomeInv, OpenFails, Unreserve, Absent, Idle
<1>2. StartInv'
  BY DEF Inv, TypeOK, StartInv, OpenFails, Unreserve, Idle, StartPcs
<1>5. CallerInv'
  BY DEF Inv, TypeOK, CallerInv, OpenFails, Unreserve, Idle
<1>6. TookInv'
  BY CallFacts, GensNat DEF Inv, TypeOK, TookInv, OpenFails, Unreserve, Idle
<1>3. MapInv' /\ ChildInv' /\ AnnounceInv'
  BY DEF Inv, TypeOK, MapInv, ChildInv, AnnounceInv, OpenFails, Unreserve, Absent
<1>4. NoLeakedChild'
  <2>1. \A h \in Gens : Stopping(h) => Stopping(h)'
    BY DEF OpenFails, Stopping
  <2>2. \A h \in Gens : h # call[c].gen /\ Starting(h) => Starting(h)'
    BY DEF Inv, TypeOK, OpenFails, Unreserve, Starting
  <2>3. \A h \in Gens : InMap(h) => InMap(h)'
    BY DEF Inv, TypeOK, OpenFails, Unreserve, InMap, ActiveEntry, StartingEntry
  <2>4. child[call[c].gen] = "none" /\ UNCHANGED <<child, phase, gaveUp>>
    BY DEF Inv, StartInv, OpenFails, StartPcs
  <2> QED BY <2>1, <2>2, <2>3, <2>4 DEF Inv, NoLeakedChild, OpenFails
<1> QED BY <1>1, <1>2, <1>3, <1>4, <1>5, <1>6 DEF Inv, OpenFails

\* The new child belongs to the command that spawned it.
LEMMA SpawnInv ==
    ASSUME Inv, TypeOK', NEW c \in Callers, Spawn(c)
    PROVE  Inv'
<1> USE DEF hostVars, threadVars, stopVars, outVars
<1>1. call[c].gen \in Gens /\ call[c].gen # 0
  BY CallFacts DEF Spawn, Inv, StartPcs
<1>2. /\ child[call[c].gen] = "none" /\ watcher[call[c].gen] = "none"
      /\ phase[call[c].gen] = "none"
  BY DEF Spawn, Inv, StartInv, StartPcs
<1>3. FreshInv' /\ HomeInv'
  BY CallFacts, GensNat DEF Inv, TypeOK, FreshInv, HomeInv, Spawn
<1>4. \A h \in Gens : child'[h] = IF h = call[c].gen THEN "running" ELSE child[h]
  BY DEF Spawn, Inv, TypeOK
<1>5. /\ \A d \in Callers : call'[d].gen = call[d].gen
      /\ \A d \in Callers : call'[d].pc = IF d = c THEN "spawned" ELSE call[d].pc
  BY CallParts DEF Spawn, Inv, TypeOK
<1>6. StartInv'
  <2>1. \A d \in Callers : d # c => call[d].gen # call[c].gen
    BY <1>1 DEF Inv, CallerInv
  <2>2. ASSUME NEW d \in Callers, call'[d].pc \in StartPcs
        PROVE  /\ child'[call[d].gen] # "killed"
               /\ call'[d].pc = "opening" => child'[call[d].gen] = "none"
    <3>1. call[d].pc \in StartPcs /\ call[d].gen \in Gens
      BY <1>5, <2>2, CallFacts DEF Inv, Spawn, StartPcs
    <3> QED BY <1>4, <1>5, <2>1, <3>1 DEF Inv, StartInv
  <2>3. \A d \in Callers : call'[d].pc \in StartPcs => call[d].pc \in StartPcs
    BY <1>5 DEF Spawn, StartPcs
  <2> QED BY <1>5, <2>2, <2>3 DEF Inv, StartInv, Spawn
<1>7. MapInv' /\ AnnounceInv'
  BY DEF Inv, MapInv, AnnounceInv, Spawn
<1>8. CallerInv' /\ TookInv'
  BY <1>5 DEF Inv, CallerInv, TookInv, Spawn
<1>9. ChildInv'
  BY <1>2, <1>4 DEF Inv, ChildInv, Spawn, Closing
<1>10. NoLeakedChild'
  BY <1>1, <1>4, <1>5 DEF Inv, NoLeakedChild, Starting, InMap, Stopping, Spawn, StartPcs
<1> QED BY <1>3, <1>6, <1>7, <1>8, <1>9, <1>10 DEF Inv

\* A start that failed after it spawned gives its child up.
LEMMA WireFailsInv ==
    ASSUME Inv, TypeOK', NEW c \in Callers, WireFails(c)
    PROVE  Inv'
<1> USE DEF hostVars, threadVars, stopVars, outVars
<1>1. FreshInv' /\ HomeInv'
  BY EntryFacts, CallFacts DEF Inv, TypeOK, FreshInv, HomeInv, WireFails, Unreserve, Absent, Idle
<1>2. StartInv'
  BY DEF Inv, TypeOK, StartInv, WireFails, Unreserve, Idle, StartPcs
<1>3. MapInv' /\ AnnounceInv'
  BY DEF Inv, TypeOK, MapInv, AnnounceInv, WireFails, Unreserve, Absent
<1>6. CallerInv'
  BY DEF Inv, TypeOK, CallerInv, WireFails, Unreserve, Idle
<1>7. TookInv'
  BY CallFacts, GensNat DEF Inv, TypeOK, TookInv, WireFails, Unreserve, Idle
<1>4. ChildInv'
  BY DEF Inv, TypeOK, ChildInv, WireFails, Live
<1>5. NoLeakedChild'
  <2>1. \A h \in Gens : Stopping(h) => Stopping(h)'
    BY DEF WireFails, Stopping
  <2>2. \A h \in Gens : h # call[c].gen /\ Starting(h) => Starting(h)'
    BY DEF Inv, TypeOK, WireFails, Unreserve, Starting
  <2>3. \A h \in Gens : InMap(h) => InMap(h)'
    BY DEF Inv, TypeOK, WireFails, Unreserve, InMap, ActiveEntry, StartingEntry
  <2> QED BY <2>1, <2>2, <2>3 DEF Inv, NoLeakedChild, WireFails
<1> QED BY <1>1, <1>2, <1>3, <1>4, <1>5, <1>6, <1>7 DEF Inv

\* Starting the input writer and the coalescer.
LEMMA WireInv ==
    ASSUME Inv, TypeOK', NEW c \in Callers, Wire(c)
    PROVE  Inv'
<1> USE DEF hostVars, threadVars, stopVars, outVars
<1>1. FreshInv' /\ HomeInv' /\ StartInv'
  BY DEF Inv, TypeOK, FreshInv, HomeInv, StartInv, Wire, StartPcs
<1>2. MapInv' /\ CallerInv' /\ TookInv' /\ ChildInv' /\ AnnounceInv'
  BY DEF Inv, TypeOK, MapInv, CallerInv, TookInv, ChildInv, AnnounceInv, Wire
<1>3. NoLeakedChild'
  BY DEF Inv, TypeOK, NoLeakedChild, Starting, InMap, Stopping, Wire, StartPcs
<1> QED BY <1>1, <1>2, <1>3 DEF Inv

\* The session passes from the starting command to the map.
LEMMA CommitInv ==
    ASSUME Inv, TypeOK', NEW c \in Callers, Commit(c)
    PROVE  Inv'
<1> USE DEF hostVars, threadVars, stopVars, outVars
<1> DEFINE i == call[c].id
           g == call[c].gen
<1>1. /\ call[c].pc \in StartPcs /\ g \in Gens /\ i \in Ids /\ g # 0
      /\ home[g] = i /\ phase[g] = "none" /\ exits[g] = 0
  BY CallFacts, GensNat DEF Commit, Inv, HomeInv, StartInv, StartPcs
<1>2. \A d \in Callers : d # c => call[d].gen # g
  BY <1>1 DEF Inv, CallerInv
<1>3. /\ \A j \in Ids : entry'[j] = IF j = i THEN ActiveEntry(g) ELSE entry[j]
      /\ \A d \in Callers : call'[d] = IF d = c THEN Idle ELSE call[d]
      /\ \A h \in Gens : watcher'[h] = IF h = g THEN "polling" ELSE watcher[h]
      /\ \A h \in Gens : reader'[h] = IF h = g THEN "running" ELSE reader[h]
      /\ UNCHANGED <<nextGen, home, child, phase, gaveUp, exits>>
  BY <1>1 DEF Commit, Inv, TypeOK
<1>4. ActiveEntry(g).gen = g /\ ActiveEntry(g).kind = "active" /\ Idle.gen = 0 /\ Idle.pc = "idle"
  BY DEF ActiveEntry, Idle
<1>5. FreshInv'
  <2>1. 0 < nextGen /\ g < nextGen
    BY <1>1, GensNat, CallFacts DEF Inv, TypeOK, FreshInv
  <2>2. \A h \in Gens : h >= nextGen => h # g
    BY <1>1, <2>1, GensNat DEF Inv, TypeOK
  <2> QED BY <1>1, <1>3, <1>4, <2>1, <2>2 DEF Inv, FreshInv
<1>6. HomeInv'
  BY <1>1, <1>3, <1>4 DEF Inv, HomeInv
<1>7. StartInv'
  <2>1. ASSUME NEW d \in Callers, call'[d].pc \in StartPcs
        PROVE  d # c /\ call'[d] = call[d] /\ call[d].gen # g /\ call[d].gen \in Gens
    BY <1>2, <1>3, <1>4, <2>1, CallFacts DEF Inv, StartPcs
  <2> QED BY <1>3, <2>1 DEF Inv, StartInv
<1>8. MapInv'
  <2>1. ASSUME NEW j \in Ids, entry'[j].kind = "active", j # i
        PROVE  entry'[j] = entry[j] /\ entry[j].gen # g /\ entry[j].gen \in Gens
    BY <1>1, <1>3, <2>1, EntryFacts DEF Inv, HomeInv
  <2> QED BY <1>1, <1>3, <1>4, <2>1 DEF Inv, MapInv
<1>9. CallerInv'
  <2>1. ASSUME NEW d \in Callers, call'[d].pc = "stopping"
        PROVE  d # c /\ call'[d] = call[d] /\ call[d].gen # g /\ call[d].gen \in Gens
    BY <1>2, <1>3, <1>4, <2>1, CallFacts DEF Inv
  <2>2. \A d, e \in Callers : call'[d].gen # 0 /\ call'[d].gen = call'[e].gen => d = e
    BY <1>3, <1>4 DEF Inv, CallerInv
  <2> QED BY <1>3, <2>1, <2>2 DEF Inv, CallerInv
<1>10. TookInv' /\ ChildInv' /\ AnnounceInv'
  BY <1>1, <1>3, <1>4, GensNat DEF Inv, TookInv, ChildInv, AnnounceInv, Took
<1>11. NoLeakedChild'
  <2>1. \A h \in Gens : Stopping(h) => Stopping(h)'
    <3>1. watcher[g] = "none"
      BY <1>1 DEF Inv, StartInv
    <3> QED BY <1>3, <3>1 DEF Stopping, Took
  <2>2. \A h \in Gens : h # g /\ Starting(h) => Starting(h)'
    BY <1>3 DEF Starting
  <2>3. \A h \in Gens : InMap(h) => InMap(h)'
    BY <1>3 DEF InMap, Commit, ActiveEntry, StartingEntry
  <2>4. \A h \in Gens : h = g => InMap(h)'
    BY <1>1, <1>3 DEF InMap
  <2> QED BY <1>3, <2>1, <2>2, <2>3, <2>4 DEF Inv, NoLeakedChild, Commit
<1> QED BY <1>5, <1>6, <1>7, <1>8, <1>9, <1>10, <1>11 DEF Inv

\* The session passes from the starting command to a shutdown.
LEMMA CancelStartInv ==
    ASSUME Inv, TypeOK', NEW c \in Callers, CancelStart(c)
    PROVE  Inv'
<1> USE DEF hostVars, threadVars, stopVars, outVars
<1> DEFINE g == call[c].gen
<1>1. /\ call[c].pc \in StartPcs /\ g \in Gens /\ g # 0
      /\ watcher[g] = "none" /\ exits[g] = 0 /\ home[g] \in Ids
  BY CallFacts, GensNat DEF CancelStart, Inv, HomeInv, StartInv, StartPcs
<1>2. \A d \in Callers : d # c => call[d].gen # g
  BY <1>1 DEF Inv, CallerInv
<1>3. /\ \A d \in Callers : call'[d].gen = call[d].gen /\ call'[d].id = call[d].id
      /\ \A d \in Callers : call'[d].pc = IF d = c THEN "stopping" ELSE call[d].pc
  BY CallParts DEF CancelStart, Inv, TypeOK
<1>4. /\ \A h \in Gens : watcher'[h] = IF h = g THEN "done" ELSE watcher[h]
      /\ \A h \in Gens : reader'[h] = IF h = g THEN "done" ELSE reader[h]
      /\ \A h \in Gens : phase'[h] = IF h = g THEN "kill" ELSE phase[h]
      /\ UNCHANGED <<entry, nextGen, home, child, gaveUp, exits>>
  BY DEF CancelStart, BeginStop, Inv, TypeOK
<1>5. \A j \in Ids : entry[j].kind = "active" => entry[j].gen # g /\ entry[j].gen \in Gens
  BY <1>1, EntryFacts DEF Inv, MapInv
<1>6. FreshInv'
  <2>1. g < nextGen
    BY DEF Inv, FreshInv
  <2>2. \A h \in Gens : h >= nextGen => h # g
    BY <1>1, <2>1, GensNat DEF Inv, TypeOK
  <2> QED BY <1>3, <1>4, <2>2 DEF Inv, FreshInv
<1>13. HomeInv'
  BY <1>1, <1>3, <1>4 DEF Inv, HomeInv
<1>7. StartInv'
  <2>1. ASSUME NEW d \in Callers, call'[d].pc \in StartPcs
        PROVE  d # c /\ call[d].pc = call'[d].pc /\ call[d].gen # g /\ call[d].gen \in Gens
    BY <1>2, <1>3, <2>1, CallFacts DEF Inv, StartPcs
  <2> QED BY <1>3, <1>4, <2>1 DEF Inv, StartInv
<1>8. MapInv'
  BY <1>4, <1>5 DEF Inv, MapInv
<1>9. CallerInv'
  <2>1. ASSUME NEW d \in Callers, call'[d].pc = "stopping", d # c
        PROVE  call[d].pc = "stopping" /\ call[d].gen # g /\ call[d].gen \in Gens
    BY <1>2, <1>3, <2>1, CallFacts DEF Inv
  <2> QED BY <1>1, <1>3, <1>4, <2>1 DEF Inv, CallerInv, Took
<1>10. TookInv' /\ AnnounceInv'
  BY <1>3, <1>4 DEF Inv, TookInv, AnnounceInv, Took
<1>11. ChildInv'
  BY <1>4 DEF Inv, ChildInv, Closing
<1>12. NoLeakedChild'
  <2>1. \A h \in Gens : h = g \/ Stopping(h) => Stopping(h)'
    BY <1>1, <1>4 DEF Stopping, StopPhases, Took
  <2>2. \A h \in Gens : h # g /\ Starting(h) => Starting(h)'
    BY <1>3 DEF Starting
  <2> QED BY <1>4, <2>1, <2>2 DEF Inv, NoLeakedChild, InMap, CancelStart
<1> QED BY <1>6, <1>7, <1>8, <1>9, <1>10, <1>11, <1>12, <1>13 DEF Inv

\* The session passes from the map to a shutdown, or a reservation is cancelled.
LEMMA TakeInv ==
    ASSUME Inv, TypeOK', NEW c \in Callers, NEW i \in Ids, NEW op \in Ops, Take(c, i, op)
    PROVE  Inv'
<1> USE DEF hostVars, threadVars, stopVars, outVars
<1>1. /\ \A j \in Ids : entry'[j] = IF j = i THEN Absent ELSE entry[j]
      /\ call[c] = Idle
      /\ UNCHANGED <<nextGen, home, child, reader, watcher, gaveUp, exits>>
  BY DEF Take, BeginStop, Inv, TypeOK
<1>2. /\ Absent.gen = 0 /\ Absent.kind = "absent" /\ Idle.gen = 0
      /\ \A h : ActiveEntry(h).gen = h /\ ActiveEntry(h).kind = "active"
  BY DEF Absent, Idle, ActiveEntry
<1>3. CASE entry[i].kind # "active"
  <2>1. UNCHANGED <<call, phase>>
    BY <1>3 DEF Take
  <2>2. FreshInv'
    <3>1. 0 < nextGen
      BY <1>1, <1>2 DEF Inv, FreshInv
    <3> QED BY <1>1, <1>2, <2>1, <3>1 DEF Inv, FreshInv
  <2>6. HomeInv' /\ MapInv'
    BY <1>1, <1>2, <2>1 DEF Inv, HomeInv, MapInv
  <2>3. StartInv' /\ CallerInv' /\ TookInv' /\ ChildInv' /\ AnnounceInv'
    BY <1>1, <2>1 DEF Inv, StartInv, CallerInv, TookInv, ChildInv, AnnounceInv
  <2>4. \A h \in Gens : InMap(h) => InMap(h)'
    BY <1>1, <1>2, <1>3 DEF InMap
  <2>5. NoLeakedChild'
    BY <1>1, <2>1, <2>4 DEF Inv, NoLeakedChild, Starting, Stopping, Take
  <2> QED BY <2>2, <2>3, <2>5, <2>6 DEF Inv
<1>4. CASE entry[i].kind = "active"
  <2> DEFINE g == entry[i].gen
  <2>1. /\ g \in Gens /\ g # 0 /\ home[g] = i /\ phase[g] = "none" /\ exits[g] = 0
        /\ watcher[g] \in {"polling", "exited", "failed"}
    BY <1>4, EntryFacts, GensNat DEF Inv, MapInv, HomeInv
  <2>2. /\ \A d \in Callers : call'[d] = IF d = c THEN [pc |-> "stopping", op |-> op, id |-> i, gen |-> g]
                                                  ELSE call[d]
        /\ \A h \in Gens : phase'[h] = IF h = g THEN "exit" ELSE phase[h]
    BY <1>4 DEF Take, BeginStop, Inv, TypeOK
  <2>3. \A d \in Callers : call[d].gen # g
    <3>1. ASSUME NEW d \in Callers, call[d].gen = g PROVE FALSE
      <4>1. call[d].pc \in StartPcs \cup {"stopping"}
        BY <2>1, <3>1, CallFacts, CallParts DEF Inv, TypeOK
      <4>2. call[d].pc \notin StartPcs
        BY <2>1, <3>1 DEF Inv, StartInv
      <4>3. call[d].pc # "stopping"
        BY <2>1, <3>1 DEF Inv, CallerInv
      <4> QED BY <4>1, <4>2, <4>3
    <3> QED BY <3>1
  <2>4. \A j \in Ids : j # i /\ entry[j].kind = "active" => entry[j].gen # g /\ entry[j].gen \in Gens
    BY <2>1, EntryFacts DEF Inv, HomeInv
  <2>5. FreshInv'
    <3>1. 0 < nextGen /\ g < nextGen
      BY <1>1, <1>2 DEF Inv, FreshInv
    <3>2. \A h \in Gens : h >= nextGen => h # g
      BY <2>1, <3>1, GensNat DEF Inv, TypeOK
    <3> QED BY <1>1, <1>2, <2>2, <3>1, <3>2 DEF Inv, FreshInv
  <2>6. HomeInv'
    BY <1>1, <1>2, <2>1, <2>2 DEF Inv, HomeInv
  <2>7. StartInv'
    <3>1. ASSUME NEW d \in Callers, call'[d].pc \in StartPcs
          PROVE  call'[d] = call[d] /\ call[d].gen \in Gens /\ call[d].pc \in StartPcs
      BY <2>2, <3>1, CallFacts DEF Inv, StartPcs
    <3> QED BY <1>1, <2>2, <2>3, <3>1 DEF Inv, StartInv
  <2>8. MapInv'
    BY <1>1, <1>2, <2>2, <2>4 DEF Inv, MapInv
  <2>9. CallerInv'
    <3>1. \A d, e \in Callers : call'[d].gen # 0 /\ call'[d].gen = call'[e].gen => d = e
      BY <2>2, <2>3 DEF Inv, CallerInv
    <3>2. ASSUME NEW d \in Callers, d # c, call'[d].pc = "stopping"
          PROVE  call'[d] = call[d] /\ call[d].gen \in Gens
      BY <2>2, <3>2, CallFacts DEF Inv
    <3> QED BY <1>1, <2>1, <2>2, <2>3, <3>1, <3>2 DEF Inv, CallerInv, Took
  <2>10. TookInv'
    <3>1. \A h \in Gens : watcher[h] \in Took \cup {"stopping"} => h # g
      BY <2>1 DEF Took
    <3> QED BY <1>1, <2>2, <3>1 DEF Inv, TookInv
  <2>11. ChildInv' /\ AnnounceInv'
    BY <1>1, <2>2 DEF Inv, ChildInv, AnnounceInv, Closing
  <2>12. NoLeakedChild'
    <3>1. \A h \in Gens : h = g \/ Stopping(h) => Stopping(h)'
      BY <1>1, <2>1, <2>2 DEF Stopping, StopPhases
    <3>2. \A h \in Gens : Starting(h) => Starting(h)'
      BY <1>1, <2>2 DEF Starting, StartPcs, Idle
    <3>3. \A h \in Gens : h # g /\ InMap(h) => InMap(h)'
      BY <1>1, <1>2 DEF InMap
    <3> QED BY <1>1, <2>1, <2>2, <3>1, <3>2, <3>3 DEF Inv, NoLeakedChild, Take
  <2> QED BY <2>5, <2>6, <2>7, <2>8, <2>9, <2>10, <2>11, <2>12 DEF Inv
<1> QED BY <1>3, <1>4

\* The shutdown of a command is over.
LEMMA FinishStopInv ==
    ASSUME Inv, TypeOK', NEW c \in Callers, FinishStop(c)
    PROVE  Inv'
<1> USE DEF hostVars, threadVars, stopVars, outVars
<1>1. FreshInv' /\ HomeInv' /\ StartInv'
  BY CallFacts DEF Inv, TypeOK, FreshInv, HomeInv, StartInv, FinishStop, Idle, StartPcs
<1>2. MapInv'
  BY CallFacts DEF Inv, TypeOK, MapInv, FinishStop
<1>3. CallerInv'
  BY CallFacts DEF Inv, TypeOK, CallerInv, FinishStop, Idle
<1>4. TookInv'
  BY CallFacts, GensNat DEF Inv, TypeOK, TookInv, FinishStop, Idle
<1>5. AnnounceInv'
  <2>1. exits[call[c].gen] = 0
    BY DEF Inv, CallerInv, FinishStop
  <2>2. \A h \in Gens : exits'[h] = exits[h] \/ exits'[h] = 1
    BY <2>1 DEF Inv, TypeOK, FinishStop
  <2> QED BY <2>2 DEF Inv, AnnounceInv
<1>6. ChildInv'
  BY DEF Inv, ChildInv, FinishStop
<1>7. NoLeakedChild'
  BY DEF Inv, TypeOK, NoLeakedChild, Starting, InMap, Stopping, FinishStop, StartPcs
<1> QED BY <1>1, <1>2, <1>3, <1>4, <1>5, <1>6, <1>7 DEF Inv

\* The waits of a shutdown move its phase forward and touch nothing else.
LEMMA AwaitInv ==
    ASSUME Inv, TypeOK', NEW g \in Gens, NEW from, NEW thread, NEW to,
           Await(g, from, thread, to),
           \/ from = "exit" /\ to = "kill"
           \/ from = "writer" /\ to = "reader"
           \/ from = "reader" /\ to = "output"
           \/ from = "output" /\ to = "done"
    PROVE  Inv'
<1> USE DEF hostVars, threadVars, stopVars, outVars
<1>1. /\ \A h \in Gens : phase'[h] = IF h = g THEN to ELSE phase[h]
      /\ phase[g] = from /\ from # "none" /\ to # "none"
      /\ to \in Closing => from \in Closing
      /\ UNCHANGED <<entry, nextGen, call, home, child, reader, watcher, gaveUp, exits>>
  BY DEF Await, Inv, TypeOK, Closing
<1>2. FreshInv' /\ HomeInv' /\ StartInv' /\ AnnounceInv'
  BY <1>1, CallFacts DEF Inv, FreshInv, HomeInv, StartInv, AnnounceInv, StartPcs
<1>3. MapInv' /\ CallerInv' /\ TookInv' /\ ChildInv'
  BY <1>1, EntryFacts, CallFacts DEF Inv, MapInv, CallerInv, TookInv, ChildInv
<1>4. NoLeakedChild'
  <2>1. \A h \in Gens : h # g /\ Stopping(h) => Stopping(h)'
    BY <1>1 DEF Stopping
  <2>2. CASE to = "done"
    <3>1. child[g] \in {"running", "killed"} => gaveUp[g]
      BY <1>1, <2>2 DEF Inv, ChildInv, Closing, Live
    <3> QED BY <1>1, <2>1, <2>2, <3>1 DEF Inv, NoLeakedChild, Starting, InMap, Await
  <2>3. CASE to # "done"
    <3>1. Stopping(g)'
      BY <1>1, <2>3 DEF Stopping, StopPhases
    <3> QED BY <1>1, <2>1, <3>1 DEF Inv, NoLeakedChild, Starting, InMap, Await
  <2> QED BY <2>2, <2>3
<1> QED BY <1>2, <1>3, <1>4 DEF Inv

\* Killing changes only a child that runs.
LEMMA KillChildInv ==
    ASSUME Inv, TypeOK', NEW g \in Gens, KillChild(g)
    PROVE  Inv'
<1> USE DEF hostVars, threadVars, stopVars, outVars
<1>1. FreshInv' /\ HomeInv' /\ StartInv'
  BY CallFacts DEF Inv, TypeOK, FreshInv, HomeInv, StartInv, KillChild, StartPcs
<1>2. MapInv' /\ CallerInv' /\ TookInv' /\ AnnounceInv'
  BY DEF Inv, TypeOK, MapInv, CallerInv, TookInv, AnnounceInv, KillChild
<1>3. ChildInv'
  BY DEF Inv, TypeOK, ChildInv, KillChild, Closing, Live
<1>4. NoLeakedChild'
  BY DEF Inv, TypeOK, NoLeakedChild, Starting, InMap, Stopping, StopPhases, KillChild
<1> QED BY <1>1, <1>2, <1>3, <1>4 DEF Inv

\* Whether the child has gone or the wait for it is given up.
LEMMA AwaitChildInv ==
    ASSUME Inv, TypeOK', NEW g \in Gens, AwaitChild(g) \/ AwaitChildFails(g)
    PROVE  Inv'
<1> USE DEF hostVars, threadVars, stopVars, outVars
<1>1. /\ phase[g] = "child"
      /\ \A h \in Gens : phase'[h] = IF h = g THEN "writer" ELSE phase[h]
      /\ \A h \in Gens : h # g => gaveUp'[h] = gaveUp[h]
      /\ child[g] # "exited" => gaveUp'[g]
      /\ UNCHANGED <<entry, nextGen, call, home, child, reader, watcher, exits>>
  BY DEF AwaitChild, AwaitChildFails, Inv, TypeOK
<1>2. FreshInv' /\ HomeInv' /\ StartInv' /\ AnnounceInv'
  BY <1>1, CallFacts DEF Inv, FreshInv, HomeInv, StartInv, AnnounceInv, StartPcs
<1>3. MapInv' /\ CallerInv' /\ TookInv'
  BY <1>1, EntryFacts, CallFacts DEF Inv, MapInv, CallerInv, TookInv
<1>4. ChildInv'
  BY <1>1 DEF Inv, ChildInv, Live
<1>5. NoLeakedChild'
  BY <1>1 DEF Inv, NoLeakedChild, Starting, InMap, Stopping, StopPhases, AwaitChild, AwaitChildFails
<1> QED BY <1>2, <1>3, <1>4, <1>5 DEF Inv

\* The reader ends.
LEMMA ReaderEndsInv ==
    ASSUME Inv, TypeOK', NEW g \in Gens, ReaderEnds(g)
    PROVE  Inv'
<1> USE DEF hostVars, threadVars, stopVars, outVars
<1>1. FreshInv' /\ HomeInv' /\ StartInv' /\ MapInv'
  BY DEF Inv, TypeOK, FreshInv, HomeInv, StartInv, MapInv, ReaderEnds, StartPcs
<1>2. CallerInv' /\ TookInv' /\ ChildInv' /\ AnnounceInv'
  BY DEF Inv, CallerInv, TookInv, ChildInv, AnnounceInv, ReaderEnds
<1>3. NoLeakedChild'
  BY DEF Inv, NoLeakedChild, Starting, InMap, Stopping, ReaderEnds
<1> QED BY <1>1, <1>2, <1>3 DEF Inv

\* A child that exits needs nobody to answer for it.
LEMMA ChildExitsInv ==
    ASSUME Inv, TypeOK', NEW g \in Gens, ChildExits(g)
    PROVE  Inv'
<1> USE DEF hostVars, threadVars, stopVars, outVars
<1>1. FreshInv' /\ HomeInv' /\ StartInv'
  BY DEF Inv, TypeOK, FreshInv, HomeInv, StartInv, ChildExits
<1>2. MapInv' /\ CallerInv' /\ TookInv' /\ AnnounceInv'
  BY DEF Inv, MapInv, CallerInv, TookInv, AnnounceInv, ChildExits
<1>3. ChildInv'
  BY DEF Inv, TypeOK, ChildInv, ChildExits, Live
<1>4. NoLeakedChild'
  BY DEF Inv, TypeOK, NoLeakedChild, Starting, InMap, Stopping, ChildExits
<1> QED BY <1>1, <1>2, <1>3, <1>4 DEF Inv

\* A poll of the exit watcher only moves the watcher.
LEMMA WatchPollInv ==
    ASSUME Inv, TypeOK', NEW g \in Gens, WatchPoll(g) \/ WatchFails(g)
    PROVE  Inv'
<1> USE DEF hostVars, threadVars, stopVars, outVars
<1>1. /\ watcher[g] = "polling"
      /\ \A h \in Gens : h # g => watcher'[h] = watcher[h]
      /\ watcher'[g] \in {"polling", "exited", "failed", "done"}
      /\ watcher'[g] = "exited" => child[g] = "exited"
      /\ entry[home[g]] = ActiveEntry(g) => watcher'[g] # "done"
      /\ UNCHANGED <<entry, nextGen, call, home, child, reader, phase, gaveUp, exits>>
  BY DEF WatchPoll, WatchFails, Inv, TypeOK
<1>2. FreshInv' /\ HomeInv' /\ AnnounceInv'
  BY <1>1 DEF Inv, FreshInv, HomeInv, AnnounceInv
<1>3. StartInv'
  BY <1>1, CallFacts DEF Inv, StartInv
<1>4. MapInv'
  <2>1. ASSUME NEW j \in Ids, entry[j].kind = "active"
        PROVE  /\ entry[j].gen \in Gens
               /\ watcher'[entry[j].gen] \in {"polling", "exited", "failed"}
    <3>1. /\ entry[j] = ActiveEntry(entry[j].gen) /\ home[entry[j].gen] = j
          /\ entry[j].gen \in Gens
      BY <2>1, EntryFacts DEF Inv, HomeInv
    <3>2. watcher[entry[j].gen] \in {"polling", "exited", "failed"}
      BY <2>1 DEF Inv, MapInv
    <3> QED BY <1>1, <3>1, <3>2
  <2> QED BY <1>1, <2>1 DEF Inv, MapInv
<1>5. CallerInv' /\ TookInv'
  BY <1>1, CallFacts DEF Inv, CallerInv, TookInv, Took
<1>6. ChildInv'
  BY <1>1 DEF Inv, ChildInv
<1>7. NoLeakedChild'
  <2>1. \A h \in Gens : Stopping(h) => Stopping(h)'
    BY <1>1 DEF Stopping, Took
  <2> QED BY <1>1, <2>1 DEF Inv, NoLeakedChild, Starting, InMap, WatchPoll, WatchFails
<1> QED BY <1>2, <1>3, <1>4, <1>5, <1>6, <1>7 DEF Inv

\* The session passes from the map to its watcher.
LEMMA WatchTakeInv ==
    ASSUME Inv, TypeOK', NEW g \in Gens, WatchTake(g)
    PROVE  Inv'
<1> USE DEF hostVars, threadVars, stopVars, outVars
<1>1. /\ watcher[g] \in {"exited", "failed"}
      /\ UNCHANGED <<nextGen, call, home, child, reader, phase, gaveUp, exits>>
  BY DEF WatchTake
<1>2. /\ Absent.gen = 0 /\ Absent.kind = "absent"
      /\ \A h : ActiveEntry(h).gen = h /\ ActiveEntry(h).kind = "active"
  BY DEF Absent, ActiveEntry
<1>3. \A j \in Ids : entry[j].kind = "active" =>
          /\ entry[j].gen \in Gens /\ home[entry[j].gen] = j
          /\ entry[j] = ActiveEntry(entry[j].gen)
  BY EntryFacts DEF Inv, HomeInv
<1>4. CASE entry[home[g]] # ActiveEntry(g)
  <2>1. /\ entry' = entry
        /\ \A h \in Gens : watcher'[h] = IF h = g THEN "done" ELSE watcher[h]
    BY <1>4 DEF WatchTake, Inv, TypeOK
  <2>2. \A j \in Ids : entry[j].kind = "active" => entry[j].gen # g
    BY <1>3, <1>4
  <2>3. FreshInv' /\ HomeInv' /\ AnnounceInv'
    BY <1>1, <2>1 DEF Inv, FreshInv, HomeInv, AnnounceInv
  <2>4. StartInv'
    BY <1>1, <2>1, CallFacts DEF Inv, StartInv
  <2>5. MapInv'
    BY <1>1, <1>3, <2>1, <2>2 DEF Inv, MapInv
  <2>6. CallerInv' /\ TookInv'
    BY <1>1, <2>1, CallFacts DEF Inv, CallerInv, TookInv, Took
  <2>7. ChildInv'
    BY <1>1, <2>1 DEF Inv, ChildInv
  <2>8. NoLeakedChild'
    BY <1>1, <2>1 DEF Inv, NoLeakedChild, Starting, InMap, Stopping, Took, WatchTake
  <2> QED BY <2>3, <2>4, <2>5, <2>6, <2>7, <2>8 DEF Inv
<1>5. CASE entry[home[g]] = ActiveEntry(g) /\ home[g] \in Ids
  <2>1. /\ \A j \in Ids : entry'[j] = IF j = home[g] THEN Absent ELSE entry[j]
        /\ \A h \in Gens : h # g => watcher'[h] = watcher[h]
        /\ watcher'[g] = IF watcher[g] = "exited" THEN "tookExited" ELSE "tookFailed"
    BY <1>5 DEF WatchTake, Inv, TypeOK
  <2>2. \A j \in Ids : entry[j].kind = "active" /\ j # home[g] => entry[j].gen # g
    BY <1>3
  <2>3. phase[g] = "none" /\ exits[g] = 0 /\ g # 0
    BY <1>2, <1>5, GensNat DEF Inv, MapInv
  <2>4. \A d \in Callers : call[d].gen # g
    <3>1. ASSUME NEW d \in Callers, call[d].gen = g PROVE FALSE
      <4>1. call[d].pc \in StartPcs \cup {"stopping"}
        BY <2>3, <3>1, CallFacts, CallParts DEF Inv, TypeOK
      <4>2. call[d].pc \notin StartPcs
        BY <1>1, <3>1 DEF Inv, StartInv
      <4>3. call[d].pc # "stopping"
        BY <2>3, <3>1 DEF Inv, CallerInv
      <4> QED BY <4>1, <4>2, <4>3
    <3> QED BY <3>1
  <2>5. FreshInv'
    <3>1. 0 < nextGen
      BY <1>2, <1>5, GensNat DEF Inv, TypeOK, FreshInv
    <3>2. \A h \in Gens : h >= nextGen => h # g
      BY <1>1 DEF Inv, FreshInv
    <3> QED BY <1>1, <1>2, <2>1, <3>1, <3>2 DEF Inv, FreshInv
  <2>6. HomeInv' /\ AnnounceInv'
    BY <1>1, <1>2, <2>1 DEF Inv, HomeInv, AnnounceInv
  <2>7. StartInv'
    BY <1>1, <2>1, <2>4, CallFacts DEF Inv, StartInv
  <2>8. MapInv'
    BY <1>1, <1>2, <1>3, <2>1, <2>2 DEF Inv, MapInv
  <2>9. CallerInv'
    BY <1>1, <2>1, <2>4, CallFacts DEF Inv, CallerInv
  <2>10. TookInv'
    BY <1>1, <2>1, <2>3, <2>4 DEF Inv, TookInv
  <2>11. ChildInv'
    BY <1>1, <2>1 DEF Inv, ChildInv
  <2>12. NoLeakedChild'
    <3>1. \A h \in Gens : h = g \/ Stopping(h) => Stopping(h)'
      BY <1>1, <2>1 DEF Stopping, Took
    <3>2. \A h \in Gens : h # g /\ InMap(h) => InMap(h)'
      BY <1>2, <1>5, <2>1 DEF InMap
    <3> QED BY <1>1, <3>1, <3>2 DEF Inv, NoLeakedChild, Starting, WatchTake
  <2> QED BY <2>5, <2>6, <2>7, <2>8, <2>9, <2>10, <2>11, <2>12 DEF Inv
<1>6. home[g] \in Ids
  BY <1>1 DEF Inv, HomeInv
<1> QED BY <1>4, <1>5, <1>6

\* The watcher announces the exit and begins the shutdown.
LEMMA WatchAnnounceInv ==
    ASSUME Inv, TypeOK', NEW g \in Gens, WatchAnnounce(g)
    PROVE  Inv'
<1> USE DEF hostVars, threadVars, stopVars, outVars
<1>1. /\ watcher[g] \in Took /\ phase[g] = "none" /\ exits[g] = 0
      /\ \A d \in Callers : call[d].gen # g
  BY DEF WatchAnnounce, Inv, TookInv
<1>2. exits[g] + 1 = 1
  BY <1>1
<1>3. /\ \A h \in Gens : watcher'[h] = IF h = g THEN "stopping" ELSE watcher[h]
      /\ \A h \in Gens : exits'[h] = IF h = g THEN 1 ELSE exits[h]
      /\ \A h \in Gens : h # g => phase'[h] = phase[h]
      /\ phase'[g] = IF watcher[g] = "tookFailed" THEN "kill" ELSE "writer"
      /\ UNCHANGED <<entry, nextGen, call, home, child, reader, gaveUp>>
  BY <1>2 DEF WatchAnnounce, BeginStop, Inv, TypeOK
<1>4. FreshInv'
  <2>1. \A h \in Gens : h >= nextGen => h # g
    BY <1>1 DEF Inv, FreshInv, Took
  <2> QED BY <1>3, <2>1 DEF Inv, FreshInv
<1>5. HomeInv'
  BY <1>1, <1>3 DEF Inv, HomeInv, Took
<1>6. StartInv' /\ CallerInv'
  BY <1>1, <1>3, CallFacts DEF Inv, StartInv, CallerInv
<1>7. MapInv'
  <2>1. \A j \in Ids : entry[j].kind = "active" => entry[j].gen # g /\ entry[j].gen \in Gens
    BY <1>1, EntryFacts DEF Inv, MapInv, Took
  <2> QED BY <1>3, <2>1 DEF Inv, MapInv
<1>8. TookInv'
  BY <1>1, <1>3 DEF Inv, TookInv, Took
<1>9. ChildInv'
  <2>1. watcher[g] = "tookExited" => child[g] = "exited"
    BY DEF Inv, ChildInv
  <2> QED BY <1>1, <1>3, <2>1 DEF Inv, ChildInv, Closing, Live, Took
<1>10. AnnounceInv'
  BY <1>3 DEF Inv, AnnounceInv
<1>11. NoLeakedChild'
  <2>1. \A h \in Gens : Stopping(h) => Stopping(h)'
    <3>1. phase'[g] \in StopPhases
      BY <1>3 DEF StopPhases
    <3>2. \A h \in Gens : h # g => phase'[h] = phase[h] /\ watcher'[h] = watcher[h]
      BY <1>3
    <3> QED BY <3>1, <3>2 DEF Stopping
  <2>2. \A h \in Gens : phase[h] = "done" => phase'[h] = "done"
    BY <1>1, <1>3
  <2> QED BY <1>3, <2>1, <2>2 DEF Inv, NoLeakedChild, Starting, InMap, WatchAnnounce
<1> QED BY <1>4, <1>5, <1>6, <1>7, <1>8, <1>9, <1>10, <1>11 DEF Inv

\* The watcher is done.
LEMMA WatchFinishInv ==
    ASSUME Inv, TypeOK', NEW g \in Gens, WatchFinish(g)
    PROVE  Inv'
<1> USE DEF hostVars, threadVars, stopVars, outVars
<1>1. /\ \A h \in Gens : watcher'[h] = IF h = g THEN "done" ELSE watcher[h]
      /\ watcher[g] = "stopping" /\ phase[g] = "done"
      /\ UNCHANGED <<entry, nextGen, call, home, child, reader, phase, gaveUp, exits>>
  BY DEF WatchFinish, Inv, TypeOK
<1>2. FreshInv' /\ HomeInv' /\ AnnounceInv'
  BY <1>1 DEF Inv, FreshInv, HomeInv, AnnounceInv
<1>3. StartInv' /\ CallerInv' /\ TookInv'
  BY <1>1, CallFacts DEF Inv, StartInv, CallerInv, TookInv, Took
<1>4. MapInv'
  <2>1. \A j \in Ids : entry[j].kind = "active" => entry[j].gen # g /\ entry[j].gen \in Gens
    BY <1>1, EntryFacts DEF Inv, MapInv
  <2> QED BY <1>1, <2>1 DEF Inv, MapInv
<1>5. ChildInv'
  BY <1>1 DEF Inv, ChildInv
<1>6. NoLeakedChild'
  BY <1>1 DEF Inv, NoLeakedChild, Starting, InMap, Stopping, Took, WatchFinish
<1> QED BY <1>2, <1>3, <1>4, <1>5, <1>6 DEF Inv

\* What the invariant does not mention may change freely.
LEMMA QuietInv ==
    ASSUME Inv, TypeOK',
           UNCHANGED <<entry, nextGen, call, home, child, unwired, reader, watcher, phase, gaveUp, exits>>
    PROVE  Inv'
BY DEF Inv, FreshInv, HomeInv, StartInv, MapInv, CallerInv, TookInv, ChildInv, AnnounceInv,
       NoLeakedChild, Starting, InMap, Stopping

\* It holds initially.
LEMMA InitInv == Init => Inv
<1> SUFFICES ASSUME Init PROVE Inv
  OBVIOUS
<1>1. TypeOK
  BY InitType
<1>2. FreshInv /\ HomeInv /\ StartInv /\ MapInv
  BY DEF Init, FreshInv, HomeInv, StartInv, MapInv, Absent, Idle, StartPcs
<1>3. CallerInv /\ TookInv /\ ChildInv /\ AnnounceInv /\ NoLeakedChild
  BY DEF Init, CallerInv, TookInv, ChildInv, AnnounceInv, NoLeakedChild, Idle, Took, Closing
<1> QED BY <1>1, <1>2, <1>3 DEF Inv

\* Every step preserves it.
LEMMA NextInv == Inv /\ [Next]_vars => Inv'
<1> SUFFICES ASSUME Inv, [Next]_vars PROVE Inv'
  OBVIOUS
<1>0. TypeOK'
  BY TypeStep DEF Inv
<1>1. CASE UNCHANGED vars
  BY <1>0, <1>1, QuietInv DEF vars, hostVars, threadVars, stopVars
<1>2. ASSUME NEW c \in Callers, NEW i \in Ids, Create(c, i) PROVE Inv'
  BY <1>0, <1>2, ReserveInv DEF Create, Idle, Ops
<1>3. ASSUME NEW c \in Callers, RestartReserve(c) PROVE Inv'
  <2>1. call[c] \in Calls
    BY DEF Inv, TypeOK
  <2> QED BY <1>0, <1>3, <2>1, ReserveInv, CallParts DEF RestartReserve, Ops
<1>4. ASSUME NEW c \in Callers, NEW i \in Ids, Kill(c, i) \/ KillWithExit(c, i) \/ Restart(c, i)
      PROVE  Inv'
  BY <1>0, <1>4, TakeInv DEF Kill, KillWithExit, Restart, Ops
<1>5. ASSUME NEW c \in Callers, StartStep(c) \/ FinishStop(c) PROVE Inv'
  BY <1>0, <1>3, <1>5, OpenFailsInv, SpawnInv, WireFailsInv, WireInv, CommitInv, CancelStartInv,
     FinishStopInv DEF StartStep
<1>6. ASSUME NEW g \in Gens, StopStep(g) \/ AwaitChildFails(g) PROVE Inv'
  BY <1>0, <1>6, AwaitInv, KillChildInv, AwaitChildInv
     DEF StopStep, AwaitWatcher, AwaitWriter, AwaitReader, AwaitOutput
<1>7. ASSUME NEW g \in Gens, WatcherStep(g) \/ WatchFails(g) PROVE Inv'
  BY <1>0, <1>7, WatchPollInv, WatchTakeInv, WatchAnnounceInv, WatchFinishInv DEF WatcherStep
<1>8. ASSUME NEW g \in Gens, Deadline(g) \/ WriterEnds(g) \/ ChildWrites(g) PROVE Inv'
  BY <1>0, <1>8, QuietInv DEF Deadline, WriterEnds, ChildWrites, hostVars, threadVars, stopVars
<1>9. ASSUME NEW g \in Gens, OutputStep(g) PROVE Inv'
  <2>1. CASE ReaderReads(g) \/ Flush(g) \/ Publish(g) \/ CoalescerEnds(g)
    BY <1>0, <2>1, QuietInv
       DEF ReaderReads, Flush, Publish, CoalescerEnds, hostVars, threadVars, stopVars
  <2>2. CASE ReaderEnds(g)
    BY <1>0, <2>2, ReaderEndsInv
  <2> QED BY <1>9, <2>1, <2>2 DEF OutputStep
<1>10. ASSUME NEW g \in Gens, ChildExits(g) PROVE Inv'
  BY <1>0, <1>10, ChildExitsInv
<1>11. ASSUME NEW c \in Callers, CallerStep(c) PROVE Inv'
  BY <1>2, <1>4, <1>5, <1>11 DEF CallerStep
<1>12. ASSUME NEW g \in Gens, GenStep(g) PROVE Inv'
  BY <1>6, <1>7, <1>8, <1>9, <1>10, <1>12 DEF GenStep
<1> QED BY <1>1, <1>11, <1>12 DEF Next

\* The invariant the theorems below rest on holds in every reachable state.
THEOREM Invariance == Spec => []Inv
BY InitInv, NextInv, PTL DEF Spec

\* A live child always has a command, a map entry or a shutdown that answers
\* for it (the start and cancel race of pty.rs 1386-1405).
THEOREM NoChildLeaks == Spec => []NoLeakedChild
<1>1. Inv => NoLeakedChild
  BY DEF Inv
<1> QED BY <1>1, Invariance, PTL

\* No two threads hold the same session (take_active_pty_session and
\* take_active_pty_session_for_generation remove what they return).
THEOREM OneHolder == Spec => []SingleHolder
<1>1. Inv => SingleHolder
  <2> SUFFICES ASSUME Inv PROVE SingleHolder
    OBVIOUS
  <2>1. ASSUME NEW i \in Ids, NEW g \in Gens, entry[i] = ActiveEntry(g)
        PROVE  entry[i].kind = "active" /\ entry[i].gen = g /\ home[g] = i
               /\ watcher[g] \in {"polling", "exited", "failed"} /\ phase[g] = "none"
    <3>1. entry[i].kind = "active" /\ entry[i].gen = g /\ entry[i] # Absent
      BY <2>1 DEF ActiveEntry, Absent
    <3> QED BY <3>1 DEF Inv, HomeInv, MapInv
  <2>2. ASSUME NEW g \in Gens, InMap(g) PROVE ~Starting(g) /\ ~Stopping(g)
    <3>1. watcher[g] \in {"polling", "exited", "failed"} /\ phase[g] = "none"
      BY <2>1, <2>2 DEF InMap
    <3>2. ~Starting(g)
      BY <3>1 DEF Inv, StartInv, Starting
    <3> QED BY <3>1, <3>2 DEF Stopping, StopPhases, Took
  <2>3. ASSUME NEW g \in Gens, Starting(g) PROVE ~Stopping(g)
    BY <2>3 DEF Inv, StartInv, Starting, Stopping, StopPhases, Took
  <2>4. ASSUME NEW i \in Ids, NEW j \in Ids, entry[i].kind = "active", entry[i] = entry[j]
        PROVE  i = j
    <3>1. entry[i] # Absent /\ entry[j] # Absent
      BY <2>4, EntryFacts DEF Inv
    <3> QED BY <2>4, <3>1 DEF Inv, HomeInv
  <2>5. \A c, d \in Callers : call[c].gen # 0 /\ call[c].gen = call[d].gen => c = d
    BY DEF Inv, CallerInv
  <2>6. ASSUME NEW c \in Callers, call[c].gen # 0
        PROVE  watcher[call[c].gen] \notin Took \cup {"stopping"}
    <3>1. call[c].gen \in Gens
      BY <2>6, CallParts DEF Inv, TypeOK
    <3> QED BY <3>1 DEF Inv, TookInv
  <2> QED BY <2>2, <2>3, <2>4, <2>5, <2>6 DEF SingleHolder
<1> QED BY <1>1, Invariance, PTL

\* What the invariant says of a published session.
LEMMA MapWatched == Inv => ActiveIsWatched
<1> SUFFICES ASSUME Inv, NEW g \in Gens, InMap(g)
             PROVE  /\ watcher[g] \in {"polling", "exited", "failed"}
                    /\ reader[g] # "none" /\ exits[g] = 0
  BY DEF ActiveIsWatched
<1>1. PICK i \in Ids : entry[i] = ActiveEntry(g)
  BY DEF InMap
<1>2. entry[i].kind = "active" /\ entry[i].gen = g
  BY <1>1 DEF ActiveEntry
<1> QED BY <1>2 DEF Inv, MapInv

\* A published session is watched and has not been announced as ended.
THEOREM WatchedWhileActive == Spec => []ActiveIsWatched
BY MapWatched, Invariance, PTL

\* A session is announced as ended at most once, after it left the map.
THEOREM OneExit == Spec => []ExitAnnouncedOnce
<1>1. Inv => ExitAnnouncedOnce
  BY MapWatched DEF Inv, AnnounceInv, ActiveIsWatched, ExitAnnouncedOnce
<1> QED BY <1>1, Invariance, PTL
-----------------------------------------------------------------------------
(* Output that is dropped *)

\* A session whose reader has not started has no output, and one that is in the
\* map has lost none.
OutputInv ==
    /\ \A g \in Gens : reader[g] = "none" => buffered[g] = 0 /\ dropped[g] = 0
    /\ DroppedOnlyAfterRemoval

\* A step that moves no output keeps this, unless it publishes a session again.
LEMMA OutputKept ==
    ASSUME OutputInv, UNCHANGED <<buffered, dropped>>,
           \A g \in Gens : reader'[g] = "none" => reader[g] = "none",
           \A g \in Gens : InMap(g)' => InMap(g) \/ reader[g] = "none"
    PROVE  OutputInv'
<1>1. \A g \in Gens : dropped[g] > 0 => ~InMap(g)'
  BY DEF OutputInv, DroppedOnlyAfterRemoval
<1> QED BY <1>1 DEF OutputInv, DroppedOnlyAfterRemoval

\* An entry that is removed or reserved publishes nothing.
LEMMA NotPublished ==
    ASSUME TypeOK, NEW i \in Ids, NEW e, e.kind # "active", entry' = [entry EXCEPT ![i] = e],
           NEW g \in Gens, InMap(g)'
    PROVE  InMap(g)
<1>1. PICK j \in Ids : entry'[j] = ActiveEntry(g)
  BY DEF InMap
<1>2. j # i
  BY <1>1 DEF TypeOK, ActiveEntry
<1> QED BY <1>1, <1>2 DEF TypeOK, InMap

\* The commands of callers move no output.
LEMMA CallerOutput ==
    ASSUME Inv, OutputInv, NEW c \in Callers, CallerStep(c)
    PROVE  OutputInv'
<1> USE DEF hostVars, threadVars, stopVars, outVars
<1>1. TypeOK /\ call[c] \in Calls
  BY DEF Inv, TypeOK
<1>2. ASSUME UNCHANGED <<buffered, dropped, reader>>,
             \/ entry' = entry
             \/ \E i \in Ids : entry' = [entry EXCEPT ![i] = Absent]
             \/ \E i \in Ids, g \in Gens : entry' = [entry EXCEPT ![i] = StartingEntry(g)]
      PROVE  OutputInv'
  <2>1. \A g \in Gens : InMap(g)' => InMap(g)
    <3>1. CASE entry' = entry
      BY <3>1 DEF InMap
    <3>2. CASE \E i \in Ids : entry' = [entry EXCEPT ![i] = Absent]
      BY <1>1, <3>2, NotPublished DEF Absent
    <3>3. CASE \E i \in Ids, g \in Gens : entry' = [entry EXCEPT ![i] = StartingEntry(g)]
      BY <1>1, <3>3, NotPublished DEF StartingEntry
    <3> QED BY <1>2, <3>1, <3>2, <3>3
  <2> QED BY <1>2, <2>1, OutputKept
<1>3. ASSUME NEW i \in Ids, NEW op, Reserve(c, i, op) PROVE OutputInv'
  BY <1>2, <1>3 DEF Reserve
<1>4. ASSUME NEW i \in Ids, NEW op, Take(c, i, op) PROVE OutputInv'
  BY <1>2, <1>4 DEF Take
<1>5. call[c].pc \in StartPcs => call[c].id \in Ids /\ call[c].gen \in Gens
  BY <1>1, CallParts
<1>6. CASE OpenFails(c) \/ WireFails(c)
  BY <1>2, <1>5, <1>6 DEF OpenFails, WireFails, Unreserve, StartPcs
<1>7. CASE Spawn(c) \/ Wire(c) \/ FinishStop(c)
  BY <1>2, <1>7 DEF Spawn, Wire, FinishStop
<1>8. CASE Commit(c)
  <2>1. /\ call[c].pc \in StartPcs /\ entry' = [entry EXCEPT ![call[c].id] = ActiveEntry(call[c].gen)]
        /\ reader' = [reader EXCEPT ![call[c].gen] = "running"] /\ UNCHANGED <<buffered, dropped>>
    BY <1>8 DEF Commit, StartPcs
  <2>2. reader[call[c].gen] = "none"
    BY <2>1 DEF Inv, StartInv
  <2>3. \A g \in Gens : InMap(g)' => InMap(g) \/ g = call[c].gen
    BY <1>1, <1>5, <2>1 DEF InMap, ActiveEntry, TypeOK
  <2>4. \A g \in Gens : reader'[g] = "none" => reader[g] = "none"
    BY <1>1, <1>5, <2>1 DEF TypeOK
  <2> QED BY <2>1, <2>2, <2>3, <2>4, OutputKept
<1>9. CASE CancelStart(c)
  <2>1. /\ UNCHANGED <<entry, buffered, dropped>>
        /\ reader' = [reader EXCEPT ![call[c].gen] = "done"]
    BY <1>9 DEF CancelStart
  <2>2. \A g \in Gens : reader'[g] = "none" => reader[g] = "none"
    BY <1>1, <2>1 DEF TypeOK
  <2>3. \A g \in Gens : InMap(g)' => InMap(g)
    BY <2>1 DEF InMap
  <2> QED BY <2>1, <2>2, <2>3, OutputKept
<1>10. CASE RestartReserve(c)
  <2>1. call[c].id \in Ids
    BY <1>1, <1>10, CallParts DEF RestartReserve
  <2> QED BY <1>3, <1>10, <2>1 DEF RestartReserve
<1>11. CASE \E i \in Ids : Create(c, i) \/ Kill(c, i) \/ KillWithExit(c, i) \/ Restart(c, i)
  BY <1>3, <1>4, <1>11 DEF Create, Kill, KillWithExit, Restart
<1> QED BY <1>6, <1>7, <1>8, <1>9, <1>10, <1>11 DEF CallerStep, StartStep

\* What the reader reads is buffered, and dropped only if the session has left.
LEMMA GenOutput ==
    ASSUME Inv, OutputInv, NEW g \in Gens, GenStep(g)
    PROVE  OutputInv'
<1> USE DEF hostVars, threadVars, stopVars, outVars
<1>1. TypeOK /\ buffered[g] \in Nat /\ dropped[g] \in Nat
  BY DEF Inv, TypeOK
<1>2. ASSUME UNCHANGED <<entry, buffered, dropped>>,
             \A h \in Gens : reader'[h] = "none" => reader[h] = "none"
      PROVE  OutputInv'
  BY <1>2, OutputKept DEF InMap
<1>3. CASE WatchTake(g)
  <2>1. UNCHANGED <<buffered, dropped, reader>>
    BY <1>3 DEF WatchTake
  <2>2. CASE entry[home[g]] = ActiveEntry(g)
    <3>1. home[g] \in Ids
      BY <1>3 DEF WatchTake, Inv, HomeInv
    <3>2. \A h \in Gens : InMap(h)' => InMap(h)
      BY <1>1, <1>3, <2>2, <3>1, NotPublished DEF WatchTake, Absent
    <3> QED BY <2>1, <3>2, OutputKept
  <2>3. CASE entry[home[g]] # ActiveEntry(g)
    BY <1>2, <1>3, <2>1, <2>3 DEF WatchTake
  <2> QED BY <2>2, <2>3
<1>4. CASE ReaderReads(g)
  <2>1. /\ reader[g] = "running" /\ buffered' = [buffered EXCEPT ![g] = @ + 1]
        /\ UNCHANGED <<entry, reader, dropped>>
    BY <1>4 DEF ReaderReads
  <2>2. \A h \in Gens : reader[h] = "none" => buffered'[h] = buffered[h]
    BY <1>1, <2>1 DEF TypeOK
  <2> QED BY <2>1, <2>2 DEF OutputInv, DroppedOnlyAfterRemoval, InMap
<1>5. CASE Flush(g)
  <2>1. PICK n \in 1 .. buffered[g] :
            /\ buffered' = [buffered EXCEPT ![g] = @ - n]
            /\ \/ entry[home[g]] = ActiveEntry(g) /\ dropped' = dropped
               \/ entry[home[g]] # ActiveEntry(g) /\ dropped' = [dropped EXCEPT ![g] = @ + n]
    BY <1>5 DEF Flush
  <2>2. buffered[g] # 0 /\ reader[g] # "none" /\ UNCHANGED <<entry, reader>>
    BY <1>1, <1>5, <2>1 DEF OutputInv, Flush
  <2>3. \A h \in Gens \ {g} : buffered'[h] = buffered[h] /\ dropped'[h] = dropped[h]
    BY <1>1, <2>1 DEF TypeOK
  <2>4. dropped'[g] > 0 => ~InMap(g)
    <3>1. CASE dropped' = dropped
      BY <3>1 DEF OutputInv, DroppedOnlyAfterRemoval
    <3>2. CASE entry[home[g]] # ActiveEntry(g)
      <4> SUFFICES ASSUME InMap(g) PROVE FALSE
        OBVIOUS
      <4>1. PICK i \in Ids : entry[i] = ActiveEntry(g)
        BY DEF InMap
      <4>2. home[g] = i
        BY <4>1 DEF Inv, HomeInv, ActiveEntry, Absent
      <4> QED BY <3>2, <4>1, <4>2
    <3> QED BY <2>1, <3>1, <3>2
  <2>5. \A h \in Gens : reader'[h] = "none" => buffered'[h] = 0 /\ dropped'[h] = 0
    BY <2>2, <2>3 DEF OutputInv
  <2>6. \A h \in Gens : dropped'[h] > 0 => ~InMap(h)
    BY <2>3, <2>4 DEF OutputInv, DroppedOnlyAfterRemoval
  <2> QED BY <2>2, <2>5, <2>6 DEF OutputInv, DroppedOnlyAfterRemoval, InMap
<1>6. CASE ReaderEnds(g)
  <2>1. UNCHANGED <<entry, buffered, dropped>> /\ reader' = [reader EXCEPT ![g] = "done"]
    BY <1>6 DEF ReaderEnds
  <2>2. \A h \in Gens : reader'[h] = "none" => reader[h] = "none"
    BY <1>1, <2>1 DEF TypeOK
  <2> QED BY <1>2, <2>1, <2>2
<1>7. CASE Publish(g) \/ CoalescerEnds(g) \/ WriterEnds(g) \/ ChildExits(g) \/ ChildWrites(g)
  BY <1>2, <1>7 DEF Publish, CoalescerEnds, WriterEnds, ChildExits, ChildWrites
<1>8. CASE WatchPoll(g) \/ WatchAnnounce(g) \/ WatchFinish(g) \/ WatchFails(g)
  BY <1>2, <1>8 DEF WatchPoll, WatchAnnounce, WatchFinish, WatchFails
<1>9. CASE Deadline(g) \/ StopStep(g) \/ AwaitChildFails(g)
  BY <1>2, <1>9
     DEF Deadline, StopStep, AwaitChildFails, AwaitWatcher, KillChild, AwaitChild, AwaitWriter, AwaitReader,
         AwaitOutput, Await
<1> QED
  BY <1>3, <1>4, <1>5, <1>6, <1>7, <1>8, <1>9 DEF GenStep, WatcherStep, OutputStep

\* Output is dropped only after its session has left the map
\* (append_pty_output_buffer).
THEOREM DroppedAfterRemoval == Spec => []DroppedOnlyAfterRemoval
<1>1. Init => OutputInv
  BY DEF Init, OutputInv, DroppedOnlyAfterRemoval
<1>2. Inv /\ OutputInv /\ [Next]_vars => OutputInv'
  <2>1. ASSUME OutputInv, UNCHANGED vars PROVE OutputInv'
    BY <2>1, OutputKept DEF vars, hostVars, threadVars, outVars, InMap
  <2> QED BY <2>1, CallerOutput, GenOutput DEF Next
<1>3. OutputInv => DroppedOnlyAfterRemoval
  BY DEF OutputInv
<1> QED BY <1>1, <1>2, <1>3, Invariance, PTL DEF Spec
===========================================================================
