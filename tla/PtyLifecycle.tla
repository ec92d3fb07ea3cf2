--------------------------- MODULE PtyLifecycle ---------------------------
(* The life of a terminal session in the Rust host, commands/pty.rs.       *)
(*                                                                         *)
(* A session is known to the renderer by its id only.  The host numbers    *)
(* every attempt to start one (its generation) so that the threads that    *)
(* outlive a session - input writer, output reader, output coalescer and   *)
(* exit watcher - can tell the session they serve from a later one with    *)
(* the same id.  Blocking commands (Callers) create, kill and restart      *)
(* sessions; all of them share one map from ids to entries, whose mutex    *)
(* makes each access to it one step here.                                  *)
EXTENDS Naturals, FiniteSets

CONSTANTS Ids,        \* ids of terminal panels
          Callers,    \* worker threads that run pty commands
          MaxGen,     \* bound: start attempts per run of the host
          MaxChunks,  \* bound: chunks of output a child writes
          NoId        \* the home of a generation not handed out yet

ASSUME BoundsAssumption == MaxGen \in Nat /\ MaxChunks \in Nat
ASSUME NoIdAssumption == NoId \notin Ids

Gens == 1 .. MaxGen

VARIABLES
    entry,      \* the session map: id -> absent, Starting g or Active g
    nextGen,    \* NEXT_PTY_GENERATION
    call,       \* what each caller is doing
    home,       \* the id a generation was started for
    child,      \* the child process of a generation
    unwired,    \* history: generations whose pipes could not be opened after the spawn
    writer, reader, coalescer, watcher,     \* its threads
    phase,      \* how far the shutdown of a generation has got
    late,       \* whether the two second deadline of that shutdown has passed
    gaveUp,     \* whether it stopped waiting for the child
    exits,      \* pty:exit events published for a generation
    written, pipe, buffered, inflight, dropped   \* chunks of its output

hostVars == <<entry, nextGen, call, home>>
childVars == <<child, unwired>>
threadVars == <<writer, reader, coalescer, watcher>>
stopVars == <<phase, late, gaveUp>>
outVars == <<written, pipe, buffered, inflight, dropped>>
vars == <<hostVars, childVars, threadVars, stopVars, exits, outVars>>

Absent == [kind |-> "absent", gen |-> 0]
StartingEntry(g) == [kind |-> "starting", gen |-> g]
ActiveEntry(g) == [kind |-> "active", gen |-> g]
Entries == {Absent} \cup [kind : {"starting", "active"}, gen : Gens]

Ops == {"create", "kill", "killExit", "restart"}
StartPcs == {"opening", "spawned", "wired"}
Idle == [pc |-> "idle", op |-> "create", id |-> NoId, gen |-> 0]
Calls == {Idle} \cup [pc : StartPcs \cup {"stopping"}, op : Ops, id : Ids, gen : Gens]
                \cup [pc : {"reserve"}, op : {"restart"}, id : Ids, gen : {0}]

StopPhases == {"exit", "kill", "child", "writer", "reader", "output"}
Took == {"tookExited", "tookFailed"}
ThreadStates == {"none", "running", "done"}

\* What each variable may hold: in particular nothing is read, flushed or
\* dropped that was not written (the reader and coalescer threads).
TypeOK ==
    /\ entry \in [Ids -> Entries]
    /\ nextGen \in 1 .. MaxGen + 1
    /\ call \in [Callers -> Calls]
    /\ home \in [Gens -> Ids \cup {NoId}]
    /\ child \in [Gens -> {"none", "running", "killed", "exited"}]
    /\ unwired \subseteq Gens
    /\ writer \in [Gens -> ThreadStates]
    /\ reader \in [Gens -> ThreadStates]
    /\ coalescer \in [Gens -> ThreadStates]
    /\ watcher \in [Gens -> {"none", "polling", "exited", "failed",
                             "stopping", "done"} \cup Took]
    /\ phase \in [Gens -> {"none", "done"} \cup StopPhases]
    /\ late \in [Gens -> BOOLEAN]
    /\ gaveUp \in [Gens -> BOOLEAN]
    /\ exits \in [Gens -> Nat]
    /\ written \in [Gens -> 0 .. MaxChunks]
    /\ pipe \in [Gens -> Nat]
    /\ buffered \in [Gens -> Nat]
    /\ inflight \in [Gens -> Nat]
    /\ dropped \in [Gens -> Nat]

Init ==
    /\ entry = [i \in Ids |-> Absent]
    /\ nextGen = 1
    /\ call = [c \in Callers |-> Idle]
    /\ home = [g \in Gens |-> NoId]
    /\ child = [g \in Gens |-> "none"] /\ unwired = {}
    /\ writer = [g \in Gens |-> "none"]
    /\ reader = [g \in Gens |-> "none"]
    /\ coalescer = [g \in Gens |-> "none"]
    /\ watcher = [g \in Gens |-> "none"]
    /\ phase = [g \in Gens |-> "none"]
    /\ late = [g \in Gens |-> FALSE]
    /\ gaveUp = [g \in Gens |-> FALSE]
    /\ exits = [g \in Gens |-> 0]
    /\ written = [g \in Gens |-> 0]
    /\ pipe = [g \in Gens |-> 0]
    /\ buffered = [g \in Gens |-> 0]
    /\ inflight = [g \in Gens |-> 0]
    /\ dropped = [g \in Gens |-> 0]

--------------------------------------------------------------------------
(* Starting a session *)

\* Start attempts the bound still allows: restarts under way will need one.
Spare ==
    MaxGen + 1 - nextGen
        > Cardinality({c \in Callers : call[c].op = "restart"
                                       /\ call[c].pc \in {"stopping", "reserve"}})

\* PtyStartReservation::reserve.  The generation is drawn before the map is
\* looked at, so an attempt on an occupied id uses one up.
Reserve(c, i, op) ==
    /\ nextGen \in Gens
    /\ nextGen' = nextGen + 1
    /\ IF entry[i] = Absent
       THEN /\ entry' = [entry EXCEPT ![i] = StartingEntry(nextGen)]
            /\ home' = [home EXCEPT ![nextGen] = i]
            /\ call' = [call EXCEPT ![c] =
                            [pc |-> "opening", op |-> op, id |-> i, gen |-> nextGen]]
       ELSE /\ call' = [call EXCEPT ![c] = Idle]
            /\ UNCHANGED <<entry, home>>
    /\ UNCHANGED <<childVars, threadVars, stopVars, exits, outVars>>

Create(c, i) == call[c] = Idle /\ Spare /\ Reserve(c, i, "create")

RestartReserve(c) == call[c].pc = "reserve" /\ Reserve(c, call[c].id, "restart")

\* An error return drops the reservation, which removes only its own entry.
Unreserve(c) ==
    LET i == call[c].id IN
    /\ entry' = IF entry[i] = StartingEntry(call[c].gen)
                THEN [entry EXCEPT ![i] = Absent] ELSE entry
    /\ call' = [call EXCEPT ![c] = Idle]

\* openpty or spawn_command fails: no process was made.
OpenFails(c) ==
    /\ call[c].pc = "opening"
    /\ Unreserve(c)
    /\ UNCHANGED <<nextGen, home, childVars, threadVars, stopVars, exits, outVars>>

Spawn(c) ==
    /\ call[c].pc = "opening"
    /\ child' = [child EXCEPT ![call[c].gen] = "running"]
    /\ call' = [call EXCEPT ![c].pc = "spawned"]
    /\ UNCHANGED <<unwired, entry, nextGen, home, threadVars, stopVars, exits, outVars>>

\* take_writer fails, or try_clone_reader when the input writer runs already: `?`
\* drops the Child handle, which neither kills nor reaps the process it stands
\* for, and the input channel of the writer.
WireFails(c) ==
    LET g == call[c].gen IN
    /\ call[c].pc = "spawned"
    /\ Unreserve(c)
    /\ unwired' = unwired \cup {g}
    /\ writer' \in {writer, [writer EXCEPT ![g] = "running"]}
    /\ UNCHANGED <<nextGen, home, child, reader, coalescer, watcher, stopVars, exits, outVars>>

\* spawn_pty_input_writer and spawn_output_coalescer.
Wire(c) ==
    LET g == call[c].gen IN
    /\ call[c].pc = "spawned"
    /\ writer' = [writer EXCEPT ![g] = "running"]
    /\ coalescer' = [coalescer EXCEPT ![g] = "running"]
    /\ call' = [call EXCEPT ![c].pc = "wired"]
    /\ UNCHANGED <<entry, nextGen, home, childVars, reader, watcher, stopVars, exits, outVars>>

\* shutdown_pty_session begins; without termination it starts by closing input.
BeginStop(g, kill, awaitWatcher) ==
    /\ phase' = [phase EXCEPT ![g] = IF awaitWatcher THEN "exit"
                                     ELSE IF kill THEN "kill" ELSE "writer"]
    /\ UNCHANGED <<late, gaveUp>>

\* Mutant of Commit: publish without looking at the reservation again.
CommitUnchecked(c) ==
    LET i == call[c].id  g == call[c].gen IN
    /\ call[c].pc = "wired"
    /\ entry' = [entry EXCEPT ![i] = ActiveEntry(g)]
    /\ reader' = [reader EXCEPT ![g] = "running"]
    /\ watcher' = [watcher EXCEPT ![g] = "polling"]
    /\ call' = [call EXCEPT ![c] = Idle]
    /\ UNCHANGED <<nextGen, home, childVars, writer, coalescer, stopVars, exits, outVars>>

\* The reservation survived: the session is published and its reader and exit
\* watcher start before the map is unlocked.
Commit(c) ==
    LET i == call[c].id  g == call[c].gen IN
    /\ call[c].pc = "wired"
    /\ entry[i] = StartingEntry(g)
    /\ entry' = [entry EXCEPT ![i] = ActiveEntry(g)]
    /\ reader' = [reader EXCEPT ![g] = "running"]
    /\ watcher' = [watcher EXCEPT ![g] = "polling"]
    /\ call' = [call EXCEPT ![c] = Idle]
    /\ UNCHANGED <<nextGen, home, childVars, writer, coalescer, stopVars, exits, outVars>>

\* A kill or a restart took the reservation away: undo the start.
CancelStart(c) ==
    LET i == call[c].id  g == call[c].gen IN
    /\ call[c].pc = "wired"
    /\ entry[i] # StartingEntry(g)
    /\ reader' = [reader EXCEPT ![g] = "done"]
    /\ watcher' = [watcher EXCEPT ![g] = "done"]
    /\ BeginStop(g, TRUE, FALSE)
    /\ call' = [call EXCEPT ![c].op = "create", ![c].pc = "stopping"]
    /\ UNCHANGED <<entry, nextGen, home, childVars, writer, coalescer, exits, outVars>>

--------------------------------------------------------------------------
(* Killing and restarting a session *)

\* Mutant of Take: look the session up instead of removing it.
TakeByLookup(c, i, op) ==
    /\ call[c] = Idle
    /\ IF entry[i].kind = "active"
       THEN /\ BeginStop(entry[i].gen, TRUE, TRUE)
            /\ call' = [call EXCEPT ![c] = [pc |-> "stopping", op |-> op, id |-> i,
                                            gen |-> entry[i].gen]]
       ELSE UNCHANGED <<call, stopVars>>
    /\ UNCHANGED <<entry, nextGen, home, childVars, threadVars, exits, outVars>>

\* take_active_pty_session removes whatever is there: an Active session is
\* shut down by the caller, a Starting one is cancelled by its absence.
Take(c, i, op) ==
    /\ call[c] = Idle
    /\ entry' = [entry EXCEPT ![i] = Absent]
    /\ IF entry[i].kind = "active"
       THEN /\ BeginStop(entry[i].gen, TRUE, TRUE)
            /\ call' = [call EXCEPT ![c] = [pc |-> "stopping", op |-> op, id |-> i,
                                            gen |-> entry[i].gen]]
       ELSE UNCHANGED <<call, stopVars>>
    /\ UNCHANGED <<nextGen, home, childVars, threadVars, exits, outVars>>

Kill(c, i) == Take(c, i, "kill")
KillWithExit(c, i) == Take(c, i, "killExit")
Restart(c, i) == Spare /\ Take(c, i, "restart")

\* shutdown_pty_session returned to the command that called it.
FinishStop(c) ==
    LET g == call[c].gen IN
    /\ call[c].pc = "stopping"
    /\ phase[g] = "done"
    /\ exits' = IF call[c].op = "killExit" THEN [exits EXCEPT ![g] = @ + 1] ELSE exits
    /\ call' = [call EXCEPT ![c] =
                    IF @.op = "restart"
                    THEN [pc |-> "reserve", op |-> "restart", id |-> @.id, gen |-> 0]
                    ELSE Idle]
    /\ UNCHANGED <<entry, nextGen, home, childVars, threadVars, stopVars, outVars>>

--------------------------------------------------------------------------
(* shutdown_pty_session: ordered waits that share one deadline *)

Deadline(g) ==
    /\ phase[g] \in StopPhases
    /\ ~late[g]
    /\ late' = [late EXCEPT ![g] = TRUE]
    /\ UNCHANGED <<hostVars, childVars, threadVars, phase, gaveUp, exits, outVars>>

\* Mutant of Await: wait for the thread without a deadline.
AwaitForever(g, from, thread, to) ==
    /\ phase[g] = from
    /\ thread[g] = "done"
    /\ phase' = [phase EXCEPT ![g] = to]
    /\ late' = [late EXCEPT ![g] = @ /\ to # "done"]
    /\ UNCHANGED <<hostVars, childVars, threadVars, gaveUp, exits, outVars>>

\* wait_for_pty_thread: move on when the thread is done or time is up.
Await(g, from, thread, to) ==
    /\ phase[g] = from
    /\ thread[g] = "done" \/ late[g]
    /\ phase' = [phase EXCEPT ![g] = to]
    /\ late' = [late EXCEPT ![g] = @ /\ to # "done"]
    /\ UNCHANGED <<hostVars, childVars, threadVars, gaveUp, exits, outVars>>

AwaitWatcher(g) == Await(g, "exit", watcher, "kill")
AwaitWriter(g) == Await(g, "writer", writer, "reader")
AwaitReader(g) == Await(g, "reader", reader, "output")
AwaitOutput(g) == Await(g, "output", coalescer, "done")

\* child.kill(): an error is logged and the wait goes on regardless.
KillChild(g) ==
    /\ phase[g] = "kill"
    /\ phase' = [phase EXCEPT ![g] = "child"]
    /\ \/ child' = [child EXCEPT ![g] = IF @ = "running" THEN "killed" ELSE @]
       \/ UNCHANGED child
    /\ UNCHANGED <<unwired, hostVars, threadVars, late, gaveUp, exits, outVars>>

\* terminate_pty_child polls try_wait until the child is gone, the deadline
\* passes or try_wait fails; then the input channel is closed.
AwaitChild(g) ==
    /\ phase[g] = "child"
    /\ phase' = [phase EXCEPT ![g] = "writer"]
    /\ child[g] = "exited" \/ late[g]
    /\ gaveUp' = [gaveUp EXCEPT ![g] = child[g] # "exited"]
    /\ UNCHANGED <<hostVars, childVars, threadVars, late, exits, outVars>>

AwaitChildFails(g) ==
    /\ phase[g] = "child"
    /\ phase' = [phase EXCEPT ![g] = "writer"]
    /\ gaveUp' = [gaveUp EXCEPT ![g] = TRUE]
    /\ UNCHANGED <<hostVars, childVars, threadVars, late, exits, outVars>>

--------------------------------------------------------------------------
(* The exit watcher of one generation *)

InMap(g) == \E i \in Ids : entry[i] = ActiveEntry(g)

\* Mutant of WatchPoll: leave the polling loop while the child is running.
WatchPollOnce(g) ==
    /\ watcher[g] = "polling"
    /\ watcher' = [watcher EXCEPT ![g] =
                       IF entry[home[g]] = ActiveEntry(g) /\ child[g] = "exited"
                       THEN "exited" ELSE "done"]
    /\ UNCHANGED <<hostVars, childVars, writer, reader, coalescer, stopVars, exits, outVars>>

\* One poll under the map lock: stop when the session is no longer this
\* generation's, otherwise look at the child.
WatchPoll(g) ==
    /\ watcher[g] = "polling"
    /\ watcher' = [watcher EXCEPT ![g] =
                       IF entry[home[g]] # ActiveEntry(g) THEN "done"
                       ELSE IF child[g] = "exited" THEN "exited" ELSE @]
    /\ UNCHANGED <<hostVars, childVars, writer, reader, coalescer, stopVars, exits, outVars>>

WatchFails(g) ==
    /\ watcher[g] = "polling"
    /\ entry[home[g]] = ActiveEntry(g)
    /\ watcher' = [watcher EXCEPT ![g] = "failed"]
    /\ UNCHANGED <<hostVars, childVars, writer, reader, coalescer, stopVars, exits, outVars>>

\* Mutant of WatchTake: act on the poll without checking the map again.
WatchTakeUnchecked(g) ==
    /\ watcher[g] \in {"exited", "failed"}
    /\ entry' = [entry EXCEPT ![home[g]] = Absent]
    /\ watcher' = [watcher EXCEPT ![g] = IF @ = "exited" THEN "tookExited" ELSE "tookFailed"]
    /\ UNCHANGED <<nextGen, call, home, childVars, writer, reader, coalescer,
                   stopVars, exits, outVars>>

\* take_active_pty_session_for_generation, after the lock was given up.
WatchTake(g) ==
    /\ watcher[g] \in {"exited", "failed"}
    /\ IF entry[home[g]] = ActiveEntry(g)
       THEN /\ entry' = [entry EXCEPT ![home[g]] = Absent]
            /\ watcher' = [watcher EXCEPT ![g] =
                               IF @ = "exited" THEN "tookExited" ELSE "tookFailed"]
       ELSE /\ watcher' = [watcher EXCEPT ![g] = "done"]
            /\ UNCHANGED entry
    /\ UNCHANGED <<nextGen, call, home, childVars, writer, reader, coalescer,
                   stopVars, exits, outVars>>

\* emit_pty_exit comes first, then the shutdown.
WatchAnnounce(g) ==
    /\ watcher[g] \in Took
    /\ exits' = [exits EXCEPT ![g] = @ + 1]
    /\ BeginStop(g, watcher[g] = "tookFailed", FALSE)
    /\ watcher' = [watcher EXCEPT ![g] = "stopping"]
    /\ UNCHANGED <<hostVars, childVars, writer, reader, coalescer, outVars>>

WatchFinish(g) ==
    /\ watcher[g] = "stopping"
    /\ phase[g] = "done"
    /\ watcher' = [watcher EXCEPT ![g] = "done"]
    /\ UNCHANGED <<hostVars, childVars, writer, reader, coalescer, stopVars, exits, outVars>>

--------------------------------------------------------------------------
(* The child and the threads that move its input and output *)

ChildExits(g) ==
    /\ child[g] \in {"running", "killed"}
    /\ child' = [child EXCEPT ![g] = "exited"]
    /\ UNCHANGED <<unwired, hostVars, threadVars, stopVars, exits, outVars>>

ChildWrites(g) ==
    /\ child[g] \in {"running", "killed"} /\ g \notin unwired
    /\ written[g] < MaxChunks
    /\ written' = [written EXCEPT ![g] = @ + 1]
    /\ pipe' = [pipe EXCEPT ![g] = @ + 1]
    /\ UNCHANGED <<hostVars, childVars, threadVars, stopVars, exits, buffered, inflight, dropped>>

\* The input writer ends when its channel is closed or a write fails.
WriterEnds(g) ==
    /\ writer[g] = "running"
    /\ \/ child[g] = "exited" \/ g \in unwired
       \/ phase[g] \in {"writer", "reader", "output", "done"}
    /\ writer' = [writer EXCEPT ![g] = "done"]
    /\ UNCHANGED <<hostVars, childVars, reader, coalescer, watcher, stopVars, exits, outVars>>

\* Mutant of ReaderReads: a read that returns nothing counts as output.
ReaderReadsAnyway(g) ==
    /\ reader[g] = "running"
    /\ pipe' = [pipe EXCEPT ![g] = @ - 1]
    /\ buffered' = [buffered EXCEPT ![g] = @ + 1]
    /\ UNCHANGED <<hostVars, childVars, threadVars, stopVars, exits, written, inflight, dropped>>

ReaderReads(g) ==
    /\ reader[g] = "running"
    /\ pipe[g] > 0
    /\ pipe' = [pipe EXCEPT ![g] = @ - 1]
    /\ buffered' = [buffered EXCEPT ![g] = @ + 1]
    /\ UNCHANGED <<hostVars, childVars, threadVars, stopVars, exits, written, inflight, dropped>>

\* End of file, once the child is gone or the master side is closed.
ReaderEnds(g) ==
    /\ reader[g] = "running"
    /\ pipe[g] = 0
    /\ child[g] = "exited" \/ phase[g] \in {"reader", "output", "done"}
    /\ reader' = [reader EXCEPT ![g] = "done"]
    /\ UNCHANGED <<hostVars, childVars, writer, coalescer, watcher, stopVars, exits, outVars>>

\* Mutant of Flush: take the newest generation for the current one.
FlushNewest(g) ==
    /\ coalescer[g] = "running"
    /\ inflight[g] = 0
    /\ \E n \in 1 .. buffered[g] :
        /\ buffered' = [buffered EXCEPT ![g] = @ - n]
        /\ IF entry[home[g]] = ActiveEntry(nextGen - 1)
           THEN /\ inflight' = [inflight EXCEPT ![g] = n]
                /\ UNCHANGED dropped
           ELSE /\ dropped' = [dropped EXCEPT ![g] = @ + n]
                /\ UNCHANGED inflight
    /\ UNCHANGED <<hostVars, childVars, threadVars, stopVars, exits, written, pipe>>

\* append_pty_output_buffer: a frame of what is pending goes to the replay
\* buffer of this generation's session, or is dropped when it has none.
Flush(g) ==
    /\ coalescer[g] = "running"
    /\ inflight[g] = 0
    /\ \E n \in 1 .. buffered[g] :
        /\ buffered' = [buffered EXCEPT ![g] = @ - n]
        /\ IF entry[home[g]] = ActiveEntry(g)
           THEN /\ inflight' = [inflight EXCEPT ![g] = n]
                /\ UNCHANGED dropped
           ELSE /\ dropped' = [dropped EXCEPT ![g] = @ + n]
                /\ UNCHANGED inflight
    /\ UNCHANGED <<hostVars, childVars, threadVars, stopVars, exits, written, pipe>>

\* The pty:output event goes out after the lock was given up.
Publish(g) ==
    /\ inflight[g] > 0
    /\ inflight' = [inflight EXCEPT ![g] = 0]
    /\ UNCHANGED <<hostVars, childVars, threadVars, stopVars, exits, written, pipe,
                   buffered, dropped>>

CoalescerEnds(g) ==
    /\ coalescer[g] = "running"
    /\ reader[g] = "done"
    /\ buffered[g] = 0
    /\ inflight[g] = 0
    /\ coalescer' = [coalescer EXCEPT ![g] = "done"]
    /\ UNCHANGED <<hostVars, childVars, writer, reader, watcher, stopVars, exits, outVars>>

--------------------------------------------------------------------------
StartStep(c) == OpenFails(c) \/ Spawn(c) \/ WireFails(c) \/ Wire(c)
                \/ Commit(c) \/ CancelStart(c) \/ RestartReserve(c)

CallerStep(c) ==
    \/ \E i \in Ids : Create(c, i) \/ Kill(c, i) \/ KillWithExit(c, i) \/ Restart(c, i)
    \/ StartStep(c)
    \/ FinishStop(c)

StopStep(g) == AwaitWatcher(g) \/ KillChild(g) \/ AwaitChild(g) \/ AwaitWriter(g)
               \/ AwaitReader(g) \/ AwaitOutput(g)

WatcherStep(g) == WatchPoll(g) \/ WatchTake(g) \/ WatchAnnounce(g) \/ WatchFinish(g)

OutputStep(g) == ReaderReads(g) \/ ReaderEnds(g) \/ Flush(g) \/ Publish(g)
                 \/ CoalescerEnds(g)

GenStep(g) == Deadline(g) \/ StopStep(g) \/ AwaitChildFails(g)
              \/ WatcherStep(g) \/ WatchFails(g) \/ OutputStep(g) \/ WriterEnds(g)
              \/ ChildExits(g) \/ ChildWrites(g)

Next == (\E c \in Callers : CallerStep(c)) \/ (\E g \in Gens : GenStep(g))

Spec == Init /\ [][Next]_vars

\* The host's own threads keep running and the clock moves; children and the
\* reads and writes that depend on them promise nothing.
Fairness ==
    /\ \A c \in Callers : WF_vars(StartStep(c)) /\ WF_vars(FinishStop(c))
    /\ \A g \in Gens : /\ WF_vars(Deadline(g)) /\ WF_vars(StopStep(g))
                       /\ WF_vars(WatcherStep(g))

FairSpec == Spec /\ Fairness

--------------------------------------------------------------------------
(* Properties *)

\* The PtySession value of a generation is a local of the command that starts
\* it, or in the map, or a local of the shutdown that took it out.
Starting(g) == \E c \in Callers : call[c].pc \in StartPcs /\ call[c].gen = g
Stopping(g) == phase[g] \in StopPhases \/ watcher[g] \in Took

\* No start, stop or exit loses a session with a live child: the command that starts
\* it, the map or a shutdown has it.  Two kinds of children are lost, and only
\* those: one that a shutdown killed and waited for in vain, and one whose pipes
\* could not be opened after the spawn (pty.rs 1344-1350), which nobody kills.
NoLeakedChild ==
    \A g \in Gens : child[g] \in {"running", "killed"} =>
        \/ Starting(g) \/ InMap(g) \/ Stopping(g)
        \/ phase[g] = "done" /\ gaveUp[g]
        \/ g \in unwired

\* No session has two masters: the command that starts it, the map and the
\* shutdown exclude each other, one id holds it and one command starts or
\* stops it, and its watcher does not when a command does: no two threads ever
\* tear the same session down.
SingleHolder ==
    /\ \A g \in Gens : /\ InMap(g) => ~Starting(g) /\ ~Stopping(g)
                       /\ Starting(g) => ~Stopping(g)
    /\ \A i, j \in Ids : entry[i].kind = "active" /\ entry[i] = entry[j] => i = j
    /\ \A c, d \in Callers : call[c].gen # 0 /\ call[c].gen = call[d].gen => c = d
    /\ \A c \in Callers : call[c].gen # 0 => watcher[call[c].gen] \notin Took \cup {"stopping"}

\* A session in the map has a watcher that will notice its end and has not
\* been announced as ended, whatever earlier sessions with its id still do.
ActiveIsWatched ==
    \A g \in Gens : InMap(g) => /\ watcher[g] \in {"polling", "exited", "failed"}
                                /\ reader[g] # "none"
                                /\ exits[g] = 0

\* A kill and the exit watcher may race, but one session ends with at most
\* one pty:exit, and never while it can still be used.
ExitAnnouncedOnce == \A g \in Gens : exits[g] <= 1 /\ (exits[g] = 1 => ~InMap(g))

\* Output is only ever dropped once its session has left the map.
DroppedOnlyAfterRemoval == \A g \in Gens : dropped[g] > 0 => ~InMap(g)

\* Every blocking pty command returns: no thread it waits for can hold it up
\* beyond the deadline of the shutdown.
CallReturns == \A c \in Callers : call[c] # Idle ~> call[c] = Idle

\* A session whose child has exited leaves the map.
ExitNoticed == \A g \in Gens : (InMap(g) /\ child[g] = "exited") ~> ~InMap(g)
===========================================================================
