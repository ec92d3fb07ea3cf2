# TLA+ models of better-agent-terminal

better-agent-terminal is a desktop application that runs terminals and coding
agents (Claude, Codex) in workspace windows, on the own machine or on a remote
host.  This directory holds TLA+ models of its concurrent core, the TLC
configurations that check them on small instances, and proofs that TLAPS checks
for instances of every size.  `PROJECT.json` maps every definition to the source
lines it was translated from and lists runs, theorems and hazards.

- [The system](#the-system)
- [What is modelled](#what-is-modelled): `PtyLifecycle`, `ClaudeTurn`,
  `CodexTurn`, `AccountSwitch`, `RemoteServer`, `RemoteClientPool`, `SidecarBridge`
  and `Rpc`
- [The runs](#the-runs), their bounds and what they show
- [What is proved](#what-is-proved)
- [Where code and comments differ](#where-code-and-comments-differ)
- [Not modelled](#not-modelled) and [what could come next](#what-could-come-next)

## The system

Three programs, 404 source files:

- **Renderer** (`renderer/src`, TypeScript and React): windows, panels and
  stores.  It calls the host by commands (`host-api.ts`) and follows its events.
- **Host** (`src-tauri/src`, Rust): a multi-threaded process, with a Tauri shell
  or headless (`bin/bat-server.rs`).  Owns terminals, files, accounts, windows,
  and both ends of remote connections.
- **Node sidecar** (`node-sidecar/src`, JavaScript): a child of the host, one
  event loop, JSON lines on stdin and stdout.  Runs Claude sessions with the
  Claude Agent SDK, which in turn runs a CLI subprocess per session.

| Component | State it keeps | Operations | Interacts with | What is hard | What makes it correct |
|---|---|---|---|---|---|
| PTY sessions `commands/pty.rs` | map id -> Starting / Active session, generation counter, per session a child and four threads | create, kill, kill with exit, restart; exit watcher, reader, writer, coalescer | renderer (`pty:*` events), supervisors, worker buffer, remote server | commands race with start-up and with the exit of the child; threads outlive their session; deadlines | no child without an owner, one owner, every exit noticed and announced once, commands return, no output of a live session lost |
| PTY viewport, claims, input (same file; `pty-input-writer.ts`) | size and claiming client of a session, queue of input | claim, resize, write, acknowledge | desktop and mobile clients | two clients fight over a size; lost or late acknowledgements | the claimer decides the size; input arrives in order, once |
| Claude turn queue `handlers/claude-send.mjs`, `claude-session.mjs`, `claude-permission.mjs`, `lib/live-query.mjs` | per session a record: promise chain of sends, request ids, flags, prompts, live query | send, interrupt, abort, rest, wake, stop, reset, start, resume, resolve a prompt, change mode or model | SDK subprocess, host (RPC), renderer (`claude:*` events) | every `await` lets other requests in; records are replaced under running turns; retries | one turn at a time, no prompt lost, stuck or run twice, stop is no error, no subprocess out of reach |
| Remote client pool `remote_client.rs` | pool identity -> connection, binding window -> identity, per connection referrers, flag, queue, open invokes, a thread | connect, disconnect, invoke; frames, deadlines | remote server of another host, profile contexts, event hub | lock sections of connect and release interleave; sockets die at any time | windows stay on their host, one connection per host, closed with its last window, every invoke answered |
| Sidecar bridge `sidecar.rs` | the current process, its pending calls, restart failures | call, spawn and respawn, reader threads | sidecar | death of the child between any two steps; late replies; backoff | a reply reaches its own call, no caller waits for a dead child, respawns are bounded |
| Codex client `codex_app_server.rs` | one connection, sessions, owner of each thread, turn locks, approvals | send, abort, interrupt, take over, approve, reap, recycle | `codex app-server` child | recycling against starting turns, late notifications of a turn taken over | one owner per thread, one turn per session, approvals answered once |
| Remote server `remote_server.rs`, `remote_core.rs` | clients, slots, token, event buffer, login claims | accept, authenticate, invoke, broadcast, rotate, stop | remote clients | registration against rotation and stop; full queues | who is served is listed, or told to close; every event reaches who was listed, once; a slow client holds no memory |
| Accounts `account_store.rs`, login in `remote_server.rs`, `commands/claude.rs`, `handlers/claude-auth-login.mjs` | index file, stored credentials, the credential in use | login ceremony, switch, remove | Claude CLI, which rewrites the credential in use; remote clients | crashes and failures between files; unlocked read-modify-write | the active account is the one in use; no stored credential replaced by another account's |
| Profile contexts `profile_context.rs` | up to eight contexts per connection, each with a client pool | open, use, close | remote client pool | close, or the end of the connection, during connect | a closed context holds no connection |
| Windows, workspaces, profiles `window_registry.rs`, `commands/workspace.rs`, `commands/profile.rs` | entries in memory and three files | open, save, move, detach, remove, restore | renderer stores | several files per save; saves of windows that are gone | no workspace lost, duplicated or revived |
| Channel and CLI runtimes `node-sidecar/src/runtimes` | subprocess and frames of other agent backends | start, send, stop | renderer panels | frames against shutdown | as the turn queue |
| Installation, updates, tunnel | downloaded files, child processes | install, check, start, stop | network | partial downloads | an incomplete runtime is never used |
| Git, worktrees, files, GitHub, images, settings, snippets, notifications, metrics | files | one request at a time | external tools | little | unit tests reach it |

Calls go renderer -> host -> sidecar -> SDK; events come back the same way, or
through a remote connection (server on one host, client pool on the other).

`PROJECT.json` lists the main hazards, each at its line: places where an order of
steps that no test runs could break something.  The properties below are aimed
at them.

## What is modelled

### `PtyLifecycle` - terminals of the host (`commands/pty.rs`)

The renderer names a session by an id; the host numbers each attempt to start
one, its *generation*.  `entry` is the mutexed map, `call` says where a blocking
command is (`opening`, `spawned`, `wired`, `stopping`, `reserve`), and `child`,
`writer`, `reader`, `coalescer`, `watcher`, `phase` follow the process, the
threads and the shutdown of a generation.

- *Start*: `Create` and `RestartReserve` reserve, `Spawn`, `Wire`, `Commit`;
  early exits are `OpenFails`, `WireFails` (the child lives on, and `unwired`
  remembers it) and `CancelStart`.
- *Stop*: `Kill`, `KillWithExit` and `Restart` take the entry, in one step; the
  shutdown then waits for watcher, child, writer, reader and coalescer in turn
  (`AwaitWatcher` ... `AwaitOutput`), until its two-second `Deadline`.
- *Watcher*: `WatchPoll`, `WatchTake`, `WatchAnnounce`, `WatchFinish`.
- *Output*: `ChildWrites`, `ReaderReads`, `Flush`, `Publish`.  Chunks are
  counted, their bytes are not kept.  `Publish` is separate from `Flush`,
  because the event is emitted after the map is unlocked.

Left out: viewport, input, contents and limits of the output buffer, shells.

### `ClaudeTurn` - turns of a Claude session (Node sidecar)

One session, whose record is replaced by stop, reset and resume, so there are
several records `Recs` and the current one, `cur`.  A call of
`claude.sendMessage` is a number in `Sends`, in the order of arrival.  Its `st`
runs through `waiting` (in the promise chain), `importing`, `building` (awaiting
the SDK and the query options), `pushed`, then `resolved` or `rejected`, then
`done` with an `outcome`.  A live query has the number of the send that built it;
`turns[l]` are the deferreds it owes.

One step is what the event loop runs without an await: `Send` (or `SendNoFolder`,
which drops a record without a working folder), the stages of `performSendMessage` (`Begin...`, `Built`, `BuildFails`, `SettleResolved`,
`SettleRejected`), frames of the SDK (`Responded`, `Compacting`, `Notice`,
`Result`, `LiveDies`, `Ask`; each may tell another conversation) and the other handlers (`InterruptTurn`, `Abort`, `Rest`,
`Wake`, `Rebuild`, `Drop`, `Start`, `Resume`, ...).  The guard `Quiet` lets a
finished turn's successor begin before anything from outside: both are promise
jobs.  `Begin` is still separate from `Send`, because several requests may be
read from one chunk of stdin.

Merged: ask-user and permission prompts are one sequence `prompts`.  Pruning of
request ids may take any finished one (the code takes the oldest).  A failed
control call (`Rebuild`) acts on the current query.  Left out: sends without a
`clientMessageId` (they skip the table), events to the renderer, options, the
abort while a turn is being built (which the code ignores).

### `CodexTurn` - sessions of the Codex app-server (`codex_app_server.rs`)

All Codex sessions share one child process.  `slot` is `connection`, the process
in use; `live` and `reader` are the processes that run and those whose output is
still read, `wire` that output and `requests` what was written and not served.
`sess` is a `CodexSession`, `owner` the map from threads to sessions, `prompts`
the pending approvals, `lock` the lock object a session has in
`turn_operation_locks`.  A call of the renderer is a thread `call`; `gate` is the
lock object it fetched, `conn` the `Arc` of the process it holds (`Held`: the last
one to let go kills the process).

A turn is numbered by the send that asks for it.  A session shows it as `sent`
(the local key, before the answer to turn/start), `known` (the id of the answer)
or `begun` (turn/started).  The process has its own view, `turn[r].at`.  `fate` is
history: whether a turn is still its session's (`ours`), was taken over with its
thread by another session (`taken`), was left running in another process or on
another thread when its session went on (`left`), or was let go of (`loose`: its
end was shown, or its session was stopped, reset, replaced or put to rest).

- *Process*: `Reuse`, `Outdated` and `Recycle`, `Spawn`, `SpawnFails`;
  `ReaperLooks` and `Reap`, since the reaper looks and then takes away;
  `Dies`, `ReaderEnds`.
- *Requests*: `Writes`, `TimesOut`, `Refused`.  An answer that comes too late is
  dropped (its `by` is gone).
- *Sessions*: `Start`, `Resume`, `Reset`, `Stop`, `Rest` and what follows their
  answers; `TakeOwnership` is the takeover of a thread with its turn.
- *Send*: `Send`, `ThreadMade`, `Own`, the interrupts, `Mark`, then `Apply`, or the
  retries `NotFound`, `ThreadResumed`, `Unpersisted`, `Replaced`, or `SendFails`; `BadInput` is a picture that cannot be
  used.
- *Interrupts*, for a send, a resume or an abort: `Interrupt` and the cases of the
  answer, with `local_turn_state` for "no active turn".
- *Reader*: `ReadThread`, `ReadStarted`, `ReadEnd`, `ReadAsk` with `Route` and
  `Stale`.  thread/started may name its thread where `Route` looks for it or
  elsewhere, so `ReadThread` may route it like one of no known thread.
- *App-server*, an external program: it serves requests in any order, begins a
  turn after it accepted it, interrupts only what has begun, lets one turn
  run per thread, and may announce a thread before its reply, after it or not.

Merged: sections of one operation nothing reads in between.  An outdated
process is found at any time: another account recycles it even while turns run,
another binary when the look saw none.  Left out: what a switch of accounts does
to the sessions, injected context, items and
texts, the limit of sixteen remembered turns, `abort_requested` (nothing sets it).

### `AccountSwitch` - Claude accounts and their login (`account_store.rs`)

Three places are kept in step without a transaction: `index` (the file: listed
accounts and the active one), `stored` (the keyring) and `cli` (the credential the
CLI uses and rewrites).  A credential is an owner and a version; `live` are those
that work, since a renewal (`Rotate`) invalidates the one before.  Remote clients
`call` on threads of their own, and each access to a file, the keyring or the
sidecar is a step.  `claim` is `CLAUDE_REMOTE_LOGIN_CLAIM`, `mutex` its lock as
switch and removal hold it, `slot` the sidecar's `activeLogin`, `ceremony` a login
process.

- *Switch, removal, mark*: `Switch`, `Remove`, `Mark` read the index (into the
  call: it is written back as a whole), then `Snapshot`, `ReadCli`, `Keep` (the
  index, the CLI's credential, the keyring), `Incoming`, `Save`, `Delete`, each
  write with its failure.
- *Login*: `Start`; `StartRefused` or `Resolve` (the search for the CLI, during
  which another login may take the slot), `Spawn`, `ShowUrl` or `NoUrl`, `Bind`, a
  snapshot; `Submit` and `SubmitHandled`, `CliLogsIn` or `CliFails`,
  `SubmitReturns`, `Verify`, `Fetch`, `Register`, `Activate`; `Cancel`; `Restore`,
  `Clear`, `Release` at every end; `Expire` for the three minutes of a claim,
  `KillTimer` for the sidecar's own timer.  Clients that name no login pass as the
  code lets them.  A kill is a signal nobody waits for: a login that has its code
  is `dying`, and may still store a credential.
- *Logout*: `Logout`, at any moment, takes the CLI's credential away and may revoke
  it; `loggedOut` remembers the accounts.
- *Faults*: `Crash` of the host between any two steps, `SidecarDies`, and failing
  writes.

Merged: a stored credential is loaded and given to the CLI in one step; the index
is read with the credential saved next in `Register`; a removed account keeps its
place in the keyring (the code gives it a new id when it logs in again).  Left out:
the warning flag itself, a login's call that takes the sidecar more than five
minutes, and the logins and imports of the desktop.

`trouble` is history: which kinds of fault or overlap occurred so far.  The
properties name the kinds they do not speak of.  `ActiveIsInUse` lets the CLI have
no credential if the active account was logged out, never that of another;
`ListedCanReturn` speaks of an account until it is logged out or removed.

### `RemoteServer` - inbound connections (`remote_server.rs`, `profile_context.rs`)

A server started is a number; `server` is the running one, `clients` the list of
each (they share none, and an old connection keeps the list of its server).
`conn` is the thread of a connection in `handle_client`, `queue` its bounded
channel, `close` its flag.  `cast` is a thread in `broadcast_event`, `timer` the
thread that flushes the `buffer` a second later, `invoke` the thread of an invoke,
and `context` a profile context, named by the invoke that opened it.  `got` and
`expects` are history: what was sent to whom, and who was listed at the time.
Answers to invokes go through the same bounded queue as events, and can fill it.
A client that is found with contexts of its own when an event is sent gets it
from them, so `Deliver` takes it off `expects`.

- *Server*: `Start`, `Stop`; `RotateToken` and `RotateClients`, since a connection
  may look at the token and register in between.
- *Connection*: `Accept`, `ReadToken`, `Register`, `Greet`, then rounds of `Check`,
  `SendFrame`, `Drained` and one frame (`ReadNothing`, `ReadInvoke`); `Leave`
  takes the client off the list, `SendFails` returns without doing so, and every
  end closes the contexts (`CloseAll`).
- *Events*: `Broadcast`, then `Enqueue`, or `FlushBefore`, `SendHeld` and `SendEvent`;
  `TimerTakes`, `TimerSends`; `Deliver` is the look at every client under the lock.
- *Contexts*: `Open`, `Get`, `CloseContext`; `Validate`, `Dial`, `ListProfiles`,
  `CheckClosed` are `ensure_connected`; `Reply` drops the invoke's share of the
  context, and the last share closes it.

Merged: `stop`, which holds the lock until the accept loop has ended; the look at
the server and at its list in a broadcast; a context's flag and its disconnect.
There is one stream of text, so what a flush took is sent as one frame, where the
code sends one for each buffered key.
Left out: recent clients and `status`, TLS and compression, contexts of local
profiles, what a context lets through, a data directory that cannot be resolved.

### `RemoteClientPool` - outbound connections (`remote_client.rs`)

`Windows` bind to `Keys` (host, port and token hash); connections are numbered
in the order their threads start.  `task` is a worker thread in `connect` or
`disconnect`, `call` an invoke, `loop` / `rx` / `pending` the thread of a
connection with its command queue and open invokes.  Each section under a lock
is a step: `Unbind`, `Find`, `Unrefer`, `Close`, `Forget` are
`release_binding`; `Lookup`, the dial, `Publish`
(`get_or_insert_live_client`), `Refer`, `Bind` are `connect`; `CallLookup`,
`CallSend`, `CallReturns`, `CallTimesOut` are `invoke_params`; `TakeInvoke`,
`Reply`, `TakeBye`, `SeesOrphan`, `SocketFails` are `client_loop`.  `Held` says
whether any sender of the queue is alive, which `try_recv` sees.

Merged: the pool read and the test of the flag in one step; the flag and the
`Disconnect` command in one step; a deadline is an error reply.  Left out: which
window an event wakes (`event_owners`), windowless clients, the handshake.

### `SidecarBridge` - the host's side of the sidecar (`sidecar.rs`)

A call is a blocking thread in `call_with_emit`; `pc` says how far it is.  A
handle is a spawned process with its id counter `lastId`, its table `pending`, two
pipes `inbox` and `outbox`, a `child` and the thread `reader` on its output.

- *Spawning*, under the mutex of the state: `Found`, or `FoundNone` and
  `FoundDead` (which takes `lock` and keeps it), then `BackedOff`, `SpawnFails`
  or `Spawn`.  `RecordFailure` is the restart backoff, with its window, limit and
  block as constants.
- *Calling*: `Register`, `Write` or `WriteFails`, then `Return` or `TimesOut`.
- *Reader*: `ReadReply`, and `ReaderEnds` at the end of the output.
  `ReaderBreaks` is a line that is not UTF-8, which ends the thread as well.
- *Process* (`server.mjs`): `Serve`, in any order, and `Dies` at any time, with
  any of its replies lost.

Merged: the handler and its reply (`Dies` may still take the reply away); taking
the channel from the table and sending on it; the timeout and taking the entry
(in both cases the call ends `lost`, whichever came first).  Left out: the
capacity of the pipes (a write to a process that does not read blocks without
a timeout), events, stderr, the resolution of node and script.

### `Rpc` - what a call promises

The abstract specification of a remote procedure call: asked, then executed at
most once, and replied, refused or lost.  Executions are counted, so that a second
one would be a step `Rpc` does not have; a reply is given only for an executed call
and is the call's own, and a refused call is never executed.  `ImplementsRpc`
refines it: a call is open from the moment it holds a handle, `served` counts its
executions over all processes, and `got` is the call whose reply it returned with.
The remote client pool is to implement it too.

### Modules and composition

Each module has its own `MC...` module (symmetry, constraints) and, with a proof,
a `...Proofs` module (`CodexTurn` has a second one, `CodexTurnEndsProofs`, for the
ends of turns).  The components share no state.  Where they meet, the
abstraction leaves an open choice: whatever the renderer may ask (a kill, a
prompt, a switch) it may ask at any time, and the sidecar may die at any step of
the host.

Operators that no action uses, named after one with a suffix (`CommitUnchecked`),
and headed "Mutant", are the code with a plausible bug.  They stay beside the
definition they vary, to show that each property can fail.

## The runs

| Run | Instance | States | Shows |
|---|---|---|---|
| `pty_start_stop` | 1 id, 2 callers, 2 generations, 1 chunk | 2.0 M | `NoLeakedChild`, `SingleHolder`, `ExitAnnouncedOnce`, `DroppedOnlyAfterRemoval`: starts, cancelled starts, kills, restarts and exits interleave, and output of the old session is flushed around its replacement |
| `pty_liveness` | 1 id, 1 caller, 2 generations | 0.4 M | `CallReturns`, `ExitNoticed` |
| `turn_queue` | 2 records, 2 sends, 2 ids, 1 request remembered, no prompts | 2.5 M | `SerialTurns`, `RetryFindsUnfinished`, `InterruptHitsItsTurn`, `HandleKept`, `NoStrandedTurn`, `StopIsNotAnError`, `BusyIsShown` |
| `turn_liveness` | 1 record, 2 sends, 2 prompts | 0.6 M | `SendSettles` |
| `codex_turns` | 2 sessions, 2 callers, 2 turns, 2 threads, 2 processes, 1 approval each, 4 events | 1.1 M | `NextTurnIsSafe`, `OwnTurnIsOver`, `AnsweredOnce`: takeovers, replacements, aborts, crashes and timeouts |
| `account_switch` | 2 accounts, 2 clients, 2 logins, 3 credentials, 1 fault | 3.3 M | `StoredIsOwn`, `ActiveIsInUse`, `ListedHasCredential`, `ListedCanReturn` |
| `remote_server` | 2 servers, 2 tokens, 3 connections, 2 events, 3 invokes, at most 4 of these; limits of 2 connections, 2 invokes, 1 frame, 1 context | 1.3 M | `ServedIsListed`, `EachEventOnce`, `ClosedContextHoldsNothing` |
| `remote_pool` | 2 windows, 2 hosts, 2 workers, 1 invoke, 2 connections | 0.3 M | `OwnHostOnly`, `LiveIsNotOverwritten`, `OrphanEnds`, `CallIsAnswered`: one worker for all, or two that dial at the same time |
| `sidecar_calls` | 3 calls, 2 processes, 2 ids each; limit 2, window 1, block 1, clock to 2 | 3.3 M | `OwnReply`, `NobodyIsForgotten`, `NoStraySidecar`, `SpawnsAreSpaced`, `ImplementsRpc` |

`TypeOK` is checked in the first run of each module.  `turn_esc`, `codex_process`
and `account_login` expect a violation, see below.

**Why the bounds suffice.**  A race here has two sides: two generations of one
id (one that ends, one that replaces it) and two commands; two ids show that
none is mistaken for another.  A queue needs a running turn
and one that waits on it; two records are the old and the new, and a table of
one request is always full, so pruning happens at once.  (The chain with a third
send, which waits on a waiter, is covered by the proofs.)  Two Codex
sessions are the one that takes a thread over and the one that loses it; two
turns are the one replaced and its replacement; four events are, for example, two
starts, a send and the send that takes over.  Two accounts are the outgoing and
the incoming one.
For the pool: a connection that dies, and the one dialled instead, at the same
host or another.  For the server: with four things that happen (a further
server, token, connection, event or invoke) there is room for two connections and
two events, for a rotation or a restart with both of them and an event, and for
three invokes, of which one opens a context, one uses it and one closes it; a
queue of one frame is full at the second event.  For the sidecar: a process and its successor, where the ids
start again; three calls make three attempts to spawn, and with a limit of two
failures the third one meets the block.  The code's numbers (3 failures, 30 s,
5 s) are constants here, and the theorem holds for all of them.  The bounds on
generations, sends, records, prompts, interrupts, connections, handles, ids and
the clock are guards named `Max...`; where a bound stops the model (`ClaudeTurn`)
or every call has ended (`SidecarBridge`, whose calls are made once; `RemoteServer`
that was stopped), the configuration disables the deadlock check, and everywhere else TLC checks it.
The view of `turn_queue` leaves out the flag `resting`, which nothing but a report
of the session reads; that of `account_switch` leaves out what a call has read and
will not use again.  Five constraints keep runs within minutes and are in the `MC`
modules.
`FirstIsLate` (terminals): only the first session writes, and only its shutdown may run
into its deadline, so that only its threads outlive it - the second session is the
one they could disturb.  `OneTrouble` (accounts): one kind of trouble at a time,
none that every property leaves out (index overwritten, racing calls of one login,
an expired claim), and one of the two accounts gets a single credential.  `Focused` (Codex): a second process or
thread only while one session is there and one call is under way.  `Budgeted`
(server): the four things, events and invokes only one at a time where there are two
connections.  `OneOverlap` (pool): two workers overlap at one window and one host.  Only
a command leads out of it, and commands are under no fairness, so the liveness
properties are those of all behaviours whose commands stay within it.

**Fairness.**  `PtyLifecycle`: commands in progress, watcher and shutdown threads
are scheduled (`WF`), and the clock passes the deadline.  Nothing is assumed of
the child, nor of reader, writer and coalescer, which may block for ever in the
operating system - this is what the deadlines are for.  `ClaudeTurn`: the event
loop runs every continuation; the SDK delivers a result for a turn which can end
again and again (`SF`, since prompts suspend it); the user answers
the prompt shown.  No fairness for interrupts, aborts or deaths.
`RemoteClientPool`: worker threads and connection threads are scheduled, and an
open invoke is answered or reaches its deadline (`expire_pending` runs in every
round of the loop).  No fairness for failures, new commands or the caller's own
timeout, so `CallIsAnswered` holds without it.  The other runs check safety only.

## What is proved

TLAPS proves the safety properties for every number of ids, callers, generations,
sends, records, sessions, threads, turns, approvals, accounts, clients, logins,
credentials, servers, tokens, events, windows, hosts, workers, invokes, connections,
calls, processes and request ids.
The only assumptions are those the modules state: bounds and limits are naturals, and the
null values are outside of their sets; for the sidecar also that the limit is
positive and the block is no longer than the window (5 s and 30 s in the code).

| Module | Theorem | Property |
|---|---|---|
| `PtyLifecycleProofs` | `TypeCorrect`, `NoChildLeaks`, `OneHolder`, `WatchedWhileActive` (`ActiveIsWatched`), `OneExit`, `DroppedAfterRemoval` | `TypeOK`, `NoLeakedChild`, `SingleHolder`, `ExitAnnouncedOnce`, `DroppedOnlyAfterRemoval` |
| `ClaudeTurnProofs` | `TypeCorrect`, `TurnsAreSerial`, `RetriesAreFound`, `HandlesAreKept`, `NoTurnIsStranded`, `InterruptsHit`, `StopsAreNoErrors`, `BusyShown` | `TypeOK`, `SerialTurns`, `RetryFindsUnfinished`, `HandleKept`, `NoStrandedTurn`, `InterruptHitsItsTurn`, `StopIsNotAnError`, `BusyIsShown` |
| `CodexTurnProofs` | `TypeCorrect`, `ApprovalsOnce` | `TypeOK`, `AnsweredOnce` |
| `CodexTurnEndsProofs` | `LateEndsRefused`, `ReplacedIsOver` (and `EndsInvariance`, their invariant) | `NextTurnIsSafe`, `OwnTurnIsOver` |
| `AccountSwitchProofs` | `TypeCorrect`, `StoredAreOwn`, `ActiveInUse`, `ListedKeepCredential`, `ListedReturn` | `TypeOK`, `StoredIsOwn`, `ActiveIsInUse`, `ListedHasCredential`, `ListedCanReturn` |
| `RemoteServerProofs` | `TypeCorrect`, `ServedAreListed`, `ContextsHoldNothing`, `EventsSentOnce` | `TypeOK`, `ServedIsListed`, `ClosedContextHoldsNothing`, `EachEventOnce` |
| `RemoteClientPoolProofs` | `TypeCorrect`, `CallsStayHome`, `ConnectedHasThread` (`ConnectedIsServed`), `LiveIsKept` | `TypeOK`, `OwnHostOnly`, `LiveIsNotOverwritten` (an action property) |
| `SidecarBridgeProofs` | `TypeCorrect`, `RepliesAreOwn`, `EveryoneIsWoken`, `TablesAreClean` (`NoStaleEntry`), `OneSidecar`, `SpawnsSpaced`, `Implements` | `TypeOK`, `OwnReply`, `NobodyIsForgotten`, `NoStraySidecar`, `SpawnsAreSpaced`, `ImplementsRpc` (the refinement) |

A property in brackets is proved, and checked by no run.

Each module has an inductive invariant, proved by the usual three facts:
`Init` implies it, each action keeps it (a step per action), and it implies the
properties.

- *Terminals.*  `SingleHolder` alone is not inductive: a step of a late thread
  could touch a new session.  `Inv` adds that generations not handed out yet are
  untouched, that whoever names a generation (a command, the map, a watcher, a
  shutdown) knows its `home`, and that starting, being in the map and
  shutting down exclude each other.  The reservation's generation is what
  `Commit` and the watcher compare, and it does the work in the proof as in the
  code.  `DroppedOnlyAfterRemoval` has `OutputInv`: a session whose reader has not
  started has no output, and one in the map has lost none; since a generation never
  comes back into the map, what is lost stays that of a session removed before.
- *Turns.*  `SerialTurns` needs the shape of the chain: sends are made in order
  (`Made`, `Ordered`), the tail of a record is its last send (`TailIsLast`), and
  each waits for the last one before it, hence for all (`WaitsForLast`,
  `WaitsForEarlier`).  `NoStrandedTurn` needs that a turn is owed by one query
  and once (`OwesOne`); `HandleKept` that a handle was built on its record
  (`HandleOwn`) and that no two calls of a record build at the same time - which is
  `SerialTurns`.  What the user is shown has a second invariant, `Shown`: a call
  that imports or builds shows its status and one that was pushed streams; a record
  that streams has a turn to settle, an interrupt that was requested belongs to the
  turn settled next (its `esc` is "running"), a stopped turn waits to be rejected with
  its abort signal still set, and nothing is built before the SDK is there, so no
  frame of a response can clear the status of a call that imports it.
- *Codex.*  `AskInv` says of each approval of a process that it is asked and on its way
  to the host once, or shown, or answered, which excludes a second answer; an
  approval that is shown or answered is not in the output any more.  What a call does
  depends on the answer it got, so the types need more than types: `ReplyInv`, that
  who waits has one request or one reply, at the process it holds (a late answer
  finds nobody), and `BornCalls` and `BornRequests`, that a turn asked for exists.
  Replies name threads and turns that were made (`WireType`).
- *Ends of Codex turns.*  `EndInv` has eight parts.  A turn that was asked for and not
  let go of is shown by its session or refused there (`Remembered`); this is what
  keeps its late end from the next turn.  Nobody speaks of a turn the process was
  not asked for, or not yet, or in vain (`Silent`): hence a send that starts again after
  "thread not found" asks for a turn that cannot be running.  One call asks for a turn,
  and writes the request once (`AskingInv`, `RequestInv`).  For `OwnTurnIsOver`: one turn
  runs on a thread of a process (`OneRuns`), so the answer to an interrupt means
  what it says - the turn is over, or the one found in its place has begun and the one
  asked about does not run there (`InterruptInv`); a turn that a call is to interrupt
  runs only while its session shows it, one it has interrupted does not run at the call's
  process and thread, and none of them runs when the call asks for its own (`OwnInv`).
  The proof found a gap that the bounds of the run hid (it takes 6 events and 2
  processes): an outdated process is recycled although it has got a turn, the interrupt goes to
  the new process and ends another turn there, and the old one runs on beside its
  replacement until its process ends.  No interrupt can reach it; `fate` says `left` of
  such a turn, and `OwnTurnIsOver` speaks of those the call could have interrupted.  `NextTurnIsSafe`
  looks at the session that asked for a turn: what a late end does in a session that
  took the thread over is not part of it.
- *Accounts.*  `ListedHasCredential` is carried by what a call has read and will
  write: an index about to be saved lists nothing whose credential is not stored
  yet, and a credential is deleted only when its account is not listed any more.  `StoredIsOwn` and
  `ActiveIsInUse` hold because the CLI and the index disagree only while a single
  call is between the two writes (`AccountInvariant`): a switch or removal that
  holds the lock, or the login that holds the claim, which exclude each other
  (`Locking`).  A snapshot therefore never runs while they disagree, and whoever
  made them disagree restores or saves before it lets go.  A logout changes one
  side without any lock; the two then agree in the weaker sense of `InUse`, and a
  snapshot of nothing saves nothing.  `ListedCanReturn` has
  `Returnable`: undisturbed, the CLI's credential works, or there is none, or it is
  that of an account that was logged out; what is kept of each account that is
  wanted (listed, not logged out, not under removal) works, but that of the active
  one, which the CLI may have renewed, need only work there; it has been saved again as soon as a login is claimed or
  a switch is past its snapshot; and what each call carries from its reads to its
  writes is one of these.
- *Server.*  `TypeInv` adds to the types that whoever is past its first step has a
  server, a connection or a context; the bound of every queue is part of it.  `Listed`
  is the property for all servers, also those stopped, since a client keeps the list
  of its own.  `ContextsOpen` says when a context may be listed: its connection has not
  closed its contexts.  A connection to another host then has a context that is listed
  or an invoke that uses it, and the last such invoke closes it.  `EachEventOnce` has
  `EventInv`: until it is sent, an event is at one place - with its broadcast, in the
  buffer of its server with a flush to come, or with the flush that took it - and
  nobody has got it; then it is queued once for, or was sent once to, each client that
  was listed and still attends, its invokes and their answers notwithstanding, but
  for those that had contexts of their own when it was sent.  In what order a client
  gets events is not part of it: what the timer holds may be overtaken.
- *Pool.*  `OwnHostOnly` needs that the pool's entry under an identity has this
  identity, also for the workers that still hold what they looked up;
  `ConnectedIsServed` that a connection not started is untouched.
- *Sidecar.*  `OwnReply` needs that no two calls share an id of one handle
  (`IdsGiven`, `IdsDistinct`) and that a line in a pipe belongs to the call with its
  handle and id (`LinesOwned`, `LinesServed`).  `NobodyIsForgotten` needs that an
  unanswered call is in its table (`StillListed`) and that in the table of an ended
  reader there are only calls that have not written yet (`EndedReader`): their
  write will fail.  `SpawnsAreSpaced` has an invariant of its own, `Spaced`, which
  ties the list of failures to the attempts: every attempt but that of the
  current process has failed exactly once, the failures remembered belong to the
  last attempts, and one that was forgotten is older than the block or lies before
  the end of a block.  `Implements` maps steps: `Found` and `Spawn` are `Ask`,
  `Serve` is `Execute`, `BackedOff`, `SpawnFails` and `WriteFails` are `Refuse`,
  `Return` is `Reply` or `Lose`, `TimesOut` is `Lose`; the rest stutters.  That
  `Serve` is `Execute` needs that a request is in a pipe once and not served before,
  and that `Return` is `Reply` needs `OwnReply`.

Every safety property of a passing run is proved.  Only model-checked is liveness
(`CallReturns`, `ExitNoticed`, `SendSettles`, `OrphanEnds`, `CallIsAnswered`), since
TLAPS has no support for the fairness arguments, and the three properties of the
next section, which the code breaks.
No proof uses induction over data, and no module declares a recursive operator.

## Where code and comments differ

Three runs check what a comment or a test promises, and TLC shows a behaviour of
the code that breaks it:

- `turn_esc` (`EscCancelsWaiting`, claude-send.mjs:1368): "Esc always cancels
  whatever is still waiting in the send queue", but only the latest call has its
  token in reach; of two waiting calls the first one starts.
- `codex_process` (`ReaperSparesTurns`, codex_app_server.rs:3121): the test
  `idle_connection_reaper_never_interrupts_live_work` says what the reaper must not
  do; it finds the process idle and takes it away with no other look, and the turn
  of a send in between is accepted by a process that is about to go.
- `account_login` (`LoginStrandsNobody`, commands/claude.rs:664): the snapshot at the
  start is there "so a login that fails halfway cannot strand the user logged out",
  but a start that fails restores too, without having saved anything: a credential
  the CLI has renewed is replaced by the one that no longer works.

While modelling, more such places were met.  The models contain the steps unless
it says otherwise:

- pty.rs:1171: the shutdown waits for reader and coalescer "before a same-id session
  is created", but the entry left the map before, and another caller creates the id
  while the old session drains.
- pty.rs:1172: the final output of a session that ends by itself is dropped when the
  watcher removes the entry before the coalescer flushes.
- pty.rs:1344: a child whose pipes cannot be opened after the spawn is dropped
  without a kill; `NoLeakedChild` names this exception.
- claude-session.mjs:179, 306: a call that awaits its query options opens the
  query even if the session was put to rest, stopped or resumed meanwhile.
- claude-session.mjs:167: a resume of the attached conversation swaps the record
  while a turn is importing the SDK or building its query.
- claude-session.mjs:180: a prompt sent while the history is read starts a query
  without the conversation.
- claude-session.mjs:588: the prompts of a turn that ended unanswered stay, and
  are replayed before the one that blocks.
- state.mjs:83: a retry after a reset may run a prompt twice.
- sdk-loader.mjs:1: during the import, callers are told there is no SDK.
- sidecar.rs:675: "stdout closed => child exited" is also reached by a line that
  is not UTF-8; the process lives on without a reader, and each later call waits
  for its whole timeout.
- sidecar.rs:118: "dropping the bridge kills the sidecar", but dropping a `Child`
  does not kill it; it ends when its stdin closes (server.mjs:184), hence the
  exception in `NoStraySidecar`.
- remote_client.rs:109: the socket "is torn down only when the last referrer is
  released", but a window may join between the count and the close.
- remote_client.rs:109, 259, 368: after a redial, siblings are no referrers;
  overlapping connects leave a window a referrer of two hosts; a late
  `pool.remove` drops a connection dialled meanwhile.
- codex_app_server.rs:4440: a takeover asks `local_turn_state` about a turn of
  another session but looks at its own, which shows none; a turn that was accepted
  and has not begun counts as finished and runs beside its replacement.  Hence
  `OwnTurnIsOver` speaks of a session's own turns.
- codex_app_server.rs:3198, 3220: an outdated process that has got a turn after the look is
  recycled all the same; an interrupt of that turn goes to the new process, so it may
  run on beside its replacement.
- codex_app_server.rs:4693: when the process dies, the approvals of its sessions are
  dropped only if nobody holds it, and the check runs before the place of the
  connection is cleared, so they stay; a turn it had goes on being shown.
- codex_app_server.rs:5826: stop removes the lock object others wait for; the next
  call makes a new one, and two calls of one session run at once.
- codex_app_server.rs:4142: a notification of an unknown thread goes to the only
  session, whichever it is.
- codex_app_server.rs:4550: two calls that find no process both spawn one; the second
  replaces the first, which lives as long as its call.
- codex_app_server.rs:5190: a send whose picture cannot be used ends the turn the
  session shows, which runs on.
- codex_app_server.rs:6568: a thread/started whose thread is not found becomes the
  thread of the only session, whichever it is.
- codex_app_server.rs:6199 (not in the model): the id of an approval is the number
  of the request, which starts again with the next process.
- account_store.rs:422: after a crash between the write for the CLI and that of the
  index, the next snapshot saves the new account's credential under the old one.
- account_store.rs:448, 462: a removal ignores that the CLI could not be given the
  next credential; `mark_warning_shown` writes an index it read without the lock, and
  can undo a switch.
- claude-auth.mjs:445, reached through remote_server.rs:2318: a logout looks at no
  lock, claim or index; the account goes on being shown as active.
- claude-auth-login.mjs:100: two logins may both find the slot free, if the claim of
  the first expires while the CLI is installed; the later one takes the slot.
- remote_server.rs:540: after a rotation the old token is to stop working everywhere,
  but a connection that compared it before, and registers after the clients were
  told to close, goes on being served.  No property of the model speaks of the token.
- remote_server.rs:435: plans/websocket.md:244 says that events are broadcast "to
  connected remote clients", but a connection that registers after a stop goes on
  being served without the next server knowing it; it hears no events, and the
  limit on connections counts anew for each server.
- remote_server.rs:606: buffered output is taken and then sent, by two threads: what
  the timer has taken may be sent after the message that should follow it.
- remote_server.rs:1293: a failed send returns without taking the client off the
  list; the next event does so, and it is never shown as recently connected.
- profile_context.rs:227: when the profiles of the other host cannot be listed, the
  connection of the context stays; the next use takes it for connected and does not
  ask again.
- profile_context.rs:158: a profile that has gone closes its context without
  disconnecting it.
- commands/claude.rs:3900 (not in the model): the desktop's commands do not look at
  the claim of a remote login.

## Not modelled

`PROJECT.json` lists every component with its status.  Left out on purpose:
installation, updates, git, files, GitHub, images, settings, snippets,
notifications, metrics (I/O, one request at a time, no interleaving that
matters), the React views, scripts and packaging.  Of the components that are
modelled partly, each section above says what is missing.

## What could come next

1. `RemoteClientPool` as another implementation of `Rpc`, proved step by step.
2. `PtyViewport` on top of `PtyLifecycle`: claims, resizes, input.
3. The Codex account store, which treats the shared auth file as the truth.
4. `ClaudeTurn`, second part: rewind, permission mode, several interrupts,
   background results, events to the client; an abstract `TurnQueue` (each prompt
   is run at most once, in order, or cancelled) with a refinement mapping.
5. In `SidecarBridge`, a write that blocks on a full pipe.
6. `RemoteServer` with the list of recent clients, PTY claims and what a context lets
   through, composed with `RemoteClientPool` of the other host.
7. Window registry (three files, saved one after the other), channel runtime.
