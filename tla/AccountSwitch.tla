--------------------------- MODULE AccountSwitch ---------------------------
(* The Claude accounts of a host without a screen: account_store.rs, the    *)
(* login ceremony of remote_server.rs and commands/claude.rs, and the       *)
(* driver of the CLI's login in the sidecar (claude-auth-login.mjs).        *)
(*                                                                          *)
(* Three places are kept in step without a transaction: the index file, the *)
(* credential of each account in the keyring, and the one credential the    *)
(* CLI uses, which the CLI itself rewrites and a logout takes away.  Remote *)
(* clients call on threads of their own; every write of a file or of the    *)
(* keyring is a step, and so is every read whose answer is used later.      *)
(*                                                                          *)
(* Merged: a credential loaded for the CLI is written at once (Incoming,    *)
(* Restore); an index is read with the credential saved next (Register); an *)
(* account keeps its place in the keyring, where the code gives one that    *)
(* was removed and logs in again a new id; the warning flag of the index is *)
(* left out, but not the write that stores it.  Left out: a sidecar that    *)
(* needs more than five minutes for a login's call, and the logins and      *)
(* imports of the desktop, which look at no claim.                          *)
EXTENDS Naturals, FiniteSets

CONSTANTS Accounts,     \* accounts, by email
          Clients,      \* remote clients, each with one call at a time
          NoAccount,
          MaxLogins,    \* bound: login ceremonies
          MaxVersion,   \* bound: credentials issued to an account
          MaxFaults     \* bound: crashes and failed writes

ASSUME NoneAssumption == NoAccount \notin Accounts
ASSUME BoundAssumption == MaxLogins \in Nat /\ MaxVersion \in Nat /\ MaxFaults \in Nat

\* A credential: whose it is and the how manieth.
Credential(a, v) == [owner |-> a, version |-> v]
NoCredential == Credential(NoAccount, 0)
Credentials == {NoCredential} \cup [owner : Accounts, version : 1 .. MaxVersion]

Logins == 1 .. MaxLogins
NoLogin == 0

VARIABLES
    index,      \* the index file: the accounts listed, and the active one
    stored,     \* the credential of an account in the keyring
    cli,        \* the credential the CLI uses
    issued,     \* how many credentials an account was given
    live,       \* the credentials that work: not replaced by renewal, not revoked
    claim,      \* CLAUDE_REMOTE_LOGIN_CLAIM
    mutex,      \* whether a switch or removal holds its lock
    ceremony,   \* a login process of the sidecar
    slot,       \* activeLogin of the sidecar
    call,       \* the call a client is at
    loggedOut,  \* history: the accounts logged out and not logged in again since
    trouble,    \* history: what went wrong or overlapped so far
    faults      \* how many crashes and failed writes there were

hostVars == <<index, stored, cli>>
loginVars == <<claim, ceremony, slot>>
providerVars == <<issued, live, loggedOut>>
vars == <<hostVars, providerVars, loginVars, mutex, call, trouble, faults>>

Index == [listed : SUBSET Accounts, active : Accounts \cup {NoAccount}]
NoClaim == [held |-> FALSE, login |-> NoLogin]

\* A call: what it does, how far it is, the account it is about, the one it
\* makes active, its login, and the index and the credential as it read them.
NoIndex == [listed |-> {}, active |-> NoAccount]
Idle == [op |-> "none", pc |-> "idle", acct |-> NoAccount, to |-> NoAccount,
         login |-> NoLogin, idx |-> NoIndex, cred |-> NoCredential]
LoginOps == {"start", "submit", "cancel", "list", "activate"}
Starting == {"spawn", "resolve", "url"}
AtSidecar == Starting \cup {"submit", "wait", "cancel"}
Pcs == AtSidecar \cup {"idle", "snapshot", "read", "keep", "incoming", "save", "delete", "bind",
                       "verify", "fetch", "register", "activate", "restore", "clear", "release"}
Calls == [op : {"none", "switch", "remove", "mark"} \cup LoginOps, pc : Pcs,
          acct : Accounts \cup {NoAccount}, to : Accounts \cup {NoAccount},
          login : {NoLogin} \cup Logins, idx : Index, cred : Credentials]

Troubles == {"crash", "keyring", "cli", "index", "sidecar",     \* a fault
             "update",      \* an index was written that had been read too early
             "race",        \* two calls of one login overlapped
             "expired",     \* a claim expired under a call
             "late",        \* a login that was killed stored its credential all the same
             "rotated",     \* the CLI renewed its credential during a call or login
             "unstarted"}   \* a login failed before it had saved anything

\* What each variable may hold.  In particular only a listed account is active
\* (normalize_index).
TypeOK ==
    /\ index \in Index /\ index.active \in index.listed \cup {NoAccount}
    /\ stored \in [Accounts -> Credentials]
    /\ cli \in Credentials
    /\ issued \in [Accounts -> 0 .. MaxVersion]
    /\ live \subseteq Credentials \ {NoCredential}
    /\ claim \in [held : BOOLEAN, login : {NoLogin} \cup Logins]
    /\ mutex \in BOOLEAN
    /\ loggedOut \subseteq Accounts
    /\ ceremony \in [Logins -> {"unborn", "running", "dying", "succeeded", "failed"}]
    /\ slot \in {NoLogin} \cup Logins
    /\ call \in [Clients -> Calls]
    /\ trouble \subseteq Troubles
    /\ faults \in 0 .. MaxFaults

\* No account is known yet; the CLI may be logged in already.
Init ==
    /\ index = NoIndex
    /\ stored = [a \in Accounts |-> NoCredential]
    /\ \/ cli = NoCredential /\ issued = [a \in Accounts |-> 0]
       \/ \E b \in Accounts : /\ MaxVersion > 0
                              /\ cli = Credential(b, 1)
                              /\ issued = [a \in Accounts |-> IF a = b THEN 1 ELSE 0]
    /\ live = {cli} \ {NoCredential}
    /\ loggedOut = {}
    /\ claim = NoClaim
    /\ mutex = FALSE
    /\ ceremony = [l \in Logins |-> "unborn"]
    /\ slot = NoLogin
    /\ call = [c \in Clients |-> Idle]
    /\ trouble = {}
    /\ faults = 0

-----------------------------------------------------------------------------
(* Steps the operations share *)

At(c, pc) == call[c].pc = pc
Goes(c, pc) == call' = [call EXCEPT ![c].pc = pc]
Returns(c) == call' = [call EXCEPT ![c] = Idle]
Exclusive(c) == call[c].op \in {"switch", "remove"}
\* while_claude_remote_login_idle drops its guard when the operation returns.
ReturnsUnlocked(c) == Returns(c) /\ mutex' = (mutex /\ ~Exclusive(c))

Blame(t) == trouble' = trouble \cup t
Fault(t) == faults < MaxFaults /\ faults' = faults + 1 /\ Blame({t})
Healthy == UNCHANGED <<trouble, faults>>
Busy == (\E c \in Clients : ~At(c, "idle")) \/ slot # NoLogin
InLogin == {c \in Clients : call[c].op \in LoginOps}

\* snapshot_active_account_credential: what the CLI uses is saved as the
\* credential of the active account.  The index is read,
SnapshotDone(c) == IF call[c].op = "switch" THEN Goes(c, "incoming") ELSE Returns(c)
Snapshot(c) ==
    /\ At(c, "snapshot")
    /\ IF index.active = NoAccount
       THEN SnapshotDone(c)
       ELSE call' = [call EXCEPT ![c].pc = "read", ![c].acct = index.active]
    /\ Healthy /\ UNCHANGED <<hostVars, providerVars, loginVars, mutex>>

\* Mutant: nothing is saved.
ReadsNothing(c) == At(c, "read") /\ SnapshotDone(c) /\ Healthy
                   /\ UNCHANGED <<hostVars, providerVars, loginVars, mutex>>

\* then the credential of the CLI,
ReadCli(c) ==
    /\ At(c, "read")
    /\ IF cli = NoCredential
       THEN SnapshotDone(c)
       ELSE call' = [call EXCEPT ![c].pc = "keep", ![c].cred = cli]
    /\ Healthy /\ UNCHANGED <<hostVars, providerVars, loginVars, mutex>>

\* and the keyring takes it.
Keep(c) ==
    /\ At(c, "keep")
    /\ stored' = [stored EXCEPT ![call[c].acct] = call[c].cred]
    /\ SnapshotDone(c)
    /\ Healthy /\ UNCHANGED <<index, cli, providerVars, loginVars, mutex>>

\* The keyring refuses: so does the switch, and a login is ended.
KeepFails(c) ==
    /\ At(c, "keep")
    /\ Fault("keyring")
    /\ IF Exclusive(c) THEN ReturnsUnlocked(c) ELSE Goes(c, "clear") /\ UNCHANGED mutex
    /\ UNCHANGED <<hostVars, providerVars, loginVars>>

\* Mutant: the removed account stays active.
ChangedKeepsActive(x) ==
    CASE x.op = "remove" -> [x.idx EXCEPT !.listed = @ \ {x.acct}]
      [] x.op \in {"switch", "activate"} -> [x.idx EXCEPT !.active = x.acct]
      [] x.op = "list" -> [x.idx EXCEPT !.listed = @ \cup {x.acct}]
      [] OTHER -> x.idx

\* The index as the operation writes it.
Changed(x) ==
    CASE x.op = "switch" -> [x.idx EXCEPT !.active = x.to]
      [] x.op = "remove" -> [listed |-> x.idx.listed \ {x.acct},
                             active |-> IF x.idx.active = x.acct THEN x.to ELSE x.idx.active]
      [] x.op = "list" -> [x.idx EXCEPT !.listed = @ \cup {x.acct}]
      [] x.op = "activate" -> [x.idx EXCEPT !.active = x.acct]
      [] OTHER -> x.idx     \* mark_warning_shown

\* write_index, and what comes after it.
AfterSave == [remove |-> "delete", list |-> "activate", activate |-> "clear"]
Save(c) ==
    /\ At(c, "save")
    /\ index' = Changed(call[c])
    /\ IF call[c].op \in DOMAIN AfterSave
       THEN Goes(c, AfterSave[call[c].op]) /\ UNCHANGED mutex
       ELSE ReturnsUnlocked(c)
    /\ Blame(IF call[c].idx = index THEN {} ELSE {"update"})
    /\ UNCHANGED <<stored, cli, providerVars, loginVars, faults>>

SaveFails(c) ==
    /\ At(c, "save")
    /\ Fault("index")
    /\ IF call[c].op \in LoginOps THEN Goes(c, "restore") /\ UNCHANGED mutex
                                  ELSE ReturnsUnlocked(c)
    /\ UNCHANGED <<hostVars, providerVars, loginVars>>

-----------------------------------------------------------------------------
(* switch_account, remove_account, mark_warning_shown *)

\* Mutant: not refused while a login is claimed.
LocksAnyway(c) == At(c, "idle") /\ ~mutex /\ mutex' = TRUE

\* Refused while a login is claimed; the claim's lock is kept until the end.
Locks(c) == At(c, "idle") /\ ~mutex /\ ~claim.held /\ mutex' = TRUE

Switch(c, a) ==
    /\ Locks(c)
    /\ a \in index.listed
    /\ call' = [call EXCEPT ![c] = [Idle EXCEPT !.op = "switch", !.pc = "snapshot",
                                                !.to = a, !.idx = index]]
    /\ Healthy /\ UNCHANGED <<hostVars, providerVars, loginVars>>

\* Mutant: the credential goes first.
RemoveCredentialFirst(c, a, b) ==
    /\ Locks(c) /\ a \in index.listed
    /\ b = NoAccount /\ index.active # a
    /\ call' = [call EXCEPT ![c] = [Idle EXCEPT !.op = "remove", !.pc = "save", !.acct = a, !.idx = index]]
    /\ stored' = [stored EXCEPT ![a] = NoCredential]
    /\ Healthy /\ UNCHANGED <<index, cli, providerVars, loginVars>>

\* Any other account may follow the active one (the code takes the first).
Remove(c, a, b) ==
    /\ Locks(c)
    /\ a \in index.listed
    /\ IF index.active = a /\ index.listed # {a} THEN b \in index.listed \ {a}
                                                 ELSE b = NoAccount
    /\ call' = [call EXCEPT ![c] = [Idle EXCEPT !.op = "remove", !.acct = a, !.to = b, !.idx = index,
                                       !.pc = IF b = NoAccount THEN "save" ELSE "incoming"]]
    /\ Healthy /\ UNCHANGED <<hostVars, providerVars, loginVars>>

Mark(c) ==
    /\ At(c, "idle")
    /\ call' = [call EXCEPT ![c] = [Idle EXCEPT !.op = "mark", !.pc = "save", !.idx = index]]
    /\ Healthy /\ UNCHANGED <<hostVars, providerVars, loginVars, mutex>>

\* The credential of the account to come is loaded and given to the CLI.
\* Without one the switch is refused, and the removal goes on.
Incoming(c) ==
    LET cred == stored[call[c].to] IN
    /\ At(c, "incoming")
    /\ cli' = IF cred = NoCredential THEN cli ELSE cred
    /\ IF cred = NoCredential /\ call[c].op = "switch" THEN ReturnsUnlocked(c)
                                                       ELSE Goes(c, "save") /\ UNCHANGED mutex
    /\ Healthy /\ UNCHANGED <<index, stored, providerVars, loginVars>>

IncomingFails(c) ==
    /\ At(c, "incoming")
    /\ Fault("cli")
    /\ IF call[c].op = "switch" THEN ReturnsUnlocked(c) ELSE Goes(c, "save") /\ UNCHANGED mutex
    /\ UNCHANGED <<hostVars, providerVars, loginVars>>

Delete(c) ==
    /\ At(c, "delete")
    /\ stored' = [stored EXCEPT ![call[c].acct] = NoCredential]
    /\ ReturnsUnlocked(c)
    /\ Healthy /\ UNCHANGED <<index, cli, providerVars, loginVars>>

-----------------------------------------------------------------------------
(* The login ceremony *)

HostQuiet == UNCHANGED <<hostVars, providerVars>>

\* try_begin_claude_remote_login.
Start(c) ==
    /\ At(c, "idle") /\ ~mutex /\ ~claim.held
    /\ claim' = [held |-> TRUE, login |-> NoLogin]
    /\ call' = [call EXCEPT ![c] = [Idle EXCEPT !.op = "start", !.pc = "spawn"]]
    /\ Healthy /\ HostQuiet /\ UNCHANGED <<ceremony, slot, mutex>>

\* A login process is asked to end.  At its prompt it does; one that has been
\* given its code may store a credential first.
HasCode(l) == \E c \in Clients : At(c, "wait") /\ call[c].login = l
Killed(L) == [l \in Logins |-> IF l \in L /\ ceremony[l] = "running"
                               THEN IF HasCode(l) THEN "dying" ELSE "failed"
                               ELSE ceremony[l]]

\* claude.authLoginStart: the sidecar is still at another login ("auth_in_progress",
\* which is not terminal, so the claim stays),
StartRefused(c) ==
    /\ At(c, "spawn") /\ slot # NoLogin
    /\ Returns(c)
    /\ Healthy /\ HostQuiet /\ UNCHANGED <<loginVars, mutex>>

\* or it looks for the CLI,
Resolve(c) ==
    /\ At(c, "spawn") /\ slot = NoLogin
    /\ Goes(c, "resolve")
    /\ Healthy /\ HostQuiet /\ UNCHANGED <<loginVars, mutex>>

\* which may not be there or not start.
StartFails(c) ==
    /\ At(c, "resolve")
    /\ Goes(c, "restore")
    /\ Blame({"unstarted"}) /\ UNCHANGED faults
    /\ HostQuiet /\ UNCHANGED <<loginVars, mutex>>

\* The new login takes the slot, although another may have taken it meanwhile,
Spawn(c, l) ==
    /\ At(c, "resolve")
    /\ ceremony[l] = "unborn" /\ \A k \in 1 .. l - 1 : ceremony[k] # "unborn"
    /\ ceremony' = [ceremony EXCEPT ![l] = "running"]
    /\ slot' = l
    /\ call' = [call EXCEPT ![c].pc = "url", ![c].login = l]
    /\ Healthy /\ HostQuiet /\ UNCHANGED <<claim, mutex>>

\* shows its URL,
ShowUrl(c) ==
    /\ At(c, "url")
    /\ Goes(c, "bind")
    /\ Healthy /\ HostQuiet /\ UNCHANGED <<loginVars, mutex>>

\* or does not and is killed.
NoUrl(c) ==
    LET l == call[c].login IN
    /\ At(c, "url")
    /\ ceremony' = Killed({l})
    /\ slot' = IF slot = l THEN NoLogin ELSE slot
    /\ Goes(c, "restore")
    /\ Blame({"unstarted"}) /\ UNCHANGED faults
    /\ HostQuiet /\ UNCHANGED <<claim, mutex>>

\* bind_claude_remote_login_id, whoever holds the claim by now.
Bind(c) ==
    /\ At(c, "bind") /\ ~mutex
    /\ claim' = IF claim.held THEN [claim EXCEPT !.login = call[c].login] ELSE claim
    /\ Goes(c, "snapshot")
    /\ Healthy /\ HostQuiet /\ UNCHANGED <<ceremony, slot, mutex>>

\* touch_claude_remote_login lets the calls of the claimed login pass, and those
\* of old clients, which name none.
Touch(c, op, l) ==
    /\ At(c, "idle") /\ ~mutex
    /\ claim.held /\ claim.login # NoLogin
    /\ l \in {NoLogin, claim.login}
    /\ call' = [call EXCEPT ![c] = [Idle EXCEPT !.op = op, !.pc = op, !.login = l]]
    /\ Blame(IF InLogin = {} THEN {} ELSE {"race"})
    /\ HostQuiet /\ UNCHANGED <<loginVars, mutex, faults>>
Submit(c, l) == Touch(c, "submit", l)
Cancel(c, l) == Touch(c, "cancel", l)

\* loginIdMatches: a call that names no login is about whichever is there.
Matching(c) == call[c].login \in {NoLogin, slot}

\* claude.authLoginSubmitCode hands the code over, or finds another login; or
\* none, or one that has ended already, and then gives up that one.
SubmitHandled(c) ==
    /\ At(c, "submit")
    /\ IF slot # NoLogin /\ ceremony[slot] \in {"running", "dying"}
       THEN IF Matching(c) THEN call' = [call EXCEPT ![c].pc = "wait", ![c].login = slot]
                           ELSE Returns(c)
       ELSE call' = [call EXCEPT ![c].pc = "restore", ![c].login = slot]
    /\ Healthy /\ HostQuiet /\ UNCHANGED <<loginVars, mutex>>

\* The CLI takes the code and stores the credential of whoever logged in; its
\* exit code and its output may call that a failure all the same.
CliLogsIn(l, a) ==
    /\ ceremony[l] = "dying" \/ (ceremony[l] = "running" /\ HasCode(l))
    /\ issued[a] < MaxVersion
    /\ issued' = [issued EXCEPT ![a] = @ + 1]
    /\ cli' = Credential(a, issued[a] + 1)
    /\ live' = live \cup {cli'}
    /\ \E end \in {"succeeded", "failed"} : ceremony' = [ceremony EXCEPT ![l] = end]
    /\ Blame(IF ceremony[l] = "dying" THEN {"late"} ELSE {})
    /\ UNCHANGED <<index, stored, loggedOut, claim, slot, mutex, call, faults>>

\* It rejects the code, or ends,
CliFails(l) ==
    /\ ceremony[l] \in {"running", "dying"}
    /\ ceremony' = [ceremony EXCEPT ![l] = "failed"]
    /\ Healthy /\ HostQuiet /\ UNCHANGED <<claim, slot, mutex, call>>

\* or is killed by its timer, which gives the slot back if it has it.
KillTimer(l) ==
    /\ slot = l \/ ceremony[l] = "running"
    /\ ceremony' = Killed({l})
    /\ slot' = IF slot = l THEN NoLogin ELSE slot
    /\ Healthy /\ HostQuiet /\ UNCHANGED <<claim, mutex, call>>

\* The process has ended, or the sidecar stops waiting and kills it.
SubmitReturns(c) ==
    LET l == call[c].login IN
    /\ At(c, "wait")
    /\ ceremony' = Killed({l})
    /\ Goes(c, IF ceremony[l] = "succeeded" THEN "verify" ELSE "restore")
    /\ Healthy /\ HostQuiet /\ UNCHANGED <<claim, slot, mutex>>

\* claude.authLoginCancel.
CancelHandled(c) ==
    /\ At(c, "cancel")
    /\ IF slot # NoLogin /\ Matching(c)
       THEN /\ ceremony' = Killed({slot})
            /\ call' = [call EXCEPT ![c].pc = "restore", ![c].login = slot]
       ELSE Returns(c) /\ UNCHANGED ceremony
    /\ Healthy /\ HostQuiet /\ UNCHANGED <<claim, slot, mutex>>

\* finish_claude_login_stage: `claude auth status` says who logged in,
Verify(c) ==
    /\ At(c, "verify") /\ cli # NoCredential
    /\ call' = [call EXCEPT ![c].pc = "fetch", ![c].acct = cli.owner]
    /\ Healthy /\ HostQuiet /\ UNCHANGED <<loginVars, mutex>>

\* then the credential is read.
Fetch(c) ==
    /\ At(c, "fetch") /\ cli # NoCredential
    /\ call' = [call EXCEPT ![c].pc = "register", ![c].cred = cli]
    /\ Healthy /\ HostQuiet /\ UNCHANGED <<loginVars, mutex>>

\* Either may not answer.
VerifyFails(c) ==
    /\ call[c].pc \in {"verify", "fetch"}
    /\ Goes(c, "restore")
    /\ Healthy /\ HostQuiet /\ UNCHANGED <<loginVars, mutex>>

\* upsert_new_login_account saves that credential under that account and lists
\* it (Save),
Register(c) ==
    /\ At(c, "register")
    /\ stored' = [stored EXCEPT ![call[c].acct] = call[c].cred]
    /\ call' = [call EXCEPT ![c].pc = "save", ![c].op = "list", ![c].idx = index]
    /\ loggedOut' = IF cli = call[c].cred THEN loggedOut \ {call[c].acct} ELSE loggedOut
    /\ Healthy /\ UNCHANGED <<index, cli, issued, live, loginVars, mutex>>

RegisterFails(c) ==
    /\ At(c, "register")
    /\ Fault("keyring")
    /\ Goes(c, "restore")
    /\ HostQuiet /\ UNCHANGED <<loginVars, mutex>>

\* set_active_account_id makes it the active one (Save again), if still listed.
Activate(c) ==
    /\ At(c, "activate")
    /\ IF call[c].acct \in index.listed
       THEN call' = [call EXCEPT ![c].pc = "save", ![c].op = "activate", ![c].idx = index]
       ELSE Goes(c, "restore")
    /\ Healthy /\ HostQuiet /\ UNCHANGED <<loginVars, mutex>>

\* Mutant: the CLI keeps what the login left.
RestoreNothing(c) == At(c, "restore") /\ Goes(c, "clear") /\ Healthy /\ HostQuiet
                     /\ UNCHANGED <<loginVars, mutex>>

\* restore_active_account_credential, when a login failed or was cancelled.
Restore(c) ==
    LET cred == IF index.active = NoAccount THEN NoCredential ELSE stored[index.active] IN
    /\ At(c, "restore")
    /\ cli' = IF cred = NoCredential THEN cli ELSE cred
    /\ Goes(c, "clear")
    /\ Healthy /\ UNCHANGED <<index, stored, providerVars, loginVars, mutex>>

RestoreFails(c) ==
    /\ At(c, "restore")
    /\ Fault("cli")
    /\ Goes(c, "clear")
    /\ HostQuiet /\ UNCHANGED <<loginVars, mutex>>

\* The claim is given up, whoever's it is, then the slot of the sidecar.
Clear(c) ==
    /\ At(c, "clear") /\ ~mutex
    /\ claim' = NoClaim
    /\ Goes(c, "release")
    /\ Healthy /\ HostQuiet /\ UNCHANGED <<ceremony, slot, mutex>>

Release(c) ==
    LET mine == slot # NoLogin /\ slot = call[c].login IN
    /\ At(c, "release")
    /\ slot' = IF mine THEN NoLogin ELSE slot
    /\ ceremony' = IF mine THEN Killed({slot}) ELSE ceremony
    /\ Returns(c)
    /\ Healthy /\ HostQuiet /\ UNCHANGED <<claim, mutex>>

\* The claim is three minutes old.  The sidecar's timer is older than the
\* claim's, so the slot is only still taken under a call.
Expire ==
    /\ claim.held /\ ~mutex
    /\ slot # NoLogin => InLogin # {}
    /\ claim' = NoClaim
    /\ Blame(IF InLogin = {} THEN {} ELSE {"expired"})
    /\ HostQuiet /\ UNCHANGED <<ceremony, slot, mutex, call, faults>>

-----------------------------------------------------------------------------
(* The environment *)

\* The CLI renews its credential; the one before stops working.
Rotate ==
    /\ cli \in live /\ issued[cli.owner] < MaxVersion
    /\ issued' = [issued EXCEPT ![cli.owner] = @ + 1]
    /\ cli' = Credential(cli.owner, issued[cli.owner] + 1)
    /\ live' = (live \ {cli}) \cup {cli'}
    /\ Blame(IF Busy \/ claim.held THEN {"rotated"} ELSE {})
    /\ UNCHANGED <<index, stored, loggedOut, loginVars, mutex, call, faults>>

\* claude.authLogout, which any client and the desktop may call at any moment:
\* `claude auth logout` takes the credential of the CLI away, and may revoke it.
\* Neither the claim nor the index is looked at.
Logout ==
    /\ cli # NoCredential
    /\ cli' = NoCredential
    /\ live' \in {live, live \ {cli}}
    /\ loggedOut' = loggedOut \cup {cli.owner}
    /\ Healthy /\ UNCHANGED <<index, stored, issued, loginVars, mutex, call>>

\* The host process ends, and the sidecar with it; it starts again.
Crash ==
    /\ Busy
    /\ Fault("crash")
    /\ call' = [c \in Clients |-> Idle]
    /\ mutex' = FALSE /\ claim' = NoClaim /\ slot' = NoLogin /\ ceremony' = Killed(Logins)
    /\ HostQuiet

\* The sidecar ends: the calls it is at fail, and only a start gives up its claim.
SidecarDies ==
    /\ slot # NoLogin \/ \E c \in Clients : call[c].pc \in AtSidecar
    /\ Fault("sidecar")
    /\ call' = [c \in Clients |-> IF call[c].pc \in Starting THEN [call[c] EXCEPT !.pc = "clear"]
                                  ELSE IF call[c].pc \in AtSidecar THEN Idle ELSE call[c]]
    /\ slot' = NoLogin /\ ceremony' = Killed(Logins)
    /\ HostQuiet /\ UNCHANGED <<claim, mutex>>

Next ==
    \/ \E c \in Clients :
          \/ Snapshot(c) \/ ReadCli(c) \/ Keep(c) \/ KeepFails(c) \/ Save(c) \/ SaveFails(c)
          \/ \E a \in Accounts : Switch(c, a)
          \/ \E a \in Accounts, b \in Accounts \cup {NoAccount} : Remove(c, a, b)
          \/ Mark(c) \/ Incoming(c) \/ IncomingFails(c) \/ Delete(c)
          \/ Start(c) \/ StartRefused(c) \/ Resolve(c) \/ StartFails(c)
          \/ \E l \in Logins : Spawn(c, l)
          \/ ShowUrl(c) \/ NoUrl(c) \/ Bind(c)
          \/ \E l \in {NoLogin} \cup Logins : Submit(c, l) \/ Cancel(c, l)
          \/ SubmitHandled(c) \/ SubmitReturns(c) \/ CancelHandled(c)
          \/ Verify(c) \/ Fetch(c) \/ VerifyFails(c) \/ Register(c) \/ RegisterFails(c) \/ Activate(c)
          \/ Restore(c) \/ RestoreFails(c) \/ Clear(c) \/ Release(c)
    \/ \E l \in Logins : CliFails(l) \/ KillTimer(l) \/ \E a \in Accounts : CliLogsIn(l, a)
    \/ Expire \/ Rotate \/ Logout \/ Crash \/ SidecarDies

Spec == Init /\ [][Next]_vars

-----------------------------------------------------------------------------
(* Properties *)

Without(t) == trouble \cap t = {}

\* The keyring never has another account's credential under an account, unless
\* a file could not be written, an operation was cut off, two overlapped, or a
\* login outlived its end.  switch_account saves whatever the CLI has under the
\* account the index calls active, so the two have to agree whenever it runs.
Upset == {"crash", "cli", "index", "sidecar", "update", "race", "expired", "late"}
StoredIsOwn == Without(Upset) => \A a \in Accounts : stored[a].owner \in {a, NoAccount}

\* When nothing is under way, the CLI uses the account shown as active, or that
\* account was logged out and the CLI uses none: never another one.
InUse(a) == cli.owner = a \/ (cli = NoCredential /\ a \in loggedOut)
ActiveIsInUse == Without(Upset) /\ ~Busy /\ index.active # NoAccount => InUse(index.active)

\* A listed account always has a credential to switch to, whatever fails and
\* wherever the host is cut off: credentials are saved before the account is
\* listed and deleted after it is not (the comment in remove_account).
ListedHasCredential ==
    Without({"update", "race", "expired"}) => \A a \in index.listed : stored[a] # NoCredential

\* A listed account never has to log in again: the CLI or the keyring has a
\* credential of it that still works, until it is logged out or its removal
\* begins.  Nothing another account does takes it away, its logout included.
Removed == {call[c].acct : c \in {d \in Clients : call[d].op = "remove"}}
ListedCanReturn ==
    trouble = {} => \A a \in index.listed \ (Removed \cup loggedOut) :
                        stored[a] \in live \/ (cli \in live /\ cli.owner = a)

\* A login that fails does not strand the user logged out: the CLI is given a
\* credential that works.  finish_claude_login_stage says that the snapshot of
\* the start sees to it; but a start that fails restores without having saved.
LoginStrandsNobody ==
    trouble \subseteq {"unstarted"} /\ loggedOut = {} => cli = NoCredential \/ cli \in live
=============================================================================
