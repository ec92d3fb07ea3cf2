------------------------ MODULE AccountSwitchProofs ------------------------
(* The safety properties of AccountSwitch, for every set of accounts and   *)
(* clients and every bound on logins, credentials and faults.              *)
EXTENDS AccountSwitch, TLAPS

-----------------------------------------------------------------------------
(* The invariant *)

\* How far an operation may be, and what its account is by then.
Shape(x) ==
    /\ x.op = "none" => x.pc = "idle"
    /\ x.op = "switch" => /\ x.pc \in {"snapshot", "read", "keep", "incoming", "save"}
                          /\ x.to \in x.idx.listed
    /\ x.op = "remove" => /\ x.pc \in {"incoming", "save", "delete"}
                          /\ x.to \in (x.idx.listed \ {x.acct}) \cup {NoAccount}
                          /\ x.pc = "incoming" => x.to # NoAccount /\ x.idx.active = x.acct
    /\ x.op = "remove" => x.acct \in x.idx.listed
    /\ x.op = "mark" => x.pc = "save"
    /\ x.op = "start" => x.pc \in {"spawn", "resolve", "url", "bind", "snapshot", "read", "keep",
                                   "restore", "clear", "release"}
    /\ x.op = "submit" => x.pc \in {"submit", "wait", "verify", "fetch", "register", "restore",
                                    "clear", "release"}
    /\ x.op = "cancel" => x.pc \in {"cancel", "restore", "clear", "release"}
    /\ x.op = "list" => x.pc \in {"save", "activate", "restore", "clear", "release"}
    /\ x.op = "activate" => x.pc \in {"save", "restore", "clear", "release"}
    /\ x.op = "activate" => x.acct \in x.idx.listed
    /\ x.pc \in {"read", "keep", "fetch", "register"} \/ x.op = "list" => x.acct \in Accounts
    /\ x.pc \in {"keep", "register"} => x.cred # NoCredential
    /\ x.idx.active \in x.idx.listed \cup {NoAccount}
Shapes == \A c \in Clients : Shape(call[c])

\* The lock: one switch or removal at a time, and none while a login is claimed.
Engaged(c) == call[c].op \in LoginOps /\ call[c].pc # "release"
Lock ==
    /\ \A c \in Clients : Exclusive(c) => mutex
    /\ mutex => ~claim.held
    /\ \A c, d \in Clients : Exclusive(c) /\ Exclusive(d) => c = d

\* The claim: one call of a login at a time.
OneLogin ==
    Without({"race", "expired"}) =>
        /\ \A c \in Clients : Engaged(c) => claim.held
        /\ \A c, d \in Clients : Engaged(c) /\ Engaged(d) => c = d

\* What has to have a credential: the listed accounts, the one about to be
\* listed and the one to come, but not the one whose credential is deleted.
Secured(x) ==
    /\ x.op = "list" /\ x.pc = "save" => stored[x.acct] # NoCredential
    /\ x.op = "remove" /\ x.pc = "incoming" => stored[x.to] # NoCredential
    /\ x.pc = "delete" => x.acct \notin index.listed
Kept ==
    Without({"update", "race", "expired"}) =>
        /\ \A a \in index.listed : stored[a] # NoCredential
        /\ \A c \in Clients : Secured(call[c])

\* The CLI uses the active account or, that one logged out, none, except between
\* the step that changes the one and the step that changes the other.
Calm == Without(Upset)
Own == \A a \in Accounts : stored[a].owner \in {a, NoAccount}
Agreed == index.active # NoAccount => InUse(index.active)
Between(c) ==
    \/ call[c].op = "switch" /\ call[c].pc = "save"
    \/ call[c].op = "remove" /\ call[c].pc = "save" /\ call[c].idx.active = call[c].acct
    \/ /\ call[c].op \in LoginOps
       /\ call[c].pc \in {"verify", "fetch", "register", "save", "activate", "restore"}
    \/ /\ call[c].op = "submit" /\ call[c].pc = "wait"
       /\ call[c].login \in Logins /\ ceremony[call[c].login] \in {"succeeded", "failed"}
\* By then the CLI has the account that is about to be active, and what a call has
\* read is what is still there, or was until a logout.
Matches(x) ==
    /\ x.op = "switch" /\ x.pc = "save" => InUse(x.to)
    /\ x.op = "remove" /\ x.pc = "save" /\ x.idx.active = x.acct => x.to = NoAccount \/ InUse(x.to)
    /\ x.pc \in {"fetch", "register"} \/ (x.op \in {"list", "activate"} /\ x.pc \in {"save", "activate"})
          => InUse(x.acct)
    /\ x.pc = "read" => x.acct = index.active
    /\ x.pc \in {"keep", "register"} => x.cred.owner = x.acct
Straight ==
    Calm => /\ Own
            /\ Agreed \/ \E c \in Clients : Between(c)
            /\ \A c \in Clients : Matches(call[c])

-----------------------------------------------------------------------------
(* Types and shapes *)

TypeInv == TypeOK /\ Shapes

States == {"unborn", "running", "dying", "succeeded", "failed"}

\* The two halves of it: the calls, and everything else.
CallType == call \in [Clients -> Calls] /\ Shapes
RestType ==
    /\ index \in Index /\ index.active \in index.listed \cup {NoAccount}
    /\ stored \in [Accounts -> Credentials]
    /\ cli \in Credentials
    /\ issued \in [Accounts -> 0 .. MaxVersion]
    /\ live \subseteq Credentials \ {NoCredential}
    /\ claim \in [held : BOOLEAN, login : {NoLogin} \cup Logins]
    /\ mutex \in BOOLEAN
    /\ loggedOut \subseteq Accounts
    /\ ceremony \in [Logins -> States]
    /\ slot \in {NoLogin} \cup Logins
    /\ trouble \subseteq Troubles
    /\ faults \in 0 .. MaxFaults

LEMMA Halves == (TypeInv <=> CallType /\ RestType) /\ (TypeInv' <=> CallType' /\ RestType')
BY DEF TypeInv, TypeOK, CallType, RestType, States

\* The initial state.
LEMMA InitTypes == Init => TypeInv
<1> SUFFICES ASSUME Init PROVE TypeInv
  OBVIOUS
<1>1. NoCredential \in Credentials /\ \A b \in Accounts : MaxVersion > 0 => Credential(b, 1) \in Credentials
  BY BoundAssumption DEF Credentials, Credential
<1>2. Idle \in Calls /\ Shape(Idle)
  BY <1>1, NoneAssumption DEF Calls, Idle, Pcs, AtSidecar, LoginOps, Index, NoIndex, Shape
<1>3. call \in [Clients -> Calls] /\ Shapes
  BY <1>2 DEF Init, Shapes
<1>4. cli \in Credentials /\ issued \in [Accounts -> 0 .. MaxVersion]
      /\ live \subseteq Credentials \ {NoCredential}
  BY <1>1, BoundAssumption DEF Init
<1>5. stored \in [Accounts -> Credentials] /\ index \in Index
      /\ index.active \in index.listed \cup {NoAccount}
  BY <1>1 DEF Init, Index, NoIndex
<1>6. /\ claim \in [held : BOOLEAN, login : {NoLogin} \cup Logins]
      /\ ceremony \in [Logins -> States] /\ loggedOut \subseteq Accounts
      /\ mutex \in BOOLEAN /\ slot \in {NoLogin} \cup Logins
  BY DEF Init, NoClaim, States
<1>7. trouble \subseteq Troubles /\ faults \in 0 .. MaxFaults
  BY BoundAssumption DEF Init
<1> QED
  BY <1>3, <1>4, <1>5, <1>6, <1>7 DEF TypeInv, TypeOK, States

\* A call that goes on or returns.
LEMMA Moved ==
    ASSUME TypeInv, NEW c \in Clients
    PROVE  /\ \A p : Goes(c, p) => \A d \in Clients :
                  call'[d] = IF d = c THEN [call[d] EXCEPT !.pc = p] ELSE call[d]
           /\ Returns(c) => \A d \in Clients : call'[d] = IF d = c THEN Idle ELSE call[d]
BY DEF TypeInv, TypeOK, Goes, Returns

\* Either way its record keeps its type.
LEMMA MovedType ==
    ASSUME TypeInv, NEW c \in Clients
    PROVE  /\ \A p \in Pcs : Goes(c, p) => call' \in [Clients -> Calls]
           /\ Returns(c) => call' \in [Clients -> Calls]
<1>1. \A p \in Pcs : [call[c] EXCEPT !.pc = p] \in Calls
  BY DEF TypeInv, TypeOK, Calls
<1>2. Idle \in Calls
  BY DEF Calls, Idle, Pcs, LoginOps, Index, NoIndex, Credentials
<1> QED BY <1>1, <1>2 DEF TypeInv, TypeOK, Goes, Returns

\* The shape of a record that goes on is a question of its operation.
LEMMA MovedShape ==
    ASSUME TypeInv, NEW c \in Clients
    PROVE  /\ Returns(c) => Shapes'
           /\ \A p \in Pcs : Goes(c, p) /\ Shape([call[c] EXCEPT !.pc = p]) => Shapes'
<1>1. Shape(Idle)
  BY NoneAssumption DEF Idle, NoIndex, Shape
<1>2. Shapes' <=> \A d \in Clients : Shape(call'[d])
  BY DEF Shapes, Shape
<1>3. \A d \in Clients : Shape(call[d])
  BY DEF TypeInv, Shapes
<1>4. Returns(c) => Shapes'
  BY <1>1, <1>2, <1>3, Moved
<1>5. ASSUME NEW p \in Pcs, Goes(c, p), Shape([call[c] EXCEPT !.pc = p]) PROVE Shapes'
  <2>1. \A d \in Clients : call'[d] = IF d = c THEN [call[d] EXCEPT !.pc = p] ELSE call[d]
    BY <1>5, Moved
  <2> QED BY <1>2, <1>3, <1>5, <2>1
<1> QED BY <1>4, <1>5

\* A login's call may always go on to its end.
LEMMA EndShape ==
    ASSUME NEW x \in Calls, Shape(x), x.op \in LoginOps, NEW p \in {"restore", "clear", "release"}
    PROVE  Shape([x EXCEPT !.pc = p])
BY DEF Shape, Calls, LoginOps

\* A submission or cancellation that is about whichever login the sidecar has.
TakesSlot(c, p) == call' = [call EXCEPT ![c].pc = p, ![c].login = slot]
LEMMA Handled ==
    ASSUME TypeInv, NEW c \in Clients, NEW p \in {"wait", "restore"}, TakesSlot(c, p),
           \/ call[c].pc = "submit"
           \/ call[c].pc = "cancel" /\ p = "restore"
    PROVE  /\ call' \in [Clients -> Calls] /\ Shapes'
           /\ call[c].op \in {"submit", "cancel"} /\ call'[c].op = call[c].op /\ call'[c].pc = p
           /\ \A d \in Clients \ {c} : call'[d] = call[d]
<1> DEFINE x == [call[c] EXCEPT !.pc = p, !.login = slot]
<1>1. call \in [Clients -> Calls] /\ call[c] \in Calls /\ Shape(call[c]) /\ slot \in {NoLogin} \cup Logins
  BY DEF TypeInv, TypeOK, Shapes
<1>2. call' = [call EXCEPT ![c] = x]
  BY <1>1 DEF TakesSlot
<1>3. call[c].op \in {"submit", "cancel"} /\ (call[c].op = "cancel" => p = "restore")
  BY <1>1 DEF Shape, Calls, LoginOps
<1>4. x \in Calls /\ x.op = call[c].op /\ x.pc = p
  BY <1>1, <1>3 DEF Calls, Pcs, AtSidecar
<1>5. Shape(x)
  BY <1>1, <1>3, <1>4 DEF Shape, Calls
<1> HIDE DEF x
<1>6. Shapes' <=> \A d \in Clients : Shape(call'[d])
  BY DEF Shapes, Shape
<1>7. \A d \in Clients : call'[d] = IF d = c THEN x ELSE call[d]
  BY <1>1, <1>2
<1>8. call' \in [Clients -> Calls]
  BY <1>1, <1>2, <1>4
<1>9. Shapes'
  BY <1>5, <1>6, <1>7 DEF TypeInv, Shapes
<1> QED BY <1>3, <1>4, <1>7, <1>8, <1>9

\* What a submission or a cancellation comes to.
LEMMA SubmitOrCancel ==
    ASSUME NEW c \in Clients, SubmitHandled(c) \/ CancelHandled(c)
    PROVE  /\ call[c].pc \in {"submit", "cancel"}
           /\ \/ Returns(c)
              \/ \E p \in {"wait", "restore"} : TakesSlot(c, p) /\ (call[c].pc = "submit" \/ p = "restore")
BY DEF SubmitHandled, CancelHandled, At, TakesSlot

\* A call whose record is replaced.
LEMMA SetRecord ==
    ASSUME TypeInv, NEW c \in Clients, NEW x \in Calls, Shape(x), call' = [call EXCEPT ![c] = x]
    PROVE  call' \in [Clients -> Calls] /\ Shapes'
<1>1. Shapes' <=> \A d \in Clients : Shape(call'[d])
  BY DEF Shapes, Shape
<1>2. \A d \in Clients : Shape(call[d])
  BY DEF TypeInv, Shapes
<1>3. call \in [Clients -> Calls]
  BY DEF TypeInv, TypeOK
<1> QED BY <1>1, <1>2, <1>3

\* A fault is one of the troubles, and within the bound.
LEMMA TroubleType ==
    ASSUME TypeInv
    PROVE  /\ Healthy => trouble' \subseteq Troubles /\ faults' \in 0 .. MaxFaults
           /\ \A t \in Troubles : Fault(t) => trouble' \subseteq Troubles /\ faults' \in 0 .. MaxFaults
           /\ \A t \in SUBSET Troubles : Blame(t) => trouble' \subseteq Troubles
BY BoundAssumption DEF TypeInv, TypeOK, Healthy, Fault, Blame

-----------------------------------------------------------------------------
(* The calls keep their type *)

\* Calls that begin.
LEMMA BeginCall ==
    ASSUME TypeInv, NEW c \in Clients,
           \/ \E a \in Accounts : Switch(c, a)
           \/ \E a \in Accounts, b \in Accounts \cup {NoAccount} : Remove(c, a, b)
           \/ Mark(c) \/ Start(c) \/ \E l \in {NoLogin} \cup Logins : Submit(c, l) \/ Cancel(c, l)
    PROVE  CallType'
<1>1. SUFFICES \E x \in Calls : Shape(x) /\ call' = [call EXCEPT ![c] = x]
  BY <1>1, SetRecord DEF CallType
<1>2. index \in Index /\ index.active \in index.listed \cup {NoAccount}
  BY DEF TypeInv, TypeOK
<1>3. /\ index.listed \subseteq Accounts /\ NoIndex \in Index
      /\ claim.login \in {NoLogin} \cup Logins /\ NoLogin \in {NoLogin} \cup Logins
      /\ NoCredential \in Credentials
  BY <1>2 DEF Index, NoIndex, TypeInv, TypeOK, Credentials
<1>4. ASSUME NEW a \in Accounts, Switch(c, a) PROVE \E x \in Calls : Shape(x) /\ call' = [call EXCEPT ![c] = x]
  <2> DEFINE x == [Idle EXCEPT !.op = "switch", !.pc = "snapshot", !.to = a, !.idx = index]
  <2>1. x \in Calls
    BY <1>2, <1>3 DEF Calls, Idle, Pcs
  <2>2. Shape(x)
    BY <1>2, <1>4, NoneAssumption DEF Switch, Idle, Shape
  <2> QED BY <1>4, <2>1, <2>2 DEF Switch
<1>5. ASSUME NEW a \in Accounts, NEW b \in Accounts \cup {NoAccount}, Remove(c, a, b)
      PROVE  \E x \in Calls : Shape(x) /\ call' = [call EXCEPT ![c] = x]
  <2> DEFINE x == [Idle EXCEPT !.op = "remove", !.acct = a, !.to = b, !.idx = index,
                               !.pc = IF b = NoAccount THEN "save" ELSE "incoming"]
  <2>1. x \in Calls
    BY <1>2, <1>3 DEF Calls, Idle, Pcs
  <2>2. /\ a \in index.listed /\ b \in (index.listed \ {a}) \cup {NoAccount}
        /\ b # NoAccount => index.active = a
    BY <1>5, NoneAssumption DEF Remove
  <2>3. Shape(x)
    BY <1>2, <2>2, NoneAssumption DEF Idle, Shape
  <2> QED BY <1>5, <2>1, <2>3 DEF Remove
<1>6. ASSUME Mark(c) PROVE \E x \in Calls : Shape(x) /\ call' = [call EXCEPT ![c] = x]
  <2> DEFINE x == [Idle EXCEPT !.op = "mark", !.pc = "save", !.idx = index]
  <2>1. x \in Calls
    BY <1>2, <1>3 DEF Calls, Idle, Pcs
  <2>2. Shape(x)
    BY <1>2, NoneAssumption DEF Idle, Shape
  <2> QED BY <1>6, <2>1, <2>2 DEF Mark
<1>7. ASSUME Start(c) PROVE \E x \in Calls : Shape(x) /\ call' = [call EXCEPT ![c] = x]
  <2> DEFINE x == [Idle EXCEPT !.op = "start", !.pc = "spawn"]
  <2>1. x \in Calls
    BY <1>3 DEF Calls, Idle, Pcs, AtSidecar, Starting, LoginOps
  <2>2. Shape(x)
    BY NoneAssumption DEF Idle, Shape, NoIndex
  <2> QED BY <1>7, <2>2, <2>1 DEF Start
<1>8. ASSUME NEW op \in {"submit", "cancel"}, NEW l \in {NoLogin} \cup Logins, Touch(c, op, l)
      PROVE  \E x \in Calls : Shape(x) /\ call' = [call EXCEPT ![c] = x]
  <2> DEFINE x == [Idle EXCEPT !.op = op, !.pc = op, !.login = l]
  <2>1. x \in Calls
    BY <1>3 DEF Calls, Idle, Pcs, AtSidecar, LoginOps
  <2>2. Shape(x)
    BY NoneAssumption DEF Idle, Shape, NoIndex
  <2> QED BY <1>8, <2>1, <2>2 DEF Touch
<1> QED BY <1>4, <1>5, <1>6, <1>7, <1>8 DEF Submit, Cancel

\* Calls of a login that go on, or return.
LEMMA LoginCall ==
    ASSUME TypeInv, NEW c \in Clients,
           \/ StartRefused(c) \/ Resolve(c) \/ StartFails(c) \/ ShowUrl(c) \/ NoUrl(c) \/ Bind(c)
           \/ SubmitHandled(c) \/ SubmitReturns(c) \/ CancelHandled(c) \/ VerifyFails(c)
           \/ RegisterFails(c) \/ Restore(c) \/ RestoreFails(c) \/ Clear(c) \/ Release(c)
    PROVE  CallType'
<1> DEFINE x == call[c]
<1>1. x \in Calls /\ Shape(x)
  BY DEF TypeInv, TypeOK, Shapes
<1>2. CASE SubmitHandled(c) \/ CancelHandled(c)
  <2>1. CASE Returns(c)
    BY <2>1, MovedType, MovedShape DEF CallType
  <2>2. CASE ~Returns(c)
    <3>1. /\ call[c].pc \in {"submit", "cancel"}
          /\ \E p \in {"wait", "restore"} : TakesSlot(c, p) /\ (call[c].pc = "submit" \/ p = "restore")
      BY <1>2, <2>2, SubmitOrCancel
    <3>2. PICK p \in {"wait", "restore"} : TakesSlot(c, p) /\ (call[c].pc = "submit" \/ p = "restore")
      BY <3>1
    <3>3. call' \in [Clients -> Calls] /\ Shapes'
      BY <3>1, <3>2, Handled
    <3> QED BY <3>3 DEF CallType
  <2> QED BY <2>1, <2>2
<1>3. (Returns(c) \/ \E p \in Pcs : Goes(c, p) /\ Shape([x EXCEPT !.pc = p])) => CallType'
  BY MovedType, MovedShape DEF CallType
<1>4. \A p \in {"restore", "clear", "release"} : x.op \in LoginOps => Shape([x EXCEPT !.pc = p])
  BY <1>1, EndShape
<1>5. x.pc \in {"spawn", "resolve", "url", "bind", "submit", "wait", "cancel", "verify", "fetch",
                "register", "restore", "clear", "release"} => x.op \in LoginOps
  BY <1>1 DEF Calls, Shape, LoginOps
<1>6. /\ x.pc = "bind" => Shape([x EXCEPT !.pc = "snapshot"])
      /\ x.pc = "spawn" => Shape([x EXCEPT !.pc = "resolve"])
      /\ x.pc = "url" => Shape([x EXCEPT !.pc = "bind"])
      /\ x.pc = "wait" => Shape([x EXCEPT !.pc = "verify"])
  BY <1>1 DEF Calls, Shape, LoginOps
<1> HIDE DEF x
<1> DEFINE Goal == Returns(c) \/ \E p \in Pcs : Goes(c, p) /\ Shape([x EXCEPT !.pc = p])
<1>7. ASSUME StartRefused(c) \/ Resolve(c) \/ StartFails(c) \/ ShowUrl(c) \/ NoUrl(c) \/ Bind(c) PROVE Goal
  BY <1>4, <1>5, <1>6, <1>7 DEF StartRefused, Resolve, StartFails, ShowUrl, NoUrl, Bind, At, Pcs, AtSidecar,
     Starting, x
<1>8. ASSUME SubmitReturns(c) PROVE Goal
  BY <1>4, <1>5, <1>6, <1>8 DEF SubmitReturns, At, Pcs, AtSidecar, x
<1>9. ASSUME VerifyFails(c) \/ RegisterFails(c) PROVE Goal
  BY <1>4, <1>5, <1>9 DEF VerifyFails, RegisterFails, At, Pcs, x
<1>10. ASSUME Restore(c) \/ RestoreFails(c) \/ Clear(c) \/ Release(c) PROVE Goal
  BY <1>4, <1>5, <1>10 DEF Restore, RestoreFails, Clear, Release, At, Pcs, x
<1> QED BY <1>2, <1>3, <1>7, <1>8, <1>9, <1>10

\* Calls whose record learns something on the way.
LEMMA LearnCall ==
    ASSUME TypeInv, NEW c \in Clients,
           (\E l \in Logins : Spawn(c, l)) \/ Verify(c) \/ Fetch(c) \/ Register(c) \/ Activate(c)
    PROVE  CallType'
<1> DEFINE x == call[c]
<1>1. x \in Calls /\ Shape(x) /\ call \in [Clients -> Calls]
  BY DEF TypeInv, TypeOK, Shapes
<1>2. index \in Index /\ index.active \in index.listed \cup {NoAccount}
  BY DEF TypeInv, TypeOK
<1>3. (\E y \in Calls : Shape(y) /\ call' = [call EXCEPT ![c] = y]) => CallType'
  BY SetRecord DEF CallType
<1>4. ASSUME NEW l \in Logins, Spawn(c, l) PROVE \E y \in Calls : Shape(y) /\ call' = [call EXCEPT ![c] = y]
  <2> DEFINE y == [x EXCEPT !.pc = "url", !.login = l]
  <2>1. y \in Calls
    BY <1>1 DEF Calls, Pcs, AtSidecar, Starting
  <2>2. x.op = "start" /\ Shape(y)
    BY <1>1, <1>4 DEF Spawn, At, Calls, Shape, LoginOps
  <2>3. call' = [call EXCEPT ![c] = y]
    BY <1>1, <1>4 DEF Spawn
  <2> QED BY <2>1, <2>2, <2>3
<1>5. ASSUME Verify(c) PROVE \E y \in Calls : Shape(y) /\ call' = [call EXCEPT ![c] = y]
  <2> DEFINE y == [x EXCEPT !.pc = "fetch", !.acct = cli.owner]
  <2>1. cli.owner \in Accounts
    BY <1>5 DEF Verify, TypeInv, TypeOK, Credentials
  <2>2. y \in Calls
    BY <1>1, <2>1 DEF Calls, Pcs
  <2>3. x.op = "submit"
    BY <1>1, <1>5 DEF Verify, At, Calls, Shape, LoginOps
  <2>4. Shape(y)
    BY <1>1, <2>1, <2>3 DEF Calls, Shape
  <2>5. call' = [call EXCEPT ![c] = y]
    BY <1>1, <1>5 DEF Verify
  <2> QED BY <2>2, <2>4, <2>5
<1>6. ASSUME Register(c) PROVE \E y \in Calls : Shape(y) /\ call' = [call EXCEPT ![c] = y]
  <2> DEFINE y == [x EXCEPT !.pc = "save", !.op = "list", !.idx = index]
  <2>1. y \in Calls
    BY <1>1, <1>2 DEF Calls, Pcs, LoginOps
  <2>2. x.acct \in Accounts
    BY <1>1, <1>6 DEF Register, At, Shape
  <2>3. Shape(y)
    BY <1>1, <1>2, <2>2 DEF Calls, Shape
  <2>4. call' = [call EXCEPT ![c] = y]
    BY <1>1, <1>6 DEF Register
  <2> QED BY <2>1, <2>3, <2>4
<1>7. ASSUME Activate(c) PROVE CallType'
  <2>1. CASE call[c].acct \in index.listed
    <3> DEFINE y == [x EXCEPT !.pc = "save", !.op = "activate", !.idx = index]
    <3>1. y \in Calls
      BY <1>1, <1>2 DEF Calls, Pcs, LoginOps
    <3>2. Shape(y)
      BY <1>1, <1>2, <2>1 DEF Calls, Shape
    <3>3. call' = [call EXCEPT ![c] = y]
      BY <1>1, <1>7, <2>1 DEF Activate
    <3> QED BY <1>3, <3>1, <3>2, <3>3
  <2>2. CASE call[c].acct \notin index.listed
    <3>1. x.op \in LoginOps /\ Goes(c, "restore")
      BY <1>1, <1>7, <2>2 DEF Activate, At, Calls, Shape, LoginOps
    <3>2. Shape([x EXCEPT !.pc = "restore"])
      BY <1>1, <3>1, EndShape
    <3> QED BY <3>1, <3>2, MovedType, MovedShape DEF CallType, Pcs
  <2> QED BY <2>1, <2>2
<1>8. ASSUME Fetch(c) PROVE \E y \in Calls : Shape(y) /\ call' = [call EXCEPT ![c] = y]
  <2> DEFINE y == [x EXCEPT !.pc = "register", !.cred = cli]
  <2>1. cli \in Credentials /\ cli # NoCredential
    BY <1>8 DEF Fetch, TypeInv, TypeOK
  <2>2. y \in Calls
    BY <1>1, <2>1 DEF Calls, Pcs
  <2>3. x.op = "submit" /\ x.acct \in Accounts
    BY <1>1, <1>8 DEF Fetch, At, Calls, Shape, LoginOps
  <2>4. Shape(y)
    BY <1>1, <2>1, <2>3 DEF Calls, Shape
  <2>5. call' = [call EXCEPT ![c] = y]
    BY <1>1, <1>8 DEF Fetch
  <2> QED BY <2>2, <2>4, <2>5
<1> QED BY <1>3, <1>4, <1>5, <1>6, <1>7, <1>8

\* A snapshot on its way.
LEMMA SnapshotCall ==
    ASSUME TypeInv, NEW c \in Clients, Snapshot(c) \/ ReadCli(c) \/ Keep(c)
    PROVE  CallType'
<1> DEFINE x == call[c]
<1>1. x \in Calls /\ Shape(x) /\ call \in [Clients -> Calls]
  BY DEF TypeInv, TypeOK, Shapes
<1>2. /\ index \in Index /\ index.active \in index.listed \cup {NoAccount} /\ cli \in Credentials
      /\ index.active \in Accounts \cup {NoAccount}
  BY DEF TypeInv, TypeOK, Index
<1>3. (\E y \in Calls : Shape(y) /\ call' = [call EXCEPT ![c] = y]) => CallType'
  BY SetRecord DEF CallType
<1>4. x.pc \in {"snapshot", "read", "keep"}
  BY DEF Snapshot, ReadCli, Keep, At
<1>5. SnapshotDone(c) => CallType'
  <2>1. x.op = "switch" => Shape([x EXCEPT !.pc = "incoming"])
    BY <1>1 DEF Calls, Shape
  <2> QED BY <2>1, MovedType, MovedShape DEF SnapshotDone, CallType, Pcs
<1>6. ASSUME call' = [call EXCEPT ![c].pc = "read", ![c].acct = index.active],
             x.pc = "snapshot", index.active # NoAccount
      PROVE  CallType'
  <2> DEFINE y == [x EXCEPT !.pc = "read", !.acct = index.active]
  <2>1. y \in Calls
    BY <1>1, <1>2 DEF Calls, Pcs
  <2>2. x.op \in {"switch", "start"}
    BY <1>1, <1>6 DEF Calls, Shape, LoginOps
  <2>3. Shape(y)
    BY <1>1, <1>2, <1>6, <2>2 DEF Calls, Shape
  <2>4. call' = [call EXCEPT ![c] = y]
    BY <1>1, <1>6
  <2> QED BY <1>3, <2>1, <2>3, <2>4
<1>7. ASSUME call' = [call EXCEPT ![c].pc = "keep", ![c].cred = cli], x.pc = "read", cli # NoCredential
      PROVE  CallType'
  <2> DEFINE y == [x EXCEPT !.pc = "keep", !.cred = cli]
  <2>1. y \in Calls
    BY <1>1, <1>2 DEF Calls, Pcs
  <2>2. x.op \in {"switch", "start"} /\ x.acct \in Accounts
    BY <1>1, <1>7 DEF Calls, Shape, LoginOps
  <2>3. Shape(y)
    BY <1>1, <1>7, <2>2 DEF Calls, Shape
  <2>4. call' = [call EXCEPT ![c] = y]
    BY <1>1, <1>7
  <2> QED BY <1>3, <2>1, <2>3, <2>4
<1> QED BY <1>5, <1>6, <1>7 DEF Snapshot, ReadCli, Keep, At

\* Switches and removals that go on, and writes of the index.
LEMMA SwapCall ==
    ASSUME TypeInv, NEW c \in Clients,
           \/ KeepFails(c) \/ Incoming(c) \/ IncomingFails(c) \/ Delete(c) \/ Save(c) \/ SaveFails(c)
    PROVE  CallType'
<1> DEFINE x == call[c]
<1>1. x \in Calls /\ Shape(x)
  BY DEF TypeInv, TypeOK, Shapes
<1>2. SUFFICES \/ Returns(c)
               \/ \E p \in Pcs : Goes(c, p) /\ Shape([x EXCEPT !.pc = p])
  BY <1>2, MovedType, MovedShape DEF CallType
<1>3. \A p \in {"restore", "clear", "release"} : x.op \in LoginOps => Shape([x EXCEPT !.pc = p])
  BY <1>1, EndShape
<1>4. /\ x.pc = "keep" => x.op = "switch" \/ x.op \in LoginOps
      /\ x.pc = "incoming" => Shape([x EXCEPT !.pc = "save"])
  BY <1>1 DEF Calls, Shape, LoginOps
<1>5. x.pc = "save" => /\ x.op = "remove" => Shape([x EXCEPT !.pc = "delete"])
                       /\ x.op = "list" => Shape([x EXCEPT !.pc = "activate"])
                       /\ x.op = "activate" => Shape([x EXCEPT !.pc = "clear"])
  BY <1>1 DEF Calls, Shape
<1> HIDE DEF x
<1>6. CASE KeepFails(c)
  BY <1>3, <1>4, <1>6 DEF KeepFails, Exclusive, ReturnsUnlocked, At, Pcs, x
<1>7. CASE Incoming(c) \/ IncomingFails(c)
  BY <1>4, <1>7 DEF Incoming, IncomingFails, ReturnsUnlocked, At, Pcs, x
<1>8. CASE Delete(c) \/ SaveFails(c)
  BY <1>3, <1>8 DEF Delete, SaveFails, ReturnsUnlocked, At, Pcs, x
<1>9. CASE Save(c)
  BY <1>5, <1>9 DEF Save, AfterSave, ReturnsUnlocked, At, Pcs, x
<1> QED BY <1>6, <1>7, <1>8, <1>9

\* The end of the host or of the sidecar.
LEMMA DeathCall == ASSUME TypeInv, Crash \/ SidecarDies PROVE CallType'
<1>1. Shapes' <=> \A d \in Clients : Shape(call'[d])
  BY DEF Shapes, Shape
<1>2. Idle \in Calls /\ Shape(Idle)
  BY NoneAssumption DEF Calls, Idle, Pcs, LoginOps, Index, NoIndex, Shape, Credentials
<1>3. call \in [Clients -> Calls] /\ \A d \in Clients : Shape(call[d])
  BY DEF TypeInv, TypeOK, Shapes
<1>4. CASE Crash
  BY <1>1, <1>2, <1>4 DEF Crash, CallType
<1>5. CASE SidecarDies
  <2>1. \A d \in Clients : call'[d] = IF call[d].pc \in Starting THEN [call[d] EXCEPT !.pc = "clear"]
                                      ELSE IF call[d].pc \in AtSidecar THEN Idle ELSE call[d]
    BY <1>5 DEF SidecarDies
  <2>2. ASSUME NEW d \in Clients, call[d].pc \in Starting
        PROVE  [call[d] EXCEPT !.pc = "clear"] \in Calls /\ Shape([call[d] EXCEPT !.pc = "clear"])
    <3>1. call[d] \in Calls /\ Shape(call[d]) /\ call[d].op \in LoginOps
      BY <1>3, <2>2 DEF Starting, Calls, Shape, LoginOps
    <3> QED BY <3>1, EndShape DEF Calls, Pcs
  <2>3. \A d \in Clients : call'[d] \in Calls /\ Shape(call'[d])
    BY <1>2, <1>3, <2>1, <2>2
  <2>4. call' = [d \in Clients |-> call'[d]]
    BY <1>5 DEF SidecarDies
  <2> QED BY <1>1, <2>3, <2>4 DEF CallType
<1> QED BY <1>4, <1>5

\* Whatever happens, a call keeps its type and shape.
LEMMA NextCall == ASSUME TypeInv, Next PROVE CallType'
<1>1. UNCHANGED call => CallType'
  BY DEF TypeInv, TypeOK, CallType, Shapes, Shape
<1>2. ASSUME NEW l \in Logins, NEW a \in Accounts, CliFails(l) \/ CliLogsIn(l, a)
      PROVE  UNCHANGED call
  BY <1>2 DEF CliFails, CliLogsIn
<1>3. Expire \/ Rotate \/ Logout => UNCHANGED call
  BY DEF Expire, Rotate, Logout
<1>4. ASSUME NEW l \in Logins, CliFails(l) \/ KillTimer(l) PROVE UNCHANGED call
  BY <1>4 DEF CliFails, KillTimer
<1> QED BY <1>1, <1>2, <1>3, <1>4, BeginCall, LoginCall, LearnCall, SnapshotCall, SwapCall, DeathCall DEF Next

-----------------------------------------------------------------------------
(* Everything else keeps its type *)

\* What is left alone, or only gives the lock back.
LEMMA QuietRest ==
    ASSUME TypeInv, UNCHANGED <<hostVars, providerVars, loginVars>>, mutex' \in BOOLEAN,
           trouble' \subseteq Troubles, faults' \in 0 .. MaxFaults
    PROVE  RestType'
BY DEF TypeInv, TypeOK, RestType, hostVars, providerVars, loginVars, Index, States

\* A new credential, of an account that may have another.
LEMMA IssueRest ==
    ASSUME TypeInv, NEW a \in Accounts, issued[a] < MaxVersion,
           issued' = [issued EXCEPT ![a] = @ + 1], cli' = Credential(a, issued[a] + 1),
           live' \subseteq live \cup {cli'},
           UNCHANGED <<index, stored, loggedOut, claim, mutex, slot>>,
           ceremony' \in [Logins -> States],
           trouble' \subseteq Troubles, faults' \in 0 .. MaxFaults
    PROVE  RestType'
<1>1. issued[a] + 1 \in 1 .. MaxVersion
  BY BoundAssumption DEF TypeInv, TypeOK
<1>2. issued' \in [Accounts -> 0 .. MaxVersion]
  BY <1>1 DEF TypeInv, TypeOK
<1>3. cli' \in Credentials \ {NoCredential}
  BY <1>1, NoneAssumption DEF Credentials, Credential, NoCredential
<1>4. live' \subseteq Credentials \ {NoCredential}
  BY <1>3 DEF TypeInv, TypeOK
<1> QED BY <1>2, <1>3, <1>4 DEF TypeInv, TypeOK, RestType, Index

\* The index as an operation writes it.
LEMMA ChangedType ==
    ASSUME NEW x \in Calls, Shape(x), x.pc = "save"
    PROVE  Changed(x) \in Index /\ Changed(x).active \in Changed(x).listed \cup {NoAccount}
<1>1. /\ x.idx \in Index /\ x.idx.active \in x.idx.listed \cup {NoAccount}
      /\ x.acct \in Accounts \cup {NoAccount} /\ x.to \in Accounts \cup {NoAccount}
  BY DEF Calls, Shape
<1>2. CASE x.op = "switch"
  BY <1>1, <1>2 DEF Changed, Shape, Index
<1>3. CASE x.op = "remove"
  BY <1>1, <1>3 DEF Changed, Shape, Index
<1>4. CASE x.op = "list"
  BY <1>1, <1>4 DEF Changed, Shape, Index
<1>5. CASE x.op = "activate"
  BY <1>1, <1>5 DEF Changed, Shape, Index
<1>6. CASE x.op \notin {"switch", "remove", "list", "activate"}
  BY <1>1, <1>6 DEF Changed
<1> QED BY <1>2, <1>3, <1>4, <1>5, <1>6

\* Only switches and removals look for a credential to come, of an account.
LEMMA IncomingTo ==
    ASSUME NEW x \in Calls, Shape(x), x.pc = "incoming"
    PROVE  x.op \in {"switch", "remove"} /\ x.to \in Accounts
<1>1. x.op \in {"switch", "remove"}
  BY DEF Calls, Shape, LoginOps
<1>2. x.idx.listed \subseteq Accounts /\ x.to \in Accounts \cup {NoAccount}
  BY DEF Calls, Index
<1>3. x.op = "switch" => x.to \in Accounts
  BY <1>2 DEF Shape
<1>4. x.op = "remove" => x.to \in Accounts
  BY <1>2 DEF Shape
<1> QED BY <1>1, <1>3, <1>4

\* The steps of a snapshot, a switch or a removal, and a write of the index.
LEMMA SwapRest ==
    ASSUME TypeInv, NEW c \in Clients,
           \/ Snapshot(c) \/ ReadCli(c) \/ Keep(c) \/ KeepFails(c) \/ Incoming(c) \/ IncomingFails(c)
           \/ Delete(c) \/ Save(c) \/ SaveFails(c)
    PROVE  RestType'
<1>1. /\ Healthy => trouble' \subseteq Troubles /\ faults' \in 0 .. MaxFaults
      /\ \A t \in {"keyring", "index", "cli"} : Fault(t) => trouble' \subseteq Troubles /\ faults' \in 0 .. MaxFaults
      /\ \A t \in SUBSET Troubles : Blame(t) => trouble' \subseteq Troubles
  BY TroubleType DEF Troubles
<1>2. ReturnsUnlocked(c) \/ UNCHANGED mutex => mutex' \in BOOLEAN
  BY DEF ReturnsUnlocked, TypeInv, TypeOK
<1>3. call[c] \in Calls /\ Shape(call[c])
  BY DEF TypeInv, TypeOK, Shapes
<1>4. NoCredential \in Credentials /\ RestType
  BY Halves DEF Credentials
<1>5. CASE KeepFails(c) \/ IncomingFails(c) \/ SaveFails(c)
  <2>1. UNCHANGED <<hostVars, providerVars, loginVars>> /\ mutex' \in BOOLEAN
    BY <1>2, <1>5 DEF KeepFails, IncomingFails, SaveFails
  <2>2. trouble' \subseteq Troubles /\ faults' \in 0 .. MaxFaults
    BY <1>1, <1>5 DEF KeepFails, IncomingFails, SaveFails
  <2> QED BY <2>1, <2>2, QuietRest
<1>10. CASE Snapshot(c) \/ ReadCli(c)
  <2>1. UNCHANGED <<hostVars, providerVars, loginVars>> /\ mutex' \in BOOLEAN /\ Healthy
    BY <1>2, <1>10 DEF Snapshot, ReadCli
  <2> QED BY <1>1, <2>1, QuietRest
<1>6. CASE Keep(c)
  <2>1. stored' \in [Accounts -> Credentials]
    <3>1. call[c].cred \in Credentials
      BY <1>3 DEF Calls
    <3> QED BY <1>4, <1>6, <3>1 DEF Keep, RestType
  <2>2. Healthy /\ UNCHANGED <<index, cli, providerVars, loginVars, mutex>>
    BY <1>6 DEF Keep
  <2>3. trouble' \subseteq Troubles /\ faults' \in 0 .. MaxFaults
    BY <1>1, <2>2
  <2> QED BY <1>4, <2>1, <2>2, <2>3 DEF RestType, providerVars, loginVars
<1>7. CASE Incoming(c)
  <2>1. cli' \in Credentials
    <3>1. call[c].pc = "incoming"
      BY <1>7 DEF Incoming, At
    <3>2. call[c].to \in Accounts
      BY <1>3, <3>1, IncomingTo
    <3> QED BY <1>4, <1>7, <3>2 DEF Incoming, RestType
  <2>2. mutex' \in BOOLEAN
    BY <1>2, <1>7 DEF Incoming
  <2> QED BY <1>1, <1>4, <1>7, <2>1, <2>2 DEF Incoming, RestType, providerVars, loginVars, Index
<1>8. CASE Delete(c)
  <2>1. stored' \in [Accounts -> Credentials]
    BY <1>4, <1>8 DEF Delete, RestType
  <2>2. mutex' \in BOOLEAN
    BY <1>2, <1>8 DEF Delete
  <2> QED BY <1>1, <1>4, <1>8, <2>1, <2>2 DEF Delete, RestType, providerVars, loginVars, Index
<1>9. CASE Save(c)
  <2>1. index' \in Index /\ index'.active \in index'.listed \cup {NoAccount}
    BY <1>3, <1>9, ChangedType DEF Save, At
  <2>2. mutex' \in BOOLEAN
    BY <1>2, <1>9 DEF Save
  <2>3. trouble' \subseteq Troubles
    BY <1>1, <1>9 DEF Save, Troubles
  <2> QED BY <1>4, <1>9, <2>1, <2>2, <2>3 DEF Save, RestType, providerVars, loginVars
<1> QED BY <1>5, <1>6, <1>7, <1>8, <1>9, <1>10

\* The processes that are asked to end.
LEMMA KilledType == ASSUME TypeInv PROVE \A L : Killed(L) \in [Logins -> States]
BY DEF TypeInv, TypeOK, Killed, States

\* The steps of a login that leave the credentials and the index alone.
LEMMA CeremonyRest ==
    ASSUME TypeInv, NEW c \in Clients,
           \/ Start(c) \/ Bind(c) \/ (\E l \in Logins : Spawn(c, l)) \/ SubmitReturns(c) \/ NoUrl(c)
           \/ CancelHandled(c) \/ Clear(c) \/ Release(c)
    PROVE  RestType'
<1>1. Healthy \/ (Blame({"unstarted"}) /\ UNCHANGED faults) => trouble' \subseteq Troubles /\ faults' \in 0 .. MaxFaults
  BY TroubleType DEF Troubles, TypeInv, TypeOK
<1>2. call[c].login \in {NoLogin} \cup Logins /\ RestType
  BY Halves DEF TypeInv, TypeOK, Calls
<1> DEFINE LoginType == /\ claim' \in [held : BOOLEAN, login : {NoLogin} \cup Logins]
                        /\ ceremony' \in [Logins -> States]
                        /\ slot' \in {NoLogin} \cup Logins
           Blameless == Healthy \/ (Blame({"unstarted"}) /\ UNCHANGED faults)
<1>3. SUFFICES LoginType /\ Blameless /\ HostQuiet /\ UNCHANGED mutex
  BY <1>1, <1>2, <1>3 DEF RestType, HostQuiet, hostVars, providerVars, Index
<1>4. /\ claim \in [held : BOOLEAN, login : {NoLogin} \cup Logins]
      /\ ceremony \in [Logins -> States]
      /\ slot \in {NoLogin} \cup Logins
      /\ \A L : Killed(L) \in [Logins -> States]
  BY <1>2, KilledType DEF RestType
<1>5. CASE Start(c)
  BY <1>4, <1>5 DEF Start
<1>6. CASE Bind(c)
  BY <1>2, <1>4, <1>6 DEF Bind
<1>7. ASSUME NEW l \in Logins, Spawn(c, l) PROVE LoginType /\ Blameless /\ HostQuiet /\ UNCHANGED mutex
  BY <1>4, <1>7 DEF Spawn, States
<1>8. CASE SubmitReturns(c)
  BY <1>4, <1>8 DEF SubmitReturns
<1>9. CASE CancelHandled(c)
  BY <1>4, <1>9 DEF CancelHandled
<1>10. CASE Clear(c)
  BY <1>4, <1>10 DEF Clear, NoClaim
<1>11. CASE Release(c)
  BY <1>4, <1>11 DEF Release
<1>12. CASE NoUrl(c)
  BY <1>4, <1>12 DEF NoUrl
<1> QED BY <1>5, <1>6, <1>7, <1>8, <1>9, <1>10, <1>11, <1>12

\* The other calls.
LEMMA CallRest ==
    ASSUME TypeInv, NEW c \in Clients,
           \/ (\E a \in Accounts : Switch(c, a))
           \/ (\E a \in Accounts, b \in Accounts \cup {NoAccount} : Remove(c, a, b))
           \/ Mark(c) \/ StartRefused(c) \/ Resolve(c) \/ StartFails(c) \/ ShowUrl(c)
           \/ (\E l \in {NoLogin} \cup Logins : Submit(c, l) \/ Cancel(c, l))
           \/ SubmitHandled(c) \/ Verify(c) \/ Fetch(c) \/ VerifyFails(c) \/ Register(c)
           \/ RegisterFails(c) \/ Activate(c) \/ Restore(c) \/ RestoreFails(c)
    PROVE  RestType'
<1>1. /\ Healthy => trouble' \subseteq Troubles /\ faults' \in 0 .. MaxFaults
      /\ \A t \in {"keyring", "cli"} : Fault(t) => trouble' \subseteq Troubles /\ faults' \in 0 .. MaxFaults
      /\ \A t \in {{}, {"race"}, {"unstarted"}} : Blame(t) => trouble' \subseteq Troubles
  BY TroubleType DEF Troubles
<1>2. RestType /\ call[c] \in Calls /\ Shape(call[c]) /\ mutex \in BOOLEAN /\ faults \in 0 .. MaxFaults
  BY Halves DEF TypeInv, TypeOK, Shapes
<1>3. CASE (\E a \in Accounts : Switch(c, a))
            \/ (\E a \in Accounts, b \in Accounts \cup {NoAccount} : Remove(c, a, b))
  <2>1. Healthy /\ UNCHANGED <<hostVars, providerVars, loginVars>> /\ mutex' = TRUE
    BY <1>3 DEF Switch, Remove, Locks
  <2> QED BY <1>1, <2>1, QuietRest
<1>4. CASE \/ Mark(c) \/ StartRefused(c) \/ Resolve(c) \/ ShowUrl(c) \/ SubmitHandled(c)
           \/ Verify(c) \/ Fetch(c) \/ VerifyFails(c) \/ Activate(c)
  <2>1. Healthy /\ UNCHANGED <<hostVars, providerVars, loginVars>> /\ UNCHANGED mutex
    BY <1>4 DEF Mark, StartRefused, Resolve, ShowUrl, SubmitHandled, Verify, Fetch, VerifyFails, Activate, HostQuiet
  <2> QED BY <1>1, <1>2, <2>1, QuietRest
<1>5. CASE RegisterFails(c) \/ RestoreFails(c)
  <2>1. UNCHANGED <<hostVars, providerVars, loginVars>> /\ UNCHANGED mutex
    BY <1>5 DEF RegisterFails, RestoreFails, HostQuiet
  <2>2. trouble' \subseteq Troubles /\ faults' \in 0 .. MaxFaults
    BY <1>1, <1>5 DEF RegisterFails, RestoreFails
  <2> QED BY <1>2, <2>1, <2>2, QuietRest
<1>6. CASE StartFails(c) \/ \E l \in {NoLogin} \cup Logins : Submit(c, l) \/ Cancel(c, l)
  <2>1. UNCHANGED <<hostVars, providerVars, loginVars>> /\ UNCHANGED mutex /\ UNCHANGED faults
    BY <1>6 DEF StartFails, Submit, Cancel, Touch, HostQuiet
  <2>2. trouble' \subseteq Troubles
    BY <1>1, <1>6 DEF StartFails, Submit, Cancel, Touch
  <2> QED BY <1>2, <2>1, <2>2, QuietRest
<1>7. CASE Register(c)
  <2>1. stored' \in [Accounts -> Credentials]
    <3>1. call[c].cred \in Credentials
      BY <1>2 DEF Calls
    <3> QED BY <1>2, <1>7, <3>1 DEF Register, RestType
  <2>2. loggedOut' \subseteq Accounts
    BY <1>2, <1>7 DEF Register, RestType
  <2> QED BY <1>1, <1>2, <1>7, <2>1, <2>2 DEF Register, RestType, loginVars, Index
<1>8. CASE Restore(c)
  <2>1. cli' \in Credentials
    <3>1. index.active # NoAccount => index.active \in Accounts
      BY <1>2 DEF RestType, Index
    <3> QED BY <1>2, <1>8, <3>1 DEF Restore, RestType
  <2> QED BY <1>1, <1>2, <1>8, <2>1 DEF Restore, RestType, providerVars, loginVars, Index
<1> QED BY <1>3, <1>4, <1>5, <1>6, <1>7, <1>8

\* The CLI, the claim's clock, and the end of the host or of the sidecar.
LEMMA WorldRest ==
    ASSUME TypeInv,
           \/ \E l \in Logins : CliFails(l) \/ KillTimer(l) \/ \E a \in Accounts : CliLogsIn(l, a)
           \/ Expire \/ Rotate \/ Logout \/ Crash \/ SidecarDies
    PROVE  RestType'
<1>1. /\ Healthy => trouble' \subseteq Troubles /\ faults' \in 0 .. MaxFaults
      /\ \A t \in {"crash", "sidecar"} : Fault(t) => trouble' \subseteq Troubles /\ faults' \in 0 .. MaxFaults
      /\ \A t \in {{}, {"expired"}, {"rotated"}, {"late"}} : Blame(t) => trouble' \subseteq Troubles
  BY TroubleType DEF Troubles
<1>2. RestType
  BY Halves
<1>3. /\ \A L : Killed(L) \in [Logins -> States]
      /\ NoClaim \in [held : BOOLEAN, login : {NoLogin} \cup Logins]
  BY KilledType DEF NoClaim
<1>4. ASSUME NEW l \in Logins, CliFails(l) PROVE RestType'
  <2>1. ceremony' \in [Logins -> States]
    BY <1>2, <1>4 DEF CliFails, RestType, States
  <2> QED BY <1>1, <1>2, <1>4, <2>1 DEF CliFails, HostQuiet, RestType, hostVars, providerVars, Index
<1>5. ASSUME NEW l \in Logins, NEW a \in Accounts, CliLogsIn(l, a) PROVE RestType'
  <2>1. ceremony' \in [Logins -> States]
    BY <1>2, <1>5 DEF CliLogsIn, RestType, States
  <2>2. trouble' \subseteq Troubles /\ faults' \in 0 .. MaxFaults
    BY <1>1, <1>2, <1>5 DEF CliLogsIn, RestType
  <2> QED BY <1>5, <2>1, <2>2, IssueRest DEF CliLogsIn
<1>6. ASSUME NEW l \in Logins, KillTimer(l) PROVE RestType'
  <2>1. ceremony' \in [Logins -> States] /\ slot' \in {NoLogin} \cup Logins
    BY <1>2, <1>3, <1>6 DEF KillTimer, RestType
  <2> QED BY <1>1, <1>2, <1>6, <2>1 DEF KillTimer, HostQuiet, RestType, hostVars, providerVars, Index
<1>7. CASE Expire
  BY <1>1, <1>2, <1>3, <1>7 DEF Expire, HostQuiet, RestType, hostVars, providerVars, Index
<1>8. CASE Rotate
  <2>1. cli.owner \in Accounts
    BY <1>2, <1>8 DEF Rotate, RestType, Credentials
  <2>2. trouble' \subseteq Troubles /\ faults' \in 0 .. MaxFaults
    BY <1>1, <1>2, <1>8 DEF Rotate, RestType
  <2>3. ceremony' \in [Logins -> States] /\ UNCHANGED <<index, stored, loggedOut, claim, mutex, slot>>
    BY <1>2, <1>8 DEF Rotate, RestType, loginVars
  <2>4. /\ issued[cli.owner] < MaxVersion /\ issued' = [issued EXCEPT ![cli.owner] = @ + 1]
        /\ cli' = Credential(cli.owner, issued[cli.owner] + 1) /\ live' \subseteq live \cup {cli'}
    BY <1>8 DEF Rotate
  <2> QED BY <2>1, <2>2, <2>3, <2>4, IssueRest
<1>9. CASE Crash
  BY <1>1, <1>2, <1>3, <1>9 DEF Crash, HostQuiet, RestType, hostVars, providerVars, Index
<1>10. CASE SidecarDies
  BY <1>1, <1>2, <1>3, <1>10 DEF SidecarDies, HostQuiet, RestType, hostVars, providerVars, Index
<1>11. CASE Logout
  <2>1. cli.owner \in Accounts
    BY <1>2, <1>11 DEF Logout, RestType, Credentials
  <2>2. NoCredential \in Credentials
    BY DEF Credentials
  <2> QED BY <1>1, <1>2, <1>11, <2>1, <2>2 DEF Logout, RestType, loginVars, Index
<1> QED BY <1>4, <1>5, <1>6, <1>7, <1>8, <1>9, <1>10, <1>11

\* The types and shapes are inductive.
LEMMA TypeInductive == TypeInv /\ [Next]_vars => TypeInv'
<1> SUFFICES ASSUME TypeInv, [Next]_vars PROVE TypeInv'
  OBVIOUS
<1>1. CASE UNCHANGED vars
  <2>1. Shapes' <=> \A d \in Clients : Shape(call'[d])
    BY DEF Shapes, Shape
  <2> QED BY <1>1, <2>1 DEF TypeInv, TypeOK, Shapes, vars, hostVars, providerVars, loginVars, Index
<1>2. CASE Next
  BY <1>2, NextCall, Halves, SwapRest, CeremonyRest, CallRest, WorldRest DEF Next
<1> QED BY <1>1, <1>2

\* The index never shows an account as active that it does not list, and every
\* credential, claim and login stays in its range (normalize_index, 76).
THEOREM TypeCorrect == Spec => []TypeOK
<1>1. TypeInv => TypeOK
  BY DEF TypeInv
<1> QED BY <1>1, InitTypes, TypeInductive, PTL DEF Spec

-----------------------------------------------------------------------------
(* The lock and the claim *)

\* A step of a call that takes neither, and may give the lock back.
Plain(c) ==
    /\ UNCHANGED claim /\ trouble \subseteq trouble'
    /\ \A d \in Clients \ {c} : call'[d] = call[d]
    /\ Exclusive(c)' => Exclusive(c)
    /\ Engaged(c)' => Engaged(c)
    /\ mutex' = mutex \/ (Exclusive(c) /\ ~Exclusive(c)')

Locking == Lock /\ OneLogin

LEMMA PlainKeeps == ASSUME TypeInv, Locking, NEW c \in Clients, Plain(c) PROVE Locking'
<1>1. \A d \in Clients \ {c} : (Exclusive(d)' <=> Exclusive(d)) /\ (Engaged(d)' <=> Engaged(d))
  BY DEF Plain, Exclusive, Engaged
<1>2. \A d \in Clients : (Exclusive(d)' => Exclusive(d)) /\ (Engaged(d)' => Engaged(d))
  BY <1>1 DEF Plain
<1>3. mutex \in BOOLEAN /\ UNCHANGED claim
  BY DEF TypeInv, TypeOK, Plain
<1>4. (\A d \in Clients : Exclusive(d)' => mutex') /\ (mutex' => mutex)
  <2>1. CASE mutex' = mutex
    BY <1>2, <2>1 DEF Locking, Lock
  <2>2. CASE Exclusive(c) /\ ~Exclusive(c)'
    BY <1>2, <2>2 DEF Locking, Lock
  <2> QED BY <2>1, <2>2 DEF Plain
<1>5. Lock'
  BY <1>2, <1>3, <1>4 DEF Locking, Lock
<1>6. OneLogin'
  <2>1. Without({"race", "expired"})' => Without({"race", "expired"})
    BY DEF Plain, Without
  <2>2. SUFFICES ASSUME Without({"race", "expired"})' PROVE
            /\ \A d \in Clients : Engaged(d)' => claim'.held
            /\ \A d, e \in Clients : Engaged(d)' /\ Engaged(e)' => d = e
    BY DEF OneLogin
  <2> QED BY <1>2, <1>3, <2>1, <2>2 DEF Locking, OneLogin
<1> QED BY <1>5, <1>6 DEF Locking

\* What a call becomes that goes on or returns.
LEMMA Onward ==
    ASSUME TypeInv, NEW c \in Clients
    PROVE  /\ \A p : Goes(c, p) => /\ call'[c].op = call[c].op /\ call'[c].pc = p
                                  /\ \A d \in Clients \ {c} : call'[d] = call[d]
           /\ Returns(c) => /\ call'[c].op = "none" /\ call'[c].pc = "idle"
                            /\ \A d \in Clients \ {c} : call'[d] = call[d]
<1>1. call[c] \in Calls
  BY DEF TypeInv, TypeOK
<1>2. ASSUME NEW p, Goes(c, p) PROVE call'[c].op = call[c].op /\ call'[c].pc = p
  <2>1. call'[c] = [call[c] EXCEPT !.pc = p]
    BY <1>2, Moved
  <2> QED BY <1>1, <2>1 DEF Calls
<1>3. Returns(c) => call'[c].op = "none" /\ call'[c].pc = "idle"
  BY Moved DEF Idle
<1> QED BY <1>2, <1>3, Moved

LEMMA PlainWhen ==
    ASSUME TypeInv, NEW c \in Clients, UNCHANGED claim, trouble \subseteq trouble',
           \/ ReturnsUnlocked(c)
           \/ Returns(c) /\ UNCHANGED mutex
           \/ (\E p \in Pcs : Goes(c, p)) /\ call[c].pc # "release" /\ UNCHANGED mutex
    PROVE  Plain(c)
<1>1. mutex \in BOOLEAN
  BY DEF TypeInv, TypeOK
<1>2. CASE Returns(c)
  <2>1. ~Exclusive(c)' /\ ~Engaged(c)' /\ \A d \in Clients \ {c} : call'[d] = call[d]
    BY <1>2, Onward DEF Exclusive, Engaged, LoginOps
  <2>2. mutex' = mutex \/ Exclusive(c)
    BY <1>1 DEF ReturnsUnlocked, Exclusive
  <2> QED BY <2>1, <2>2 DEF Plain
<1>3. CASE (\E p \in Pcs : Goes(c, p)) /\ call[c].pc # "release" /\ UNCHANGED mutex
  <2>1. call'[c].op = call[c].op /\ \A d \in Clients \ {c} : call'[d] = call[d]
    BY <1>3, Onward
  <2> QED BY <1>3, <2>1 DEF Plain, Exclusive, Engaged
<1> QED BY <1>2, <1>3 DEF ReturnsUnlocked

\* What the record of a call is after it learned something.
LEMMA Learned ==
    ASSUME TypeInv, NEW c \in Clients, NEW x \in Calls, call' = [call EXCEPT ![c] = x]
    PROVE  call'[c] = x /\ \A d \in Clients \ {c} : call'[d] = call[d]
BY DEF TypeInv, TypeOK

\* Most steps of a call are plain.
LEMMA PlainLogin ==
    ASSUME TypeInv, NEW c \in Clients,
           \/ Mark(c) \/ StartRefused(c) \/ Resolve(c) \/ StartFails(c) \/ ShowUrl(c) \/ NoUrl(c)
           \/ SubmitHandled(c) \/ SubmitReturns(c)
           \/ CancelHandled(c) \/ VerifyFails(c) \/ RegisterFails(c) \/ Restore(c) \/ RestoreFails(c)
           \/ Release(c) \/ (\E l \in Logins : Spawn(c, l)) \/ Verify(c) \/ Fetch(c) \/ Register(c)
           \/ Activate(c)
    PROVE  Plain(c)
<1>1. call \in [Clients -> Calls] /\ call[c] \in Calls /\ Shape(call[c])
  BY DEF TypeInv, TypeOK, Shapes
<1>2. /\ Healthy => trouble \subseteq trouble'
      /\ \A t \in Troubles : Fault(t) => trouble \subseteq trouble'
      /\ \A t \in SUBSET Troubles : Blame(t) => trouble \subseteq trouble'
  BY DEF Healthy, Fault, Blame
<1>3. CASE SubmitHandled(c) \/ CancelHandled(c)
  <2>1. UNCHANGED claim /\ UNCHANGED mutex /\ Healthy
    BY <1>3 DEF SubmitHandled, CancelHandled, loginVars
  <2>2. call[c].pc \in {"submit", "cancel"}
    BY <1>3, SubmitOrCancel
  <2>3. CASE Returns(c)
    BY <1>2, <2>1, <2>3, PlainWhen
  <2>4. CASE ~Returns(c)
    <3>1. PICK p \in {"wait", "restore"} : TakesSlot(c, p) /\ (call[c].pc = "submit" \/ p = "restore")
      BY <1>3, <2>4, SubmitOrCancel
    <3>2. call'[c].op = call[c].op /\ call[c].op \in LoginOps /\ \A d \in Clients \ {c} : call'[d] = call[d]
      BY <2>2, <3>1, Handled DEF LoginOps
    <3> QED BY <1>2, <2>1, <2>2, <3>2 DEF Plain, Exclusive, Engaged
  <2> QED BY <2>3, <2>4
<1>4. CASE \/ StartRefused(c) \/ Resolve(c) \/ ShowUrl(c) \/ SubmitReturns(c) \/ VerifyFails(c)
           \/ Restore(c)
  <2>1. UNCHANGED claim /\ UNCHANGED mutex /\ Healthy
    BY <1>4 DEF StartRefused, Resolve, ShowUrl, SubmitReturns, VerifyFails, Restore, loginVars
  <2>2. (Returns(c) \/ \E p \in Pcs : Goes(c, p)) /\ call[c].pc # "release"
    BY <1>4 DEF StartRefused, Resolve, ShowUrl, SubmitReturns, VerifyFails, Restore, Pcs, AtSidecar, Starting, At
  <2> QED BY <1>2, <2>1, <2>2, PlainWhen
<1>5. CASE StartFails(c) \/ NoUrl(c) \/ RegisterFails(c) \/ RestoreFails(c)
  <2>1. UNCHANGED claim /\ UNCHANGED mutex /\ trouble \subseteq trouble'
    BY <1>2, <1>5 DEF StartFails, NoUrl, RegisterFails, RestoreFails, loginVars, Troubles
  <2>2. (\E p \in Pcs : Goes(c, p)) /\ call[c].pc # "release"
    BY <1>5 DEF StartFails, NoUrl, RegisterFails, RestoreFails, Pcs, At
  <2> QED BY <2>1, <2>2, PlainWhen
<1>6. CASE Release(c)
  <2>1. UNCHANGED claim /\ UNCHANGED mutex /\ Healthy /\ Returns(c)
    BY <1>6 DEF Release
  <2> QED BY <1>2, <2>1, PlainWhen
<1>7. CASE Mark(c)
  <2>1. UNCHANGED claim /\ UNCHANGED mutex /\ Healthy
    BY <1>7 DEF Mark, loginVars
  <2>2. call'[c].op = "mark" /\ \A d \in Clients \ {c} : call'[d] = call[d]
    BY <1>1, <1>7 DEF Mark, Idle
  <2> QED BY <1>2, <2>1, <2>2 DEF Plain, Exclusive, Engaged, LoginOps
<1>8. ASSUME NEW l \in Logins, Spawn(c, l) PROVE Plain(c)
  <2>1. UNCHANGED claim /\ UNCHANGED mutex /\ Healthy
    BY <1>8 DEF Spawn
  <2>2. call'[c].op = call[c].op /\ \A d \in Clients \ {c} : call'[d] = call[d]
    BY <1>1, <1>8 DEF Spawn, Calls
  <2>3. call[c].pc # "release"
    BY <1>8 DEF Spawn, At
  <2> QED BY <1>2, <2>1, <2>2, <2>3 DEF Plain, Exclusive, Engaged
<1>9. CASE Verify(c) \/ Fetch(c)
  <2>1. UNCHANGED claim /\ UNCHANGED mutex /\ Healthy
    BY <1>9 DEF Verify, Fetch, loginVars
  <2>2. call'[c].op = call[c].op /\ \A d \in Clients \ {c} : call'[d] = call[d]
    BY <1>1, <1>9 DEF Verify, Fetch, Calls
  <2>3. call[c].pc # "release"
    BY <1>9 DEF Verify, Fetch, At
  <2> QED BY <1>2, <2>1, <2>2, <2>3 DEF Plain, Exclusive, Engaged
<1>10. CASE Register(c)
  <2>1. UNCHANGED claim /\ UNCHANGED mutex /\ Healthy
    BY <1>10 DEF Register, loginVars
  <2>2. call'[c].op = "list" /\ \A d \in Clients \ {c} : call'[d] = call[d]
    BY <1>1, <1>10 DEF Register, Calls
  <2>3. call[c].pc = "register" /\ call[c].op = "submit"
    BY <1>1, <1>10 DEF Register, At, Calls, Shape, LoginOps
  <2> QED BY <1>2, <2>1, <2>2, <2>3 DEF Plain, Exclusive, Engaged, LoginOps
<1>11. CASE Activate(c)
  <2>1. UNCHANGED claim /\ UNCHANGED mutex /\ Healthy
    BY <1>11 DEF Activate, loginVars
  <2>2. /\ call'[c].op = "activate" \/ call'[c].op = call[c].op
        /\ \A d \in Clients \ {c} : call'[d] = call[d]
    BY <1>1, <1>11 DEF Activate, Calls, Goes
  <2>3. call[c].pc = "activate" /\ call[c].op = "list"
    BY <1>1, <1>11 DEF Activate, At, Calls, Shape, LoginOps
  <2> QED BY <1>2, <2>1, <2>2, <2>3 DEF Plain, Exclusive, Engaged, LoginOps
<1> QED BY <1>3, <1>4, <1>5, <1>6, <1>7, <1>8, <1>9, <1>10, <1>11

LEMMA PlainSwap ==
    ASSUME TypeInv, NEW c \in Clients,
           \/ KeepFails(c) \/ Incoming(c) \/ IncomingFails(c) \/ Delete(c) \/ Save(c) \/ SaveFails(c)
    PROVE  Plain(c)
<1>1. mutex \in BOOLEAN
  BY DEF TypeInv, TypeOK
<1>2. trouble \subseteq trouble' /\ UNCHANGED claim
  BY DEF KeepFails, Incoming, IncomingFails, Delete, Save, SaveFails, Healthy, Fault, Blame, loginVars
<1>3. call[c].pc # "release"
  BY DEF KeepFails, Incoming, IncomingFails, Delete, Save, SaveFails, At
<1>4. \/ ReturnsUnlocked(c)
      \/ (Returns(c) \/ \E p \in Pcs : Goes(c, p)) /\ UNCHANGED mutex
  BY DEF KeepFails, Incoming, IncomingFails, Delete, Save, SaveFails, AfterSave, Pcs
<1> QED BY <1>1, <1>2, <1>3, <1>4, PlainWhen

\* So are the steps of a snapshot, which is part of a switch or of a start.
LEMMA SnapshotGoes ==
    ASSUME TypeInv, NEW c \in Clients, Snapshot(c) \/ ReadCli(c) \/ Keep(c)
    PROVE  /\ call[c].pc \in {"snapshot", "read", "keep"} /\ call[c].op \in {"switch", "start"}
           /\ \A d \in Clients \ {c} : call'[d] = call[d]
           /\ \/ Returns(c) /\ call[c].op = "start"
              \/ Goes(c, "incoming") /\ call[c].op = "switch"
              \/ /\ Snapshot(c) /\ index.active # NoAccount
                 /\ call'[c] = [call[c] EXCEPT !.pc = "read", !.acct = index.active]
              \/ ReadCli(c) /\ cli # NoCredential /\ call'[c] = [call[c] EXCEPT !.pc = "keep", !.cred = cli]
<1>1. call[c].pc \in {"snapshot", "read", "keep"}
  BY DEF Snapshot, ReadCli, Keep, At
<1>2. call[c] \in Calls /\ Shape(call[c]) /\ call \in [Clients -> Calls]
  BY DEF TypeInv, TypeOK, Shapes
<1>3. call[c].op \in {"switch", "start"}
  BY <1>1, <1>2 DEF Shape, Calls, LoginOps
<1>4. SnapshotDone(c) => (Returns(c) /\ call[c].op = "start") \/ (Goes(c, "incoming") /\ call[c].op = "switch")
  BY <1>3 DEF SnapshotDone
<1>5. Returns(c) \/ Goes(c, "incoming") => \A d \in Clients \ {c} : call'[d] = call[d]
  BY Onward
<1>6. CASE Snapshot(c) /\ index.active # NoAccount
  <2>1. call' = [call EXCEPT ![c].pc = "read", ![c].acct = index.active]
    BY <1>6 DEF Snapshot
  <2>2. /\ call'[c] = [call[c] EXCEPT !.pc = "read", !.acct = index.active]
        /\ \A d \in Clients \ {c} : call'[d] = call[d]
    BY <1>2, <2>1
  <2> QED BY <1>1, <1>3, <1>6, <2>2
<1>7. CASE ReadCli(c) /\ cli # NoCredential
  <2>1. call' = [call EXCEPT ![c].pc = "keep", ![c].cred = cli]
    BY <1>7 DEF ReadCli
  <2>2. /\ call'[c] = [call[c] EXCEPT !.pc = "keep", !.cred = cli]
        /\ \A d \in Clients \ {c} : call'[d] = call[d]
    BY <1>2, <2>1
  <2> QED BY <1>1, <1>3, <1>7, <2>2
<1>8. CASE SnapshotDone(c)
  BY <1>1, <1>3, <1>4, <1>5, <1>8 DEF SnapshotDone
<1> QED BY <1>6, <1>7, <1>8 DEF Snapshot, ReadCli, Keep

LEMMA PlainSnapshot ==
    ASSUME TypeInv, NEW c \in Clients, Snapshot(c) \/ ReadCli(c) \/ Keep(c)
    PROVE  Plain(c)
<1>1. UNCHANGED claim /\ UNCHANGED mutex /\ trouble \subseteq trouble'
  BY DEF Snapshot, ReadCli, Keep, Healthy, loginVars
<1>2. call[c].pc # "release"
  BY SnapshotGoes
<1>3. CASE Returns(c) \/ Goes(c, "incoming")
  BY <1>1, <1>2, <1>3, PlainWhen DEF Pcs
<1>4. CASE ~(Returns(c) \/ Goes(c, "incoming"))
  <2>1. \A d \in Clients \ {c} : call'[d] = call[d]
    BY SnapshotGoes
  <2>2. \/ call'[c] = [call[c] EXCEPT !.pc = "read", !.acct = index.active]
        \/ call'[c] = [call[c] EXCEPT !.pc = "keep", !.cred = cli]
    BY <1>4, SnapshotGoes
  <2>3. call[c] \in Calls
    BY DEF TypeInv, TypeOK
  <2>4. call'[c].op = call[c].op
    BY <2>2, <2>3 DEF Calls
  <2> QED BY <1>1, <1>2, <2>1, <2>4 DEF Plain, Exclusive, Engaged
<1> QED BY <1>3, <1>4

\* The lock and the claim are kept by every step.
LEMMA LockInductive == TypeInv /\ Locking /\ [Next]_vars => Locking'
<1> SUFFICES ASSUME TypeInv, Locking, [Next]_vars PROVE Locking'
  OBVIOUS
<1>1. call \in [Clients -> Calls] /\ mutex \in BOOLEAN
  BY DEF TypeInv, TypeOK
<1>2. \A c \in Clients : Engaged(c) => c \in InLogin
  BY DEF Engaged, InLogin
<1>3. ASSUME UNCHANGED claim, UNCHANGED mutex, UNCHANGED call, trouble \subseteq trouble' PROVE Locking'
  BY <1>3 DEF Locking, Lock, OneLogin, Exclusive, Engaged, Without
<1>4. ASSUME NEW c \in Clients,
             (\E a \in Accounts : Switch(c, a))
             \/ (\E a \in Accounts, b \in Accounts \cup {NoAccount} : Remove(c, a, b))
      PROVE  Locking'
  <2>0. /\ Locks(c) /\ UNCHANGED claim /\ UNCHANGED trouble
        /\ \/ \E a \in Accounts : call' = [call EXCEPT ![c] = [Idle EXCEPT !.op = "switch",
                         !.pc = "snapshot", !.to = a, !.idx = index]]
           \/ \E a \in Accounts, b \in Accounts \cup {NoAccount} :
                 call' = [call EXCEPT ![c] = [Idle EXCEPT !.op = "remove", !.acct = a, !.to = b,
                         !.idx = index, !.pc = IF b = NoAccount THEN "save" ELSE "incoming"]]
    BY <1>4 DEF Switch, Remove, Healthy, loginVars
  <2>1. /\ ~mutex /\ ~claim.held /\ mutex' = TRUE /\ UNCHANGED claim /\ UNCHANGED trouble
        /\ call'[c].op \in {"switch", "remove"} /\ \A d \in Clients \ {c} : call'[d] = call[d]
    BY <1>1, <2>0 DEF Locks, Idle
  <2>2. \A d \in Clients : ~Exclusive(d)
    BY <2>1 DEF Locking, Lock
  <2>3. \A d \in Clients : Exclusive(d)' => d = c
    BY <2>1, <2>2 DEF Exclusive
  <2>4. Lock'
    BY <2>1, <2>3 DEF Lock
  <2>5. \A d \in Clients : Engaged(d)' => Engaged(d)
    BY <2>1 DEF Engaged, LoginOps
  <2> QED BY <2>1, <2>4, <2>5 DEF Locking, OneLogin, Without
<1>5. ASSUME NEW c \in Clients, Start(c) PROVE Locking'
  <2>1. /\ ~mutex /\ ~claim.held /\ ~mutex' /\ claim'.held /\ UNCHANGED trouble
        /\ call'[c].op = "start" /\ \A d \in Clients \ {c} : call'[d] = call[d]
    BY <1>1, <1>5 DEF Start, Healthy, Idle
  <2>2. \A d \in Clients : ~Exclusive(d)'
    BY <2>1 DEF Locking, Lock, Exclusive
  <2>3. Without({"race", "expired"}) => \A d \in Clients : Engaged(d)' => d = c
    BY <2>1 DEF Locking, OneLogin, Engaged
  <2> QED BY <2>1, <2>2, <2>3 DEF Locking, Lock, OneLogin, Without
<1>6. ASSUME NEW c \in Clients, NEW op \in {"submit", "cancel"}, NEW l \in {NoLogin} \cup Logins,
             Touch(c, op, l)
      PROVE  Locking'
  <2>1. /\ ~mutex /\ claim.held /\ UNCHANGED <<mutex, claim>> /\ trouble \subseteq trouble'
        /\ InLogin # {} => "race" \in trouble'
        /\ call'[c].op = op /\ \A d \in Clients \ {c} : call'[d] = call[d]
    BY <1>1, <1>6 DEF Touch, Blame, loginVars, Idle
  <2>2. \A d \in Clients : ~Exclusive(d)'
    BY <2>1 DEF Locking, Lock, Exclusive
  <2>3. InLogin = {} => \A d \in Clients : Engaged(d)' => d = c
    BY <1>2, <2>1 DEF Engaged
  <2> QED BY <2>1, <2>2, <2>3 DEF Locking, Lock, OneLogin, Without
<1>7. ASSUME NEW c \in Clients, Bind(c) PROVE Locking'
  <2>1. /\ ~mutex /\ UNCHANGED mutex /\ claim'.held = claim.held /\ UNCHANGED trouble
        /\ Goes(c, "snapshot") /\ At(c, "bind")
    BY <1>7 DEF Bind, Healthy, TypeInv, TypeOK
  <2>2. (Exclusive(c)' <=> Exclusive(c)) /\ (Engaged(c)' => Engaged(c))
        /\ \A d \in Clients \ {c} : call'[d] = call[d]
    BY <2>1, Onward DEF Exclusive, Engaged, At
  <2>3. \A d \in Clients : (Exclusive(d)' => Exclusive(d)) /\ (Engaged(d)' => Engaged(d))
    BY <2>2 DEF Exclusive, Engaged
  <2> QED BY <2>1, <2>3 DEF Locking, Lock, OneLogin, Without
<1>8. ASSUME NEW c \in Clients, Clear(c) PROVE Locking'
  <2>1. /\ ~mutex /\ UNCHANGED mutex /\ ~claim'.held /\ UNCHANGED trouble
        /\ Goes(c, "release") /\ At(c, "clear")
    BY <1>8 DEF Clear, Healthy, NoClaim
  <2>2. /\ call[c] \in Calls /\ Shape(call[c]) /\ call'[c].pc = "release" /\ call'[c].op = call[c].op
        /\ \A d \in Clients \ {c} : call'[d] = call[d]
    <3>1. call[c] \in Calls /\ Shape(call[c])
      BY <1>1 DEF TypeInv, Shapes
    <3> QED BY <2>1, <3>1, Onward
  <2>3. Engaged(c) /\ ~Engaged(c)' /\ ~Exclusive(c)'
    BY <2>1, <2>2 DEF At, Engaged, Exclusive, Shape, Calls, LoginOps
  <2>4. \A d \in Clients : (Exclusive(d)' => Exclusive(d)) /\ (Engaged(d)' => Engaged(d) /\ d # c)
    BY <2>2, <2>3 DEF Exclusive, Engaged
  <2> QED BY <2>1, <2>3, <2>4 DEF Locking, Lock, OneLogin, Without
<1>9. ASSUME Expire PROVE Locking'
  <2>1. /\ UNCHANGED <<mutex, call>> /\ ~claim'.held /\ trouble \subseteq trouble'
        /\ InLogin # {} => "expired" \in trouble'
    BY <1>9 DEF Expire, Blame, NoClaim
  <2>2. \A d \in Clients : (Exclusive(d)' <=> Exclusive(d)) /\ (Engaged(d)' <=> Engaged(d))
    BY <2>1 DEF Exclusive, Engaged
  <2> QED BY <1>2, <2>1, <2>2 DEF Locking, Lock, OneLogin, Without
<1>10. ASSUME Crash PROVE Locking'
  <2>1. \A d \in Clients : call'[d] = Idle
    BY <1>10 DEF Crash
  <2>2. \A d \in Clients : ~Exclusive(d)' /\ ~Engaged(d)'
    BY <2>1 DEF Exclusive, Engaged, Idle, LoginOps
  <2> QED BY <1>10, <2>2 DEF Crash, Locking, Lock, OneLogin
<1>11. ASSUME SidecarDies PROVE Locking'
  <2>1. UNCHANGED <<claim, mutex>> /\ trouble \subseteq trouble'
    BY <1>11 DEF SidecarDies, Fault, Blame
  <2>2. \A d \in Clients : call'[d] = IF call[d].pc \in Starting THEN [call[d] EXCEPT !.pc = "clear"]
                                      ELSE IF call[d].pc \in AtSidecar THEN Idle ELSE call[d]
    BY <1>11 DEF SidecarDies
  <2>3. \A d \in Clients : (Exclusive(d)' => Exclusive(d)) /\ (Engaged(d)' => Engaged(d))
    <3>1. ~ Idle.op \in {"switch", "remove"} \cup LoginOps
      BY DEF Idle, LoginOps
    <3>2. \A x \in Calls : [x EXCEPT !.pc = "clear"].op = x.op
      BY DEF Calls
    <3>3. \A d \in Clients :
             \/ call'[d].op = call[d].op /\ (call[d].pc \in Starting \/ call'[d].pc = call[d].pc)
             \/ call'[d] = Idle
      BY <1>1, <2>2, <3>2
    <3> QED BY <3>1, <3>3 DEF Exclusive, Engaged, Starting
  <2> QED BY <2>1, <2>3 DEF Locking, Lock, OneLogin, Without
<1>12. ASSUME NEW l \in Logins, CliFails(l) \/ KillTimer(l) \/ \E a \in Accounts : CliLogsIn(l, a)
      PROVE  Locking'
  BY <1>3, <1>12 DEF CliFails, KillTimer, CliLogsIn, Healthy, Blame
<1>13. ASSUME Rotate \/ Logout PROVE Locking'
  BY <1>3, <1>13 DEF Rotate, Logout, Healthy, Blame, loginVars
<1>14. CASE UNCHANGED vars
  BY <1>3, <1>14 DEF vars, loginVars
<1> QED BY <1>4, <1>5, <1>6, <1>7, <1>8, <1>9, <1>10, <1>11, <1>12, <1>13, <1>14,
           PlainLogin, PlainSwap, PlainSnapshot, PlainKeeps DEF Next, Submit, Cancel

-----------------------------------------------------------------------------
(* Listed accounts have a credential *)

\* A record nothing has to be secured for.
Light(x) ==
    /\ x.op = "list" => x.pc # "save"
    /\ x.op = "remove" => x.pc # "incoming"
    /\ x.pc # "delete"

\* Steps after which nothing more has to be secured than before.
LEMMA KeptFrame ==
    ASSUME Kept, UNCHANGED <<index, stored>>, trouble \subseteq trouble',
           \A d \in Clients : call'[d] = call[d] \/ Light(call'[d])
    PROVE  Kept'
<1> SUFFICES ASSUME Without({"update", "race", "expired"})'
             PROVE  /\ \A a \in index'.listed : stored'[a] # NoCredential
                    /\ \A c \in Clients : Secured(call[c])'
  BY DEF Kept
<1>1. /\ \A a \in index.listed : stored[a] # NoCredential
      /\ \A c \in Clients : Secured(call[c])
  BY DEF Kept, Without
<1>2. ASSUME NEW c \in Clients PROVE Secured(call[c])'
  <2>1. CASE call'[c] = call[c]
    BY <1>1, <2>1 DEF Secured
  <2>2. CASE Light(call'[c])
    BY <2>2 DEF Light, Secured
  <2> QED BY <2>1, <2>2
<1> QED BY <1>1, <1>2

\* Calls that begin, except for a removal.
LEMMA KeptBegin ==
    ASSUME TypeInv, Kept, NEW c \in Clients,
           (\E a \in Accounts : Switch(c, a)) \/ Mark(c) \/ Start(c)
           \/ \E l \in {NoLogin} \cup Logins : Submit(c, l) \/ Cancel(c, l)
    PROVE  Kept'
<1>1. call \in [Clients -> Calls]
  BY DEF TypeInv, TypeOK
<1>2. UNCHANGED <<index, stored, cli>> /\ trouble \subseteq trouble'
  BY DEF Switch, Mark, Start, Submit, Cancel, Touch, Healthy, Blame, HostQuiet, hostVars
<1> DEFINE Begun == /\ call'[c].op \in {"switch", "mark", "start", "submit", "cancel"}
                    /\ call'[c].pc # "delete"
                    /\ \A d \in Clients \ {c} : call'[d] = call[d]
<1>3. ASSUME NEW a \in Accounts, Switch(c, a) PROVE Begun
  BY <1>1, <1>3 DEF Switch, Idle
<1>4. Mark(c) => Begun
  BY <1>1 DEF Mark, Idle
<1>5. Start(c) => Begun
  BY <1>1 DEF Start, Idle
<1>6. ASSUME NEW op \in {"submit", "cancel"}, NEW l \in {NoLogin} \cup Logins, Touch(c, op, l) PROVE Begun
  BY <1>1, <1>6 DEF Touch, Idle
<1>7. Begun
  BY <1>3, <1>4, <1>5, <1>6 DEF Submit, Cancel
<1> QED BY <1>2, <1>7, KeptFrame DEF Light

\* Steps of a login, and of a snapshot, that save nothing.
LEMMA KeptLogin ==
    ASSUME TypeInv, TypeInv', Kept, NEW c \in Clients,
           \/ StartRefused(c) \/ Resolve(c) \/ StartFails(c) \/ ShowUrl(c) \/ NoUrl(c) \/ Bind(c)
           \/ (\E l \in Logins : Spawn(c, l)) \/ Snapshot(c) \/ ReadCli(c)
           \/ SubmitHandled(c) \/ SubmitReturns(c) \/ CancelHandled(c) \/ Verify(c) \/ Fetch(c) \/ VerifyFails(c)
           \/ RegisterFails(c) \/ Activate(c) \/ Restore(c) \/ RestoreFails(c) \/ Clear(c) \/ Release(c)
    PROVE  Kept'
<1>1. call \in [Clients -> Calls] /\ Shape(call[c]) /\ call[c] \in Calls
  BY DEF TypeInv, TypeOK, Shapes
<1>2. UNCHANGED <<index, stored>> /\ trouble \subseteq trouble'
  BY DEF StartRefused, Resolve, StartFails, ShowUrl, NoUrl, Bind, Spawn, Snapshot, ReadCli, SubmitHandled,
         SubmitReturns, CancelHandled, Verify, Fetch, VerifyFails,
         RegisterFails, Activate, Restore, RestoreFails, Clear, Release, Healthy, Fault, Blame,
         HostQuiet, hostVars
<1>4. (\A d \in Clients \ {c} : call'[d] = call[d]) /\ Light(call'[c]) => Kept'
  BY <1>2, KeptFrame
<1>5. \A p \in {"restore", "clear", "release"} : Goes(c, p) => Kept'
  BY <1>1, <1>4, Onward DEF Light
<1>6. Returns(c) => Kept'
  BY <1>1, <1>4, Onward DEF Light
<1>7. \A p \in {"resolve", "bind", "snapshot", "verify"} : Goes(c, p) => Kept'
  BY <1>1, <1>4, Onward DEF Light
<1>3. CASE Snapshot(c) \/ ReadCli(c)
  <2>1. call[c].op \in {"switch", "start"} /\ \A d \in Clients \ {c} : call'[d] = call[d]
    BY <1>3, SnapshotGoes
  <2>2. Goes(c, "incoming") => Kept'
    BY <1>1, <1>4, <2>1, Onward DEF Light
  <2>3. call'[c] = [call[c] EXCEPT !.pc = "read", !.acct = index.active] => Kept'
    BY <1>1, <1>4, <2>1 DEF Light, Calls
  <2>4. call'[c] = [call[c] EXCEPT !.pc = "keep", !.cred = cli] => Kept'
    BY <1>1, <1>4, <2>1 DEF Light, Calls
  <2> QED BY <1>3, <1>6, <2>2, <2>3, <2>4, SnapshotGoes
<1>8. CASE \E l \in Logins : Spawn(c, l)
  <2>1. PICK l \in Logins : call' = [call EXCEPT ![c].pc = "url", ![c].login = l]
    BY <1>8 DEF Spawn
  <2>2. call'[c].pc = "url" /\ \A d \in Clients \ {c} : call'[d] = call[d]
    BY <1>1, <2>1 DEF Calls
  <2> QED BY <1>4, <2>2 DEF Light
<1>9. CASE Activate(c)
  <2>1. CASE call[c].acct \in index.listed
    <3>1. call'[c] = [call[c] EXCEPT !.pc = "save", !.op = "activate", !.idx = index]
          /\ \A d \in Clients \ {c} : call'[d] = call[d]
      BY <1>1, <1>9, <2>1 DEF Activate
    <3>2. call'[c].op = "activate" /\ call'[c].pc = "save"
      BY <1>1, <3>1 DEF Calls
    <3> QED BY <1>4, <3>1, <3>2 DEF Light
  <2> QED BY <1>5, <1>9, <2>1 DEF Activate
<1>10. CASE StartRefused(c) \/ Resolve(c) \/ StartFails(c) \/ ShowUrl(c) \/ NoUrl(c) \/ Bind(c) \/ SubmitReturns(c)
  BY <1>5, <1>6, <1>7, <1>10 DEF StartRefused, Resolve, StartFails, ShowUrl, NoUrl, Bind, SubmitReturns
<1>11. CASE SubmitHandled(c) \/ CancelHandled(c)
  <2>1. CASE Returns(c)
    BY <1>6, <2>1
  <2>2. CASE ~Returns(c)
    <3>1. PICK p \in {"wait", "restore"} : TakesSlot(c, p) /\ (call[c].pc = "submit" \/ p = "restore")
      BY <1>11, <2>2, SubmitOrCancel
    <3>2. call'[c].pc = p /\ call'[c].op \in {"submit", "cancel"} /\ \A d \in Clients \ {c} : call'[d] = call[d]
      BY <1>11, <3>1, Handled, SubmitOrCancel
    <3> QED BY <1>4, <3>2 DEF Light
  <2> QED BY <2>1, <2>2
<1>12. CASE \/ VerifyFails(c) \/ RegisterFails(c) \/ Restore(c) \/ RestoreFails(c)
            \/ Clear(c) \/ Release(c)
  BY <1>5, <1>6, <1>12 DEF VerifyFails, RegisterFails, Restore, RestoreFails, Clear, Release
<1>13. CASE Verify(c) \/ Fetch(c)
  <2>1. call[c].op = "submit"
    BY <1>1, <1>13 DEF Verify, Fetch, At, Shape, Calls, LoginOps
  <2>2. /\ call'[c].op = "submit" /\ call'[c].pc \in {"fetch", "register"}
        /\ \A d \in Clients \ {c} : call'[d] = call[d]
    BY <1>1, <1>13, <2>1 DEF Verify, Fetch, Calls
  <2> QED BY <1>4, <2>2 DEF Light
<1> QED BY <1>3, <1>8, <1>9, <1>10, <1>11, <1>12, <1>13

\* The steps that save or delete a credential, or make one necessary.
LEMMA KeptKeep == ASSUME TypeInv, Kept, NEW c \in Clients, Keep(c) PROVE Kept'
<1>1. call[c] \in Calls /\ Shape(call[c]) /\ stored \in [Accounts -> Credentials]
      /\ index.listed \subseteq Accounts
  BY DEF TypeInv, TypeOK, Shapes, Index
<1>2. UNCHANGED <<index, trouble>> /\ \A a \in Accounts : stored[a] # NoCredential => stored'[a] # NoCredential
  <2>1. call[c].cred # NoCredential
    BY <1>1 DEF Keep, At, Shape
  <2> QED BY <1>1, <2>1 DEF Keep, Healthy
<1>3. (\A d \in Clients \ {c} : call'[d] = call[d]) /\ Light(call'[c])
  <2>1. call[c].op \in {"switch", "start"} /\ \A d \in Clients \ {c} : call'[d] = call[d]
    BY SnapshotGoes
  <2>2. Returns(c) \/ Goes(c, "incoming")
    BY DEF Keep, SnapshotDone
  <2> QED BY <2>1, <2>2, Onward DEF Light
<1>4. \A d \in Clients : /\ call[d].op = "list" => call[d].acct \in Accounts
                         /\ call[d].op = "remove" /\ call[d].pc = "incoming" => call[d].to \in Accounts
  <2>1. \A d \in Clients : call[d] \in Calls /\ Shape(call[d])
    BY DEF TypeInv, TypeOK, Shapes
  <2>2. \A d \in Clients : call[d].op = "list" => call[d].acct \in Accounts
    BY <2>1 DEF Shape
  <2> QED BY <2>1, <2>2, IncomingTo
<1>5. SUFFICES ASSUME Without({"update", "race", "expired"})
               PROVE  /\ \A a \in index.listed : stored'[a] # NoCredential
                      /\ \A d \in Clients : Secured(call[d])'
  BY <1>2 DEF Kept, Without
<1>6. \A a \in index.listed : stored'[a] # NoCredential
  BY <1>1, <1>2, <1>5 DEF Kept
<1>7. ASSUME NEW d \in Clients PROVE Secured(call[d])'
  <2>1. CASE d = c
    BY <1>3, <2>1 DEF Light, Secured
  <2>2. CASE d # c
    <3>1. Secured(call[d]) /\ call'[d] = call[d]
      BY <1>3, <1>5, <2>2 DEF Kept
    <3> QED BY <1>2, <1>4, <3>1 DEF Secured
  <2> QED BY <2>1, <2>2
<1> QED BY <1>6, <1>7

LEMMA KeptRegister == ASSUME TypeInv, Kept, NEW c \in Clients, Register(c) PROVE Kept'
<1>1. call \in [Clients -> Calls] /\ call[c] \in Calls /\ Shape(call[c])
      /\ stored \in [Accounts -> Credentials] /\ index.listed \subseteq Accounts
  BY DEF TypeInv, TypeOK, Shapes, Index
<1>2. /\ UNCHANGED <<index, cli, trouble>> /\ At(c, "register")
      /\ stored' = [stored EXCEPT ![call[c].acct] = call[c].cred]
  BY DEF Register, Healthy
<1>3. /\ call'[c] = [call[c] EXCEPT !.pc = "save", !.op = "list", !.idx = index]
      /\ \A d \in Clients \ {c} : call'[d] = call[d]
  BY <1>1 DEF Register
<1>4. call'[c].op = "list" /\ call'[c].pc = "save" /\ call'[c].acct = call[c].acct /\ call[c].acct \in Accounts
  BY <1>1, <1>2, <1>3 DEF Calls, At, Shape
<1>5. SUFFICES ASSUME Without({"update", "race", "expired"})
               PROVE  /\ \A a \in index.listed : stored'[a] # NoCredential
                      /\ \A d \in Clients : Secured(call[d])'
  BY <1>2 DEF Kept, Without
<1>6. call[c].cred # NoCredential /\ \A d \in Clients : Secured(call[d])
  BY <1>1, <1>2, <1>5 DEF Kept, Shape, At
<1>7. \A a \in Accounts : stored[a] # NoCredential \/ a = call[c].acct => stored'[a] # NoCredential
  BY <1>1, <1>2, <1>6
<1>8. \A a \in index.listed : stored'[a] # NoCredential
  BY <1>1, <1>5, <1>7 DEF Kept
<1>9. ASSUME NEW d \in Clients PROVE Secured(call[d])'
  <2>1. CASE d = c
    BY <1>4, <1>7, <2>1 DEF Secured
  <2>2. CASE d # c
    <3>1. Secured(call[d]) /\ call'[d] = call[d] /\ call[d] \in Calls /\ Shape(call[d])
      BY <1>3, <1>6, <2>2 DEF TypeInv, TypeOK, Shapes
    <3>2. /\ call[d].op = "list" => call[d].acct \in Accounts
          /\ call[d].op = "remove" /\ call[d].pc = "incoming" => call[d].to \in Accounts
      <4>1. call[d].op = "list" => call[d].acct \in Accounts
        BY <3>1 DEF Shape
      <4> QED BY <3>1, <4>1, IncomingTo
    <3> QED BY <1>2, <1>7, <3>1, <3>2 DEF Secured
  <2> QED BY <2>1, <2>2
<1> QED BY <1>8, <1>9

\* A deletion meets no login, for it holds the lock, and no other removal.
LEMMA KeptDelete == ASSUME TypeInv, Locking, Kept, NEW c \in Clients, Delete(c) PROVE Kept'
<1>1. call[c] \in Calls /\ Shape(call[c]) /\ stored \in [Accounts -> Credentials] /\ index.listed \subseteq Accounts
  BY DEF TypeInv, TypeOK, Shapes, Index
<1>2. /\ UNCHANGED <<index, cli, trouble>> /\ call[c].pc = "delete" /\ Returns(c)
      /\ \A a \in Accounts \ {call[c].acct} : stored'[a] = stored[a]
  BY <1>1 DEF Delete, ReturnsUnlocked, Healthy, At
<1>3. Exclusive(c)
  BY <1>1, <1>2 DEF Exclusive, Shape, Calls, LoginOps
<1>4. SUFFICES ASSUME Without({"update", "race", "expired"})
               PROVE  /\ \A a \in index.listed : stored'[a] # NoCredential
                      /\ \A d \in Clients : Secured(call[d])'
  BY <1>2 DEF Kept, Without
<1>5. \A d \in Clients : Secured(call[d])
  BY <1>4 DEF Kept
<1>6. ASSUME NEW a \in index.listed PROVE stored'[a] # NoCredential
  <2>1. a # call[c].acct
    BY <1>2, <1>5 DEF Secured
  <2> QED BY <1>1, <1>2, <1>4, <2>1 DEF Kept
<1>7. ASSUME NEW d \in Clients PROVE Secured(call[d])'
  <2>1. CASE d = c
    BY <1>2, <2>1, Onward DEF Secured
  <2>2. CASE d # c
    <3>1. ~Exclusive(d) /\ ~Engaged(d)
      <4>1. Without({"race", "expired"})
        BY <1>4 DEF Without
      <4> QED BY <1>3, <2>2, <4>1 DEF Locking, Lock, OneLogin
    <3>2. ~(call[d].op = "list" /\ call[d].pc = "save") /\ call[d].op # "remove"
      BY <3>1 DEF Exclusive, Engaged, LoginOps
    <3>3. call'[d] = call[d] /\ Secured(call[d])
      BY <1>2, <1>5, <2>2, Onward
    <3> QED BY <1>2, <3>2, <3>3 DEF Secured
  <2> QED BY <2>1, <2>2
<1> QED BY <1>6, <1>7

LEMMA KeptRemove ==
    ASSUME TypeInv, Kept, NEW c \in Clients, NEW a \in Accounts, NEW b \in Accounts \cup {NoAccount},
           Remove(c, a, b)
    PROVE  Kept'
<1>1. call \in [Clients -> Calls]
  BY DEF TypeInv, TypeOK
<1>2. /\ UNCHANGED <<index, stored, cli, trouble>>
      /\ call' = [call EXCEPT ![c] = [Idle EXCEPT !.op = "remove", !.acct = a, !.to = b, !.idx = index,
                                       !.pc = IF b = NoAccount THEN "save" ELSE "incoming"]]
      /\ b # NoAccount => b \in index.listed
  BY DEF Remove, Healthy, hostVars
<1>3. /\ call'[c].op = "remove" /\ call'[c].to = b
      /\ call'[c].pc = IF b = NoAccount THEN "save" ELSE "incoming"
      /\ \A d \in Clients \ {c} : call'[d] = call[d]
  BY <1>1, <1>2 DEF Idle
<1>4. SUFFICES ASSUME Without({"update", "race", "expired"})
               PROVE  \A d \in Clients : Secured(call[d])'
  BY <1>2 DEF Kept, Without
<1>5. (\A d \in Clients : Secured(call[d])) /\ \A e \in index.listed : stored[e] # NoCredential
  BY <1>4 DEF Kept
<1> QED BY <1>2, <1>3, <1>5 DEF Secured

\* A switch or removal that goes on saves nothing yet.
LEMMA KeptSwap ==
    ASSUME TypeInv, Kept, NEW c \in Clients,
           KeepFails(c) \/ Incoming(c) \/ IncomingFails(c) \/ SaveFails(c)
    PROVE  Kept'
<1>1. call[c] \in Calls /\ Shape(call[c])
  BY DEF TypeInv, TypeOK, Shapes
<1>2. UNCHANGED <<index, stored>> /\ trouble \subseteq trouble'
  BY DEF KeepFails, Incoming, IncomingFails, SaveFails, Healthy, Fault, Blame, hostVars
<1>4. (\A d \in Clients \ {c} : call'[d] = call[d]) /\ Light(call'[c]) => Kept'
  BY <1>2, KeptFrame
<1>5. \A p \in {"restore", "clear"} : Goes(c, p) => Kept'
  BY <1>4, Onward DEF Light
<1>6. Returns(c) => Kept'
  BY <1>4, Onward DEF Light
<1>7. At(c, "incoming") /\ Goes(c, "save") => Kept'
  <2>1. At(c, "incoming") => call[c].op # "list"
    BY <1>1, IncomingTo DEF At
  <2> QED BY <1>4, <2>1, Onward DEF Light
<1> QED BY <1>5, <1>6, <1>7 DEF KeepFails, Incoming, IncomingFails, SaveFails, ReturnsUnlocked

\* Unless it was read too early, the index is changed as it is.  An account that
\* is listed has a credential by then, and one that is deleted is not listed again.
LEMMA KeptSave == ASSUME TypeInv, Locking, Kept, NEW c \in Clients, Save(c) PROVE Kept'
<1> DEFINE x == call[c]
<1>1. x \in Calls /\ Shape(x) /\ x.pc = "save"
  BY DEF Save, At, TypeInv, TypeOK, Shapes
<1>2. /\ UNCHANGED <<stored, cli>> /\ index' = Changed(x) /\ trouble \subseteq trouble'
      /\ "update" \notin trouble' => x.idx = index
  BY DEF Save, Blame
<1>3. /\ \A d \in Clients \ {c} : call'[d] = call[d]
      /\ call'[c].op = x.op \/ call'[c].pc = "idle"
      /\ call'[c].pc \in {"idle", "delete", "activate", "clear"}
      /\ call'[c].pc = "delete" => x.op = "remove" /\ call'[c].acct = x.acct
  <2>1. CASE x.op \in DOMAIN AfterSave
    <3>1. call'[c] = [x EXCEPT !.pc = AfterSave[x.op]] /\ \A d \in Clients \ {c} : call'[d] = call[d]
      BY <2>1, Moved DEF Save
    <3> QED BY <1>1, <2>1, <3>1 DEF AfterSave, Calls
  <2>2. CASE x.op \notin DOMAIN AfterSave
    <3>1. Returns(c)
      BY <2>2 DEF Save, ReturnsUnlocked
    <3> QED BY <3>1, Onward
  <2> QED BY <2>1, <2>2
<1> HIDE DEF x
<1>4. SUFFICES ASSUME Without({"update", "race", "expired"})'
               PROVE  /\ \A a \in index'.listed : stored'[a] # NoCredential
                      /\ \A d \in Clients : Secured(call[d])'
  BY DEF Kept
<1>5. Without({"update", "race", "expired"}) /\ x.idx = index
  BY <1>2, <1>4 DEF Without
<1>6. /\ \A a \in index.listed : stored[a] # NoCredential
      /\ \A d \in Clients : Secured(call[d])
  BY <1>5 DEF Kept
<1>7. x.op = "list" => stored[x.acct] # NoCredential
  BY <1>1, <1>6 DEF Secured, x
<1>8. /\ x.op = "list" => index'.listed = index.listed \cup {x.acct}
      /\ x.op = "remove" => index'.listed = index.listed \ {x.acct}
      /\ x.op \notin {"list", "remove"} => index'.listed = index.listed
  <2>1. index \in Index
    BY DEF TypeInv, TypeOK
  <2> QED BY <1>2, <1>5, <2>1 DEF Changed, Index
<1>9. \A a \in index'.listed : stored'[a] # NoCredential
  BY <1>2, <1>6, <1>7, <1>8
<1>10. ASSUME NEW d \in Clients PROVE Secured(call[d])'
  <2>1. CASE d = c
    BY <1>3, <1>8, <2>1 DEF Secured
  <2>2. CASE d # c
    <3>1. call'[d] = call[d] /\ Secured(call[d]) /\ call[d] \in Calls /\ Shape(call[d])
      BY <1>3, <1>6, <2>2 DEF TypeInv, TypeOK, Shapes
    <3>2. CASE call[d].pc # "delete"
      BY <1>2, <3>1, <3>2 DEF Secured
    <3>3. CASE call[d].pc = "delete"
      <4>1. Exclusive(d)
        BY <3>1, <3>3 DEF Exclusive, Shape, Calls, LoginOps
      <4>2. ~Engaged(c)
        BY <1>5, <4>1 DEF Locking, Lock, OneLogin, Without
      <4>3. x.op # "list"
        BY <1>1, <4>2 DEF Engaged, LoginOps, x
      <4> QED BY <1>2, <1>8, <3>1, <3>3, <4>3 DEF Secured
    <3> QED BY <3>2, <3>3
  <2> QED BY <2>1, <2>2
<1> QED BY <1>9, <1>10

\* The rest of the world.
LEMMA KeptWorld ==
    ASSUME TypeInv, TypeInv', Kept,
           \/ \E l \in Logins : CliFails(l) \/ KillTimer(l) \/ \E a \in Accounts : CliLogsIn(l, a)
           \/ Expire \/ Rotate \/ Logout \/ Crash \/ SidecarDies
    PROVE  Kept'
<1>2. ASSUME NEW l \in Logins, NEW a \in Accounts, CliLogsIn(l, a) PROVE Kept'
  <2>1. UNCHANGED <<index, stored, call>> /\ trouble \subseteq trouble'
    BY <1>2 DEF CliLogsIn, Blame
  <2> QED BY <2>1, KeptFrame
<1>3. CASE Rotate \/ Logout \/ Expire
  <2>1. UNCHANGED <<index, stored, call>> /\ trouble \subseteq trouble'
    BY <1>3 DEF Rotate, Logout, Expire, Blame, Healthy, HostQuiet, hostVars
  <2> QED BY <2>1, KeptFrame
<1>4. ASSUME NEW l \in Logins, CliFails(l) \/ KillTimer(l) PROVE Kept'
  <2>1. UNCHANGED <<index, stored, call>> /\ trouble \subseteq trouble'
    BY <1>4 DEF CliFails, KillTimer, Healthy, HostQuiet, hostVars
  <2> QED BY <2>1, KeptFrame
<1>6. CASE Crash
  <2>1. UNCHANGED <<index, stored, cli>> /\ trouble \subseteq trouble'
    BY <1>6 DEF Crash, Fault, Blame, HostQuiet, hostVars
  <2>2. \A d \in Clients : Light(call'[d])
    BY <1>6 DEF Crash, Light, Idle
  <2> QED BY <2>1, <2>2, KeptFrame
<1>7. CASE SidecarDies
  <2>1. UNCHANGED <<index, stored, cli>> /\ trouble \subseteq trouble'
    BY <1>7 DEF SidecarDies, Fault, Blame, HostQuiet, hostVars
  <2>2. Light(Idle) /\ \A d \in Clients : Light([call[d] EXCEPT !.pc = "clear"])
    <3>1. \A d \in Clients : call[d] \in Calls
      BY DEF TypeInv, TypeOK
    <3> QED BY <3>1 DEF Light, Idle, Calls
  <2>3. \A d \in Clients : call'[d] = call[d] \/ Light(call'[d])
    BY <1>7, <2>2 DEF SidecarDies
  <2> QED BY <2>1, <2>3, KeptFrame
<1> QED BY <1>2, <1>3, <1>4, <1>6, <1>7

LEMMA KeptInductive == TypeInv /\ TypeInv' /\ Locking /\ Kept /\ [Next]_vars => Kept'
<1> SUFFICES ASSUME TypeInv, TypeInv', Locking, Kept, [Next]_vars PROVE Kept'
  OBVIOUS
<1>1. CASE UNCHANGED vars
  <2>1. UNCHANGED <<index, stored, cli, trouble, call>>
    BY <1>1 DEF vars, hostVars
  <2> QED BY <2>1, KeptFrame
<1>2. CASE Next
  BY <1>2, KeptBegin, KeptLogin, KeptKeep, KeptRegister, KeptDelete, KeptRemove,
     KeptSwap, KeptSave, KeptWorld DEF Next
<1> QED BY <1>1, <1>2

-----------------------------------------------------------------------------
(* The CLI uses the active account *)

\* Whoever is in between holds the lock or the claim, and is alone in that.
LEMMA Alone ==
    ASSUME TypeInv, Locking, Calm, NEW c \in Clients, Exclusive(c) \/ Engaged(c)
    PROVE  \A d \in Clients \ {c} : /\ ~Exclusive(d) /\ ~Engaged(d) /\ ~Between(d)
                                    /\ Matches(call[d]) /\ (call'[d] = call[d] => Matches(call[d])')
<1>1. Without({"race", "expired"})
  BY DEF Calm, Upset, Without
<1>2. SUFFICES ASSUME NEW d \in Clients \ {c}
               PROVE  /\ ~Exclusive(d) /\ ~Engaged(d) /\ ~Between(d)
                      /\ Matches(call[d]) /\ (call'[d] = call[d] => Matches(call[d])')
  OBVIOUS
<1>3. ~Exclusive(d) /\ ~Engaged(d)
  BY <1>1, <1>2 DEF Locking, Lock, OneLogin
<1>4. call[d].op \notin {"switch", "remove"} /\ (call[d].op \in LoginOps => call[d].pc = "release")
  BY <1>3 DEF Exclusive, Engaged
<1>5. call[d].op # "submit" \/ call[d].pc = "release"
  BY <1>4 DEF LoginOps
<1>6. ~Between(d)
  BY <1>4, <1>5 DEF Between
<1>7. /\ call[d].pc \in {"fetch", "register"} => call[d].op = "submit"
      /\ call[d].pc \in {"read", "keep"} => call[d].op \in {"switch", "start"}
  BY <1>2 DEF TypeInv, TypeOK, Shapes, Shape, Calls, LoginOps
<1>8. Matches(call[d])
  BY <1>4, <1>5, <1>7 DEF Matches, LoginOps
<1>9. call'[d] = call[d] => Matches(call[d])'
  BY <1>4, <1>5, <1>7 DEF Matches, LoginOps
<1> QED BY <1>3, <1>6, <1>8, <1>9

\* A login that ended stays so, and an account the CLI uses stays in use.
Ended == {"succeeded", "failed"}
StayEnded == \A l \in Logins : ceremony[l] \in Ended => ceremony'[l] \in Ended
StayInUse == \A a \in Accounts : InUse(a) => InUse(a)'

LEMMA KilledEnds == ASSUME TypeInv PROVE \A L : ceremony' = Killed(L) => StayEnded
BY DEF TypeInv, TypeOK, Killed, StayEnded, Ended

LEMMA SameUse == UNCHANGED <<cli, loggedOut>> => StayInUse
BY DEF StayInUse, InUse

\* What a call has to keep to is kept as long as what it is about is.
LEMMA SameMatches ==
    ASSUME TypeInv, NEW d \in Clients, call'[d] = call[d], UNCHANGED index, StayInUse, Matches(call[d])
    PROVE  Matches(call[d])'
<1>1. call[d] \in Calls /\ Shape(call[d])
  BY DEF TypeInv, TypeOK, Shapes
<1>2. call[d].acct \in Accounts \cup {NoAccount} /\ call[d].to \in Accounts \cup {NoAccount}
      /\ call[d].idx.listed \subseteq Accounts
  BY <1>1 DEF Calls, Index
<1>3. /\ call[d].op = "switch" => call[d].to \in Accounts
      /\ call[d].op \in {"list", "activate"} \/ call[d].pc \in {"fetch", "register"} => call[d].acct \in Accounts
  BY <1>1, <1>2 DEF Shape
<1> QED BY <1>2, <1>3 DEF Matches, StayInUse

LEMMA SameAgreed == ASSUME TypeInv, UNCHANGED index, StayInUse, Agreed PROVE Agreed'
<1>1. index.active \in Accounts \cup {NoAccount}
  BY DEF TypeInv, TypeOK, Index
<1> QED BY <1>1 DEF Agreed, StayInUse

\* A step of one call that leaves credentials, index and use alone.
LEMMA StraightFrame ==
    ASSUME TypeInv, Straight, NEW c \in Clients, UNCHANGED <<index, stored>>, StayInUse,
           trouble \subseteq trouble', StayEnded, \A d \in Clients \ {c} : call'[d] = call[d],
           Between(c) => Between(c)', Calm /\ Matches(call[c]) => Matches(call[c])'
    PROVE  Straight'
<1> SUFFICES ASSUME Calm'
             PROVE  Own' /\ (Agreed' \/ \E d \in Clients : Between(d)') /\ \A d \in Clients : Matches(call[d])'
  BY DEF Straight
<1>1. Calm
  BY DEF Calm, Without
<1>2. Own /\ (Agreed \/ \E d \in Clients : Between(d)) /\ \A d \in Clients : Matches(call[d])
  BY <1>1 DEF Straight
<1>3. Own' /\ (Agreed => Agreed')
  BY <1>2, SameAgreed DEF Own
<1>4. ASSUME NEW d \in Clients, Between(d) PROVE Between(d)'
  <2>1. CASE d = c
    BY <1>4, <2>1
  <2>2. CASE d # c
    <3>1. call'[d] = call[d] /\ call[d].login \in {NoLogin} \cup Logins
      BY <2>2 DEF TypeInv, TypeOK, Calls
    <3> QED BY <1>4, <3>1 DEF Between, StayEnded, Ended
  <2> QED BY <2>1, <2>2
<1>5. ASSUME NEW d \in Clients PROVE Matches(call[d])'
  <2>1. CASE d = c
    BY <1>1, <1>2, <2>1
  <2>2. CASE d # c
    <3>1. call'[d] = call[d] /\ Matches(call[d])
      BY <1>2, <2>2
    <3> QED BY <3>1, SameMatches
  <2> QED BY <2>1, <2>2
<1> QED BY <1>2, <1>3, <1>4, <1>5

\* A fault that matters ends the promise.
LEMMA StraightFault ==
    ASSUME NEW t \in {"crash", "cli", "index", "sidecar"}, Fault(t) PROVE Straight'
BY DEF Fault, Blame, Straight, Calm, Without, Upset

\* What a call has to keep to when it goes on.
LEMMA StraightGoes ==
    ASSUME TypeInv, NEW c \in Clients
    PROVE  /\ \A p \in {"restore", "clear", "release", "resolve", "bind", "snapshot", "incoming", "verify"} :
                  Goes(c, p) => Matches(call[c])'
           /\ Returns(c) => Matches(call[c])'
           /\ call[c].pc \in Starting \cup {"idle", "bind", "submit", "cancel", "snapshot", "read", "keep", "clear", "release"}
                  => ~Between(c)
           /\ \A p \in {"restore", "verify"} : Goes(c, p) /\ call[c].op \in LoginOps => Between(c)'
<1>1. ASSUME NEW p \in {"restore", "clear", "release", "resolve", "bind", "snapshot", "incoming", "verify"}, Goes(c, p)
      PROVE  Matches(call[c])'
  <2>1. call'[c].pc = p
    BY <1>1, Onward
  <2> QED BY <2>1 DEF Matches
<1>2. Returns(c) => Matches(call[c])'
  BY Onward DEF Matches
<1>3. call[c].pc \in Starting \cup {"idle", "bind", "submit", "cancel", "snapshot", "read", "keep", "clear", "release"}
      => ~Between(c)
  BY DEF Between, Starting
<1>4. ASSUME NEW p \in {"restore", "verify"}, Goes(c, p), call[c].op \in LoginOps PROVE Between(c)'
  <2>1. call'[c].pc = p /\ call'[c].op = call[c].op
    BY <1>4, Onward
  <2> QED BY <1>4, <2>1 DEF Between
<1> QED BY <1>1, <1>2, <1>3, <1>4

\* Calls that begin.
LEMMA StraightBegin ==
    ASSUME TypeInv, Straight, NEW c \in Clients,
           \/ (\E a \in Accounts : Switch(c, a))
           \/ (\E a \in Accounts, b \in Accounts \cup {NoAccount} : Remove(c, a, b))
           \/ Mark(c) \/ Start(c) \/ \E l \in {NoLogin} \cup Logins : Submit(c, l) \/ Cancel(c, l)
    PROVE  Straight'
<1>1. call \in [Clients -> Calls]
  BY DEF TypeInv, TypeOK
<1>2. UNCHANGED <<index, stored, cli, loggedOut, ceremony>> /\ trouble \subseteq trouble' /\ call[c].pc = "idle"
  BY DEF Switch, Remove, Mark, Start, Submit, Cancel, Touch, Locks, At, Healthy, Blame, HostQuiet,
         hostVars, providerVars, loginVars
<1> DEFINE Begun == (\A d \in Clients \ {c} : call'[d] = call[d]) /\ Matches(call[c])'
<1>3. ASSUME NEW a \in Accounts, Switch(c, a) PROVE Begun
  <2>1. call'[c].pc = "snapshot" /\ \A d \in Clients \ {c} : call'[d] = call[d]
    BY <1>1, <1>3 DEF Switch, Idle
  <2> QED BY <2>1 DEF Matches
<1>4. ASSUME NEW a \in Accounts, NEW b \in Accounts \cup {NoAccount}, Remove(c, a, b) PROVE Begun
  <2>1. call' = [call EXCEPT ![c] = [Idle EXCEPT !.op = "remove", !.acct = a, !.to = b, !.idx = index,
                                       !.pc = IF b = NoAccount THEN "save" ELSE "incoming"]]
    BY <1>4 DEF Remove
  <2>2. /\ call'[c].op = "remove" /\ call'[c].to = b
        /\ call'[c].pc = IF b = NoAccount THEN "save" ELSE "incoming"
        /\ \A d \in Clients \ {c} : call'[d] = call[d]
    BY <1>1, <2>1 DEF Idle
  <2> QED BY <2>2 DEF Matches
<1>5. Mark(c) => Begun
  <2>1. Mark(c) => call'[c].op = "mark" /\ call'[c].pc = "save" /\ \A d \in Clients \ {c} : call'[d] = call[d]
    BY <1>1 DEF Mark, Idle
  <2> QED BY <2>1 DEF Matches
<1>6. Start(c) => Begun
  <2>1. Start(c) => call'[c].pc = "spawn" /\ \A d \in Clients \ {c} : call'[d] = call[d]
    BY <1>1 DEF Start, Idle
  <2> QED BY <2>1 DEF Matches
<1>7. ASSUME NEW op \in {"submit", "cancel"}, NEW l \in {NoLogin} \cup Logins, Touch(c, op, l) PROVE Begun
  <2>1. call'[c].pc = op /\ \A d \in Clients \ {c} : call'[d] = call[d]
    BY <1>1, <1>7 DEF Touch, Idle
  <2> QED BY <2>1 DEF Matches
<1>8. Begun
  BY <1>3, <1>4, <1>5, <1>6, <1>7 DEF Submit, Cancel
<1>9. ~Between(c)
  BY <1>2, StraightGoes
<1> HIDE DEF Begun
<1>10. (\A d \in Clients \ {c} : call'[d] = call[d]) /\ (Matches(call[c])' <=> TRUE)
  BY <1>8 DEF Begun
<1> QED BY <1>2, <1>9, <1>10, StraightFrame, SameUse DEF StayEnded

\* The ceremony up to its end, and what follows it but for the saving.
LEMMA StraightLogin ==
    ASSUME TypeInv, Straight, NEW c \in Clients,
           \/ StartRefused(c) \/ Resolve(c) \/ StartFails(c) \/ ShowUrl(c) \/ NoUrl(c) \/ Bind(c)
           \/ SubmitHandled(c) \/ SubmitReturns(c) \/ CancelHandled(c)
           \/ VerifyFails(c) \/ RegisterFails(c) \/ Clear(c) \/ Release(c)
    PROVE  Straight'
<1>1. call[c] \in Calls /\ Shape(call[c])
  BY DEF TypeInv, TypeOK, Shapes
<1>2. UNCHANGED <<index, stored, cli, loggedOut>> /\ trouble \subseteq trouble'
  BY DEF StartRefused, Resolve, StartFails, ShowUrl, NoUrl, Bind, SubmitHandled, SubmitReturns,
         CancelHandled, VerifyFails,
         RegisterFails, Clear, Release, Healthy, Fault, Blame, HostQuiet, hostVars, providerVars
<1>3. (UNCHANGED ceremony \/ \E L : ceremony' = Killed(L)) => StayEnded
  BY KilledEnds DEF StayEnded
<1>4. StayEnded /\ (\A d \in Clients \ {c} : call'[d] = call[d])
      /\ (Between(c) => Between(c)') /\ Matches(call[c])' => Straight'
  BY <1>2, StraightFrame, SameUse
<1>5. CASE SubmitHandled(c) \/ CancelHandled(c)
  <2>1. UNCHANGED ceremony \/ ceremony' = Killed({slot})
    BY <1>5 DEF SubmitHandled, CancelHandled, loginVars
  <2>2. ~Between(c) /\ call[c].pc \in {"submit", "cancel"}
    BY <1>5, SubmitOrCancel, StraightGoes
  <2>3. (Matches(call[c])' <=> TRUE) /\ \A d \in Clients \ {c} : call'[d] = call[d]
    <3>1. CASE Returns(c)
      BY <3>1, Onward, StraightGoes
    <3>2. CASE ~Returns(c)
      <4>1. PICK p \in {"wait", "restore"} : TakesSlot(c, p) /\ (call[c].pc = "submit" \/ p = "restore")
        BY <1>5, <3>2, SubmitOrCancel
      <4>2. call'[c].pc = p /\ call'[c].op \in {"submit", "cancel"} /\ \A d \in Clients \ {c} : call'[d] = call[d]
        BY <2>2, <4>1, Handled
      <4> QED BY <4>2 DEF Matches
    <3> QED BY <3>1, <3>2
  <2> QED BY <1>3, <1>4, <2>1, <2>2, <2>3
<1>6. CASE StartRefused(c) \/ Resolve(c) \/ StartFails(c) \/ ShowUrl(c) \/ NoUrl(c) \/ Bind(c) \/ Clear(c)
  <2>1. /\ UNCHANGED ceremony \/ ceremony' = Killed({call[c].login})
        /\ call[c].pc \in {"spawn", "resolve", "url", "bind", "clear"}
    BY <1>6 DEF StartRefused, Resolve, StartFails, ShowUrl, NoUrl, Bind, Clear, At, loginVars
  <2>2. Returns(c) \/ \E p \in {"restore", "resolve", "bind", "snapshot", "release"} : Goes(c, p)
    BY <1>6 DEF StartRefused, Resolve, StartFails, ShowUrl, NoUrl, Bind, Clear
  <2>3. (\A d \in Clients \ {c} : call'[d] = call[d]) /\ (Matches(call[c])' <=> TRUE) /\ ~Between(c)
    BY <2>1, <2>2, Onward, StraightGoes DEF Starting
  <2> QED BY <1>3, <1>4, <2>1, <2>3
<1>7. CASE Release(c)
  <2>1. /\ call[c].pc = "release" /\ Returns(c)
        /\ UNCHANGED ceremony \/ ceremony' = Killed({slot})
    BY <1>7 DEF Release, At
  <2>2. (\A d \in Clients \ {c} : call'[d] = call[d]) /\ (Matches(call[c])' <=> TRUE) /\ ~Between(c)
    BY <2>1, Onward, StraightGoes
  <2> QED BY <1>3, <1>4, <2>1, <2>2
<1>8. CASE SubmitReturns(c)
  <2>1. /\ call[c].op \in LoginOps /\ ceremony' = Killed({call[c].login})
        /\ Goes(c, "verify") \/ Goes(c, "restore")
    BY <1>1, <1>8 DEF SubmitReturns, At, Shape, Calls, LoginOps
  <2>2. (\A d \in Clients \ {c} : call'[d] = call[d]) /\ (Matches(call[c])' <=> TRUE) /\ (Between(c)' <=> TRUE)
    BY <2>1, Onward, StraightGoes
  <2> QED BY <1>3, <1>4, <2>1, <2>2
<1>10. CASE VerifyFails(c) \/ RegisterFails(c)
  <2>1. call[c].op \in LoginOps /\ UNCHANGED ceremony /\ Goes(c, "restore")
    BY <1>1, <1>10 DEF VerifyFails, RegisterFails, At, Shape, Calls, LoginOps, loginVars
  <2>2. (\A d \in Clients \ {c} : call'[d] = call[d]) /\ (Matches(call[c])' <=> TRUE) /\ (Between(c)' <=> TRUE)
    BY <2>1, Onward, StraightGoes
  <2> QED BY <1>3, <1>4, <2>1, <2>2
<1> QED BY <1>5, <1>6, <1>7, <1>8, <1>10

\* A login whose record learns something.
LEMMA StraightLearn ==
    ASSUME TypeInv, Straight, NEW c \in Clients,
           (\E l \in Logins : Spawn(c, l)) \/ Verify(c) \/ Fetch(c) \/ Activate(c)
    PROVE  Straight'
<1>1. call \in [Clients -> Calls] /\ call[c] \in Calls /\ Shape(call[c])
  BY DEF TypeInv, TypeOK, Shapes
<1>2. UNCHANGED <<index, stored, cli, loggedOut>> /\ trouble \subseteq trouble'
  BY DEF Spawn, Verify, Fetch, Activate, Healthy, HostQuiet, hostVars, providerVars
<1>3. StayEnded /\ (\A d \in Clients \ {c} : call'[d] = call[d])
      /\ (Between(c) => Between(c)') /\ (Matches(call[c]) => Matches(call[c])') => Straight'
  BY <1>2, StraightFrame, SameUse
<1>4. ASSUME NEW l \in Logins, Spawn(c, l) PROVE Straight'
  <2>1. call'[c].pc = "url" /\ (\A d \in Clients \ {c} : call'[d] = call[d]) /\ call[c].pc = "resolve"
    BY <1>1, <1>4 DEF Spawn, At, Calls
  <2>2. StayEnded
    <3>1. \A k \in Logins : ceremony'[k] = ceremony[k] \/ ceremony[k] = "unborn"
      BY <1>4 DEF Spawn, TypeInv, TypeOK
    <3> QED BY <3>1 DEF StayEnded, Ended
  <2>3. ~Between(c) /\ (Matches(call[c])' <=> TRUE)
    BY <2>1 DEF Between, Matches
  <2> QED BY <1>3, <2>1, <2>2, <2>3
<1>5. CASE Verify(c)
  <2>1. call[c].op = "submit" /\ UNCHANGED ceremony
        /\ call' = [call EXCEPT ![c].pc = "fetch", ![c].acct = cli.owner]
    BY <1>1, <1>5 DEF Verify, At, Shape, Calls, LoginOps, loginVars
  <2>2. call'[c].pc = "fetch" /\ call'[c].op = "submit" /\ call'[c].acct = cli.owner
        /\ \A d \in Clients \ {c} : call'[d] = call[d]
    BY <1>1, <2>1 DEF Calls
  <2>3. (Between(c)' <=> TRUE) /\ (Matches(call[c])' <=> TRUE) /\ StayEnded
    BY <1>2, <2>1, <2>2 DEF Between, Matches, InUse, StayEnded, LoginOps
  <2> QED BY <1>3, <2>2, <2>3
<1>7. CASE Fetch(c)
  <2>1. call[c].op = "submit" /\ call[c].pc = "fetch" /\ UNCHANGED ceremony /\ cli # NoCredential
        /\ call' = [call EXCEPT ![c].pc = "register", ![c].cred = cli]
    BY <1>1, <1>7 DEF Fetch, At, Shape, Calls, LoginOps, loginVars
  <2>2. /\ call'[c].pc = "register" /\ call'[c].op = "submit" /\ call'[c].acct = call[c].acct
        /\ call'[c].cred = cli /\ \A d \in Clients \ {c} : call'[d] = call[d]
    BY <1>1, <2>1 DEF Calls
  <2>3. Matches(call[c]) => cli.owner = call[c].acct
    BY <2>1 DEF Matches, InUse
  <2>4. (Between(c)' <=> TRUE) /\ (Matches(call[c]) => Matches(call[c])') /\ StayEnded
    BY <1>2, <2>1, <2>2, <2>3 DEF Between, Matches, InUse, StayEnded, LoginOps
  <2> QED BY <1>3, <2>2, <2>4
<1>6. CASE Activate(c)
  <2>1. call[c].op = "list" /\ call[c].pc = "activate" /\ UNCHANGED ceremony
    BY <1>1, <1>6 DEF Activate, At, Shape, Calls, LoginOps, loginVars
  <2>2. CASE call[c].acct \in index.listed
    <3>1. call' = [call EXCEPT ![c].pc = "save", ![c].op = "activate", ![c].idx = index]
      BY <1>6, <2>2 DEF Activate
    <3>2. call'[c].pc = "save" /\ call'[c].op = "activate" /\ call'[c].acct = call[c].acct
          /\ \A d \in Clients \ {c} : call'[d] = call[d]
      BY <1>1, <3>1 DEF Calls
    <3>3. (Between(c)' <=> TRUE) /\ (Matches(call[c]) => Matches(call[c])') /\ StayEnded
      BY <1>2, <2>1, <3>2 DEF Between, Matches, InUse, StayEnded, LoginOps
    <3> QED BY <1>3, <3>2, <3>3
  <2>3. CASE call[c].acct \notin index.listed
    <3>1. Goes(c, "restore") /\ call[c].op \in LoginOps
      BY <1>6, <2>1, <2>3 DEF Activate, LoginOps
    <3>2. (\A d \in Clients \ {c} : call'[d] = call[d]) /\ (Matches(call[c])' <=> TRUE) /\ (Between(c)' <=> TRUE)
      BY <3>1, Onward, StraightGoes
    <3>3. StayEnded
      BY <2>1 DEF StayEnded
    <3> QED BY <1>3, <3>2, <3>3
  <2> QED BY <2>2, <2>3
<1> QED BY <1>4, <1>5, <1>6, <1>7

\* A snapshot is taken when nobody is in between: what it reads and saves is the
\* active account's.
LEMMA StraightSnapshot ==
    ASSUME TypeInv, Locking, Straight, NEW c \in Clients, Snapshot(c) \/ ReadCli(c) \/ Keep(c)
    PROVE  Straight'
<1>1. call[c] \in Calls /\ Shape(call[c]) /\ stored \in [Accounts -> Credentials]
  BY DEF TypeInv, TypeOK, Shapes
<1>2. /\ UNCHANGED <<index, cli, loggedOut, trouble>> /\ call[c].pc \in {"snapshot", "read", "keep"}
      /\ call[c].op \in {"switch", "start"} /\ \A d \in Clients \ {c} : call'[d] = call[d]
  <2>1. UNCHANGED <<index, cli, loggedOut, trouble>>
    BY DEF Snapshot, ReadCli, Keep, Healthy, hostVars, providerVars
  <2> QED BY <2>1, SnapshotGoes
<1>3. Exclusive(c) \/ Engaged(c)
  BY <1>2 DEF LoginOps, Exclusive, Engaged
<1>4. SUFFICES ASSUME Calm'
               PROVE  Own' /\ Agreed' /\ \A d \in Clients : Matches(call[d])'
  BY DEF Straight
<1>5. Calm
  BY <1>2, <1>4 DEF Calm, Without
<1>6. \A d \in Clients : ~Between(d)
  BY <1>2, <1>3, <1>5, Alone, StraightGoes
<1>7. Own /\ Agreed /\ Matches(call[c])
  BY <1>5, <1>6 DEF Straight
<1>8. Own'
  <2>1. CASE Snapshot(c) \/ ReadCli(c)
    BY <1>7, <2>1 DEF Snapshot, ReadCli, hostVars, Own
  <2>2. CASE Keep(c)
    <3>1. call[c].cred.owner = call[c].acct /\ stored' = [stored EXCEPT ![call[c].acct] = call[c].cred]
      BY <1>7, <2>2 DEF Keep, At, Matches
    <3> QED BY <1>1, <1>7, <3>1 DEF Own
  <2> QED BY <2>1, <2>2
<1>10. Matches(call[c])'
  <2>1. (Returns(c) \/ Goes(c, "incoming")) => (Matches(call[c])' <=> TRUE)
    BY StraightGoes
  <2>2. ASSUME Snapshot(c), index.active # NoAccount,
               call'[c] = [call[c] EXCEPT !.pc = "read", !.acct = index.active]
        PROVE  Matches(call[c])'
    <3>1. call'[c].pc = "read" /\ call'[c].acct = index.active /\ call'[c].op = call[c].op
      BY <1>1, <2>2 DEF Calls
    <3> QED BY <1>2, <3>1 DEF Matches
  <2>3. ASSUME ReadCli(c), cli # NoCredential, call'[c] = [call[c] EXCEPT !.pc = "keep", !.cred = cli]
        PROVE  Matches(call[c])'
    <3>1. /\ call'[c].pc = "keep" /\ call'[c].acct = call[c].acct /\ call'[c].cred = cli
          /\ call'[c].op = call[c].op
      BY <1>1, <2>3 DEF Calls
    <3>2. call[c].acct = index.active /\ call[c].acct \in Accounts
      BY <1>1, <1>7, <2>3 DEF ReadCli, At, Matches, Shape
    <3>3. cli.owner = call[c].acct
      BY <1>7, <2>3, <3>2, NoneAssumption DEF Agreed, InUse
    <3> QED BY <1>2, <3>1, <3>3 DEF Matches
  <2>4. \/ Returns(c) \/ Goes(c, "incoming")
        \/ /\ Snapshot(c) /\ index.active # NoAccount
           /\ call'[c] = [call[c] EXCEPT !.pc = "read", !.acct = index.active]
        \/ ReadCli(c) /\ cli # NoCredential /\ call'[c] = [call[c] EXCEPT !.pc = "keep", !.cred = cli]
    BY SnapshotGoes
  <2> QED BY <2>1, <2>2, <2>3, <2>4
<1>11. ASSUME NEW d \in Clients PROVE Matches(call[d])'
  <2>1. CASE d = c
    BY <1>10, <2>1
  <2>2. CASE d # c
    <3>1. Matches(call[d])' <=> TRUE
      BY <1>2, <1>3, <1>5, <2>2, Alone
    <3> QED BY <3>1
  <2> QED BY <2>1, <2>2
<1> QED BY <1>2, <1>7, <1>8, <1>11, SameAgreed, SameUse

\* The credential to come is that account's own.
LEMMA StraightIncoming == ASSUME TypeInv, Locking, Kept, Straight, NEW c \in Clients, Incoming(c) PROVE Straight'
<1> DEFINE cred == stored[call[c].to]
<1>1. call[c] \in Calls /\ Shape(call[c]) /\ stored \in [Accounts -> Credentials]
  BY DEF TypeInv, TypeOK, Shapes
<1>2. /\ UNCHANGED <<index, stored, loggedOut, trouble>> /\ call[c].pc = "incoming"
      /\ cli' = IF cred = NoCredential THEN cli ELSE cred
      /\ IF cred = NoCredential /\ call[c].op = "switch" THEN Returns(c) ELSE Goes(c, "save")
  BY DEF Incoming, Healthy, At, ReturnsUnlocked, providerVars
<1>3. call[c].op \in {"switch", "remove"} /\ call[c].to \in Accounts
  BY <1>1, <1>2, IncomingTo
<1>4. Exclusive(c)
  BY <1>3 DEF Exclusive
<1> HIDE DEF cred
<1>5. SUFFICES ASSUME Calm'
               PROVE  Own' /\ (Agreed' \/ Between(c)') /\ \A d \in Clients : Matches(call[d])'
  BY DEF Straight
<1>6. Calm
  BY <1>2, <1>5 DEF Calm, Without
<1>7. ~Between(c) /\ \A d \in Clients \ {c} : ~Between(d)
  <2>1. ~Between(c)
    BY <1>2, <1>3 DEF Between, LoginOps
  <2> QED BY <1>4, <1>6, <2>1, Alone
<1>8. Own /\ Agreed /\ Own'
  BY <1>2, <1>6, <1>7 DEF Straight, Own
<1>9. \A d \in Clients \ {c} : call'[d] = call[d]
  BY <1>2, Onward
<1>10. (Agreed' \/ Between(c)') /\ Matches(call[c])'
  <2>1. CASE cred = NoCredential /\ call[c].op = "switch"
    <3>1. Returns(c) /\ UNCHANGED cli
      BY <1>2, <2>1
    <3>2. (Agreed' <=> TRUE) /\ (Matches(call[c])' <=> TRUE)
      BY <1>2, <1>8, <3>1, StraightGoes DEF Agreed, InUse
    <3> QED BY <3>2
  <2>2. CASE ~(cred = NoCredential /\ call[c].op = "switch")
    <3>1. call'[c] = [call[c] EXCEPT !.pc = "save"]
      BY <1>2, <2>2, Moved
    <3>2. /\ call'[c].op = call[c].op /\ call'[c].pc = "save" /\ call'[c].to = call[c].to
          /\ call'[c].acct = call[c].acct /\ call'[c].idx = call[c].idx
      BY <1>1, <3>1 DEF Calls
    <3>3. cred # NoCredential
      <4>1. Without({"update", "race", "expired"})
        BY <1>6 DEF Calm, Upset, Without
      <4>2. call[c].op = "remove" => cred # NoCredential
        BY <1>2, <4>1 DEF Kept, Secured, cred
      <4> QED BY <1>3, <2>2, <4>2
    <3>4. cli'.owner = call[c].to
      <4>1. cred \in Credentials /\ cred.owner \in {call[c].to, NoAccount}
        BY <1>1, <1>3, <1>8 DEF Own, cred
      <4> QED BY <1>2, <3>3, <4>1, NoneAssumption DEF Credentials
    <3>5. call[c].op = "remove" => call[c].idx.active = call[c].acct
      BY <1>1, <1>2 DEF Shape
    <3>6. Matches(call[c])'
      BY <1>3, <3>2, <3>4 DEF Matches, InUse
    <3>7. Between(c)'
      BY <1>3, <3>2, <3>5 DEF Between
    <3> QED BY <3>6, <3>7
  <2> QED BY <2>1, <2>2
<1>11. \A d \in Clients : Matches(call[d])'
  <2>1. ASSUME NEW d \in Clients \ {c} PROVE Matches(call[d])'
    <3>1. (Matches(call[d])' <=> TRUE)
      BY <1>4, <1>6, <1>9, Alone
    <3> QED BY <3>1
  <2> QED BY <1>10, <2>1
<1> QED BY <1>8, <1>10, <1>11

\* What the CLI had is saved under the account that logged in.
LEMMA StraightRegister == ASSUME TypeInv, Straight, NEW c \in Clients, Register(c) PROVE Straight'
<1>1. call \in [Clients -> Calls] /\ call[c] \in Calls /\ Shape(call[c]) /\ stored \in [Accounts -> Credentials]
  BY DEF TypeInv, TypeOK, Shapes
<1>2. /\ UNCHANGED <<index, cli, trouble>> /\ call[c].pc = "register" /\ call[c].cred # NoCredential
      /\ stored' = [stored EXCEPT ![call[c].acct] = call[c].cred]
      /\ call' = [call EXCEPT ![c].pc = "save", ![c].op = "list", ![c].idx = index]
      /\ loggedOut' = IF cli = call[c].cred THEN loggedOut \ {call[c].acct} ELSE loggedOut
  BY <1>1 DEF Register, Healthy, At, Shape
<1>3. /\ call'[c].op = "list" /\ call'[c].pc = "save" /\ call'[c].acct = call[c].acct
      /\ call[c].acct \in Accounts /\ \A d \in Clients \ {c} : call'[d] = call[d]
  BY <1>1, <1>2 DEF Calls, Shape
<1>4. SUFFICES ASSUME Calm'
               PROVE  Own' /\ Between(c)' /\ \A d \in Clients : Matches(call[d])'
  BY DEF Straight
<1>5. Own /\ \A d \in Clients : Matches(call[d])
  BY <1>2, <1>4 DEF Straight, Calm, Without
<1>6. call[c].cred.owner = call[c].acct /\ InUse(call[c].acct)
  BY <1>2, <1>5 DEF Matches
<1>7. Own'
  BY <1>1, <1>2, <1>5, <1>6 DEF Own
<1>8. Between(c)'
  BY <1>3 DEF Between, LoginOps
<1>10. StayInUse
  BY <1>2, <1>6 DEF StayInUse, InUse
<1>9. ASSUME NEW d \in Clients PROVE Matches(call[d])'
  <2>1. CASE d = c
    <3>1. InUse(call[c].acct)'
      BY <1>2, <1>3, <1>6, <1>10 DEF StayInUse, InUse
    <3>2. call'[c].acct = call[c].acct
      BY <1>3
    <3> QED BY <1>3, <2>1, <3>1, <3>2 DEF Matches, InUse
  <2>2. CASE d # c
    BY <1>2, <1>3, <1>5, <1>10, <2>2, SameMatches
  <2> QED BY <2>1, <2>2
<1> QED BY <1>7, <1>8, <1>9

\* A deletion is of a removed account.
LEMMA StraightDelete == ASSUME TypeInv, Straight, NEW c \in Clients, Delete(c) PROVE Straight'
<1>1. call[c] \in Calls /\ Shape(call[c]) /\ stored \in [Accounts -> Credentials]
  BY DEF TypeInv, TypeOK, Shapes
<1>2. /\ UNCHANGED <<index, cli, loggedOut, ceremony, trouble>> /\ call[c].pc = "delete" /\ Returns(c)
      /\ stored' = [stored EXCEPT ![call[c].acct] = NoCredential]
  BY DEF Delete, ReturnsUnlocked, Healthy, At, loginVars, providerVars
<1>3. SUFFICES ASSUME Calm'
               PROVE  /\ Own' /\ (Agreed' \/ \E d \in Clients : Between(d)')
                      /\ \A d \in Clients : Matches(call[d])'
  BY DEF Straight
<1>4. Own /\ (Agreed \/ \E d \in Clients : Between(d)) /\ \A d \in Clients : Matches(call[d])
  BY <1>2, <1>3 DEF Straight, Calm, Without
<1>5. Own'
  BY <1>1, <1>2, <1>4 DEF Own, NoCredential, Credential
<1>6. ~Between(c) /\ \A d \in Clients \ {c} : call'[d] = call[d]
  <2>1. ~Between(c)
    BY <1>2 DEF Between
  <2> QED BY <1>2, <2>1, Onward
<1>7. Agreed' \/ \E d \in Clients : Between(d)'
  BY <1>2, <1>4, <1>6 DEF Agreed, InUse, Between
<1>8. ASSUME NEW d \in Clients PROVE Matches(call[d])'
  <2>1. CASE d = c
    <3>1. Matches(call[c])' <=> TRUE
      BY <1>2, StraightGoes
    <3> QED BY <2>1, <3>1
  <2>2. CASE d # c
    <3>1. call'[d] = call[d] /\ Matches(call[d])
      BY <1>4, <1>6, <2>2
    <3> QED BY <1>2, <3>1, SameMatches, SameUse
  <2> QED BY <2>1, <2>2
<1> QED BY <1>5, <1>7, <1>8

\* The index catches up with the CLI, unless it was read too early.
LEMMA StraightSave == ASSUME TypeInv, Locking, Straight, NEW c \in Clients, Save(c) PROVE Straight'
<1> DEFINE x == call[c]
<1>1. x \in Calls /\ Shape(x) /\ x.pc = "save" /\ index \in Index
  BY DEF Save, At, TypeInv, TypeOK, Shapes
<1>2. /\ UNCHANGED <<stored, cli, loggedOut, ceremony>> /\ index' = Changed(x) /\ trouble \subseteq trouble'
      /\ "update" \notin trouble' => x.idx = index
  BY DEF Save, Blame, loginVars, providerVars
<1>3. /\ \A d \in Clients \ {c} : call'[d] = call[d]
      /\ x.op = "list" => call'[c].op = "list" /\ call'[c].pc = "activate" /\ call'[c].acct = x.acct
      /\ x.op # "list" => call'[c].pc \in {"idle", "delete", "clear"}
  <2>1. CASE x.op \in DOMAIN AfterSave
    <3>1. call'[c] = [x EXCEPT !.pc = AfterSave[x.op]] /\ \A d \in Clients \ {c} : call'[d] = call[d]
      BY <2>1, Moved DEF Save
    <3> QED BY <1>1, <2>1, <3>1 DEF AfterSave, Calls
  <2>2. CASE x.op \notin DOMAIN AfterSave
    <3>1. Returns(c)
      BY <2>2 DEF Save, ReturnsUnlocked
    <3> QED BY <2>2, <3>1, Onward DEF AfterSave
  <2> QED BY <2>1, <2>2
<1> HIDE DEF x
<1>4. SUFFICES ASSUME Calm'
               PROVE  /\ Own' /\ (Agreed' \/ \E d \in Clients : Between(d)')
                      /\ \A d \in Clients : Matches(call[d])'
  BY DEF Straight
<1>5. Calm /\ x.idx = index
  BY <1>2, <1>4 DEF Calm, Upset, Without
<1>6. Own /\ (Agreed \/ \E d \in Clients : Between(d)) /\ \A d \in Clients : Matches(call[d])
  BY <1>5 DEF Straight
<1>7. Own'
  BY <1>2, <1>6 DEF Own
<1>8. ASSUME NEW d \in Clients PROVE Matches(call[d])'
  <2>1. CASE d = c
    <3>1. x.op = "list" => InUse(x.acct)
      BY <1>1, <1>6 DEF Matches, x
    <3> QED BY <1>2, <1>3, <2>1, <3>1 DEF Matches, InUse
  <2>2. CASE d # c
    <3>1. call'[d] = call[d] /\ Matches(call[d])
      BY <1>3, <1>6, <2>2
    <3>2. CASE call[d].pc # "read"
      BY <1>2, <3>1, <3>2 DEF Matches, InUse
    <3>3. CASE call[d].pc = "read"
      <4>1. CASE Exclusive(c) \/ Engaged(c)
        <5>1. Matches(call[d])' <=> TRUE
          BY <1>5, <2>2, <3>1, <4>1, Alone
        <5> QED BY <5>1
      <4>2. CASE ~(Exclusive(c) \/ Engaged(c))
        <5>1. x.op \notin {"switch", "remove", "list", "activate"}
          BY <1>1, <4>2 DEF Exclusive, Engaged, LoginOps, x
        <5>2. index' = index
          BY <1>2, <1>5, <5>1 DEF Changed
        <5> QED BY <1>2, <3>1, <5>2, SameMatches, SameUse
      <4> QED BY <4>1, <4>2
    <3> QED BY <3>2, <3>3
  <2> QED BY <2>1, <2>2
<1>9. (\E d \in Clients \ {c} : Between(d)) => \E d \in Clients : Between(d)'
  BY <1>2, <1>3 DEF Between
<1>10. ASSUME Agreed \/ Between(c) PROVE Agreed' \/ Between(c)'
  <2>1. CASE x.op = "switch"
    <3>1. InUse(x.to) /\ index'.active = x.to
      BY <1>1, <1>2, <1>5, <1>6, <2>1 DEF Matches, Changed, Index, x
    <3> QED BY <1>2, <3>1 DEF Agreed, InUse
  <2>2. CASE x.op = "remove"
    <3>1. index'.active = IF index.active = x.acct THEN x.to ELSE index.active
      BY <1>2, <1>5, <2>2 DEF Changed
    <3>2. index.active = x.acct => x.to = NoAccount \/ InUse(x.to)
      BY <1>1, <1>5, <1>6, <2>2 DEF Matches, x
    <3>3. index.active # x.acct => Agreed
      BY <1>5, <1>10, <2>2 DEF Between, LoginOps, x
    <3> QED BY <1>2, <3>1, <3>2, <3>3 DEF Agreed, InUse
  <2>3. CASE x.op = "list"
    <3>1. index'.active = index.active
      BY <1>1, <1>2, <1>5, <2>3 DEF Changed, Index
    <3> QED BY <1>3, <2>3, <3>1 DEF Between, LoginOps
  <2>4. CASE x.op = "activate"
    <3>1. InUse(x.acct) /\ index'.active = x.acct
      BY <1>1, <1>2, <1>5, <1>6, <2>4 DEF Matches, Changed, Index, x
    <3> QED BY <1>2, <3>1 DEF Agreed, InUse
  <2>5. CASE x.op = "mark"
    <3>1. index' = index /\ ~Between(c)
      BY <1>2, <1>5, <2>5 DEF Changed, Between, LoginOps, x
    <3> QED BY <1>2, <1>10, <3>1 DEF Agreed, InUse
  <2>6. x.op \in {"switch", "remove", "list", "activate", "mark"}
    BY <1>1 DEF Calls, Shape, LoginOps
  <2> QED BY <2>1, <2>2, <2>3, <2>4, <2>5, <2>6
<1> QED BY <1>6, <1>7, <1>8, <1>9, <1>10

\* After a failed login the CLI has the active account's credential again.
LEMMA StraightRestore == ASSUME TypeInv, Locking, Kept, Straight, NEW c \in Clients, Restore(c) PROVE Straight'
<1> DEFINE cred == IF index.active = NoAccount THEN NoCredential ELSE stored[index.active]
<1>1. call[c] \in Calls /\ Shape(call[c]) /\ stored \in [Accounts -> Credentials]
      /\ index.listed \subseteq Accounts /\ index.active \in index.listed \cup {NoAccount}
  BY DEF TypeInv, TypeOK, Shapes, Index
<1>2. /\ UNCHANGED <<index, stored, trouble>> /\ call[c].pc = "restore" /\ Goes(c, "clear")
      /\ cli' = IF cred = NoCredential THEN cli ELSE cred
  BY DEF Restore, Healthy, At
<1>3. Engaged(c)
  BY <1>1, <1>2 DEF Engaged, Shape, Calls, LoginOps
<1> HIDE DEF cred
<1>4. SUFFICES ASSUME Calm' PROVE Own' /\ Agreed' /\ \A d \in Clients : Matches(call[d])'
  BY DEF Straight
<1>5. Calm /\ Own /\ Own'
  BY <1>2, <1>4 DEF Straight, Calm, Without, Own
<1>6. Agreed'
  <2>1. CASE index.active = NoAccount
    BY <1>2, <2>1 DEF Agreed
  <2>2. CASE index.active # NoAccount
    <3>1. cred = stored[index.active] /\ cred # NoCredential /\ index.active \in Accounts
      <4>1. Without({"update", "race", "expired"})
        BY <1>5 DEF Calm, Upset, Without
      <4> QED BY <1>1, <2>2, <4>1 DEF Kept, cred
    <3>2. cred \in Credentials /\ cred.owner \in {index.active, NoAccount}
      BY <1>1, <1>5, <3>1 DEF Own
    <3>3. cred.owner = index.active
      BY <3>1, <3>2, NoneAssumption DEF Credentials
    <3> QED BY <1>2, <3>1, <3>3 DEF Agreed, InUse
  <2> QED BY <2>1, <2>2
<1>7. Matches(call[c])' <=> TRUE
  BY <1>2, StraightGoes
<1>8. ASSUME NEW d \in Clients \ {c} PROVE Matches(call[d])'
  <2>1. call'[d] = call[d]
    BY <1>2, Onward
  <2>2. Matches(call[d])' <=> TRUE
    BY <1>3, <1>5, <2>1, Alone
  <2> QED BY <2>2
<1> QED BY <1>5, <1>6, <1>7, <1>8

\* The CLI logs in for a call that is waiting for it, and so alone; or too late.
LEMMA StraightLogsIn ==
    ASSUME TypeInv, Locking, Straight, NEW l \in Logins, NEW a \in Accounts, CliLogsIn(l, a)
    PROVE  Straight'
<1>0. CASE ceremony[l] = "dying"
  BY <1>0 DEF CliLogsIn, Blame, Straight, Calm, Without, Upset
<1>1. CASE ceremony[l] # "dying"
  <2>1. PICK c \in Clients : call[c].pc = "wait" /\ call[c].login = l
    BY <1>1 DEF CliLogsIn, HasCode, At
  <2>2. call[c].op = "submit"
    BY <2>1 DEF TypeInv, TypeOK, Shapes, Shape, Calls, LoginOps
  <2>3. Engaged(c) /\ UNCHANGED <<index, stored, call, trouble>> /\ ceremony'[l] \in {"succeeded", "failed"}
    BY <1>1, <2>1, <2>2 DEF Engaged, LoginOps, CliLogsIn, Blame, TypeInv, TypeOK
  <2>4. SUFFICES ASSUME Calm' PROVE Own' /\ Between(c)' /\ \A d \in Clients : Matches(call[d])'
    BY DEF Straight
  <2>5. Calm /\ Own /\ Own'
    BY <2>3, <2>4 DEF Straight, Calm, Without, Own
  <2>6. Between(c)'
    BY <2>1, <2>2, <2>3 DEF Between
  <2>7. Matches(call[c])'
    BY <2>1, <2>2, <2>3 DEF Matches
  <2>8. ASSUME NEW d \in Clients \ {c} PROVE Matches(call[d])'
    <3>1. Matches(call[d])' <=> TRUE
      BY <2>3, <2>5, Alone
    <3> QED BY <3>1
  <2> QED BY <2>5, <2>6, <2>7, <2>8
<1> QED BY <1>0, <1>1

\* Steps of no call.
LEMMA StraightWorld ==
    ASSUME TypeInv, Straight, UNCHANGED <<index, stored, call>>, StayInUse,
           trouble \subseteq trouble', StayEnded
    PROVE  Straight'
<1> SUFFICES ASSUME Calm'
             PROVE  Own' /\ (Agreed' \/ \E d \in Clients : Between(d)') /\ \A d \in Clients : Matches(call[d])'
  BY DEF Straight
<1>1. Calm
  BY DEF Calm, Without
<1>2. Own /\ (Agreed \/ \E d \in Clients : Between(d)) /\ \A d \in Clients : Matches(call[d])
  BY <1>1 DEF Straight
<1>3. Own' /\ (Agreed => Agreed')
  BY <1>2, SameAgreed DEF Own
<1>4. \A d \in Clients : Between(d) => Between(d)'
  BY DEF Between, StayEnded, Ended
<1>5. \A d \in Clients : Matches(call[d])'
  BY <1>2, SameMatches
<1> QED BY <1>2, <1>3, <1>4, <1>5

LEMMA StraightInductive == TypeInv /\ Locking /\ Kept /\ Straight /\ [Next]_vars => Straight'
<1> SUFFICES ASSUME TypeInv, Locking, Kept, Straight, [Next]_vars PROVE Straight'
  OBVIOUS
<1>1. ceremony \in [Logins -> States]
  BY DEF TypeInv, TypeOK, States
<1>2. ASSUME NEW c \in Clients, KeepFails(c) PROVE Straight'
  <2>1. /\ UNCHANGED <<index, stored, cli, loggedOut, ceremony>> /\ trouble \subseteq trouble'
        /\ call[c].pc = "keep" /\ (Returns(c) \/ Goes(c, "clear"))
    BY <1>2 DEF KeepFails, At, Fault, Blame, ReturnsUnlocked, hostVars, providerVars, loginVars
  <2>2. ~Between(c) /\ (Matches(call[c])' <=> TRUE) /\ \A d \in Clients \ {c} : call'[d] = call[d]
    BY <2>1, Onward, StraightGoes
  <2> QED BY <2>1, <2>2, StraightFrame, SameUse DEF StayEnded
<1>3. ASSUME NEW c \in Clients, IncomingFails(c) \/ SaveFails(c) \/ RestoreFails(c) PROVE Straight'
  <2>1. Fault("cli") \/ Fault("index")
    BY <1>3 DEF IncomingFails, SaveFails, RestoreFails
  <2> QED BY <2>1, StraightFault
<1>4. ASSUME NEW l \in Logins, CliFails(l) PROVE Straight'
  <2>1. /\ UNCHANGED <<index, stored, cli, loggedOut, call>> /\ trouble \subseteq trouble'
        /\ ceremony' = [ceremony EXCEPT ![l] = "failed"]
    BY <1>4 DEF CliFails, Healthy, HostQuiet, hostVars, providerVars
  <2>2. StayEnded
    BY <1>1, <2>1 DEF StayEnded, Ended
  <2> QED BY <2>1, <2>2, StraightWorld, SameUse
<1>5. ASSUME NEW l \in Logins, KillTimer(l) PROVE Straight'
  <2>1. UNCHANGED <<index, stored, cli, loggedOut, call>> /\ trouble \subseteq trouble'
    BY <1>5 DEF KillTimer, Healthy, HostQuiet, hostVars, providerVars
  <2>2. StayEnded
    BY <1>5, KilledEnds DEF KillTimer
  <2> QED BY <2>1, <2>2, StraightWorld, SameUse
<1>6. CASE Expire
  <2>1. UNCHANGED <<index, stored, cli, loggedOut, call, ceremony>> /\ trouble \subseteq trouble'
    BY <1>6 DEF Expire, Blame, HostQuiet, hostVars, providerVars
  <2> QED BY <2>1, StraightWorld, SameUse DEF StayEnded
<1>7. CASE Rotate
  <2>1. UNCHANGED <<index, stored, loggedOut, call, ceremony>> /\ trouble \subseteq trouble' /\ cli'.owner = cli.owner
        /\ cli # NoCredential
    BY <1>7 DEF Rotate, Blame, loginVars, Credential, TypeInv, TypeOK
  <2>2. StayInUse
    BY <2>1 DEF StayInUse, InUse
  <2> QED BY <2>1, <2>2, StraightWorld DEF StayEnded
<1>8. CASE Crash \/ SidecarDies
  <2>1. Fault("crash") \/ Fault("sidecar")
    BY <1>8 DEF Crash, SidecarDies
  <2> QED BY <2>1, StraightFault
<1>9. CASE UNCHANGED vars
  <2>1. UNCHANGED <<index, stored, cli, loggedOut, call, ceremony, trouble>>
    BY <1>9 DEF vars, hostVars, providerVars, loginVars
  <2> QED BY <2>1, StraightWorld, SameUse DEF StayEnded
<1>10. CASE Logout
  <2>1. UNCHANGED <<index, stored, call, ceremony>> /\ trouble \subseteq trouble'
    BY <1>10 DEF Logout, Healthy, loginVars
  <2>2. StayInUse
    BY <1>10 DEF Logout, StayInUse, InUse
  <2> QED BY <2>1, <2>2, StraightWorld DEF StayEnded
<1> QED BY <1>2, <1>3, <1>4, <1>5, <1>6, <1>7, <1>8, <1>9, <1>10, StraightBegin, StraightLogin, StraightLearn,
           StraightSnapshot, StraightIncoming, StraightRegister, StraightDelete, StraightSave,
           StraightRestore, StraightLogsIn DEF Next

\* The whole invariant.
AccountInv == TypeInv /\ Locking /\ Kept /\ Straight

LEMMA AccountInvariant == Spec => []AccountInv
<1>1. Init => Locking /\ Kept /\ Straight
  <2> SUFFICES ASSUME Init PROVE Locking /\ Kept /\ Straight
    OBVIOUS
  <2>1. \A c \in Clients : call[c] = Idle
    BY DEF Init
  <2>2. Locking /\ Kept
    BY <2>1 DEF Init, Locking, Lock, OneLogin, Kept, Secured, Exclusive, Engaged, LoginOps, Idle, NoIndex, NoClaim
  <2>3. Own /\ Agreed
    BY DEF Init, Own, Agreed, InUse, NoIndex, NoCredential, Credential
  <2>4. \A c \in Clients : Matches(call[c])
    BY <2>1 DEF Matches, Idle
  <2> QED BY <2>2, <2>3, <2>4 DEF Straight
<1>2. AccountInv /\ [Next]_vars => AccountInv'
  BY TypeInductive, LockInductive, KeptInductive, StraightInductive DEF AccountInv
<1>3. Init => AccountInv
  BY <1>1, InitTypes DEF AccountInv
<1> QED BY <1>2, <1>3, PTL DEF Spec

\* A listed account always has a credential to switch to, wherever the host is cut
\* off and whichever file it cannot write (account_store.rs, the comment of
\* remove_account), as long as no two calls of a login overlap and no index is
\* written that was read before another write.
THEOREM ListedKeepCredential == Spec => []ListedHasCredential
<1>1. AccountInv => ListedHasCredential
  BY DEF AccountInv, Kept, ListedHasCredential
<1> QED BY <1>1, AccountInvariant, PTL

\* No account's credential is ever kept under another account, although what is
\* saved is whatever the CLI has by then (snapshot_active_account_credential), as
\* long as nothing is cut off and no two calls overlap.
THEOREM StoredAreOwn == Spec => []StoredIsOwn
<1>1. AccountInv => StoredIsOwn
  BY DEF AccountInv, Straight, Calm, Own, StoredIsOwn
<1> QED BY <1>1, AccountInvariant, PTL

\* Whenever nothing is under way the CLI uses the account shown as active, or none
\* because that one was logged out: never another account's.
THEOREM ActiveInUse == Spec => []ActiveIsInUse
<1>1. ASSUME AccountInv PROVE ActiveIsInUse
  <2> SUFFICES ASSUME Calm, ~Busy, index.active # NoAccount PROVE InUse(index.active)
    BY DEF ActiveIsInUse, Calm
  <2>1. \A c \in Clients : call[c].pc = "idle"
    BY DEF Busy, At
  <2>2. \A c \in Clients : ~Between(c)
    BY <2>1 DEF Between
  <2> QED BY <1>1, <2>2 DEF AccountInv, Straight, Agreed
<1>2. AccountInv => ActiveIsInUse
  BY <1>1
<1> QED BY <1>2, AccountInvariant, PTL

-----------------------------------------------------------------------------
(* A listed account can be returned to *)

\* The credential of an account works where it is kept, or where it is used.
Works(a) == stored[a] \in live
Fresh(a) == cli \in live /\ cli.owner = a
Wanted == index.listed \ (Removed \cup loggedOut)

\* When the credential of the active account has been saved: once a login is
\* claimed, until its calls are over, and in a switch.
AtSnapshot == {"snapshot", "read", "keep"}
Claimed == claim.held /\ claim.login # NoLogin /\ \A c \in Clients : call[c].pc \notin AtSnapshot
Under(c) ==
    \/ call[c].op \in LoginOps \ {"start"} /\ call[c].pc # "release"
    \/ call[c].op = "switch" /\ call[c].pc \in {"incoming", "save"}
Saved == Claimed \/ \E c \in Clients : Under(c)

\* No account is active only while the first one is about to be.
Pending(c) ==
    \/ call[c].op = "list" /\ call[c].pc = "activate"
    \/ call[c].op = "activate" /\ call[c].pc = "save"

\* What a call relies on.
Carries(x) ==
    /\ x.pc = "activate" \/ (x.op = "activate" /\ x.pc = "save") => x.acct \in index.listed
    /\ x.op = "list" /\ x.pc = "save" => Works(x.acct) \/ x.acct \in loggedOut
    /\ x.pc = "restore" => x.op # "start"
    /\ x.op = "switch" =>
          /\ x.pc \in AtSnapshot => Works(x.to) \/ (x.to = index.active /\ Fresh(x.to)) \/ x.to \in loggedOut
          /\ x.pc = "incoming" => Works(x.to) \/ x.to \in loggedOut
    /\ x.op = "remove" =>
          /\ x.pc = "incoming" => (Works(x.to) \/ x.to \in loggedOut) /\ index.active = x.acct
          /\ x.pc = "save" /\ x.idx.active = x.acct /\ x.to = NoAccount => x.idx.listed = {x.acct}
    /\ x.pc = "keep" => x.acct = index.active /\ (x.cred \in live \/ x.acct \in loggedOut)
    /\ x.pc = "wait" => x.login \in Logins
    /\ x.pc \in {"verify", "fetch"} \/ (x.pc = "wait" /\ ceremony[x.login] = "succeeded")
          => cli \in live \cup {NoCredential}
    /\ x.pc = "register" => IF cli = x.cred THEN cli \in live ELSE x.acct \in loggedOut

\* As long as nothing went wrong or overlapped, the CLI's credential works, and so
\* does the one kept of each account, but for the active one's: the CLI may have
\* renewed it since it was saved.
Undisturbed == trouble = {}
Returnable ==
    Undisturbed =>
        /\ cli \in live \cup {NoCredential} \/ cli.owner \in loggedOut
        /\ \A a \in Wanted : Works(a) \/ (a = index.active /\ Fresh(a))
        /\ Saved /\ index.active \in Wanted => Works(index.active)
        /\ index.active = NoAccount /\ index.listed # {} => \E c \in Clients : Pending(c)
        /\ \A c \in Clients : Carries(call[c])

\* Nothing is promised once something went wrong.
LEMMA Disturbed == ASSUME trouble' # {} PROVE Returnable'
BY DEF Returnable, Undisturbed

LEMMA FaultDisturbs == ASSUME NEW t, Fault(t) PROVE Returnable'
BY Disturbed DEF Fault, Blame

LEMMA StillCalm == Undisturbed => Calm /\ Without({"update", "race", "expired"}) /\ Without({"race", "expired"})
BY DEF Undisturbed, Calm, Without

\* Whoever holds the lock or the claim is alone: the others carry nothing.
LEMMA Bystanders ==
    ASSUME TypeInv, Locking, Undisturbed, NEW c \in Clients, Exclusive(c) \/ Engaged(c)
    PROVE  /\ \A d \in Clients \ {c} :
                  /\ ~Exclusive(d) /\ ~Under(d) /\ ~Pending(d) /\ call[d].pc \notin AtSnapshot
                  /\ call'[d] = call[d] => Carries(call[d])'
           /\ call[c].op # "remove" => Removed = {}
<1>1. Without({"race", "expired"})
  BY StillCalm
<1>2. ASSUME NEW d \in Clients \ {c}
      PROVE  /\ ~Exclusive(d) /\ ~Under(d) /\ ~Pending(d) /\ call[d].pc \notin AtSnapshot
             /\ call'[d] = call[d] => Carries(call[d])'
  <2>1. ~Exclusive(d) /\ ~Engaged(d)
    BY <1>1 DEF Locking, Lock, OneLogin
  <2>2. call[d].op \notin {"switch", "remove"} /\ (call[d].op \in LoginOps => call[d].pc = "release")
    BY <2>1 DEF Exclusive, Engaged
  <2>3. call[d].pc \in {"activate", "restore", "wait", "verify", "fetch", "register"} => call[d].op \in LoginOps
    BY DEF TypeInv, TypeOK, Shapes, Shape, Calls, LoginOps
  <2>4. call[d].op \in {"list", "activate", "start"} => call[d].op \in LoginOps
    BY DEF LoginOps
  <2>5. call[d].pc \in {"snapshot", "read", "keep"} => call[d].op \in {"switch", "start"}
    BY DEF TypeInv, TypeOK, Shapes, Shape, Calls, LoginOps
  <2>6. ~Under(d) /\ ~Pending(d) /\ call[d].pc \notin AtSnapshot
    BY <2>2, <2>3, <2>4, <2>5 DEF Under, Pending, AtSnapshot
  <2>7. call'[d] = call[d] => Carries(call[d])'
    BY <2>2, <2>3, <2>4, <2>5 DEF Carries
  <2> QED BY <2>1, <2>6, <2>7
<1>3. call[c].op # "remove" => Removed = {}
  BY <1>2 DEF Removed, Exclusive
<1> QED BY <1>2, <1>3

\* Only a login's call that is not a start and a switch are at a snapshot.
LEMMA Snapshotting ==
    ASSUME TypeInv, NEW c \in Clients, call[c].pc \in AtSnapshot
    PROVE  call[c].op \in {"switch", "start"}
BY DEF AtSnapshot, TypeInv, TypeOK, Shapes, Shape, Calls, LoginOps

NoSuccess == \A l \in Logins : ceremony'[l] = "succeeded" => ceremony[l] = "succeeded"
LEMMA KilledFails == ASSUME TypeInv PROVE (UNCHANGED ceremony => NoSuccess) /\ \A L : ceremony' = Killed(L) => NoSuccess
BY DEF TypeInv, TypeOK, Killed, NoSuccess

\* What a call carries it keeps when neither it nor what it is about is touched.
LEMMA SameCarries ==
    ASSUME NEW d \in Clients, call'[d] = call[d], UNCHANGED <<index, stored, cli, live, loggedOut>>,
           NoSuccess, Carries(call[d])
    PROVE  Carries(call[d])'
BY DEF Carries, Works, Fresh, NoSuccess

\* A step of one call that leaves credentials and index alone.
LEMMA ReturnableFrame ==
    ASSUME Returnable, NEW c \in Clients, UNCHANGED <<index, stored, cli, live, loggedOut>>, NoSuccess,
           trouble \subseteq trouble', \A d \in Clients \ {c} : call'[d] = call[d],
           Undisturbed' => /\ call[c].op # "remove"
                           /\ Claimed' => Saved
                           /\ Under(c)' => Saved
                           /\ Pending(c) => Pending(c)'
                           /\ Carries(call[c])'
    PROVE  Returnable'
<1> SUFFICES ASSUME Undisturbed'
             PROVE  /\ cli' \in live' \cup {NoCredential} \/ cli'.owner \in loggedOut'
                    /\ \A a \in Wanted' : Works(a)' \/ (a = index'.active /\ Fresh(a)')
                    /\ Saved' /\ index'.active \in Wanted' => Works(index.active)'
                    /\ index'.active = NoAccount /\ index'.listed # {} => \E d \in Clients : Pending(d)'
                    /\ \A d \in Clients : Carries(call[d])'
  BY DEF Returnable
<1>1. Undisturbed
  BY DEF Undisturbed
<1>2. /\ cli \in live \cup {NoCredential} \/ cli.owner \in loggedOut
      /\ \A a \in Wanted : Works(a) \/ (a = index.active /\ Fresh(a))
      /\ Saved /\ index.active \in Wanted => Works(index.active)
      /\ index.active = NoAccount /\ index.listed # {} => \E d \in Clients : Pending(d)
      /\ \A d \in Clients : Carries(call[d])
  BY <1>1 DEF Returnable
<1>3. \A a : (Works(a)' <=> Works(a)) /\ (Fresh(a)' <=> Fresh(a))
  BY DEF Works, Fresh
<1>4. Wanted' \subseteq Wanted
  BY DEF Wanted, Removed
<1>5. Saved' => Saved
  <2>1. \A d \in Clients \ {c} : Under(d)' => Under(d)
    BY DEF Under
  <2>2. (\E d \in Clients : Under(d)') => Saved
    BY <2>1 DEF Saved
  <2> QED BY <2>2 DEF Saved
<1>6. \A d \in Clients : Pending(d) => Pending(d)'
  <2>1. \A d \in Clients \ {c} : Pending(d) => Pending(d)'
    BY DEF Pending
  <2> QED BY <2>1
<1>7. ASSUME NEW d \in Clients PROVE Carries(call[d])'
  <2>1. CASE d = c
    BY <2>1
  <2>2. CASE d # c
    <3>1. call'[d] = call[d] /\ Carries(call[d])
      BY <1>2, <2>2
    <3> QED BY <3>1, SameCarries
  <2> QED BY <2>1, <2>2
<1>8. Works(index.active)' <=> Works(index.active)
  BY DEF Works
<1> QED BY <1>2, <1>3, <1>4, <1>5, <1>6, <1>7, <1>8

\* Calls that begin.  Whoever passes for a claimed login meets no call of it, or the
\* two overlap; whoever gets the lock meets no removal.
LEMMA ReturnableBegin ==
    ASSUME TypeInv, Locking, Returnable, NEW c \in Clients,
           Mark(c) \/ Start(c) \/ \E l \in {NoLogin} \cup Logins : Submit(c, l) \/ Cancel(c, l)
    PROVE  Returnable'
<1>1. call \in [Clients -> Calls] /\ call[c] \in Calls /\ Shape(call[c])
  BY DEF TypeInv, TypeOK, Shapes
<1>2. /\ UNCHANGED <<index, stored, cli, live, loggedOut, ceremony>>
      /\ trouble \subseteq trouble' /\ call[c].pc = "idle"
  BY DEF Mark, Start, Submit, Cancel, Touch, At, Healthy, Blame, HostQuiet, hostVars, providerVars, loginVars
<1>3. call[c].op = "none" /\ NoSuccess
  BY <1>1, <1>2, KilledFails DEF Shape, Calls, LoginOps
<1>4. ~Pending(c) /\ call[c].op # "remove" /\ ~Under(c)
  BY <1>3 DEF Pending, Under, LoginOps
<1>5. CASE Mark(c)
  <2>1. call'[c].op = "mark" /\ call'[c].pc = "save" /\ \A d \in Clients \ {c} : call'[d] = call[d]
    BY <1>1, <1>5 DEF Mark, Idle
  <2>2. UNCHANGED claim
    BY <1>5 DEF Mark, loginVars
  <2>3. Claimed' => Claimed
    BY <1>2, <2>1, <2>2 DEF Claimed, AtSnapshot
  <2>4. ~Under(c)' /\ (Carries(call[c])' <=> TRUE)
    BY <2>1 DEF Under, Carries, LoginOps
  <2> QED BY <1>2, <1>3, <1>4, <2>1, <2>3, <2>4, ReturnableFrame DEF Saved
<1>6. CASE Start(c)
  <2>1. call'[c].op = "start" /\ call'[c].pc = "spawn" /\ \A d \in Clients \ {c} : call'[d] = call[d]
    BY <1>1, <1>6 DEF Start, Idle
  <2>2. claim'.login = NoLogin
    BY <1>6 DEF Start
  <2>3. ~Claimed'
    BY <2>2 DEF Claimed
  <2>4. ~Under(c)' /\ (Carries(call[c])' <=> TRUE)
    BY <2>1 DEF Under, Carries, LoginOps
  <2> QED BY <1>2, <1>3, <1>4, <2>1, <2>3, <2>4, ReturnableFrame
<1>7. ASSUME NEW op \in {"submit", "cancel"}, NEW l \in {NoLogin} \cup Logins, Touch(c, op, l) PROVE Returnable'
  <2>1. call'[c].op = op /\ call'[c].pc = op /\ \A d \in Clients \ {c} : call'[d] = call[d]
    BY <1>1, <1>7 DEF Touch, Idle
  <2>2. claim.held /\ claim.login # NoLogin /\ ~mutex /\ (InLogin # {} => trouble' # {})
    BY <1>7 DEF Touch, Blame
  <2>3. Undisturbed' => Claimed
    <3>1. SUFFICES ASSUME InLogin = {} PROVE \A d \in Clients : call[d].pc \notin AtSnapshot
      BY <2>2, <3>1 DEF Undisturbed, Claimed
    <3>2. \A d \in Clients : call[d].op \notin {"switch", "start"}
      BY <2>2, <3>1 DEF InLogin, LoginOps, Locking, Lock, Exclusive
    <3> QED BY <3>2, Snapshotting
  <2>4. (Carries(call[c])' <=> TRUE)
    BY <2>1 DEF Carries
  <2> QED BY <1>2, <1>3, <1>4, <2>1, <2>3, <2>4, ReturnableFrame DEF Saved
<1> QED BY <1>5, <1>6, <1>7 DEF Submit, Cancel

LEMMA ReturnableSwitch ==
    ASSUME TypeInv, Locking, Returnable, NEW c \in Clients, NEW a \in Accounts, Switch(c, a)
    PROVE  Returnable'
<1>1. call \in [Clients -> Calls] /\ call[c] \in Calls /\ Shape(call[c])
  BY DEF TypeInv, TypeOK, Shapes
<1>2. /\ UNCHANGED <<index, stored, cli, live, loggedOut, ceremony, claim, trouble>> /\ call[c].pc = "idle"
      /\ ~mutex /\ a \in index.listed
  BY DEF Switch, Locks, At, Healthy, hostVars, providerVars, loginVars
<1>3. call[c].op = "none" /\ NoSuccess
  BY <1>1, <1>2, KilledFails DEF Shape, Calls, LoginOps
<1>4. ~Pending(c) /\ call[c].op # "remove"
  BY <1>3 DEF Pending
<1>5. /\ call'[c].op = "switch" /\ call'[c].pc = "snapshot" /\ call'[c].to = a
      /\ \A d \in Clients \ {c} : call'[d] = call[d]
  BY <1>1 DEF Switch, Idle
<1>6. a \in Wanted \/ a \in loggedOut
  BY <1>2 DEF Wanted, Removed, Locking, Lock, Exclusive
<1>7. ~Claimed' /\ ~Under(c)'
  BY <1>5 DEF Claimed, AtSnapshot, Under, LoginOps
<1>8. Undisturbed' => Carries(call[c])'
  <2>1. Undisturbed => Works(a) \/ (a = index.active /\ Fresh(a)) \/ a \in loggedOut
    BY <1>6 DEF Returnable
  <2> QED BY <1>2, <1>5, <2>1 DEF Carries, Works, Fresh, Undisturbed, AtSnapshot
<1> QED BY <1>2, <1>3, <1>4, <1>5, <1>7, <1>8, ReturnableFrame DEF Saved

LEMMA ReturnableRemove ==
    ASSUME TypeInv, Locking, Returnable, NEW c \in Clients, NEW a \in Accounts,
           NEW b \in Accounts \cup {NoAccount}, Remove(c, a, b)
    PROVE  Returnable'
<1>1. call \in [Clients -> Calls] /\ call[c] \in Calls /\ Shape(call[c])
  BY DEF TypeInv, TypeOK, Shapes
<1>2. /\ UNCHANGED <<index, stored, cli, live, loggedOut, ceremony, claim, trouble>> /\ call[c].pc = "idle"
      /\ ~mutex /\ a \in index.listed
      /\ IF index.active = a /\ index.listed # {a} THEN b \in index.listed \ {a} ELSE b = NoAccount
      /\ call' = [call EXCEPT ![c] = [Idle EXCEPT !.op = "remove", !.acct = a, !.to = b, !.idx = index,
                                       !.pc = IF b = NoAccount THEN "save" ELSE "incoming"]]
  BY DEF Remove, Locks, At, Healthy, hostVars, providerVars, loginVars
<1>3. call[c].op = "none" /\ NoSuccess
  BY <1>1, <1>2, KilledFails DEF Shape, Calls, LoginOps
<1>4. ~Pending(c) /\ call[c].op # "remove"
  BY <1>3 DEF Pending
<1>5. /\ call'[c].op = "remove" /\ call'[c].to = b /\ call'[c].acct = a /\ call'[c].idx = index
      /\ call'[c].pc = (IF b = NoAccount THEN "save" ELSE "incoming")
      /\ \A d \in Clients \ {c} : call'[d] = call[d]
  BY <1>1, <1>2 DEF Idle
<1>6. Removed = {}
  BY <1>2 DEF Removed, Locking, Lock, Exclusive
<1>7. (Claimed' => Claimed) /\ ~Under(c)'
  BY <1>2, <1>5 DEF Claimed, Under, LoginOps, AtSnapshot
<1>8. Undisturbed' => Carries(call[c])'
  <2>1. SUFFICES ASSUME Undisturbed PROVE Carries(call[c])'
    BY <1>2 DEF Undisturbed
  <2>2. b # NoAccount => (Works(b) \/ b \in loggedOut) /\ index.active = a
    BY <1>2, <1>6, <2>1 DEF Returnable, Wanted
  <2>3. index.active = a /\ b = NoAccount => index.listed = {a}
    BY <1>2, NoneAssumption DEF TypeInv, TypeOK, Index
  <2> QED BY <1>2, <1>5, <2>2, <2>3 DEF Carries, Works
<1> QED BY <1>2, <1>3, <1>4, <1>5, <1>7, <1>8, ReturnableFrame DEF Saved

\* The steps of a login that save nothing.
LEMMA ReturnableLogin ==
    ASSUME TypeInv, Locking, Returnable, NEW c \in Clients,
           \/ StartRefused(c) \/ Resolve(c) \/ StartFails(c) \/ ShowUrl(c) \/ NoUrl(c) \/ Bind(c)
           \/ SubmitHandled(c) \/ SubmitReturns(c) \/ CancelHandled(c) \/ VerifyFails(c)
           \/ Clear(c) \/ Release(c)
    PROVE  Returnable'
<1> DEFINE x == call[c]
<1>1. call \in [Clients -> Calls] /\ x \in Calls /\ Shape(x)
  BY DEF TypeInv, TypeOK, Shapes
<1>2. UNCHANGED <<index, stored, cli, live, loggedOut>> /\ trouble \subseteq trouble'
  BY DEF StartRefused, Resolve, StartFails, ShowUrl, NoUrl, Bind, SubmitHandled, SubmitReturns, CancelHandled,
         VerifyFails, Clear, Release, Healthy, Blame, HostQuiet, hostVars, providerVars
<1>3. NoSuccess
  <2>1. UNCHANGED ceremony \/ \E L : ceremony' = Killed(L)
    BY DEF StartRefused, Resolve, StartFails, ShowUrl, NoUrl, Bind, SubmitHandled, SubmitReturns, CancelHandled,
           VerifyFails, Clear, Release, loginVars
  <2> QED BY <2>1, KilledFails
<1>4. x.pc \in AtSidecar \cup {"bind", "verify", "fetch", "clear", "release"}
  BY SubmitOrCancel DEF StartRefused, Resolve, StartFails, ShowUrl, NoUrl, Bind, SubmitReturns,
         VerifyFails, Clear, Release, At, AtSidecar, Starting
<1>5. x.op \in LoginOps /\ x.op # "remove"
  BY <1>1, <1>4 DEF Shape, Calls, LoginOps, AtSidecar, Starting
<1>6. ~Pending(c) /\ x.pc \notin AtSnapshot
  BY <1>4 DEF x, Pending, AtSidecar, Starting, AtSnapshot
<1> HIDE DEF x
<1>7. \A p : Goes(c, p) => call'[c].op = x.op /\ call'[c].pc = p /\ \A d \in Clients \ {c} : call'[d] = call[d]
  BY Onward DEF x
\* What the record may become.
<1>8. ASSUME UNCHANGED claim, x.pc # "release", call'[c].op = x.op,
             \A d \in Clients \ {c} : call'[d] = call[d],
             \/ call'[c].pc \in {"resolve", "url", "bind", "clear", "release"}
             \/ call'[c].pc = "restore" /\ x.op # "start"
             \/ Undisturbed' => Carries(call[c])'
      PROVE  Returnable'
  <2>1. Claimed' => Claimed
    BY <1>6, <1>8 DEF Claimed, x
  <2>2. Under(c)' => Under(c)
    BY <1>5, <1>8 DEF Under, x, LoginOps
  <2>3. Undisturbed' => Carries(call[c])'
    <3>1. call'[c].pc \in {"resolve", "url", "bind", "clear", "release", "restore"}
             /\ (call'[c].pc = "restore" => x.op # "start") => (Carries(call[c])' <=> TRUE)
      BY <1>5, <1>8 DEF Carries, LoginOps, AtSnapshot
    <3> QED BY <1>8, <3>1
  <2> QED BY <1>2, <1>3, <1>5, <1>6, <1>8, <2>1, <2>2, <2>3, ReturnableFrame DEF Saved, x
<1>9. ASSUME UNCHANGED claim, Returns(c) PROVE Returnable'
  <2>1. call'[c].op = "none" /\ call'[c].pc = "idle" /\ \A d \in Clients \ {c} : call'[d] = call[d]
    BY <1>9, Onward
  <2>2. Claimed' => Claimed
    BY <1>6, <1>9, <2>1 DEF Claimed, x
  <2>3. ~Under(c)' /\ (Carries(call[c])' <=> TRUE)
    BY <2>1 DEF Under, Carries, LoginOps
  <2> QED BY <1>2, <1>3, <1>5, <1>6, <2>1, <2>2, <2>3, ReturnableFrame DEF Saved, x
<1>10. CASE StartRefused(c) \/ Release(c)
  <2>1. UNCHANGED claim /\ Returns(c)
    BY <1>10 DEF StartRefused, Release, loginVars
  <2> QED BY <1>9, <2>1
<1>11. CASE StartFails(c) \/ NoUrl(c)
  <2>1. trouble' # {}
    BY <1>11 DEF StartFails, NoUrl, Blame
  <2> QED BY <2>1, Disturbed
<1>12. CASE Bind(c)
  <2>1. /\ x.pc = "bind" /\ call'[c].op = x.op /\ call'[c].pc = "snapshot"
        /\ \A d \in Clients \ {c} : call'[d] = call[d]
    BY <1>7, <1>12 DEF Bind, At, x
  <2>2. x.op = "start"
    BY <1>1, <2>1 DEF Shape, Calls, LoginOps
  <2>3. ~Claimed' /\ ~Under(c)' /\ (Carries(call[c])' <=> TRUE)
    BY <2>1, <2>2 DEF Claimed, AtSnapshot, Under, Carries, LoginOps
  <2> QED BY <1>2, <1>3, <1>5, <1>6, <2>1, <2>3, ReturnableFrame DEF x
<1>13. CASE Resolve(c) \/ ShowUrl(c)
  <2>1. UNCHANGED claim /\ x.pc # "release" /\ (Goes(c, "resolve") \/ Goes(c, "bind"))
    BY <1>13 DEF Resolve, ShowUrl, At, loginVars, x
  <2> QED BY <1>7, <1>8, <2>1
<1>14. CASE SubmitHandled(c) \/ CancelHandled(c)
  <2>1. UNCHANGED claim /\ x.pc \in {"submit", "cancel"}
    BY <1>14, SubmitOrCancel DEF SubmitHandled, CancelHandled, loginVars, x
  <2>2. CASE Returns(c)
    BY <1>9, <2>1, <2>2
  <2>3. ASSUME NEW p \in {"wait", "restore"}, TakesSlot(c, p), call[c].pc = "submit" \/ p = "restore"
        PROVE  Returnable'
    <3>1. /\ x.op \in {"submit", "cancel"} /\ call'[c].op = x.op /\ call'[c].pc = p
          /\ \A d \in Clients \ {c} : call'[d] = call[d]
      BY <2>1, <2>3, Handled DEF x
    <3>2. CASE p = "restore"
      BY <1>8, <2>1, <3>1, <3>2
    <3>3. CASE p = "wait"
      <4>1. call'[c].login = slot
        BY <1>1, <2>3 DEF TakesSlot, Calls, x
      <4>2. SubmitHandled(c) /\ x.pc = "submit"
        BY <1>14, <2>3, <3>3 DEF CancelHandled, x, At, SubmitHandled
      <4>3. slot # NoLogin /\ ceremony[slot] \in {"running", "dying"}
        <5>1. SUFFICES ASSUME ~(slot # NoLogin /\ ceremony[slot] \in {"running", "dying"}) PROVE FALSE
          OBVIOUS
        <5>2. TakesSlot(c, "restore")
          BY <4>2, <5>1 DEF SubmitHandled, TakesSlot
        <5>3. call'[c].pc = "restore"
          BY <4>2, <5>2, Handled DEF x
        <5> QED BY <3>1, <3>3, <5>3
      <4>4. slot \in Logins
        BY <4>3 DEF TypeInv, TypeOK
      <4>5. ceremony' = ceremony
        BY <4>2 DEF SubmitHandled, loginVars
      <4>6. Carries(call[c])'
        BY <3>1, <3>3, <4>1, <4>3, <4>4, <4>5 DEF Carries
      <4> QED BY <1>8, <2>1, <3>1, <4>6
    <3> QED BY <3>2, <3>3
  <2> QED BY <1>14, <2>2, <2>3, SubmitOrCancel
<1>15. CASE VerifyFails(c)
  <2>1. UNCHANGED claim /\ x.pc \in {"verify", "fetch"} /\ Goes(c, "restore")
    BY <1>15 DEF VerifyFails, loginVars, x
  <2>2. x.op # "start"
    BY <1>1, <2>1 DEF Shape
  <2> QED BY <1>7, <1>8, <2>1, <2>2
<1>16. CASE SubmitReturns(c)
  <2>1. /\ UNCHANGED claim /\ x.pc = "wait"
        /\ Goes(c, IF ceremony[x.login] = "succeeded" THEN "verify" ELSE "restore")
    BY <1>16 DEF SubmitReturns, At, x
  <2>2. x.op # "start"
    BY <1>1, <2>1 DEF Shape
  <2>3. CASE ceremony[x.login] # "succeeded"
    BY <1>7, <1>8, <2>1, <2>2, <2>3
  <2>4. CASE ceremony[x.login] = "succeeded"
    <3>1. /\ call'[c].op = x.op /\ call'[c].pc = "verify" /\ x.op = "submit"
          /\ \A d \in Clients \ {c} : call'[d] = call[d]
      BY <1>1, <1>5, <1>7, <2>1, <2>4 DEF Shape, LoginOps
    <3>2. Undisturbed' => cli \in live \cup {NoCredential}
      <4>1. Undisturbed' => Carries(x)
        BY <1>2 DEF Undisturbed, Returnable, x
      <4> QED BY <2>1, <2>4, <4>1 DEF Carries
    <3>3. Undisturbed' => Carries(call[c])'
      BY <1>2, <3>1, <3>2 DEF Carries
    <3> QED BY <1>8, <2>1, <3>1, <3>3
  <2> QED BY <2>3, <2>4
<1>17. CASE Clear(c)
  <2>1. /\ call'[c].op = x.op /\ call'[c].pc = "release" /\ ~claim'.held
        /\ \A d \in Clients \ {c} : call'[d] = call[d]
    BY <1>7, <1>17 DEF Clear, NoClaim
  <2>2. ~Claimed' /\ ~Under(c)' /\ (Carries(call[c])' <=> TRUE)
    BY <1>5, <2>1 DEF Claimed, Under, Carries, LoginOps
  <2> QED BY <1>2, <1>3, <1>5, <1>6, <2>1, <2>2, ReturnableFrame DEF x
<1> QED BY <1>10, <1>11, <1>12, <1>13, <1>14, <1>15, <1>16, <1>17

\* A login whose record learns something.
LEMMA ReturnableLearn ==
    ASSUME TypeInv, Locking, Returnable, NEW c \in Clients,
           (\E l \in Logins : Spawn(c, l)) \/ Verify(c) \/ Fetch(c) \/ Activate(c)
    PROVE  Returnable'
<1> DEFINE x == call[c]
<1>1. call \in [Clients -> Calls] /\ x \in Calls /\ Shape(x)
  BY DEF TypeInv, TypeOK, Shapes
<1>2. UNCHANGED <<index, stored, cli, live, loggedOut, claim>> /\ trouble \subseteq trouble'
  BY DEF Spawn, Verify, Fetch, Activate, Healthy, HostQuiet, hostVars, providerVars, loginVars
<1>3. /\ x.op \in LoginOps /\ x.op # "remove" /\ x.pc \in {"resolve", "verify", "fetch", "activate"}
      /\ Undisturbed' => Carries(x)
  <2>1. x.pc \in {"resolve", "verify", "fetch", "activate"}
    BY DEF Spawn, Verify, Fetch, Activate, At
  <2>2. Undisturbed' => Carries(x)
    BY <1>2 DEF Returnable, Undisturbed
  <2> QED BY <1>1, <2>1, <2>2 DEF Shape, Calls, LoginOps
<1> HIDE DEF x
<1>4. ASSUME \A d \in Clients \ {c} : call'[d] = call[d],
             call'[c].op \in LoginOps, call'[c].op = "start" <=> x.op = "start",
             NoSuccess, call'[c].pc \notin AtSnapshot, Pending(c) => Pending(c)', Undisturbed' => Carries(call[c])'
      PROVE  Returnable'
  <2>1. Claimed' => Claimed
    BY <1>2, <1>3, <1>4 DEF Claimed, AtSnapshot, x
  <2>2. Under(c)' => Under(c)
    BY <1>3, <1>4 DEF Under, LoginOps, x
  <2> QED BY <1>2, <1>3, <1>4, <2>1, <2>2, ReturnableFrame DEF Saved, x
<1>5. ASSUME NEW l \in Logins, Spawn(c, l) PROVE Returnable'
  <2>1. call' = [call EXCEPT ![c].pc = "url", ![c].login = l] /\ x.pc = "resolve"
    BY <1>5 DEF Spawn, At, x
  <2>2. call'[c].op = x.op /\ call'[c].pc = "url" /\ \A d \in Clients \ {c} : call'[d] = call[d]
    BY <1>1, <2>1 DEF Calls, x
  <2>3. NoSuccess
    BY <1>5 DEF Spawn, NoSuccess, TypeInv, TypeOK
  <2>4. (Carries(call[c])' <=> TRUE) /\ ~Pending(c)
    BY <1>3, <2>1, <2>2 DEF Carries, Pending, LoginOps, x
  <2> QED BY <1>3, <1>4, <2>2, <2>3, <2>4 DEF AtSnapshot
<1>6. CASE Verify(c)
  <2>1. call' = [call EXCEPT ![c].pc = "fetch", ![c].acct = cli.owner] /\ x.pc = "verify" /\ UNCHANGED ceremony
    BY <1>6 DEF Verify, At, x, loginVars
  <2>2. call'[c].op = x.op /\ call'[c].pc = "fetch" /\ \A d \in Clients \ {c} : call'[d] = call[d]
    BY <1>1, <2>1 DEF Calls, x
  <2>3. x.op = "submit"
    BY <1>1, <1>3, <2>1 DEF Shape, LoginOps
  <2>4. Undisturbed' => Carries(call[c])'
    BY <1>2, <1>3, <2>1, <2>2, <2>3 DEF Carries
  <2>5. ~Pending(c) /\ NoSuccess
    BY <2>1, KilledFails DEF Pending, x
  <2> QED BY <1>3, <1>4, <2>2, <2>4, <2>5 DEF AtSnapshot
<1>7. CASE Fetch(c)
  <2>1. /\ call' = [call EXCEPT ![c].pc = "register", ![c].cred = cli] /\ x.pc = "fetch" /\ UNCHANGED ceremony
        /\ cli # NoCredential
    BY <1>7 DEF Fetch, At, x, loginVars
  <2>2. /\ call'[c].op = x.op /\ call'[c].pc = "register" /\ call'[c].cred = cli
        /\ \A d \in Clients \ {c} : call'[d] = call[d]
    BY <1>1, <2>1 DEF Calls, x
  <2>3. x.op = "submit"
    BY <1>1, <1>3, <2>1 DEF Shape, LoginOps
  <2>4. Undisturbed' => cli \in live
    BY <1>3, <2>1 DEF Carries
  <2>5. Undisturbed' => Carries(call[c])'
    BY <1>2, <2>2, <2>3, <2>4 DEF Carries
  <2>6. ~Pending(c) /\ NoSuccess
    BY <2>1, KilledFails DEF Pending, x
  <2> QED BY <1>3, <1>4, <2>2, <2>5, <2>6 DEF AtSnapshot
<1>8. CASE Activate(c)
  <2>1. x.pc = "activate" /\ NoSuccess
    BY <1>8, KilledFails DEF Activate, At, x, loginVars
  <2>2. x.op = "list"
    BY <1>1, <1>3, <2>1 DEF Shape, LoginOps
  <2>3. CASE x.acct \in index.listed
    <3>1. call' = [call EXCEPT ![c].pc = "save", ![c].op = "activate", ![c].idx = index]
      BY <1>8, <2>3 DEF Activate, x
    <3>2. /\ call'[c].op = "activate" /\ call'[c].pc = "save" /\ call'[c].acct = x.acct
          /\ \A d \in Clients \ {c} : call'[d] = call[d]
      BY <1>1, <3>1 DEF Calls, x
    <3>3. Pending(c)' /\ Carries(call[c])'
      BY <1>2, <2>3, <3>2 DEF Pending, Carries
    <3> QED BY <1>4, <2>1, <2>2, <3>2, <3>3 DEF LoginOps, AtSnapshot
  <2>4. CASE x.acct \notin index.listed
    <3>1. Undisturbed' => x.acct \in index.listed
      BY <1>3, <2>1 DEF Carries
    <3>2. trouble' # {}
      BY <2>4, <3>1 DEF Undisturbed
    <3> QED BY <3>2, Disturbed
  <2> QED BY <2>3, <2>4
<1> QED BY <1>5, <1>6, <1>7, <1>8

\* What the CLI has is saved: it is the active account's, and it works.
LEMMA ReturnableSnapshot ==
    ASSUME TypeInv, Locking, Straight, Returnable, NEW c \in Clients, Snapshot(c) \/ ReadCli(c) \/ Keep(c)
    PROVE  Returnable'
<1> DEFINE x == call[c]
<1>1. /\ call \in [Clients -> Calls] /\ x \in Calls /\ Shape(x)
      /\ stored \in [Accounts -> Credentials] /\ index.listed \subseteq Accounts
      /\ index.active \in index.listed \cup {NoAccount} /\ live \subseteq Credentials \ {NoCredential}
  BY DEF TypeInv, TypeOK, Shapes, Index
<1>2. UNCHANGED <<index, cli, live, loggedOut, ceremony, claim, trouble>>
  BY DEF Snapshot, ReadCli, Keep, Healthy, hostVars, providerVars, loginVars
<1>3. /\ x.pc \in AtSnapshot /\ x.op \in {"switch", "start"}
      /\ Exclusive(c) \/ Engaged(c)
      /\ \A d \in Clients \ {c} : call'[d] = call[d]
  BY SnapshotGoes DEF AtSnapshot, Exclusive, Engaged, LoginOps
<1>4. ~Pending(c) /\ NoSuccess
  BY <1>2, <1>3, KilledFails DEF Pending, x
<1>5. Undisturbed' => /\ Undisturbed /\ Own /\ Agreed /\ Matches(x) /\ Carries(x)
                      /\ \A d \in Clients : ~Pending(d)
                      /\ Removed = {}
  <2>1. SUFFICES ASSUME Undisturbed
                 PROVE  /\ Own /\ Agreed /\ Matches(x) /\ Carries(x)
                        /\ (\A d \in Clients : ~Pending(d)) /\ Removed = {}
    BY <1>2 DEF Undisturbed
  <2>2. \A d \in Clients : ~Between(d)
    BY <1>3, <2>1, Alone, StillCalm, StraightGoes DEF AtSnapshot
  <2>3. Own /\ Agreed /\ Matches(x)
    BY <2>1, <2>2, StillCalm DEF Straight
  <2>4. Carries(x)
    BY <2>1 DEF Returnable
  <2> QED BY <1>3, <1>4, <2>1, <2>3, <2>4, Bystanders
\* It goes on to the next of its reads,
<1>6. ASSUME call'[c].op = x.op, call'[c].pc \in AtSnapshot, Undisturbed' => Carries(call[c])', UNCHANGED stored
      PROVE  Returnable'
  <2>1. ~Claimed' /\ ~Under(c)' /\ x.op # "remove"
    BY <1>3, <1>6 DEF Claimed, AtSnapshot, Under, LoginOps
  <2> QED BY <1>2, <1>3, <1>4, <1>6, <2>1, ReturnableFrame
<1>7. CASE Snapshot(c) /\ index.active # NoAccount
  <2>1. call' = [call EXCEPT ![c].pc = "read", ![c].acct = index.active] /\ UNCHANGED stored
    BY <1>7 DEF Snapshot, hostVars
  <2>2. call'[c].op = x.op /\ call'[c].pc = "read" /\ call'[c].to = x.to
    BY <1>1, <2>1 DEF Calls
  <2>3. Undisturbed' => Carries(call[c])'
    BY <1>2, <1>3, <1>5, <2>1, <2>2 DEF Carries, AtSnapshot, Works, Fresh
  <2> QED BY <1>6, <2>1, <2>2, <2>3 DEF AtSnapshot
<1>8. CASE ReadCli(c) /\ cli # NoCredential
  <2>1. call' = [call EXCEPT ![c].pc = "keep", ![c].cred = cli] /\ UNCHANGED stored /\ x.pc = "read"
    BY <1>8 DEF ReadCli, hostVars, At
  <2>2. /\ call'[c].op = x.op /\ call'[c].pc = "keep" /\ call'[c].to = x.to
        /\ call'[c].acct = x.acct /\ call'[c].cred = cli
    BY <1>1, <2>1 DEF Calls
  <2>3. Undisturbed' => x.acct = index.active /\ (cli \in live \/ x.acct \in loggedOut)
    <3>1. Undisturbed' => x.acct = index.active /\ x.acct \in Accounts
      BY <1>1, <1>5, <2>1 DEF Matches, Shape
    <3>2. Undisturbed' => cli.owner = x.acct
      BY <1>5, <1>8, <3>1, NoneAssumption DEF Agreed, InUse
    <3>3. Undisturbed' => cli \in live \/ cli.owner \in loggedOut
      BY <1>5, <1>8 DEF Returnable
    <3> QED BY <3>1, <3>2, <3>3
  <2>4. Undisturbed' => Carries(call[c])'
    BY <1>2, <1>3, <1>5, <2>1, <2>2, <2>3 DEF Carries, AtSnapshot, Works, Fresh
  <2> QED BY <1>6, <2>1, <2>2, <2>4 DEF AtSnapshot
\* or is through: what is kept of every account works.
<1>9. CASE ~(Snapshot(c) /\ index.active # NoAccount) /\ ~(ReadCli(c) /\ cli # NoCredential)
  <2>1. SnapshotDone(c)
    BY <1>9 DEF Snapshot, ReadCli, Keep
  <2>2. SUFFICES ASSUME Undisturbed'
                 PROVE  /\ cli' \in live' \cup {NoCredential} \/ cli'.owner \in loggedOut'
                        /\ \A a \in Wanted' : Works(a)'
                        /\ index'.active \in Wanted' => Works(index.active)'
                        /\ index'.active = NoAccount /\ index'.listed # {} => \E d \in Clients : Pending(d)'
                        /\ \A d \in Clients : Carries(call[d])'
    BY DEF Returnable
  <2>3. /\ Undisturbed /\ Matches(x) /\ Carries(x) /\ Removed = {}
        /\ cli \in live \cup {NoCredential} \/ cli.owner \in loggedOut
        /\ \A a \in Wanted : Works(a) \/ (a = index.active /\ Fresh(a))
        /\ index.active = NoAccount => index.listed = {}
    BY <1>5, <2>2 DEF Returnable
  <2>4. Removed' = {}
    <3>1. call'[c].op = "switch" \/ call'[c].op = "none"
      BY <1>3, <2>1, Onward DEF SnapshotDone
    <3> QED BY <1>3, <2>3, <3>1 DEF Removed
  <2>5. \A a \in Accounts :
           \/ a \in loggedOut
           \/ stored'[a] = stored[a] /\ (a = index.active => ~Fresh(a))
           \/ a = index.active /\ stored'[a] \in live
    <3>1. CASE Keep(c)
      <4>1. stored' = [stored EXCEPT ![x.acct] = x.cred] /\ x.pc = "keep"
        BY <3>1 DEF Keep, At
      <4>2. x.acct = index.active /\ (x.cred \in live \/ x.acct \in loggedOut)
        BY <2>3, <4>1 DEF Carries
      <4> QED BY <1>1, <4>1, <4>2
    <3>2. CASE ~Keep(c)
      <4>1. UNCHANGED stored /\ (index.active = NoAccount \/ cli = NoCredential)
        BY <1>9, <3>2 DEF Snapshot, ReadCli, hostVars
      <4> QED BY <1>1, <4>1, NoneAssumption DEF Fresh
    <3> QED BY <3>1, <3>2
  <2>6. \A a \in index.listed : a \in loggedOut \/ stored'[a] \in live
    BY <1>1, <2>3, <2>5 DEF Works, Wanted
  <2>7. (\A a \in Wanted' : Works(a)') /\ (index'.active \in Wanted' => Works(index.active)')
    BY <1>2, <2>6 DEF Wanted, Works
  <2>8. Carries(call[c])'
    <3>1. CASE x.op = "start"
      <4>1. call'[c].op = "none" /\ call'[c].pc = "idle"
        BY <2>1, <3>1, Onward DEF SnapshotDone
      <4> QED BY <4>1 DEF Carries
    <3>2. CASE x.op = "switch"
      <4>1. call'[c] = [x EXCEPT !.pc = "incoming"]
        BY <2>1, <3>2, Moved DEF SnapshotDone
      <4>2. call'[c].op = "switch" /\ call'[c].pc = "incoming" /\ call'[c].to = x.to
        BY <1>1, <3>2, <4>1 DEF Calls
      <4>3. x.to \in Accounts
        BY <1>1, <3>2 DEF Shape, Calls, Index
      <4>4. Works(x.to) \/ (x.to = index.active /\ Fresh(x.to)) \/ x.to \in loggedOut
        BY <1>3, <2>3, <3>2 DEF Carries
      <4>5. x.to \in loggedOut \/ stored'[x.to] \in live
        BY <2>5, <4>3, <4>4 DEF Works
      <4> QED BY <1>2, <4>2, <4>5 DEF Carries, Works, AtSnapshot
    <3> QED BY <1>3, <3>1, <3>2
  <2>9. ASSUME NEW d \in Clients PROVE Carries(call[d])'
    <3>1. d # c => (Carries(call[d])' <=> TRUE)
      BY <1>3, <2>3, Bystanders
    <3> QED BY <2>8, <3>1
  <2> QED BY <1>2, <2>3, <2>7, <2>9
<1> QED BY <1>7, <1>8, <1>9

\* What is kept of an account is its own, so a credential that works or is of an
\* account that was logged out.
LEMMA KeptOwn ==
    ASSUME TypeInv, Straight, Undisturbed, NEW a \in Accounts, Works(a) \/ a \in loggedOut, stored[a] # NoCredential
    PROVE  stored[a] \in live \/ stored[a].owner \in loggedOut
<1>1. stored[a] \in Credentials /\ stored[a].owner \in {a, NoAccount}
  BY StillCalm DEF Straight, Own, TypeInv, TypeOK
<1>2. stored[a].owner = a
  BY <1>1, NoneAssumption DEF Credentials
<1> QED BY <1>2 DEF Works

\* The credential of the account to come works, and so does that of the other.
LEMMA ReturnableIncoming ==
    ASSUME TypeInv, Locking, Straight, Returnable, NEW c \in Clients, Incoming(c)
    PROVE  Returnable'
<1> DEFINE cred == stored[call[c].to]
<1>1. /\ call \in [Clients -> Calls] /\ call[c] \in Calls /\ Shape(call[c])
      /\ live \subseteq Credentials \ {NoCredential}
  BY DEF TypeInv, TypeOK, Shapes
<1>2. /\ UNCHANGED <<index, stored, live, loggedOut, claim, trouble>> /\ call[c].pc = "incoming"
      /\ cli' = IF cred = NoCredential THEN cli ELSE cred
      /\ IF cred = NoCredential /\ call[c].op = "switch" THEN Returns(c) ELSE Goes(c, "save")
  BY DEF Incoming, Healthy, At, ReturnsUnlocked, providerVars, loginVars
<1>3. call[c].op \in {"switch", "remove"} /\ call[c].to \in Accounts /\ Exclusive(c)
  BY <1>1, <1>2, IncomingTo DEF Exclusive
<1>4. SUFFICES ASSUME Undisturbed'
               PROVE  /\ cli' \in live' \cup {NoCredential} \/ cli'.owner \in loggedOut'
                      /\ \A a \in Wanted' : Works(a)'
                      /\ index'.active \in Wanted' => Works(index.active)'
                      /\ index'.active = NoAccount /\ index'.listed # {} => \E d \in Clients : Pending(d)'
                      /\ \A d \in Clients : Carries(call[d])'
  BY DEF Returnable
<1>5. Undisturbed
  BY <1>2, <1>4 DEF Undisturbed
<1>6. /\ cli \in live \cup {NoCredential} \/ cli.owner \in loggedOut
      /\ \A a \in Wanted : Works(a) \/ (a = index.active /\ Fresh(a))
      /\ Saved /\ index.active \in Wanted => Works(index.active)
      /\ index.active = NoAccount /\ index.listed # {} => \E d \in Clients : Pending(d)
      /\ Carries(call[c])
  BY <1>5 DEF Returnable
<1>7. cli' \in live \cup {NoCredential} \/ cli'.owner \in loggedOut
  <2>1. Works(call[c].to) \/ call[c].to \in loggedOut
    BY <1>2, <1>3, <1>6 DEF Carries
  <2>2. cred # NoCredential => cred \in live \/ cred.owner \in loggedOut
    BY <1>3, <1>5, <2>1, KeptOwn
  <2> QED BY <1>2, <1>6, <2>2
<1> HIDE DEF cred
<1>8. \A d \in Clients \ {c} : call'[d] = call[d]
  BY <1>2, Onward
<1>9. (Returns(c) /\ call[c].op = "switch") \/ call'[c] = [call[c] EXCEPT !.pc = "save"]
  BY <1>2, Moved
<1>10. \A a \in Wanted : Works(a)
  <2>1. CASE call[c].op = "switch"
    <3>1. Saved
      BY <1>2, <2>1 DEF Saved, Under
    <3> QED BY <1>6, <3>1
  <2>2. CASE call[c].op = "remove"
    <3>1. index.active \in Removed
      BY <1>2, <1>6, <2>2 DEF Carries, Removed
    <3> QED BY <1>6, <3>1 DEF Wanted
  <2> QED BY <1>3, <2>1, <2>2
<1>11. Removed' = Removed
  <2>1. CASE Returns(c) /\ call[c].op = "switch"
    <3>1. call'[c].op = "none"
      BY <2>1, Onward
    <3> QED BY <1>8, <2>1, <3>1 DEF Removed
  <2>2. CASE call'[c] = [call[c] EXCEPT !.pc = "save"]
    <3>1. call'[c].op = call[c].op /\ call'[c].acct = call[c].acct
      BY <1>1, <2>2 DEF Calls
    <3>2. \A d \in Clients : call'[d].op = call[d].op /\ call'[d].acct = call[d].acct
      BY <1>8, <3>1
    <3> QED BY <3>2 DEF Removed
  <2> QED BY <1>9, <2>1, <2>2
<1>12. (\A a \in Wanted' : Works(a)') /\ (index'.active \in Wanted' => Works(index.active)')
  BY <1>2, <1>10, <1>11 DEF Wanted, Works
<1>13. Carries(call[c])'
  <2>1. CASE Returns(c)
    <3>1. call'[c].op = "none" /\ call'[c].pc = "idle"
      BY <2>1, Onward
    <3> QED BY <3>1 DEF Carries
  <2>2. CASE call'[c] = [call[c] EXCEPT !.pc = "save"]
    <3>1. /\ call'[c].op = call[c].op /\ call'[c].pc = "save" /\ call'[c].to = call[c].to
          /\ call'[c].acct = call[c].acct /\ call'[c].idx = call[c].idx
      BY <1>1, <2>2 DEF Calls
    <3> QED BY <1>2, <1>3, <3>1, NoneAssumption DEF Carries, AtSnapshot
  <2> QED BY <1>9, <2>1, <2>2
<1>14. ASSUME NEW d \in Clients PROVE Carries(call[d])'
  <2>1. d # c => (Carries(call[d])' <=> TRUE)
    BY <1>3, <1>5, <1>8, Bystanders
  <2> QED BY <1>13, <2>1
<1>15. \A d \in Clients : ~Pending(d)
  <2>1. ~Pending(c)
    BY <1>2 DEF Pending
  <2> QED BY <1>3, <1>5, <2>1, Bystanders
<1> QED BY <1>2, <1>6, <1>7, <1>12, <1>14, <1>15

\* Who logged in is saved before it is listed.
LEMMA ReturnableRegister ==
    ASSUME TypeInv, Locking, Returnable, NEW c \in Clients, Register(c)
    PROVE  Returnable'
<1> DEFINE x == call[c]
<1>1. /\ call \in [Clients -> Calls] /\ x \in Calls /\ Shape(x)
      /\ stored \in [Accounts -> Credentials] /\ index.listed \subseteq Accounts
  BY DEF TypeInv, TypeOK, Shapes, Index
<1>2. /\ UNCHANGED <<index, cli, live, claim, trouble>> /\ x.pc = "register"
      /\ stored' = [stored EXCEPT ![x.acct] = x.cred]
      /\ loggedOut' = IF cli = x.cred THEN loggedOut \ {x.acct} ELSE loggedOut
      /\ call' = [call EXCEPT ![c].pc = "save", ![c].op = "list", ![c].idx = index]
  BY DEF Register, Healthy, At, loginVars
<1>3. /\ call'[c].op = "list" /\ call'[c].pc = "save" /\ call'[c].acct = x.acct
      /\ \A d \in Clients \ {c} : call'[d] = call[d]
  BY <1>1, <1>2 DEF Calls
<1>4. x.op = "submit" /\ x.acct \in Accounts /\ Engaged(c) /\ Under(c)
  BY <1>1, <1>2 DEF Shape, Calls, LoginOps, Engaged, Under
<1>5. SUFFICES ASSUME Undisturbed'
               PROVE  /\ cli' \in live' \cup {NoCredential} \/ cli'.owner \in loggedOut'
                      /\ \A a \in Wanted' : Works(a)'
                      /\ index'.active \in Wanted' => Works(index.active)'
                      /\ index'.active = NoAccount /\ index'.listed # {} => \E d \in Clients : Pending(d)'
                      /\ \A d \in Clients : Carries(call[d])'
  BY DEF Returnable
<1>6. Undisturbed
  BY <1>2, <1>5 DEF Undisturbed
<1>7. /\ cli \in live \cup {NoCredential} \/ cli.owner \in loggedOut
      /\ \A a \in Wanted : Works(a)
      /\ index.active = NoAccount /\ index.listed # {} => \E d \in Clients : Pending(d)
      /\ Carries(x)
  BY <1>4, <1>6 DEF Returnable, Saved
<1>8. IF cli = x.cred THEN cli \in live ELSE x.acct \in loggedOut
  BY <1>2, <1>7 DEF Carries
<1>9. Removed = {} /\ \A d \in Clients : ~Pending(d)
  <2>1. ~Pending(c)
    BY <1>4 DEF Pending, x
  <2> QED BY <1>4, <1>6, <2>1, Bystanders
<1>10. x.acct \in loggedOut' \/ stored'[x.acct] \in live
  BY <1>1, <1>2, <1>4, <1>8
<1> HIDE DEF x
<1>11. \A a \in index.listed : a \in loggedOut' \/ stored'[a] \in live
  <2>1. ASSUME NEW a \in index.listed, a # x.acct PROVE a \in loggedOut' \/ stored'[a] \in live
    <3>1. stored'[a] = stored[a] /\ (a \in loggedOut => a \in loggedOut')
      BY <1>1, <1>2, <2>1
    <3>2. a \in loggedOut \/ Works(a)
      BY <1>7, <1>9, <2>1 DEF Wanted
    <3> QED BY <3>1, <3>2 DEF Works
  <2> QED BY <1>10, <2>1
<1>12. (\A a \in Wanted' : Works(a)') /\ (index'.active \in Wanted' => Works(index.active)')
  BY <1>2, <1>11 DEF Wanted, Works
<1>13. cli' \in live' \cup {NoCredential} \/ cli'.owner \in loggedOut'
  BY <1>2, <1>7, <1>8
<1>14. Carries(call[c])'
  <2>1. live' = live /\ (call'[c].acct \in loggedOut' \/ stored'[call'[c].acct] \in live')
    BY <1>2, <1>3, <1>10
  <2> QED BY <1>3, <2>1 DEF Carries, Works, AtSnapshot
<1>15. ASSUME NEW d \in Clients PROVE Carries(call[d])'
  <2>1. d # c => (Carries(call[d])' <=> TRUE)
    BY <1>3, <1>4, <1>6, Bystanders
  <2> QED BY <1>14, <2>1
<1> QED BY <1>2, <1>7, <1>9, <1>12, <1>13, <1>15

\* After a failed login the CLI has a credential that works: the one that was saved.
LEMMA ReturnableRestore ==
    ASSUME TypeInv, Locking, Straight, Returnable, NEW c \in Clients, Restore(c)
    PROVE  Returnable'
<1> DEFINE cred == IF index.active = NoAccount THEN NoCredential ELSE stored[index.active]
<1>1. /\ call \in [Clients -> Calls] /\ call[c] \in Calls /\ Shape(call[c])
      /\ index.active \in index.listed \cup {NoAccount} /\ index.listed \subseteq Accounts
  BY DEF TypeInv, TypeOK, Shapes, Index
<1>2. /\ UNCHANGED <<index, stored, live, loggedOut, claim, trouble>> /\ call[c].pc = "restore"
      /\ Goes(c, "clear") /\ cli' = IF cred = NoCredential THEN cli ELSE cred
  BY DEF Restore, Healthy, At, providerVars, loginVars
<1>3. call[c].op \in LoginOps /\ Engaged(c) /\ ~Pending(c) /\ call[c].op # "remove"
  BY <1>1, <1>2 DEF Shape, Calls, LoginOps, Engaged, Pending
<1>4. /\ call'[c].op = call[c].op /\ call'[c].pc = "clear"
      /\ \A d \in Clients \ {c} : call'[d] = call[d]
  BY <1>2, Onward
<1>5. SUFFICES ASSUME Undisturbed'
               PROVE  /\ cli' \in live' \cup {NoCredential} \/ cli'.owner \in loggedOut'
                      /\ \A a \in Wanted' : Works(a)'
                      /\ index'.active \in Wanted' => Works(index.active)'
                      /\ index'.active = NoAccount /\ index'.listed # {} => \E d \in Clients : Pending(d)'
                      /\ \A d \in Clients : Carries(call[d])'
  BY DEF Returnable
<1>6. Undisturbed
  BY <1>2, <1>5 DEF Undisturbed
<1>7. Saved
  <2>1. call[c].op # "start"
    BY <1>2, <1>6 DEF Returnable, Carries
  <2> QED BY <1>2, <1>3, <2>1 DEF Saved, Under
<1>8. /\ cli \in live \cup {NoCredential} \/ cli.owner \in loggedOut
      /\ \A a \in Wanted : Works(a)
      /\ index.active = NoAccount /\ index.listed # {} => \E d \in Clients : Pending(d)
  BY <1>6, <1>7 DEF Returnable
<1>9. Removed = {} /\ \A d \in Clients : ~Pending(d)
  BY <1>3, <1>6, Bystanders
<1>10. cred # NoCredential => cred \in live \/ cred.owner \in loggedOut
  <2>1. cred # NoCredential => /\ index.active \in Accounts /\ cred = stored[index.active]
                               /\ Works(index.active) \/ index.active \in loggedOut
    BY <1>1, <1>8, <1>9 DEF Wanted
  <2> QED BY <1>6, <2>1, KeptOwn
<1> HIDE DEF cred
<1>11. cli' \in live \cup {NoCredential} \/ cli'.owner \in loggedOut
  BY <1>2, <1>8, <1>10
<1>12. Removed' = Removed
  BY <1>3, <1>4 DEF Removed
<1>13. (\A a \in Wanted' : Works(a)') /\ (index'.active \in Wanted' => Works(index.active)')
  BY <1>2, <1>8, <1>12 DEF Wanted, Works
<1>14. ASSUME NEW d \in Clients PROVE Carries(call[d])'
  <2>1. d # c => (Carries(call[d])' <=> TRUE)
    BY <1>3, <1>4, <1>6, Bystanders
  <2>2. Carries(call[c])'
    BY <1>3, <1>4 DEF Carries, LoginOps
  <2> QED BY <2>1, <2>2
<1> QED BY <1>2, <1>8, <1>9, <1>11, <1>13, <1>14

\* A deleted credential is of an account that is no longer listed.
LEMMA ReturnableDelete ==
    ASSUME TypeInv, Locking, Kept, Returnable, NEW c \in Clients, Delete(c)
    PROVE  Returnable'
<1>1. /\ call \in [Clients -> Calls] /\ call[c] \in Calls /\ Shape(call[c])
      /\ stored \in [Accounts -> Credentials] /\ index.listed \subseteq Accounts
      /\ index.active \in index.listed \cup {NoAccount}
  BY DEF TypeInv, TypeOK, Shapes, Index
<1>2. /\ UNCHANGED <<index, cli, live, loggedOut, claim, trouble>> /\ call[c].pc = "delete" /\ Returns(c)
      /\ \A a \in Accounts \ {call[c].acct} : stored'[a] = stored[a]
  BY <1>1 DEF Delete, ReturnsUnlocked, Healthy, At, providerVars, loginVars
<1>3. call[c].op = "remove" /\ Exclusive(c) /\ ~Pending(c) /\ ~Under(c)
  BY <1>1, <1>2 DEF Shape, Calls, LoginOps, Exclusive, Pending, Under
<1>4. /\ call'[c].op = "none" /\ call'[c].pc = "idle" /\ \A d \in Clients \ {c} : call'[d] = call[d]
  BY <1>2, Onward
<1>5. SUFFICES ASSUME Undisturbed'
               PROVE  /\ cli' \in live' \cup {NoCredential} \/ cli'.owner \in loggedOut'
                      /\ \A a \in Wanted' : Works(a)' \/ (a = index'.active /\ Fresh(a)')
                      /\ Saved' /\ index'.active \in Wanted' => Works(index.active)'
                      /\ index'.active = NoAccount /\ index'.listed # {} => \E d \in Clients : Pending(d)'
                      /\ \A d \in Clients : Carries(call[d])'
  BY DEF Returnable
<1>6. Undisturbed
  BY <1>2, <1>5 DEF Undisturbed
<1>7. /\ cli \in live \cup {NoCredential} \/ cli.owner \in loggedOut
      /\ \A a \in Wanted : Works(a) \/ (a = index.active /\ Fresh(a))
      /\ Saved /\ index.active \in Wanted => Works(index.active)
      /\ index.active = NoAccount /\ index.listed # {} => \E d \in Clients : Pending(d)
  BY <1>6 DEF Returnable
<1>8. call[c].acct \notin index.listed
  BY <1>2, <1>6, StillCalm DEF Kept, Secured
<1>9. \A d \in Clients \ {c} : call[d].op # "remove" /\ ~Pending(d) /\ ~Under(d) /\ call[d].pc \notin AtSnapshot
  BY <1>3, <1>6, Bystanders DEF Exclusive
<1>10. Wanted' = Wanted
  <2>1. Removed' = {} /\ Removed \subseteq {call[c].acct}
    BY <1>4, <1>9 DEF Removed
  <2> QED BY <1>2, <1>8, <2>1 DEF Wanted
<1>11. \A a \in index.listed : (Works(a)' <=> Works(a)) /\ (Fresh(a)' <=> Fresh(a))
  BY <1>1, <1>2, <1>8 DEF Works, Fresh
<1>12. Saved' => Saved
  <2>1. Claimed' => Claimed
    BY <1>2, <1>4, <1>9 DEF Claimed, AtSnapshot
  <2>2. \A d \in Clients : ~Under(d)'
    BY <1>4, <1>9 DEF Under, LoginOps
  <2> QED BY <2>1, <2>2 DEF Saved
<1>13. index'.active \in Wanted' /\ Saved' => Works(index.active)'
  <2>1. index.active \in index.listed => stored'[index.active] = stored[index.active]
    BY <1>1, <1>2, <1>8
  <2> QED BY <1>2, <1>7, <1>10, <1>12, <2>1 DEF Works, Wanted
<1>14. ASSUME NEW d \in Clients PROVE Carries(call[d])'
  <2>1. d # c => (Carries(call[d])' <=> TRUE)
    BY <1>3, <1>4, <1>6, Bystanders
  <2>2. Carries(call[c])'
    BY <1>4 DEF Carries
  <2> QED BY <2>1, <2>2
<1>15. \A d \in Clients : ~Pending(d)
  BY <1>3, <1>9
<1>16. \A a \in Wanted' : Works(a)' \/ (a = index'.active /\ Fresh(a)')
  BY <1>2, <1>7, <1>10, <1>11 DEF Wanted
<1> QED BY <1>2, <1>7, <1>13, <1>14, <1>15, <1>16

\* The index is written: the account that is made active has been saved, and so has
\* the one that was active.
LEMMA ReturnableSave ==
    ASSUME TypeInv, Locking, Returnable, NEW c \in Clients, Save(c)
    PROVE  Returnable'
<1> DEFINE x == call[c]
<1>1. /\ call \in [Clients -> Calls] /\ x \in Calls /\ Shape(x) /\ x.pc = "save"
      /\ index \in Index /\ index.active \in index.listed \cup {NoAccount} /\ index.listed \subseteq Accounts
  BY DEF Save, At, TypeInv, TypeOK, Shapes, Index
<1>2. /\ UNCHANGED <<stored, cli, live, loggedOut, ceremony, claim>> /\ index' = Changed(x)
      /\ trouble \subseteq trouble'
      /\ "update" \notin trouble' => x.idx = index
  BY DEF Save, Blame, providerVars, loginVars
<1>3. /\ \A d \in Clients \ {c} : call'[d] = call[d]
      /\ x.op = "remove" => call'[c].op = "remove" /\ call'[c].pc = "delete" /\ call'[c].acct = x.acct
      /\ x.op = "list" => call'[c].op = "list" /\ call'[c].pc = "activate" /\ call'[c].acct = x.acct
      /\ x.op = "activate" => call'[c].op = "activate" /\ call'[c].pc = "clear"
      /\ x.op \in {"switch", "mark"} => call'[c].op = "none" /\ call'[c].pc = "idle"
  <2>1. CASE x.op \in DOMAIN AfterSave
    <3>1. call'[c] = [x EXCEPT !.pc = AfterSave[x.op]] /\ \A d \in Clients \ {c} : call'[d] = call[d]
      BY <2>1, Moved DEF Save
    <3> QED BY <1>1, <2>1, <3>1 DEF AfterSave, Calls
  <2>2. CASE x.op \notin DOMAIN AfterSave
    <3>1. Returns(c)
      BY <2>2 DEF Save, ReturnsUnlocked
    <3> QED BY <2>2, <3>1, Onward DEF AfterSave
  <2> QED BY <2>1, <2>2
<1> HIDE DEF x
<1>4. x.op \in {"switch", "remove", "list", "activate", "mark"}
  BY <1>1 DEF Calls, Shape, LoginOps
<1>5. SUFFICES ASSUME Undisturbed'
               PROVE  /\ cli' \in live' \cup {NoCredential} \/ cli'.owner \in loggedOut'
                      /\ \A a \in Wanted' : Works(a)' \/ (a = index'.active /\ Fresh(a)')
                      /\ Saved' /\ index'.active \in Wanted' => Works(index.active)'
                      /\ index'.active = NoAccount /\ index'.listed # {} => \E d \in Clients : Pending(d)'
                      /\ \A d \in Clients : Carries(call[d])'
  BY DEF Returnable
<1>6. Undisturbed /\ x.idx = index
  BY <1>2, <1>5 DEF Undisturbed
<1>7. /\ cli \in live \cup {NoCredential} \/ cli.owner \in loggedOut
      /\ \A a \in Wanted : Works(a) \/ (a = index.active /\ Fresh(a))
      /\ Saved /\ index.active \in Wanted => Works(index.active)
      /\ index.active = NoAccount /\ index.listed # {} => \E d \in Clients : Pending(d)
      /\ \A d \in Clients : Carries(call[d])
  BY <1>6 DEF Returnable
<1>8. Carries(x)
  BY <1>7 DEF x
<1>9. /\ \A a : (Works(a)' <=> Works(a)) /\ (Fresh(a)' <=> Fresh(a))
      /\ cli' \in live' \cup {NoCredential} \/ cli'.owner \in loggedOut'
  BY <1>2, <1>7 DEF Works, Fresh
<1>10. Saved' => Saved
  <2>1. Claimed' => Claimed
    <3>1. \A d \in Clients : call[d].pc \in AtSnapshot => call'[d].pc \in AtSnapshot
      BY <1>1, <1>3 DEF x, AtSnapshot
    <3> QED BY <1>2, <3>1 DEF Claimed
  <2>2. Under(c)' => Under(c)
    <3>1. call'[c].op = x.op \/ call'[c].op = "none"
      BY <1>3, <1>4
    <3>2. x.op = "switch" => call'[c].op = "none"
      BY <1>3
    <3> QED BY <1>1, <3>1, <3>2 DEF Under, LoginOps, x
  <2>3. \A d \in Clients \ {c} : Under(d)' => Under(d)
    BY <1>3 DEF Under
  <2> QED BY <2>1, <2>2, <2>3 DEF Saved
<1>11. Works(index.active)' <=> stored[index'.active] \in live
  BY <1>2 DEF Works
\* A call that has the lock or the claim is the only one that carries anything.
<1>12. ASSUME Exclusive(c) \/ Engaged(c), Carries(call[c])' PROVE \A d \in Clients : Carries(call[d])'
  <2>1. ASSUME NEW d \in Clients PROVE Carries(call[d])'
    <3>1. d # c => (Carries(call[d])' <=> TRUE)
      BY <1>3, <1>6, <1>12, Bystanders
    <3> QED BY <1>12, <3>1
  <2> QED BY <2>1
<1>13. CASE x.op = "switch"
  <2>1. index' = [index EXCEPT !.active = x.to] /\ Exclusive(c) /\ Under(c)
    BY <1>1, <1>2, <1>6, <1>13 DEF Changed, Exclusive, Under, x
  <2>2. index'.active = x.to /\ index'.listed = index.listed /\ x.to \in Accounts
    BY <1>1, <1>6, <1>13, <2>1 DEF Shape, Index
  <2>3. Removed' = Removed
    BY <1>3, <1>13 DEF Removed, x
  <2>4. \A a \in Wanted : Works(a)
    BY <1>7, <2>1 DEF Saved
  <2>5. Wanted' = Wanted
    BY <1>2, <2>2, <2>3 DEF Wanted
  <2>6. \A a \in Wanted' : Works(a)'
    BY <1>9, <2>4, <2>5
  <2>7. index'.active \in Wanted' => Works(index.active)'
    BY <1>11, <2>4, <2>5 DEF Works
  <2>8. Carries(call[c])'
    BY <1>3, <1>13 DEF Carries
  <2> QED BY <1>9, <1>12, <2>1, <2>2, <2>6, <2>7, <2>8, NoneAssumption
<1>14. CASE x.op = "remove"
  <2>1. /\ index'.listed = index.listed \ {x.acct} /\ Exclusive(c)
        /\ index'.active = IF index.active = x.acct THEN x.to ELSE index.active
    BY <1>2, <1>6, <1>14 DEF Changed, Exclusive, x
  <2>2. /\ x.to \in (index.listed \ {x.acct}) \cup {NoAccount}
        /\ index.active = x.acct /\ x.to = NoAccount => index.listed = {x.acct}
    BY <1>1, <1>6, <1>8, <1>14 DEF Shape, Carries
  <2>3. Removed' = Removed /\ x.acct \in Removed
    BY <1>3, <1>14 DEF Removed, x
  <2>4. Wanted' = Wanted /\ x.acct \notin Wanted
    BY <1>2, <2>1, <2>3 DEF Wanted
  <2>5. \A a \in Wanted' : Works(a)' \/ (a = index'.active /\ Fresh(a)')
    BY <1>7, <1>9, <2>1, <2>4
  <2>6. Saved' /\ index'.active \in Wanted' => Works(index.active)'
    <3>1. CASE index.active = x.acct
      BY <1>7, <1>11, <2>1, <2>4, <3>1 DEF Works
    <3>2. CASE index.active # x.acct
      BY <1>7, <1>10, <1>11, <2>1, <2>4, <3>2 DEF Works
    <3> QED BY <3>1, <3>2
  <2>7. index'.active = NoAccount => index'.listed = {}
    <3>1. \A d \in Clients : ~Pending(d)
      <4>1. ~Pending(c)
        BY <1>14 DEF Pending, x
      <4> QED BY <1>6, <2>1, <4>1, Bystanders
    <3>2. index.active = NoAccount => index.listed = {}
      BY <1>7, <3>1
    <3> QED BY <2>1, <2>2, <3>2
  <2>8. Carries(call[c])'
    BY <1>3, <1>14 DEF Carries
  <2> QED BY <1>9, <1>12, <2>1, <2>5, <2>6, <2>7, <2>8
<1>15. CASE x.op = "list"
  <2>1. /\ index'.listed = index.listed \cup {x.acct} /\ index'.active = index.active
        /\ Engaged(c) /\ Under(c)
    BY <1>1, <1>2, <1>6, <1>15 DEF Changed, Engaged, Under, LoginOps, Index, x
  <2>2. Removed = {} /\ (Works(x.acct) \/ x.acct \in loggedOut)
    BY <1>1, <1>6, <1>8, <1>15, <2>1, Bystanders DEF Carries, x
  <2>3. \A a \in Wanted : Works(a)
    BY <1>7, <2>1 DEF Saved
  <2>4. \A a \in index'.listed : Works(a)' \/ a \in loggedOut'
    BY <1>2, <1>9, <2>1, <2>2, <2>3 DEF Wanted
  <2>5. \A a \in Wanted' : Works(a)'
    BY <2>4 DEF Wanted
  <2>6. index'.active \in Wanted' => Works(index.active)'
    BY <1>9, <1>11, <2>5 DEF Works
  <2>7. Pending(c)' /\ Carries(call[c])'
    BY <1>3, <1>15, <2>1 DEF Pending, Carries
  <2> QED BY <1>9, <1>12, <2>1, <2>5, <2>6, <2>7
<1>16. CASE x.op = "activate"
  <2>1. /\ index' = [index EXCEPT !.active = x.acct] /\ Engaged(c) /\ Under(c)
    BY <1>1, <1>2, <1>6, <1>16 DEF Changed, Engaged, Under, LoginOps, x
  <2>2. index'.listed = index.listed /\ index'.active = x.acct /\ x.acct \in index.listed
    BY <1>1, <1>6, <1>16, <2>1 DEF Shape, Index
  <2>3. Removed = {}
    BY <1>6, <1>16, <2>1, Bystanders DEF x
  <2>4. \A a \in Wanted : Works(a)
    BY <1>7, <2>1 DEF Saved
  <2>5. Wanted' \subseteq Wanted
    BY <1>2, <2>2, <2>3 DEF Wanted
  <2>6. \A a \in Wanted' : Works(a)'
    BY <1>9, <2>4, <2>5
  <2>7. index'.active \in Wanted' => Works(index.active)'
    BY <1>9, <1>11, <2>6 DEF Works
  <2>8. Carries(call[c])'
    BY <1>3, <1>16 DEF Carries
  <2> QED BY <1>1, <1>9, <1>12, <2>1, <2>2, <2>6, <2>7, <2>8, NoneAssumption
<1>17. CASE x.op = "mark"
  <2>1. index' = index
    BY <1>2, <1>6, <1>17 DEF Changed
  <2>2. ~Pending(c) /\ Carries(call[c])'
    BY <1>3, <1>17 DEF Pending, Carries, x
  <2>3. Wanted' = Wanted
    BY <1>2, <1>3, <1>17, <2>1 DEF Wanted, Removed, x
  <2>4. ASSUME NEW d \in Clients PROVE Carries(call[d])'
    <3>1. CASE d = c
      BY <2>2, <3>1
    <3>2. CASE d # c
      <4>1. call'[d] = call[d] /\ Carries(call[d]) /\ NoSuccess
        BY <1>2, <1>3, <1>7, <3>2, KilledFails
      <4> QED BY <1>2, <2>1, <4>1, SameCarries
    <3> QED BY <3>1, <3>2
  <2>5. (\E d \in Clients : Pending(d)) => \E d \in Clients : Pending(d)'
    BY <1>3, <2>2 DEF Pending
  <2> QED BY <1>7, <1>9, <1>10, <1>11, <2>1, <2>3, <2>4, <2>5 DEF Works
<1> QED BY <1>4, <1>13, <1>14, <1>15, <1>16, <1>17

\* Who logs in takes the CLI over, after what it had was saved; or is too late.
LEMMA ReturnableLogsIn ==
    ASSUME TypeInv, Locking, Returnable, NEW l \in Logins, NEW a \in Accounts, CliLogsIn(l, a)
    PROVE  Returnable'
<1>0. /\ UNCHANGED <<index, stored, loggedOut, call, claim>> /\ live \subseteq live' /\ cli' \in live'
      /\ trouble \subseteq trouble' /\ (ceremony[l] = "dying" => trouble' # {})
  BY DEF CliLogsIn, Blame
<1>1. SUFFICES ASSUME Undisturbed' PROVE Returnable'
  BY DEF Returnable
<1>2. PICK c \in Clients : call[c].pc = "wait"
  BY <1>0, <1>1 DEF CliLogsIn, HasCode, At, Undisturbed
<1>3. call[c].op = "submit" /\ Engaged(c) /\ Under(c)
  BY <1>2 DEF TypeInv, TypeOK, Shapes, Shape, Calls, LoginOps, Engaged, Under
<1>4. Undisturbed
  BY <1>0, <1>1 DEF Undisturbed
<1>5. \A b \in Wanted : Works(b)
  BY <1>3, <1>4 DEF Returnable, Saved
<1>6. Wanted' = Wanted
  BY <1>0 DEF Wanted, Removed
<1>7. (\A b \in Wanted' : Works(b)') /\ (index'.active \in Wanted' => Works(index.active)')
  BY <1>0, <1>5, <1>6 DEF Works
<1>8. index.active = NoAccount => index.listed = {}
  <2>1. \A d \in Clients : ~Pending(d)
    BY <1>2, <1>3, <1>4, Bystanders DEF Pending
  <2> QED BY <1>4, <2>1 DEF Returnable
<1>9. ASSUME NEW d \in Clients PROVE Carries(call[d])'
  <2>1. d # c => (Carries(call[d])' <=> TRUE)
    BY <1>0, <1>3, <1>4, Bystanders
  <2>2. Carries(call[c])
    BY <1>4 DEF Returnable
  <2>3. Carries(call[c])'
    BY <1>0, <1>2, <1>3, <2>2 DEF Carries
  <2> QED BY <2>1, <2>3
<1> QED BY <1>0, <1>7, <1>8, <1>9 DEF Returnable

\* When the CLI renews its credential nothing is under way, so the credential that
\* stops working is the active account's, which the CLI has again.
LEMMA ReturnableRotate ==
    ASSUME TypeInv, Straight, Returnable, Rotate
    PROVE  Returnable'
<1>1. /\ cli \in Credentials /\ live \subseteq Credentials \ {NoCredential} /\ call \in [Clients -> Calls]
      /\ stored \in [Accounts -> Credentials] /\ index.listed \subseteq Accounts
      /\ index.active \in index.listed \cup {NoAccount} /\ \A c \in Clients : Shape(call[c])
  BY DEF TypeInv, TypeOK, Shapes, Index
<1>2. /\ UNCHANGED <<index, stored, loggedOut, call, claim>> /\ trouble \subseteq trouble' /\ cli \in live
      /\ cli'.owner = cli.owner /\ live' = (live \ {cli}) \cup {cli'}
      /\ Busy \/ claim.held => trouble' # {}
  BY DEF Rotate, Blame, loginVars, Credential
<1>3. SUFFICES ASSUME Undisturbed' PROVE Returnable'
  BY DEF Returnable
<1>4. Undisturbed /\ Calm /\ ~Busy /\ ~claim.held
  BY <1>2, <1>3, StillCalm DEF Undisturbed
<1>5. \A c \in Clients : call[c].pc = "idle"
  BY <1>4 DEF Busy, At
<1>6. \A c \in Clients : call[c].op = "none"
  BY <1>1, <1>5 DEF Shape, Calls, LoginOps
<1>7. \A c \in Clients : ~Between(c) /\ ~Under(c) /\ ~Pending(c)
  BY <1>5, <1>6 DEF Between, Under, Pending, LoginOps
<1>8. Own /\ Agreed /\ (index.active = NoAccount => index.listed = {})
  BY <1>4, <1>7 DEF Straight, Returnable
<1>9. cli' \in live' /\ cli # NoCredential
  BY <1>1, <1>2
<1>10. ASSUME NEW a \in Wanted' PROVE Works(a)' \/ (a = index'.active /\ Fresh(a)')
  <2>1. a \in Wanted /\ a \in Accounts /\ a \in index.listed
    BY <1>1, <1>2, <1>10 DEF Wanted, Removed
  <2>2. index.active # NoAccount /\ cli.owner = index.active
    BY <1>8, <1>9, <2>1 DEF Agreed, InUse
  <2>3. CASE a = index.active
    BY <1>2, <1>9, <2>2, <2>3 DEF Fresh
  <2>4. CASE a # index.active
    <3>1. stored[a] \in live
      BY <1>4, <2>1, <2>4 DEF Returnable, Works
    <3>2. stored[a] # cli
      BY <1>8, <2>1, <2>2, <2>4 DEF Own
    <3> QED BY <1>2, <3>1, <3>2 DEF Works
  <2> QED BY <2>3, <2>4
<1>11. ~Saved'
  BY <1>2, <1>4, <1>7 DEF Saved, Claimed, Under
<1>12. \A c \in Clients : Carries(call[c])'
  BY <1>2, <1>5, <1>6 DEF Carries
<1> QED BY <1>2, <1>8, <1>9, <1>10, <1>11, <1>12 DEF Returnable

\* A logout takes one account's credential away, and what is kept of the others is
\* their own.
LEMMA ReturnableLogout ==
    ASSUME TypeInv, Straight, Returnable, Logout
    PROVE  Returnable'
<1>1. /\ cli \in Credentials /\ stored \in [Accounts -> Credentials] /\ index.listed \subseteq Accounts
      /\ call \in [Clients -> Calls] /\ \A c \in Clients : Shape(call[c])
  BY DEF TypeInv, TypeOK, Shapes, Index
<1>2. /\ UNCHANGED <<index, stored, call, claim, ceremony, trouble>> /\ cli # NoCredential /\ cli' = NoCredential
      /\ live' \in {live, live \ {cli}} /\ loggedOut' = loggedOut \cup {cli.owner}
  BY DEF Logout, Healthy, loginVars
<1>3. SUFFICES ASSUME Undisturbed' PROVE Returnable'
  BY DEF Returnable
<1>4. Undisturbed /\ Own /\ \A c \in Clients : Matches(call[c])
  BY <1>2, <1>3, StillCalm DEF Undisturbed, Straight
<1>5. /\ \A a \in Wanted : Works(a) \/ (a = index.active /\ Fresh(a))
      /\ Saved /\ index.active \in Wanted => Works(index.active)
      /\ index.active = NoAccount /\ index.listed # {} => \E d \in Clients : Pending(d)
      /\ \A d \in Clients : Carries(call[d])
  BY <1>4 DEF Returnable
<1>6. Wanted' = Wanted \ {cli.owner}
  BY <1>2 DEF Wanted, Removed
\* What was someone else's or worked is as it was.
<1>7. \A a \in Accounts : Works(a) => Works(a)' \/ a \in loggedOut'
  <2>1. SUFFICES ASSUME NEW a \in Accounts, Works(a), a # cli.owner PROVE Works(a)'
    BY <1>2
  <2>2. stored[a] # cli
    <3>1. cli.owner # NoAccount
      BY <1>1, <1>2, NoneAssumption DEF Credentials
    <3> QED BY <1>4, <2>1, <3>1 DEF Own
  <2> QED BY <1>2, <2>1, <2>2 DEF Works
<1>8. \A a : Fresh(a) => a \in loggedOut'
  BY <1>2 DEF Fresh
<1>9. \A a \in Wanted' : Works(a)'
  <2>1. ASSUME NEW a \in Wanted' PROVE Works(a)'
    <3>1. a \in Wanted /\ a \in Accounts /\ a \notin loggedOut'
      BY <1>1, <1>6, <2>1 DEF Wanted
    <3> QED BY <1>5, <1>7, <1>8, <3>1
  <2> QED BY <2>1
<1>10. index'.active \in Wanted' => Works(index.active)'
  BY <1>9 DEF Works
<1>11. (\A d \in Clients : Pending(d)' <=> Pending(d))
  BY <1>2 DEF Pending
<1>12. ASSUME NEW d \in Clients PROVE Carries(call[d])'
  <2> DEFINE x == call[d]
  <2>1. call'[d] = x /\ x \in Calls /\ Shape(x) /\ Matches(x) /\ Carries(x)
    BY <1>1, <1>2, <1>4, <1>5
  <2>2. loggedOut \subseteq loggedOut' /\ x.acct \in Accounts \cup {NoAccount} /\ x.to \in Accounts \cup {NoAccount}
        /\ x.idx.listed \subseteq Accounts
    BY <1>2, <2>1 DEF Calls, Index
  <2>3. /\ x.op = "switch" => x.to \in Accounts
        /\ x.op = "remove" /\ x.pc = "incoming" => x.to \in Accounts
        /\ x.op = "list" => x.acct \in Accounts
    BY <2>1, <2>2 DEF Shape
  <2>4. x.pc \in {"keep", "register"} => /\ x.cred # NoCredential /\ x.cred.owner = x.acct
                                         /\ x.cred \in live => x.cred \in live' \/ x.acct \in loggedOut'
    BY <1>2, <2>1 DEF Shape, Matches
  <2>5. x.pc = "register" => x.acct \in loggedOut' /\ cli' # x.cred
    BY <1>2, <2>1, <2>2, <2>4 DEF Carries
  <2>6. x.pc = "keep" => x.acct = index.active /\ (x.cred \in live' \/ x.acct \in loggedOut')
    BY <2>1, <2>2, <2>4 DEF Carries
  <2> HIDE DEF x
  <2>7. \A a \in Accounts : Works(a) \/ Fresh(a) \/ a \in loggedOut => stored'[a] \in live' \/ a \in loggedOut'
    BY <1>7, <1>8, <2>2 DEF Works
  <2>8. /\ x.op = "list" /\ x.pc = "save" => stored'[x.acct] \in live' \/ x.acct \in loggedOut'
        /\ x.op = "switch" /\ x.pc \in AtSnapshot \cup {"incoming"} => stored'[x.to] \in live' \/ x.to \in loggedOut'
        /\ x.op = "remove" /\ x.pc = "incoming" => (stored'[x.to] \in live' \/ x.to \in loggedOut') /\ index.active = x.acct
    BY <2>1, <2>3, <2>7 DEF Carries
  <2>9. call'[d] = call[d] /\ UNCHANGED <<index, ceremony>> /\ cli' = NoCredential
    BY <1>2, <2>1
  <2> QED BY <2>1, <2>5, <2>6, <2>8, <2>9 DEF Carries, Works, Fresh, x
<1> QED BY <1>2, <1>5, <1>9, <1>10, <1>11, <1>12 DEF Returnable

LEMMA ReturnableInductive == TypeInv /\ Locking /\ Kept /\ Straight /\ Returnable /\ [Next]_vars => Returnable'
<1> SUFFICES ASSUME TypeInv, Locking, Kept, Straight, Returnable, [Next]_vars PROVE Returnable'
  OBVIOUS
\* Steps that touch neither a credential, nor the index, nor a call.
<1>1. ASSUME UNCHANGED <<index, stored, cli, live, loggedOut, call>>, trouble \subseteq trouble',
             claim'.held => UNCHANGED claim, NoSuccess
      PROVE  Returnable'
  <2>1. Undisturbed' => Undisturbed
    BY <1>1 DEF Undisturbed
  <2>2. Claimed' => Claimed
    BY <1>1 DEF Claimed
  <2>3. \A c \in Clients : (Under(c)' <=> Under(c)) /\ (Pending(c)' <=> Pending(c))
    BY <1>1 DEF Under, Pending
  <2>4. \A a : (Works(a)' <=> Works(a)) /\ (Fresh(a)' <=> Fresh(a))
    BY <1>1 DEF Works, Fresh
  <2>5. ASSUME NEW c \in Clients, Carries(call[c]) PROVE Carries(call[c])'
    <3>1. call'[c] = call[c]
      BY <1>1
    <3> QED BY <1>1, <2>5, <3>1, SameCarries
  <2>6. Wanted' = Wanted /\ (Saved' => Saved)
    BY <1>1, <2>2, <2>3 DEF Wanted, Removed, Saved
  <2>7. Works(index.active)' <=> Works(index.active)
    BY <1>1 DEF Works
  <2> QED BY <1>1, <2>1, <2>3, <2>4, <2>5, <2>6, <2>7 DEF Returnable
<1>2. ASSUME NEW c \in Clients, KeepFails(c) \/ SaveFails(c) \/ IncomingFails(c) \/ RegisterFails(c)
                                \/ RestoreFails(c)
      PROVE  Returnable'
  <2>1. Fault("keyring") \/ Fault("index") \/ Fault("cli")
    BY <1>2 DEF KeepFails, SaveFails, IncomingFails, RegisterFails, RestoreFails
  <2> QED BY <2>1, FaultDisturbs
<1>3. CASE Crash \/ SidecarDies
  <2>1. Fault("crash") \/ Fault("sidecar")
    BY <1>3 DEF Crash, SidecarDies
  <2> QED BY <2>1, FaultDisturbs
<1>4. ASSUME NEW l \in Logins, CliFails(l) \/ KillTimer(l) PROVE Returnable'
  <2>1. /\ UNCHANGED <<index, stored, cli, live, loggedOut, call, claim>> /\ trouble \subseteq trouble'
        /\ ceremony' = Killed({l}) \/ ceremony' = [ceremony EXCEPT ![l] = "failed"]
    BY <1>4 DEF CliFails, KillTimer, Healthy, HostQuiet, hostVars, providerVars
  <2>2. NoSuccess
    BY <2>1, KilledFails DEF NoSuccess, TypeInv, TypeOK
  <2> QED BY <1>1, <2>1, <2>2
<1>5. CASE Expire
  <2>1. /\ UNCHANGED <<index, stored, cli, live, loggedOut, call, ceremony>> /\ trouble \subseteq trouble'
        /\ ~claim'.held
    BY <1>5 DEF Expire, Blame, NoClaim, HostQuiet, hostVars, providerVars
  <2> QED BY <1>1, <2>1, KilledFails
<1>6. CASE UNCHANGED vars
  <2>1. UNCHANGED <<index, stored, cli, live, loggedOut, call, ceremony, claim, trouble>>
    BY <1>6 DEF vars, hostVars, providerVars, loginVars
  <2> QED BY <1>1, <2>1, KilledFails
<1>7. CASE Next
  BY <1>2, <1>3, <1>4, <1>5, <1>7, ReturnableBegin, ReturnableSwitch, ReturnableRemove,
     ReturnableLogin, ReturnableLearn, ReturnableSnapshot, ReturnableIncoming, ReturnableRegister,
     ReturnableRestore, ReturnableDelete, ReturnableSave, ReturnableLogsIn, ReturnableRotate,
     ReturnableLogout DEF Next
<1> QED BY <1>6, <1>7

\* A listed account never has to log in again, unless it was logged out: its own
\* credential still works, in the keyring or where the CLI uses it, through switches,
\* logins, failed logins, the renewals of the CLI and the logouts of other accounts
\* (snapshot_active_account_credential, account_store.rs 351: the one that is given
\* up is saved first), as long as nothing fails and no two calls overlap.
THEOREM ListedReturn == Spec => []ListedCanReturn
<1>1. ASSUME Init PROVE Returnable
  <2>1. (\A c \in Clients : call[c] = Idle) /\ claim = NoClaim /\ index = NoIndex
    BY <1>1 DEF Init
  <2>2. \A c \in Clients : ~Under(c) /\ Carries(call[c])
    BY <2>1 DEF Under, Carries, Idle, LoginOps
  <2>3. cli \in live \cup {NoCredential} /\ Wanted = {} /\ ~Saved
    BY <1>1, <2>1, <2>2 DEF Init, Wanted, NoIndex, Saved, Claimed, NoClaim
  <2> QED BY <2>1, <2>2, <2>3 DEF Returnable, NoIndex
<1>2. Returnable => ListedCanReturn
  BY DEF Returnable, Undisturbed, Wanted, Works, Fresh, ListedCanReturn
<1>3. Returnable /\ AccountInv /\ [Next]_vars => Returnable'
  BY ReturnableInductive DEF AccountInv
<1>4. Init => Returnable
  BY <1>1
<1> QED BY <1>2, <1>3, <1>4, AccountInvariant, PTL DEF Spec
=============================================================================
