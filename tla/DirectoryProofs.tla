-------------------------- MODULE DirectoryProofs --------------------------
(***************************************************************************)
(* Proofs about Directory, for every set of requests, names and roles and  *)
(* every bound: SessionOfItsProvider, OIDCCodeOnce, SyncSparesOthers and   *)
(* the type invariant.                                                     *)
(*                                                                         *)
(* What makes them hold are facts about copies that may be out of date:    *)
(* an id that a request or the pass took from a row, or that a session     *)
(* names, is never given to another account, so what was true of the       *)
(* provider of that id stays true (Vouched, SyncOK); and a request that    *)
(* holds an OIDC state is the only one, since the state was removed when   *)
(* it was taken and is not drawn again (SpentOnce).                        *)
(***************************************************************************)
EXTENDS Directory, TLAPS, FiniteSetTheorems

(* Shapes. *)
LiveFlows == [stage: {"password", "otp"}, name: Names]
OIDCFlow == [stage |-> "oidc", name |-> "none"]
PCs == {"idle", "store", "clear", "find", "exchange", "bind", "upsert", "session", "enqueue", "delete"}
Request == [pc: PCs, tok: 0..MaxFlows, flow: LiveFlows \union {OIDCFlow, NoFlow}, name: Names \union {"none"},
            user: Nat, via: Providers \union {"none"}, code: 0..MaxFlows, role: Roles \union {"none"}]
Row == [id: Nat \ {0}, prov: Providers, role: Roles]
SyncState == [pc: {"idle", "users", "shadows", "queue", "del", "drop"}, remote: SUBSET Names,
              shadows: SUBSET [id: Nat, name: Names], names: SUBSET Names, cur: Names \union {"none"}]

(* What a request holds at each of its steps. *)
Holds(q) ==
    /\ q.pc \notin {"idle", "exchange"} => q.name \in Names
    /\ q.pc \in {"store", "clear"} => q.tok \in Tokens /\ q.flow \in LiveFlows
    /\ q.pc = "exchange" => q.tok \in Tokens /\ q.code \in Tokens
    /\ q.pc = "bind" => q.tok = 0 /\ q.code = 0 /\ q.via = "ldap"
    /\ q.pc = "upsert" => q.via \in Providers /\ q.role \in Roles /\ q.code = q.tok

(* The request holds an OIDC state. *)
Bearing(q) == q.pc \in {"exchange", "upsert"} /\ q.tok # 0

FlowsOK ==
    /\ drawn \in 0..MaxFlows
    /\ login \in [Tokens -> LiveFlows \union {NoFlow}] /\ oidc \in [Tokens -> {OIDCFlow, NoFlow}]

RequestsOK == req \in [Reqs -> Request] /\ \A r \in Reqs : Holds(req[r])

SpentOnce ==
    /\ \A r \in Reqs : Bearing(req[r]) => req[r].tok <= drawn /\ oidc[req[r].tok] = NoFlow
    /\ \A r, s \in Reqs : Bearing(req[r]) /\ Bearing(req[s]) /\ req[r].tok = req[s].tok => r = s

RowsOK ==
    /\ ids \in 0..MaxIds /\ users \in [Names -> Row \union {NoUser}]
    /\ \A n \in Names : users[n].id <= ids
    /\ \A m, n \in Names : users[m].id = users[n].id /\ users[m] # NoUser => m = n

(* The account n with the id i, as long as it exists, belongs to prov. *)
Vouches(i, n, prov) == i \in 1..ids /\ (users[n].id = i => users[n].prov = prov)

Vouched == \A r \in Reqs : req[r].pc = "session" => Vouches(req[r].user, req[r].name, req[r].via)

SessionsOK ==
    \A s \in sessions : s.name \in Names /\ s.user \in 1..ids /\ users[s.name].id = s.user /\ users[s.name].prov = s.via

SyncOK ==
    /\ sync \in SyncState /\ queue \subseteq Names
    /\ \A u \in sync.shadows, n \in Names : Vouches(u.id, n, "ldap")
    /\ sync.names \subseteq queue
    /\ sync.pc \in {"del", "drop"} => sync.cur \in Names \ sync.names

DirOK == dir \in [Names -> [entry: BOOLEAN, groups: GroupSets]]

FlowPart == FlowsOK /\ RequestsOK /\ SpentOnce
AccountPart == RowsOK /\ Vouched /\ SessionsOK /\ SyncOK /\ DirOK

(* The inductive invariant. *)
DInv == FlowPart /\ AccountPart

-----------------------------------------------------------------------------
(* Frames. *)

accounts == <<users, ids, sessions, dir, queue, sync>>

(* The request r becomes v, which holds no OIDC state that it did not hold *)
(* before.                                                                 *)
LEMMA ReqUpdate ==
    ASSUME FlowPart, NEW r \in Reqs, NEW v \in Request, Holds(v),
           Bearing(v) => Bearing(req[r]) /\ v.tok = req[r].tok,
           req' = [req EXCEPT ![r] = v], FlowsOK', UNCHANGED <<oidc, drawn>>
    PROVE  FlowPart'
<1>0. req \in [Reqs -> Request] /\ (\A s \in Reqs : Holds(req[s])) /\ SpentOnce
  BY DEF FlowPart, RequestsOK
<1>1. req' \in [Reqs -> Request]
  BY <1>0
<1>2. \A s \in Reqs : req'[s] = IF s = r THEN v ELSE req[s]
  BY <1>0
<1>3. RequestsOK'
  <2>1. \A s \in Reqs : Holds(req'[s])
    BY <1>0, <1>2
  <2> QED BY <1>1, <2>1 DEF RequestsOK, Holds
<1>4. \A s \in Reqs : Bearing(req'[s]) => Bearing(req[s]) /\ req'[s].tok = req[s].tok
  BY <1>2
<1>5. SpentOnce'
  <2>1. \A s \in Reqs : Bearing(req[s])' => Bearing(req[s]) /\ req'[s].tok = req[s].tok
    BY <1>4 DEF Bearing
  <2> QED BY <1>0, <2>1 DEF SpentOnce
<1> QED BY <1>3, <1>5 DEF FlowPart

(* An idle request has its type and holds neither token nor code. *)
LEMMA IdleRequest == Idle \in Request /\ Idle.pc = "idle" /\ Idle.tok = 0 /\ Idle.code = 0
BY LoginFlowAssumption DEF Idle, Request, PCs, NoFlow

(* The request ends. *)
LEMMA EndUpdate ==
    ASSUME FlowPart, NEW r \in Reqs, End(r), FlowsOK', UNCHANGED <<oidc, drawn>>
    PROVE  FlowPart'
<1>1. Holds(Idle) /\ ~Bearing(Idle)
  BY IdleRequest DEF Holds, Bearing
<1> QED BY <1>1, IdleRequest, ReqUpdate DEF End

(* Leaving the flows and the numbers drawn alone keeps what is said of them. *)
LEMMA FlowsKept == ASSUME FlowsOK, UNCHANGED <<login, oidc, drawn>> PROVE FlowsOK'
BY DEF FlowsOK

(* The same for the flows together with the requests that use them. *)
LEMMA FlowPartKept == ASSUME FlowPart, UNCHANGED flowVars PROVE FlowPart'
BY DEF FlowPart, FlowsOK, RequestsOK, SpentOnce, Holds, Bearing, flowVars

(* What a change of the users table may do: a row keeps its account, goes, *)
(* or is a new account under the next id.                                  *)
Evolves ==
    /\ ids' \in Nat /\ ids <= ids'
    /\ \A n \in Names :
         \/ users'[n].id = users[n].id /\ users'[n].prov = users[n].prov
         \/ users'[n] = NoUser
         \/ users[n] = NoUser /\ users'[n].id = ids + 1

(* The same of the next state, for an account that is named now. *)
StillVouches(i, n, prov) == i \in 1..ids' /\ (users'[n].id = i => users'[n].prov = prov)

(* What was known of an id stays true. *)
LEMMA VouchesKept ==
    ASSUME RowsOK, Evolves, NEW i, NEW n \in Names, NEW prov, Vouches(i, n, prov)
    PROVE  StillVouches(i, n, prov)
<1>1. ids \in Nat /\ i \in 1..ids /\ (users[n].id = i => users[n].prov = prov)
  BY DirectoryAssumption DEF RowsOK, Vouches
<1>2. i \in 1..ids' /\ i # ids + 1 /\ i # 0 /\ NoUser.id = 0
  BY <1>1 DEF Evolves, NoUser
<1> QED BY <1>1, <1>2 DEF Evolves, StillVouches

(* Leaving the accounts alone is an evolution of them. *)
LEMMA NoEvolution == ASSUME RowsOK, UNCHANGED <<users, ids>> PROVE RowsOK' /\ Evolves
BY DirectoryAssumption DEF RowsOK, Evolves

(* A step of a request that is not yet about to create a session, or that  *)
(* gets there with an id that its provider vouches for.                    *)
LEMMA VouchedUpdate ==
    ASSUME RequestsOK, RowsOK, Vouched, Evolves, NEW r \in Reqs, NEW v,
           req' = [req EXCEPT ![r] = v],
           v.pc = "session" => StillVouches(v.user, v.name, v.via)
    PROVE  Vouched'
<1>1. \A s \in Reqs : req'[s] = IF s = r THEN v ELSE req[s]
  BY DEF RequestsOK
<1>2. ASSUME NEW s \in Reqs, req'[s].pc = "session"
      PROVE  StillVouches(req'[s].user, req'[s].name, req'[s].via)
  <2>1. CASE s = r
    BY <1>1, <1>2, <2>1
  <2>2. CASE s # r
    <3>1. req'[s] = req[s] /\ Holds(req[s])
      BY <1>1, <2>2 DEF RequestsOK
    <3>2. req[s].name \in Names /\ Vouches(req[s].user, req[s].name, req[s].via)
      BY <1>2, <3>1 DEF Vouched, Holds
    <3> QED BY <3>1, <3>2, VouchesKept
  <2> QED BY <2>1, <2>2
<1> QED BY <1>2 DEF Vouched, Vouches, StillVouches

(* The requests are left alone while the accounts change. *)
LEMMA VouchedKept ==
    ASSUME RequestsOK, RowsOK, Vouched, Evolves, UNCHANGED req PROVE Vouched'
<1>1. ASSUME NEW s \in Reqs, req[s].pc = "session"
      PROVE  StillVouches(req[s].user, req[s].name, req[s].via)
  <2>1. req[s].name \in Names /\ Vouches(req[s].user, req[s].name, req[s].via)
    BY <1>1 DEF RequestsOK, Holds, Vouched
  <2> QED BY <2>1, VouchesKept
<1> QED BY <1>1 DEF Vouched, Vouches, StillVouches

(* The pass is left alone while the accounts change. *)
LEMMA SyncKept ==
    ASSUME RowsOK, SyncOK, Evolves, UNCHANGED sync, queue \subseteq queue', queue' \subseteq Names PROVE SyncOK'
<1>1. ASSUME NEW u \in sync.shadows, NEW n \in Names
      PROVE  StillVouches(u.id, n, "ldap")
  <2>1. Vouches(u.id, n, "ldap")
    BY DEF SyncOK
  <2> QED BY <2>1, VouchesKept
<1>2. \A u \in sync'.shadows, n \in Names : StillVouches(u.id, n, "ldap")
  BY <1>1
<1>3. \A u \in sync'.shadows, n \in Names : Vouches(u.id, n, "ldap")'
  BY <1>2 DEF Vouches, StillVouches
<1> QED BY <1>3 DEF SyncOK

(* A step of a request that leaves the accounts as they are. *)
LEMMA RequestOnly ==
    ASSUME DInv, FlowPart', UNCHANGED accounts, NEW r \in Reqs, NEW v, req' = [req EXCEPT ![r] = v],
           v.pc = "session" => StillVouches(v.user, v.name, v.via)
    PROVE  DInv'
<1>1. RequestsOK /\ RowsOK /\ Vouched /\ SessionsOK /\ SyncOK /\ DirOK
  BY DEF DInv, FlowPart, AccountPart
<1>2. RowsOK' /\ Evolves
  BY <1>1, NoEvolution DEF accounts
<1>3. Vouched'
  BY <1>1, <1>2, VouchedUpdate
<1>4. SessionsOK' /\ DirOK'
  BY <1>1 DEF SessionsOK, DirOK, accounts
<1>5. SyncOK'
  BY <1>1, <1>2, SyncKept DEF accounts, SyncOK
<1> QED BY <1>2, <1>3, <1>4, <1>5 DEF DInv, AccountPart

(* A request that ends without touching accounts or codes preserves the invariant. *)
LEMMA EndOnly ==
    ASSUME DInv, UNCHANGED accounts, NEW r \in Reqs, End(r), FlowsOK', UNCHANGED <<oidc, drawn>>
    PROVE  DInv'
<1>1. FlowPart'
  BY EndUpdate DEF DInv
<1>2. Idle.pc # "session"
  BY DEF Idle
<1> QED BY <1>1, <1>2, RequestOnly DEF End

(* A step that leaves requests and accounts as they are. *)
LEMMA AccountsKept ==
    ASSUME DInv, FlowPart', UNCHANGED accounts, UNCHANGED req PROVE DInv'
<1>1. RequestsOK /\ RowsOK /\ Vouched /\ SessionsOK /\ SyncOK /\ DirOK
  BY DEF DInv, FlowPart, AccountPart
<1>2. RowsOK' /\ Evolves
  BY <1>1, NoEvolution DEF accounts
<1>3. Vouched'
  BY <1>1, <1>2, VouchedKept
<1>4. SessionsOK' /\ DirOK'
  BY <1>1 DEF SessionsOK, DirOK, accounts
<1>5. SyncOK'
  BY <1>1, <1>2, SyncKept DEF accounts, SyncOK
<1> QED BY <1>2, <1>3, <1>4, <1>5 DEF DInv, AccountPart

-----------------------------------------------------------------------------
(* The login flows. *)

(* The absent flow is no live one; a live flow has a stage and a name. *)
LEMMA NoFlowKinds ==
    /\ NoFlow \notin LiveFlows /\ OIDCFlow # NoFlow /\ NoFlow.stage = "none"
    /\ \A f \in LiveFlows : f.stage \in {"password", "otp"} /\ f.name \in Names
<1>1. NoFlow.stage = "none" /\ OIDCFlow.stage = "oidc"
  BY DEF NoFlow, OIDCFlow
<1>2. \A f \in LiveFlows : f.stage \in {"password", "otp"} /\ f.name \in Names
  BY DEF LiveFlows
<1> QED BY <1>1, <1>2

(* The flows change and the requests do not. *)
LEMMA FlowsOnlyUpdate ==
    ASSUME FlowPart, FlowsOK', UNCHANGED req, drawn' \in {drawn, drawn + 1},
           \A t \in Tokens : t <= drawn /\ oidc[t] = NoFlow => oidc'[t] = NoFlow
    PROVE  FlowPart'
<1>1. RequestsOK'
  BY DEF FlowPart, RequestsOK, Holds
<1>2. SpentOnce'
  <2>1. ASSUME NEW r \in Reqs, Bearing(req[r]) PROVE req[r].tok <= drawn' /\ oidc'[req[r].tok] = NoFlow
    <3>1. req[r].tok <= drawn /\ oidc[req[r].tok] = NoFlow
      BY <2>1 DEF FlowPart, SpentOnce
    <3>2. req[r].tok \in Tokens /\ drawn \in Nat
      BY <2>1, LoginFlowAssumption DEF FlowPart, FlowsOK, RequestsOK, Request, Bearing, Tokens
    <3> QED BY <3>1, <3>2 DEF Tokens
  <2> QED BY <2>1 DEF FlowPart, SpentOnce, Bearing
<1> QED BY <1>1, <1>2 DEF FlowPart

(* A flow is begun or expires. *)
LEMMA FlowBegunOrExpired ==
    ASSUME DInv, UNCHANGED accounts,
           handleLoginOIDCStart \/ (\E t \in Tokens : Expire(t)) \/ (\E n \in Names : handleLoginStart(n))
    PROVE  DInv'
<1>0. FlowPart /\ FlowsOK /\ drawn \in Nat
  BY LoginFlowAssumption DEF DInv, FlowPart, FlowsOK
<1>1. CASE handleLoginOIDCStart
  <2>1. drawn + 1 \in Tokens /\ drawn' = drawn + 1 /\ UNCHANGED <<login, req>>
    BY <1>0, <1>1, LoginFlowAssumption DEF handleLoginOIDCStart, Tokens
  <2>2. oidc' = [oidc EXCEPT ![drawn + 1] = OIDCFlow]
    BY <1>1 DEF handleLoginOIDCStart, NewFlow, OIDCFlow
  <2>3. FlowsOK'
    BY <1>0, <2>1, <2>2, LoginFlowAssumption DEF FlowsOK, Tokens
  <2>4. \A t \in Tokens : t <= drawn /\ oidc[t] = NoFlow => oidc'[t] = NoFlow
    BY <1>0, <2>1, <2>2 DEF FlowsOK, Tokens
  <2>5. FlowPart'
    BY <1>0, <2>1, <2>3, <2>4, FlowsOnlyUpdate
  <2> QED BY <2>1, <2>5, AccountsKept
<1>2. ASSUME NEW t \in Tokens, Expire(t) PROVE DInv'
  <2>1. FlowsOK' /\ UNCHANGED <<req, drawn>> /\ \A u \in Tokens : oidc[u] = NoFlow => oidc'[u] = NoFlow
    BY <1>0, <1>2 DEF Expire, FlowsOK
  <2>2. FlowPart'
    BY <1>0, <2>1, FlowsOnlyUpdate
  <2> QED BY <2>1, <2>2, AccountsKept
<1>3. ASSUME NEW n \in Names, handleLoginStart(n) PROVE DInv'
  <2>1. drawn + 1 \in Tokens /\ drawn' = drawn + 1 /\ UNCHANGED <<oidc, req>>
    BY <1>0, <1>3, LoginFlowAssumption DEF handleLoginStart, Tokens
  <2>2. NewFlow("password", n) \in LiveFlows /\ login' = [login EXCEPT ![drawn + 1] = NewFlow("password", n)]
    BY <1>3 DEF handleLoginStart, NewFlow, LiveFlows
  <2>3. FlowsOK'
    BY <1>0, <2>1, <2>2, LoginFlowAssumption DEF FlowsOK, Tokens
  <2>4. FlowPart'
    BY <1>0, <2>1, <2>3, FlowsOnlyUpdate
  <2> QED BY <2>1, <2>4, AccountsKept
<1> QED BY <1>1, <1>2, <1>3

(* A request of a login by password finds its flow, or ends it. *)
LEMMA FlowRequired ==
    ASSUME DInv, UNCHANGED accounts, NEW r \in Reqs, NEW t \in Tokens, NEW same,
           handleLoginPassword(r, t, same) \/ handleLoginFinish(r, t, same)
    PROVE  DInv'
<1>0. FlowPart /\ FlowsOK /\ UNCHANGED <<oidc, drawn>>
  BY DEF DInv, FlowPart, handleLoginPassword, handleLoginFinish, requireLoginFlow
<1>1. PICK stage \in {"password", "otp"}, pc \in {"store", "clear"} : requireLoginFlow(r, t, same, stage, pc)
  BY DEF handleLoginPassword, handleLoginFinish
<1>2. CASE login[t].stage = stage /\ same
  <2> DEFINE v == [Idle EXCEPT !.pc = pc, !.tok = t, !.flow = login[t], !.name = login[t].name]
  <2>1. req' = [req EXCEPT ![r] = v] /\ UNCHANGED login
    BY <1>1, <1>2 DEF requireLoginFlow
  <2>2. login[t] \in LiveFlows /\ login[t].name \in Names
    BY <1>0, <1>2, NoFlowKinds DEF FlowsOK
  <2>3. /\ v \in Request /\ v.pc = pc /\ v.tok = t /\ v.flow = login[t] /\ v.name = login[t].name
    <3>1. t \in 0..MaxFlows
      BY LoginFlowAssumption DEF Tokens
    <3> QED BY <2>2, <3>1, IdleRequest DEF Request, PCs
  <2> HIDE DEF v
  <2>4. Holds(v) /\ ~Bearing(v) /\ v.pc # "session"
    BY <2>2, <2>3 DEF Holds, Bearing
  <2>5. FlowPart'
    BY <1>0, <2>1, <2>3, <2>4, FlowsKept, ReqUpdate
  <2> QED BY <2>1, <2>4, <2>5, RequestOnly
<1>3. CASE ~(login[t].stage = stage /\ same)
  <2>1. login' = [login EXCEPT ![t] = NoFlow] /\ UNCHANGED req
    BY <1>1, <1>3 DEF requireLoginFlow
  <2>2. FlowsOK'
    BY <1>0, <2>1 DEF FlowsOK
  <2>3. FlowPart'
    BY <1>0, <2>1, <2>2, FlowsOnlyUpdate
  <2> QED BY <2>1, <2>3, AccountsKept
<1> QED BY <1>2, <1>3

(* The copy is put back, or the flow is cleared. *)
LEMMA FlowStored ==
    ASSUME DInv, UNCHANGED accounts, NEW r \in Reqs, StoreLoginPassword(r) \/ clearLoginFlow(r) PROVE DInv'
<1>0. FlowPart /\ FlowsOK /\ UNCHANGED <<oidc, drawn>> /\ req \in [Reqs -> Request] /\ Holds(req[r])
  BY DEF DInv, FlowPart, RequestsOK, StoreLoginPassword, clearLoginFlow
<1>1. req[r].tok \in Tokens /\ req[r].flow \in LiveFlows /\ req[r].name \in Names /\ req[r] \in Request
  BY <1>0 DEF StoreLoginPassword, clearLoginFlow, At, Holds
<1>2. CASE StoreLoginPassword(r)
  <2>1. [req[r].flow EXCEPT !.stage = "otp"] \in LiveFlows
    BY <1>1 DEF LiveFlows
  <2>2. FlowsOK' /\ End(r)
    BY <1>0, <1>1, <1>2, <2>1 DEF FlowsOK, StoreLoginPassword
  <2> QED BY <1>0, <2>2, EndOnly
<1>3. CASE clearLoginFlow(r)
  <2> DEFINE v == [req[r] EXCEPT !.pc = "find"]
  <2>1. FlowsOK' /\ req' = [req EXCEPT ![r] = v]
    BY <1>0, <1>1, <1>3 DEF FlowsOK, clearLoginFlow, Goto
  <2>2. v \in Request /\ v.pc = "find" /\ v.name = req[r].name
    BY <1>1 DEF Request, PCs
  <2> HIDE DEF v
  <2>3. Holds(v) /\ ~Bearing(v) /\ v.pc # "session"
    BY <1>1, <2>2 DEF Holds, Bearing
  <2>4. FlowPart'
    BY <1>0, <2>1, <2>2, <2>3, ReqUpdate
  <2> QED BY <2>1, <2>3, <2>4, RequestOnly
<1> QED BY <1>2, <1>3

(* The callback takes the state: whoever held it before took it too, and   *)
(* then it was gone.                                                       *)
LEMMA CallbackStep ==
    ASSUME DInv, UNCHANGED accounts, NEW r \in Reqs, NEW t \in Tokens, NEW same, NEW code \in Tokens,
           handleLoginOIDCCallback(r, t, same, code)
    PROVE  DInv'
<1>0. /\ FlowPart /\ FlowsOK /\ SpentOnce /\ req \in [Reqs -> Request] /\ (\A s \in Reqs : Holds(req[s]))
      /\ UNCHANGED <<login, drawn>> /\ t <= drawn /\ oidc' = [oidc EXCEPT ![t] = NoFlow]
  BY DEF DInv, FlowPart, RequestsOK, handleLoginOIDCCallback, taken, Begun
<1>1. FlowsOK' /\ oidc'[t] = NoFlow /\ \A u \in Tokens : oidc[u] = NoFlow => oidc'[u] = NoFlow
  BY <1>0 DEF FlowsOK
<1>2. CASE oidc[t] # NoFlow /\ same
  <2> DEFINE v == [Idle EXCEPT !.pc = "exchange", !.tok = t, !.flow = oidc[t], !.code = code]
  <2>1. req' = [req EXCEPT ![r] = v]
    BY <1>2 DEF handleLoginOIDCCallback
  <2>2. v \in Request /\ v.pc = "exchange" /\ v.tok = t /\ v.code = code
    <3>1. oidc[t] = OIDCFlow
      BY <1>0, <1>2 DEF FlowsOK
    <3>2. t \in 0..MaxFlows /\ code \in 0..MaxFlows
      BY LoginFlowAssumption DEF Tokens
    <3> QED BY <3>1, <3>2, IdleRequest DEF Request, PCs
  <2> HIDE DEF v
  <2>3. \A s \in Reqs : req'[s] = IF s = r THEN v ELSE req[s]
    BY <1>0, <2>1
  <2>4. RequestsOK'
    <3>1. Holds(v)
      BY <2>2 DEF Holds
    <3>2. req' \in [Reqs -> Request] /\ \A s \in Reqs : Holds(req'[s])
      BY <1>0, <2>1, <2>2, <2>3, <3>1
    <3> QED BY <3>2 DEF RequestsOK, Holds
  <2>5. \A s \in Reqs : Bearing(req[s]) => req[s].tok # t /\ req[s].tok \in Tokens
    <3>1. \A s \in Reqs : Bearing(req[s]) => req[s].tok \in Tokens
      BY <1>0, LoginFlowAssumption DEF Bearing, Request, Tokens
    <3> QED BY <1>0, <1>2, <3>1 DEF SpentOnce
  <2>6. SpentOnce'
    <3>1. \A s \in Reqs : Bearing(req'[s]) =>
            req'[s].tok <= drawn' /\ oidc'[req'[s].tok] = NoFlow /\ (s # r => Bearing(req[s]) /\ req'[s].tok # t)
      BY <1>0, <1>1, <2>2, <2>3, <2>5 DEF SpentOnce
    <3>2. \A s, u \in Reqs : Bearing(req'[s]) /\ Bearing(req'[u]) /\ req'[s].tok = req'[u].tok => s = u
      BY <1>0, <2>2, <2>3, <3>1 DEF SpentOnce
    <3> QED BY <3>1, <3>2 DEF SpentOnce, Bearing
  <2>7. FlowPart' /\ v.pc # "session"
    BY <1>1, <2>2, <2>4, <2>6 DEF FlowPart
  <2> QED BY <2>1, <2>7, RequestOnly
<1>3. CASE ~(oidc[t] # NoFlow /\ same)
  <2>1. UNCHANGED req
    BY <1>3 DEF handleLoginOIDCCallback
  <2>2. FlowPart'
    BY <1>0, <1>1, <2>1, FlowsOnlyUpdate
  <2> QED BY <2>1, <2>2, AccountsKept
<1> QED BY <1>2, <1>3

(* The steps of the login flow change no account and preserve the invariant. *)
LEMMA LoginFlowSteps == ASSUME DInv, UNCHANGED accounts, LoginFlowStep PROVE DInv'
BY FlowBegunOrExpired, FlowRequired, FlowStored, CallbackStep DEF LoginFlowStep

-----------------------------------------------------------------------------
(* Logins. *)

(* A set of groups maps to a role or to none. *)
LEMMA RoleType == ASSUME NEW g \in GroupSets PROVE roleOf(g) = "none" \/ roleOf(g) \in Roles
BY DirectoryAssumption DEF roleOf

(* The record of a request after a lookup. *)
CheckedAs(r, pc, id, via) == [Idle EXCEPT !.pc = pc, !.name = req[r].name, !.user = id, !.via = via]

(* A request past its password check holds the account and the provider it was checked by. *)
LEMMA CheckedShape ==
    ASSUME NEW r \in Reqs, req[r].name \in Names, NEW pc \in {"session", "bind"}, NEW id \in Nat,
           NEW via \in Providers, pc = "bind" => via = "ldap"
    PROVE  LET v == CheckedAs(r, pc, id, via)
           IN  v \in Request /\ Holds(v) /\ ~Bearing(v) /\ v.pc = pc /\ v.user = id /\ v.name = req[r].name /\ v.via = via
<1> DEFINE v == CheckedAs(r, pc, id, via)
<1>1. /\ v \in Request /\ v.pc = pc /\ v.user = id /\ v.name = req[r].name /\ v.via = via
      /\ v.tok = 0 /\ v.code = 0
  BY IdleRequest DEF Request, PCs, CheckedAs
<1> HIDE DEF v
<1>2. Holds(v) /\ ~Bearing(v)
  BY <1>1 DEF Holds, Bearing
<1> QED BY <1>1, <1>2 DEF v

(* The identity token, the lookup of the row, the directory's answer. *)
LEMMA LoginChecks ==
    ASSUME DInv, NEW r \in Reqs,
           LoginExchange(r) \/ LoginRefused(r) \/ LoginFindUser(r) \/ LoginBind(r)
    PROVE  DInv'
<1>0. /\ FlowPart /\ RowsOK /\ DirOK /\ req \in [Reqs -> Request] /\ req[r] \in Request /\ Holds(req[r])
      /\ UNCHANGED accounts /\ UNCHANGED <<login, oidc, drawn>> /\ FlowsOK'
  BY FlowsKept DEF DInv, FlowPart, AccountPart, RequestsOK, LoginExchange, ExchangeCode, LoginRefused, LoginFindUser,
     LoginBind, flowsOnly, accounts
<1>1. CASE End(r)
  BY <1>0, <1>1, EndOnly
<1>2. ASSUME NEW n \in Names, NEW g \in GroupSets, At(r, "exchange"), req[r].tok = req[r].code, roleOf(g) # "none",
             req' = [req EXCEPT ![r].pc = "upsert", ![r].name = n, ![r].via = "oidc", ![r].role = roleOf(g)]
      PROVE  DInv'
  <2> DEFINE v == [req[r] EXCEPT !.pc = "upsert", !.name = n, !.via = "oidc", !.role = roleOf(g)]
  <2>1. req' = [req EXCEPT ![r] = v]
    BY <1>0, <1>2
  <2>2. roleOf(g) \in Roles
    BY <1>2, RoleType
  <2>3. /\ v \in Request /\ v.pc = "upsert" /\ v.name = n /\ v.via = "oidc" /\ v.role = roleOf(g)
        /\ v.tok = req[r].tok /\ v.code = req[r].code
    BY <1>0, <2>2 DEF Request, PCs, Providers
  <2> HIDE DEF v
  <2>4. Holds(v) /\ v.pc # "session" /\ (Bearing(v) => Bearing(req[r]) /\ v.tok = req[r].tok)
    BY <1>2, <2>2, <2>3 DEF Holds, Bearing, At, Providers
  <2>5. FlowPart'
    BY <1>0, <2>1, <2>3, <2>4, ReqUpdate
  <2> QED BY <1>0, <2>1, <2>4, <2>5, RequestOnly
<1>3. CASE LoginFindUser(r)
  <2> DEFINE u == users[req[r].name]
  <2>1. req[r].name \in Names
    BY <1>0, <1>3 DEF LoginFindUser, At, Holds
  <2>2. u \in Row \union {NoUser} /\ u.id <= ids /\ ids \in Nat
    BY <1>0, <2>1, DirectoryAssumption DEF RowsOK
  <2>3. CASE u.prov = "oidc"
    BY <1>1, <1>3, <2>3 DEF LoginFindUser
  <2>4. CASE u.prov = "local"
    <3>1. u.id \in Nat \ {0}
      BY <2>2, <2>4 DEF Row, NoUser
    <3> DEFINE v == CheckedAs(r, "session", u.id, "local")
    <3>2. req' = [req EXCEPT ![r] = v]
      BY <1>3, <2>4 DEF LoginFindUser, Checked, CheckedAs
    <3>3. /\ v \in Request /\ Holds(v) /\ ~Bearing(v) /\ v.pc = "session" /\ v.user = u.id
          /\ v.name = req[r].name /\ v.via = "local"
      BY <2>1, <3>1, CheckedShape DEF Providers
    <3> HIDE DEF v
    <3>4. FlowPart'
      BY <1>0, <3>2, <3>3, ReqUpdate
    <3>5. StillVouches(v.user, v.name, v.via)
      <4>1. v.user \in 1..ids /\ users[v.name].prov = v.via
        BY <2>2, <2>4, <3>1, <3>3
      <4>2. req'[r] = v /\ UNCHANGED <<users, ids>>
        BY <1>0, <3>2 DEF accounts
      <4> QED BY <4>1, <4>2 DEF StillVouches
    <3> QED BY <1>0, <3>2, <3>4, <3>5, RequestOnly
  <2>5. CASE u.prov \notin {"oidc", "local"}
    <3>1. u.id \in Nat
      BY <2>2 DEF Row, NoUser
    <3> DEFINE v == CheckedAs(r, "bind", u.id, "ldap")
    <3>2. req' = [req EXCEPT ![r] = v]
      BY <1>3, <2>5 DEF LoginFindUser, Checked, CheckedAs
    <3>3. v \in Request /\ Holds(v) /\ ~Bearing(v) /\ v.pc = "bind"
      BY <2>1, <3>1, CheckedShape DEF Providers
    <3> HIDE DEF v
    <3>4. FlowPart'
      BY <1>0, <3>2, <3>3, ReqUpdate
    <3> QED BY <1>0, <3>2, <3>3, <3>4, RequestOnly
  <2> QED BY <2>3, <2>4, <2>5
<1>4. CASE LoginBind(r) /\ ~End(r)
  <2> DEFINE role == roleOf(dir[req[r].name].groups)
             v == [req[r] EXCEPT !.pc = "upsert", !.role = role]
  <2>1. At(r, "bind") /\ role # "none" /\ req' = [req EXCEPT ![r].pc = "upsert", ![r].role = role]
    BY <1>4 DEF LoginBind
  <2>2. req' = [req EXCEPT ![r] = v]
    BY <1>0, <2>1
  <2>3. req[r].name \in Names /\ req[r].via = "ldap" /\ req[r].tok = 0 /\ req[r].code = 0
    BY <1>0, <2>1 DEF At, Holds
  <2>4. role \in Roles
    BY <1>0, <2>1, <2>3, RoleType DEF DirOK
  <2> HIDE DEF role
  <2>5. /\ v \in Request /\ v.pc = "upsert" /\ v.name = req[r].name /\ v.via = "ldap" /\ v.role = role
        /\ v.tok = 0 /\ v.code = 0
    BY <1>0, <2>3, <2>4 DEF Request, PCs
  <2> HIDE DEF v
  <2>6. Holds(v) /\ ~Bearing(v) /\ v.pc # "session"
    BY <2>3, <2>4, <2>5 DEF Holds, Bearing, Providers
  <2>7. FlowPart'
    BY <1>0, <2>2, <2>5, <2>6, ReqUpdate
  <2> QED BY <1>0, <2>2, <2>6, <2>7, RequestOnly
<1>5. CASE LoginExchange(r)
  BY <1>1, <1>2, <1>5 DEF LoginExchange, ExchangeCode, oidcNonceMatch
<1>6. CASE LoginRefused(r)
  BY <1>1, <1>6 DEF LoginRefused
<1> QED BY <1>1, <1>3, <1>4, <1>5, <1>6

(* The tables change: an account is inserted, its role is set, or it goes. *)
LEMMA NewAccount ==
    ASSUME RowsOK, SessionsOK, NEW n \in Names, NEW prov \in Providers, NEW role \in Roles,
           users[n] = NoUser, ids < MaxIds, ids' = ids + 1, UNCHANGED sessions,
           users' = [users EXCEPT ![n] = [id |-> ids + 1, prov |-> prov, role |-> role]]
    PROVE  /\ RowsOK' /\ Evolves /\ SessionsOK'
           /\ users'[n].id = ids + 1 /\ users'[n].prov = prov /\ ids + 1 \in 1..ids'
<1> DEFINE new == [id |-> ids + 1, prov |-> prov, role |-> role]
<1>0. ids \in Nat /\ users \in [Names -> Row \union {NoUser}] /\ NoUser.id = 0 /\ NoUser \notin Row
  BY DirectoryAssumption DEF RowsOK, NoUser, Row
<1>1. new \in Row /\ new.id = ids + 1 /\ new.prov = prov
  BY <1>0 DEF Row
<1> HIDE DEF new
<1>2. users' = [users EXCEPT ![n] = new]
  BY DEF new
<1>3. \A m \in Names : users'[m] = IF m = n THEN new ELSE users[m]
  BY <1>0, <1>2
<1>4. RowsOK'
  <2>1. ids' \in 0..MaxIds /\ users' \in [Names -> Row \union {NoUser}]
    BY <1>0, <1>1, <1>2, DirectoryAssumption
  <2>2. \A m \in Names : users[m].id \in Nat /\ users[m].id <= ids /\ (users[m].id = 0 => users[m] = NoUser)
    BY <1>0 DEF RowsOK, Row
  <2>3. \A m \in Names : users'[m].id <= ids'
    BY <1>0, <1>1, <1>3, <2>2
  <2>4. \A m, k \in Names : users'[m].id = users'[k].id /\ users'[m] # NoUser => m = k
    BY <1>0, <1>1, <1>3, <2>2 DEF RowsOK
  <2> QED BY <2>1, <2>3, <2>4 DEF RowsOK
<1>5. Evolves
  BY <1>0, <1>1, <1>3 DEF Evolves
<1>6. SessionsOK'
  <2>1. \A s \in sessions : s.name # n
    BY <1>0 DEF SessionsOK
  <2> QED BY <1>0, <1>3, <2>1 DEF SessionsOK
<1> QED BY <1>0, <1>1, <1>3, <1>4, <1>5, <1>6

(* A new role keeps every account and every session what it was. *)
LEMMA RoleChange ==
    ASSUME RowsOK, SessionsOK, NEW n \in Names, NEW role \in Roles, users[n] # NoUser,
           UNCHANGED <<ids, sessions>>, users' = [users EXCEPT ![n].role = role]
    PROVE  RowsOK' /\ Evolves /\ SessionsOK'
<1>0. ids \in Nat /\ users \in [Names -> Row \union {NoUser}] /\ users[n] \in Row
  BY DirectoryAssumption DEF RowsOK
<1> DEFINE new == [users[n] EXCEPT !.role = role]
<1>1. new \in Row /\ new.id = users[n].id /\ new.prov = users[n].prov /\ new # NoUser
  <2>1. new \in Row /\ new.id = users[n].id /\ new.prov = users[n].prov
    BY <1>0 DEF Row
  <2> QED BY <1>0, <2>1 DEF Row, NoUser
<1>2. users' = [users EXCEPT ![n] = new]
  BY <1>0
<1> HIDE DEF new
<1>3. \A m \in Names : users'[m] = IF m = n THEN new ELSE users[m]
  BY <1>0, <1>2
<1>4. \A m \in Names : users'[m].id = users[m].id /\ users'[m].prov = users[m].prov /\ (users'[m] = NoUser <=> users[m] = NoUser)
  BY <1>1, <1>3
<1>5. users' \in [Names -> Row \union {NoUser}]
  BY <1>0, <1>1, <1>2
<1> QED BY <1>0, <1>4, <1>5 DEF RowsOK, Evolves, SessionsOK

(* A deleted account takes its sessions with it. *)
LEMMA AccountGone ==
    ASSUME RowsOK, SessionsOK, NEW i, DeleteRow(i), UNCHANGED ids
    PROVE  RowsOK' /\ Evolves /\ SessionsOK'
<1>0. ids \in Nat /\ users \in [Names -> Row \union {NoUser}] /\ NoUser.id = 0
  BY DirectoryAssumption DEF RowsOK, NoUser
<1>1. users' = [n \in Names |-> IF users[n].id = i THEN NoUser ELSE users[n]]
  BY DEF DeleteRow
<1>2. \A n \in Names : users'[n] = NoUser \/ (users'[n] = users[n] /\ users[n].id # i)
  BY <1>1
<1>3. RowsOK'
  <2>1. users' \in [Names -> Row \union {NoUser}]
    BY <1>0, <1>1
  <2>2. \A m \in Names : users'[m].id <= ids'
    BY <1>0, <1>2 DEF RowsOK
  <2>3. \A m, k \in Names : users'[m].id = users'[k].id /\ users'[m] # NoUser => m = k
    <3>1. \A m \in Names : users[m] # NoUser => users[m].id # 0
      BY <1>0 DEF Row
    <3> QED BY <1>0, <1>2, <3>1 DEF RowsOK
  <2> QED BY <1>0, <2>1, <2>2, <2>3 DEF RowsOK
<1>4. Evolves
  BY <1>0, <1>2 DEF Evolves
<1>5. SessionsOK'
  BY <1>1 DEF SessionsOK, DeleteRow
<1> QED BY <1>3, <1>4, <1>5

(* The accounts change and the pass does not. *)
LEMMA AccountChange ==
    ASSUME DInv, FlowPart', RowsOK', Evolves, SessionsOK', Vouched', UNCHANGED <<dir, queue, sync>>
    PROVE  DInv'
<1>1. SyncOK'
  BY SyncKept DEF DInv, AccountPart, SyncOK
<1>2. DirOK'
  BY DEF DInv, AccountPart, DirOK
<1> QED BY <1>1, <1>2 DEF DInv, AccountPart

(* UpsertExternalUser. *)
LEMMA UpsertStep == ASSUME DInv, NEW r \in Reqs, LoginUpsert(r) PROVE DInv'
<1> DEFINE q == req[r]
           n == q.name
           u == users[n]
           first == q.via = "ldap" /\ q.user = 0
<1>0. /\ FlowPart /\ RequestsOK /\ RowsOK /\ Vouched /\ SessionsOK /\ q \in Request /\ Holds(q)
      /\ req \in [Reqs -> Request] /\ UNCHANGED <<login, oidc, drawn>> /\ FlowsOK' /\ ids \in Nat
      /\ UNCHANGED <<sessions, dir, queue, sync>>
  BY FlowsKept, DirectoryAssumption DEF DInv, FlowPart, AccountPart, RequestsOK, RowsOK, LoginUpsert, flowsOnly
<1>1. n \in Names /\ q.via \in Providers /\ q.role \in Roles
  BY <1>0 DEF LoginUpsert, At, Holds
<1>2. Idle.pc # "session"
  BY IdleRequest
<1>3. ASSUME RowsOK', Evolves, SessionsOK', NEW id \in Nat, StillVouches(id, n, q.via),
             IF first THEN End(r) ELSE Checked(r, "session", id, q.via)
      PROVE  DInv'
  <2>1. CASE first
    <3>1. FlowPart' /\ End(r)
      BY <1>0, <1>3, <2>1, EndUpdate
    <3>2. Vouched'
      BY <1>0, <1>2, <1>3, <3>1, VouchedUpdate DEF End
    <3> QED BY <1>0, <1>3, <3>1, <3>2, AccountChange
  <2>2. CASE ~first
    <3> DEFINE v == CheckedAs(r, "session", id, q.via)
    <3>1. req' = [req EXCEPT ![r] = v]
      BY <1>3, <2>2 DEF Checked, CheckedAs
    <3>2. v \in Request /\ Holds(v) /\ ~Bearing(v) /\ v.user = id /\ v.name = n /\ v.via = q.via
      BY <1>1, CheckedShape
    <3> HIDE DEF v
    <3>3. FlowPart'
      BY <1>0, <3>1, <3>2, ReqUpdate
    <3>4. Vouched'
      BY <1>0, <1>3, <3>1, <3>2, VouchedUpdate
    <3> QED BY <1>0, <1>3, <3>3, <3>4, AccountChange
  <2> QED BY <2>1, <2>2
<1>4. CASE u = NoUser
  <2>1. /\ ids < MaxIds /\ ids' = ids + 1
        /\ users' = [users EXCEPT ![n] = [id |-> ids + 1, prov |-> q.via, role |-> q.role]]
        /\ IF first THEN End(r) ELSE Checked(r, "session", ids + 1, q.via)
    BY <1>4 DEF LoginUpsert
  <2>2. /\ RowsOK' /\ Evolves /\ SessionsOK'
        /\ users'[n].id = ids + 1 /\ users'[n].prov = q.via /\ ids + 1 \in 1..ids'
    BY <1>0, <1>1, <1>4, <2>1, NewAccount
  <2>3. StillVouches(ids + 1, n, q.via) /\ ids + 1 \in Nat
    BY <1>0, <2>2 DEF StillVouches
  <2> QED BY <1>3, <2>1, <2>2, <2>3
<1>5. CASE u # NoUser /\ mayUpdate(u, q.via)
  <2>1. /\ users' = [users EXCEPT ![n].role = q.role] /\ UNCHANGED ids
        /\ IF first THEN End(r) ELSE Checked(r, "session", u.id, q.via)
    BY <1>5 DEF LoginUpsert
  <2>2. RowsOK' /\ Evolves /\ SessionsOK'
    BY <1>0, <1>1, <1>5, <2>1, RoleChange
  <2>3. Vouches(u.id, n, q.via) /\ u.id \in Nat
    <3>1. u \in Row /\ u.id <= ids
      BY <1>0, <1>1, <1>5 DEF RowsOK
    <3>2. u.id \in 1..ids
      BY <1>0, <3>1 DEF Row
    <3> QED BY <1>5, <3>2 DEF Vouches, mayUpdate
  <2>4. StillVouches(u.id, n, q.via)
    BY <1>0, <1>1, <2>2, <2>3, VouchesKept
  <2> QED BY <1>3, <2>1, <2>2, <2>3, <2>4
<1>6. CASE u # NoUser /\ ~mayUpdate(u, q.via)
  <2>1. End(r) /\ UNCHANGED accounts
    BY <1>0, <1>6 DEF LoginUpsert, accounts
  <2> QED BY <1>0, <2>1, EndOnly
<1> QED BY <1>4, <1>5, <1>6

(* CreateSession: the row that is there under the id has the provider that *)
(* vouched for the request.                                                *)
LEMMA SessionStep == ASSUME DInv, NEW r \in Reqs, LoginCreateSession(r) PROVE DInv'
<1> DEFINE q == req[r]
           new == [user |-> q.user, name |-> q.name, via |-> q.via]
<1>0. /\ FlowPart /\ RequestsOK /\ RowsOK /\ Vouched /\ SessionsOK /\ Holds(q) /\ q.pc = "session"
      /\ UNCHANGED <<login, oidc, drawn>> /\ FlowsOK' /\ End(r)
      /\ UNCHANGED <<users, ids, dir, queue, sync>>
  BY FlowsKept DEF DInv, FlowPart, AccountPart, RequestsOK, LoginCreateSession, flowsOnly, At
<1>1. FlowPart'
  BY <1>0, EndUpdate
<1>2. RowsOK' /\ Evolves
  BY <1>0, NoEvolution
<1>3. Vouched'
  <2>1. Idle.pc # "session"
    BY IdleRequest
  <2> QED BY <1>0, <1>2, <2>1, VouchedUpdate DEF End
<1>4. SessionsOK'
  <2>1. q.name \in Names /\ Vouches(q.user, q.name, q.via)
    BY <1>0 DEF Holds, Vouched
  <2>2. CASE users[q.name].id = q.user
    <3>1. sessions' = sessions \union {new}
      BY <2>2 DEF LoginCreateSession
    <3>2. /\ new.name \in Names /\ new.user \in 1..ids
          /\ users[new.name].id = new.user /\ users[new.name].prov = new.via
      BY <2>1, <2>2 DEF Vouches
    <3> HIDE DEF new
    <3> QED BY <1>0, <3>1, <3>2 DEF SessionsOK
  <2>3. CASE users[q.name].id # q.user
    BY <1>0, <2>3 DEF SessionsOK, LoginCreateSession
  <2> QED BY <2>2, <2>3
<1> QED BY <1>0, <1>1, <1>2, <1>3, <1>4, AccountChange

-----------------------------------------------------------------------------
(* Administrators. *)

(* An administrator creates an account. *)
LEMMA CreateUserStep == ASSUME DInv, NEW n \in Names, NEW role \in Roles, CreateUser(n, role) PROVE DInv'
<1>0. FlowPart /\ RequestsOK /\ RowsOK /\ Vouched /\ SessionsOK
  BY DEF DInv, FlowPart, AccountPart
<1>1. RowsOK' /\ Evolves /\ SessionsOK'
  <2>1. "local" \in Providers
    BY DEF Providers
  <2> QED BY <1>0, <2>1, NewAccount DEF CreateUser
<1>2. FlowPart' /\ Vouched'
  BY <1>0, <1>1, FlowPartKept, VouchedKept DEF CreateUser, flowVars
<1> QED BY <1>1, <1>2, AccountChange DEF CreateUser

(* DeleteManagedUser reads the row, queues a directory user and deletes. *)
LEMMA DeleteSteps ==
    ASSUME DInv, NEW r \in Reqs,
           EnqueueLDAPDelete(r) \/ DeleteUser(r) \/ \E n \in Names : DeleteReadUser(r, n)
    PROVE  DInv'
<1>0. /\ FlowPart /\ FlowsOK /\ RequestsOK /\ RowsOK /\ Vouched /\ SessionsOK /\ SyncOK /\ DirOK
      /\ req \in [Reqs -> Request] /\ req[r] \in Request /\ Holds(req[r])
      /\ UNCHANGED <<login, oidc, drawn>> /\ FlowsOK'
  BY FlowsKept DEF DInv, FlowPart, AccountPart, RequestsOK, EnqueueLDAPDelete, DeleteUser, DeleteReadUser, flowsOnly
<1>1. Idle.pc # "session"
  BY IdleRequest
<1>2. ASSUME NEW n \in Names, DeleteReadUser(r, n) PROVE DInv'
  <2> DEFINE pc == IF users[n].prov = "ldap" THEN "enqueue" ELSE "delete"
             v == [Idle EXCEPT !.name = n, !.user = users[n].id, !.pc = pc]
  <2>1. req' = [req EXCEPT ![r] = v] /\ UNCHANGED accounts
    BY <1>2 DEF DeleteReadUser, accounts
  <2>2. pc \in {"enqueue", "delete"} /\ users[n].id \in Nat
    BY <1>0 DEF RowsOK, Row, NoUser
  <2> HIDE DEF pc
  <2>3. v \in Request /\ v.pc = pc /\ v.name = n
    BY <2>2, IdleRequest DEF Request, PCs
  <2> HIDE DEF v
  <2>4. Holds(v) /\ ~Bearing(v) /\ v.pc # "session"
    BY <2>2, <2>3 DEF Holds, Bearing
  <2>5. FlowPart'
    BY <1>0, <2>1, <2>3, <2>4, ReqUpdate
  <2> QED BY <2>1, <2>4, <2>5, RequestOnly
<1>3. CASE EnqueueLDAPDelete(r) /\ End(r) /\ UNCHANGED queue
  <2>1. UNCHANGED accounts
    BY <1>3 DEF EnqueueLDAPDelete, accounts
  <2> QED BY <1>0, <1>3, <2>1, EndOnly
<1>4. CASE EnqueueLDAPDelete(r) /\ queue' = queue \union {req[r].name} /\ Goto(r, "delete")
  <2> DEFINE v == [req[r] EXCEPT !.pc = "delete"]
  <2>1. req' = [req EXCEPT ![r] = v] /\ UNCHANGED <<users, ids, sessions, dir, sync>>
    BY <1>0, <1>4 DEF Goto, EnqueueLDAPDelete
  <2>2. req[r].name \in Names
    BY <1>0, <1>4 DEF EnqueueLDAPDelete, At, Holds
  <2>3. v \in Request /\ v.pc = "delete" /\ v.name = req[r].name
    BY <1>0 DEF Request, PCs
  <2> HIDE DEF v
  <2>4. Holds(v) /\ ~Bearing(v) /\ v.pc # "session"
    BY <2>2, <2>3 DEF Holds, Bearing
  <2>5. FlowPart'
    BY <1>0, <2>1, <2>3, <2>4, ReqUpdate
  <2>6. RowsOK' /\ Evolves
    BY <1>0, <2>1, NoEvolution
  <2>7. Vouched' /\ SessionsOK' /\ DirOK'
    BY <1>0, <2>1, <2>4, <2>6, VouchedUpdate DEF SessionsOK, DirOK
  <2>8. SyncOK'
    BY <1>0, <1>4, <2>1, <2>2, <2>6, SyncKept DEF SyncOK
  <2> QED BY <2>5, <2>6, <2>7, <2>8 DEF DInv, AccountPart
<1>5. CASE DeleteUser(r) /\ DeleteRow(req[r].user)
  <2>1. End(r) /\ UNCHANGED <<ids, dir, queue, sync>>
    BY <1>5 DEF DeleteUser
  <2>2. RowsOK' /\ Evolves /\ SessionsOK'
    BY <1>0, <1>5, <2>1, AccountGone
  <2>3. FlowPart' /\ Vouched'
    BY <1>0, <1>1, <2>1, <2>2, EndUpdate, VouchedUpdate DEF End
  <2> QED BY <2>1, <2>2, <2>3, AccountChange
<1>6. CASE DeleteUser(r) /\ UNCHANGED <<users, sessions>>
  <2>1. End(r) /\ UNCHANGED accounts
    BY <1>6 DEF DeleteUser, accounts
  <2> QED BY <1>0, <2>1, EndOnly
<1> QED BY <1>2, <1>3, <1>4, <1>5, <1>6 DEF EnqueueLDAPDelete, DeleteUser

(* The directory changes behind the program. *)
LEMMA DirectoryStep == ASSUME DInv, NEW n \in Names, ChangeDirectory(n) PROVE DInv'
<1>0. FlowPart /\ RequestsOK /\ RowsOK /\ Vouched /\ SessionsOK /\ SyncOK /\ DirOK
  BY DEF DInv, FlowPart, AccountPart
<1>1. UNCHANGED flowVars /\ UNCHANGED req /\ UNCHANGED <<users, ids, sessions, queue, sync>>
  BY DEF ChangeDirectory, flowVars
<1>2. FlowPart' /\ RowsOK' /\ Evolves
  BY <1>0, <1>1, FlowPartKept, NoEvolution
<1>3. Vouched' /\ SessionsOK' /\ SyncOK'
  BY <1>0, <1>1, <1>2, VouchedKept, SyncKept DEF SessionsOK, SyncOK
<1>4. DirOK'
  BY <1>0 DEF ChangeDirectory, DirOK
<1> QED BY <1>2, <1>3, <1>4 DEF DInv, AccountPart

-----------------------------------------------------------------------------
(* The synchronisation pass. *)

(* A sync at rest holds no list. *)
LEMMA AsleepType == Asleep \in SyncState /\ Asleep.pc = "idle" /\ Asleep.shadows = {} /\ Asleep.names = {}
BY DEF Asleep, SyncState

(* The pass moves on with the rows it still has to remove. *)
LEMMA SyncMoves ==
    ASSUME DInv, UNCHANGED <<flowVars, users, ids, sessions>>, DirOK',
           sync' \in SyncState, sync'.shadows \subseteq sync.shadows, sync'.names \subseteq queue',
           queue' \subseteq Names, sync'.pc \in {"del", "drop"} => sync'.cur \in Names \ sync'.names
    PROVE  DInv'
<1>0. FlowPart /\ RequestsOK /\ RowsOK /\ Vouched /\ SessionsOK /\ SyncOK
  BY DEF DInv, FlowPart, AccountPart
<1>1. FlowPart' /\ RowsOK' /\ Evolves /\ UNCHANGED req
  BY <1>0, FlowPartKept, NoEvolution DEF flowVars
<1>2. Vouched' /\ SessionsOK'
  BY <1>0, <1>1, VouchedKept DEF SessionsOK
<1>3. \A u \in sync'.shadows, n \in Names : Vouches(u.id, n, "ldap")'
  BY <1>0 DEF SyncOK, Vouches
<1>4. SyncOK'
  BY <1>3 DEF SyncOK
<1> QED BY <1>1, <1>2, <1>4 DEF DInv, AccountPart

(* The pass lists the directory and the queue, goes to sleep, or finds,    *)
(* deletes and dequeues a name.                                            *)
LEMMA SyncListSteps ==
    ASSUME DInv, SyncList \/ SyncListQueue \/ SyncEnd PROVE DInv'
<1>0. SyncOK /\ sync \in SyncState /\ queue \subseteq Names /\ DirOK /\ sync.names \subseteq queue
  BY DEF DInv, AccountPart, SyncOK
<1>1. UNCHANGED <<flowVars, users, ids, sessions, dir, queue>> /\ DirOK'
  BY <1>0 DEF SyncList, SyncListQueue, SyncEnd, syncOnly, DirOK
<1>2. CASE sync' = Asleep
  BY <1>0, <1>1, <1>2, AsleepType, SyncMoves
<1>3. CASE UNCHANGED sync
  BY <1>0, <1>1, <1>3, SyncMoves DEF SyncOK
<1>4. ASSUME NEW R \in SUBSET Names, sync' = [Asleep EXCEPT !.pc = "users", !.remote = R] PROVE DInv'
  <2>1. sync' \in SyncState /\ sync'.shadows = {} /\ sync'.names = {} /\ sync'.pc = "users"
    BY <1>4, AsleepType DEF SyncState
  <2> QED BY <1>0, <1>1, <2>1, SyncMoves
<1>5. CASE sync' = [sync EXCEPT !.pc = "queue", !.names = queue]
  <2>1. sync' \in SyncState /\ sync'.shadows = sync.shadows /\ sync'.names = queue /\ sync'.pc = "queue"
    BY <1>0, <1>5 DEF SyncState
  <2> QED BY <1>0, <1>1, <2>1, SyncMoves
<1>6. CASE SyncList
  <2>1. {n \in Names : Listed(n)} \in SUBSET Names
    OBVIOUS
  <2>2. \A lost : {n \in Names : Listed(n)} \ lost \in SUBSET Names
    OBVIOUS
  <2> QED BY <1>3, <1>4, <1>6, <2>1, <2>2 DEF SyncList
<1>7. CASE SyncListQueue \/ SyncEnd
  BY <1>2, <1>5, <1>7 DEF SyncListQueue, SyncEnd
<1> QED BY <1>6, <1>7

(* The steps of the sync that only walk its lists. *)
LEMMA SyncQueueSteps ==
    ASSUME DInv, SyncDelEntry \/ SyncDequeue \/ \E n \in sync.names : SyncFind(n) PROVE DInv'
<1>0. SyncOK /\ sync \in SyncState /\ queue \subseteq Names /\ DirOK /\ sync.names \subseteq queue
  BY DEF DInv, AccountPart, SyncOK
<1>1. UNCHANGED <<flowVars, users, ids, sessions>>
  BY DEF SyncDelEntry, SyncDequeue, SyncFind, syncOnly
<1>2. ASSUME NEW n \in sync.names, SyncFind(n) PROVE DInv'
  <2>1. UNCHANGED <<dir, queue>> /\ DirOK' /\ n \in Names
    BY <1>0, <1>2 DEF SyncFind, DirOK
  <2>2. /\ sync' \in SyncState /\ sync'.shadows = sync.shadows /\ sync'.names = sync.names \ {n}
        /\ sync'.pc \in {"del", "drop"} => sync'.cur = n
    <3>1. CASE sync' = [sync EXCEPT !.pc = afterSearch(n), !.cur = n, !.names = @ \ {n}]
      <4>1. afterSearch(n) \in {"del", "drop"}
        BY DEF afterSearch
      <4> QED BY <1>0, <2>1, <3>1, <4>1 DEF SyncState
    <3>2. CASE sync' = [sync EXCEPT !.names = @ \ {n}]
      <4>1. sync.pc = "queue"
        BY <1>2 DEF SyncFind
      <4> QED BY <1>0, <3>2, <4>1 DEF SyncState
    <3> QED BY <1>2, <3>1, <3>2 DEF SyncFind
  <2> QED BY <1>0, <1>1, <2>1, <2>2, SyncMoves
<1>3. CASE SyncDelEntry
  <2>1. UNCHANGED queue /\ sync.cur \in Names \ sync.names
    BY <1>0, <1>3 DEF SyncDelEntry, SyncOK
  <2>2. DirOK'
    BY <1>0, <1>3, <2>1 DEF SyncDelEntry, DirOK
  <2>3. CASE sync' = [sync EXCEPT !.pc = "drop"]
    <3>1. /\ sync' \in SyncState /\ sync'.shadows = sync.shadows /\ sync'.names = sync.names
          /\ sync'.cur = sync.cur
      BY <1>0, <2>3 DEF SyncState
    <3> QED BY <1>0, <1>1, <2>1, <2>2, <3>1, SyncMoves
  <2>4. CASE sync' = [sync EXCEPT !.pc = "queue", !.cur = "none"]
    <3>1. /\ sync' \in SyncState /\ sync'.shadows = sync.shadows /\ sync'.names = sync.names
          /\ sync'.pc = "queue"
      BY <1>0, <2>4 DEF SyncState
    <3> QED BY <1>0, <1>1, <2>1, <2>2, <3>1, SyncMoves
  <2> QED BY <1>3, <2>3, <2>4 DEF SyncDelEntry
<1>4. CASE SyncDequeue
  <2>1. sync.cur \in Names \ sync.names /\ UNCHANGED dir /\ DirOK'
    BY <1>0, <1>4 DEF SyncDequeue, SyncOK, DirOK
  <2>2. queue' \subseteq Names /\ sync.names \subseteq queue'
    BY <1>0, <1>4, <2>1 DEF SyncDequeue
  <2>3. sync' = [sync EXCEPT !.pc = "queue", !.cur = "none"]
    BY <1>4 DEF SyncDequeue
  <2>4. sync' \in SyncState /\ sync'.shadows = sync.shadows /\ sync'.names = sync.names /\ sync'.pc = "queue"
    BY <1>0, <2>3 DEF SyncState
  <2> QED BY <1>0, <1>1, <2>1, <2>2, <2>4, SyncMoves
<1> QED BY <1>2, <1>3, <1>4

(* The pass notes the shadow rows by id. *)
LEMMA SyncShadowsNoted == ASSUME DInv, SyncListUsers PROVE DInv'
<1>0. /\ SyncOK /\ sync \in SyncState /\ DirOK /\ sync.names \subseteq queue /\ RowsOK
      /\ FlowPart /\ RequestsOK /\ Vouched /\ SessionsOK
  BY DEF DInv, AccountPart, FlowPart, SyncOK
<1>1. UNCHANGED <<flowVars, users, ids, sessions, dir, queue>> /\ DirOK'
  BY <1>0 DEF SyncListUsers, syncOnly, DirOK
<1>2. CASE sync' = Asleep
  BY <1>0, <1>1, <1>2, AsleepType, SyncMoves DEF SyncOK
<1>3. CASE sync' # Asleep
  <2> DEFINE S == {[id |-> users[n].id, name |-> n] : n \in {m \in Names : users[m].prov = "ldap" /\ m \notin sync.remote}}
  <2>1. sync' = [sync EXCEPT !.pc = "shadows", !.remote = {}, !.shadows = S]
    BY <1>3 DEF SyncListUsers
  <2>2. \A u \in S : u.id \in 1..ids /\ u \in [id: Nat, name: Names] /\ users[u.name].id = u.id /\ users[u.name].prov = "ldap"
    <3>1. \A n \in Names : users[n].prov = "ldap" => users[n].id \in 1..ids
      BY <1>0, DirectoryAssumption DEF RowsOK, Row, NoUser
    <3>2. ids \in Nat
      BY <1>0, DirectoryAssumption DEF RowsOK
    <3> QED BY <3>1, <3>2
  <2>3. \A u \in S, n \in Names : users[n].id = u.id => users[n].prov = "ldap"
    <3>1. \A u \in S : users[u.name] # NoUser
      BY <2>2 DEF NoUser
    <3> QED BY <1>0, <2>2, <3>1 DEF RowsOK
  <2> HIDE DEF S
  <2>4. sync' \in SyncState /\ sync'.shadows = S /\ sync'.names = sync.names /\ sync'.pc = "shadows"
    BY <1>0, <2>1, <2>2 DEF SyncState
  <2>5. \A u \in sync'.shadows, n \in Names : Vouches(u.id, n, "ldap")'
    BY <1>1, <2>2, <2>3, <2>4 DEF Vouches
  <2>6. SyncOK'
    BY <1>0, <1>1, <2>4, <2>5 DEF SyncOK
  <2>7. FlowPart' /\ RowsOK' /\ Evolves /\ UNCHANGED req
    BY <1>0, <1>1, FlowPartKept, NoEvolution DEF flowVars
  <2>8. Vouched' /\ SessionsOK'
    BY <1>0, <1>1, <2>7, VouchedKept DEF SessionsOK
  <2> QED BY <1>1, <2>6, <2>7, <2>8 DEF DInv, AccountPart
<1> QED BY <1>2, <1>3

(* The pass removes one of them. *)
LEMMA SyncShadowGone == ASSUME DInv, NEW u \in sync.shadows, SyncRemoveShadow(u) PROVE DInv'
<1>0. /\ SyncOK /\ sync \in SyncState /\ DirOK /\ RowsOK /\ FlowPart /\ RequestsOK /\ Vouched /\ SessionsOK
  BY DEF DInv, AccountPart, FlowPart, SyncOK
<1>1. /\ UNCHANGED <<flowVars, req, ids, dir, queue>> /\ DirOK' /\ FlowPart'
      /\ sync' = [sync EXCEPT !.shadows = @ \ {u}] /\ sync.pc = "shadows"
  BY <1>0, FlowPartKept DEF SyncRemoveShadow, syncOnly, DirOK, flowVars
<1>2. RowsOK' /\ Evolves /\ SessionsOK'
  <2>1. CASE RemoveShadow(u)
    BY <1>0, <1>1, <2>1, AccountGone DEF RemoveShadow
  <2>2. CASE UNCHANGED <<users, sessions>>
    BY <1>0, <1>1, <2>2, NoEvolution DEF SessionsOK
  <2> QED BY <2>1, <2>2 DEF SyncRemoveShadow
<1>3. Vouched'
  BY <1>0, <1>1, <1>2, VouchedKept
<1>4. sync' \in SyncState /\ sync'.shadows \subseteq sync.shadows /\ sync'.names = sync.names /\ sync'.pc = sync.pc
  BY <1>0, <1>1 DEF SyncState
<1>5. ASSUME NEW v \in sync'.shadows, NEW n \in Names PROVE StillVouches(v.id, n, "ldap")
  <2>1. Vouches(v.id, n, "ldap")
    BY <1>0, <1>4 DEF SyncOK
  <2> QED BY <1>0, <1>2, <2>1, VouchesKept
<1>6. \A v \in sync'.shadows, n \in Names : Vouches(v.id, n, "ldap")'
  BY <1>5 DEF Vouches, StillVouches
<1>7. SyncOK'
  BY <1>0, <1>1, <1>4, <1>6 DEF SyncOK
<1> QED BY <1>1, <1>2, <1>3, <1>7 DEF DInv, AccountPart

-----------------------------------------------------------------------------
(* The invariant. *)

(* A restart. *)
LEMMA RestartStep == ASSUME DInv, Restart PROVE DInv'
<1>0. RowsOK /\ SessionsOK /\ SyncOK /\ DirOK /\ FlowsOK
  BY DEF DInv, AccountPart, FlowPart
<1>1. /\ login' = [t \in Tokens |-> NoFlow] /\ oidc' = [t \in Tokens |-> NoFlow]
      /\ req' = [r \in Reqs |-> Idle] /\ UNCHANGED drawn /\ sync' = Asleep
      /\ UNCHANGED <<users, ids, sessions, dir, queue>>
  BY DEF Restart, LoginFlowRestart
<1>2. FlowsOK'
  BY <1>0, <1>1 DEF FlowsOK
<1>3. Holds(Idle) /\ ~Bearing(Idle) /\ Idle.pc # "session"
  BY IdleRequest DEF Holds, Bearing
<1>4. RequestsOK'
  <2>1. req' \in [Reqs -> Request] /\ \A r \in Reqs : Holds(req'[r])
    BY <1>1, <1>3, IdleRequest
  <2> QED BY <2>1 DEF RequestsOK, Holds
<1>5. SpentOnce'
  <2>1. \A r \in Reqs : ~Bearing(req'[r])
    BY <1>1, <1>3
  <2> QED BY <2>1 DEF SpentOnce, Bearing
<1>6. RowsOK' /\ SessionsOK' /\ DirOK'
  BY <1>0, <1>1 DEF RowsOK, SessionsOK, DirOK
<1>7. Vouched'
  BY <1>1, <1>3 DEF Vouched
<1>8. SyncOK'
  BY <1>0, <1>1, AsleepType DEF SyncOK
<1> QED BY <1>2, <1>4, <1>5, <1>6, <1>7, <1>8 DEF DInv, FlowPart, AccountPart

(* The invariant holds at the start. *)
LEMMA DInvInit == Init => DInv
<1> SUFFICES ASSUME Init PROVE DInv
  OBVIOUS
<1>1. FlowsOK
  BY LoginFlowAssumption DEF Init, LoginFlowInit, FlowsOK
<1>2. Holds(Idle) /\ ~Bearing(Idle) /\ Idle.pc # "session"
  BY IdleRequest DEF Holds, Bearing
<1>3. RequestsOK /\ SpentOnce /\ Vouched
  BY <1>2, IdleRequest DEF Init, LoginFlowInit, RequestsOK, SpentOnce, Vouched
<1>4. RowsOK
  BY DirectoryAssumption DEF Init, RowsOK, NoUser
<1>5. SessionsOK /\ DirOK
  BY DEF Init, SessionsOK, DirOK
<1>6. SyncOK
  BY AsleepType DEF Init, SyncOK
<1> QED BY <1>1, <1>3, <1>4, <1>5, <1>6 DEF DInv, FlowPart, AccountPart

(* Every step preserves it. *)
LEMMA DInvStep == DInv /\ [Next]_vars => DInv'
<1> SUFFICES ASSUME DInv, [Next]_vars PROVE DInv'
  OBVIOUS
<1>1. CASE LoginFlowStep /\ UNCHANGED <<users, ids, sessions, dir, queue, sync, events>>
  BY <1>1, LoginFlowSteps DEF accounts
<1>2. CASE AccountStep
  BY <1>2, LoginChecks, UpsertStep, SessionStep, CreateUserStep, DeleteSteps DEF AccountStep
<1>3. CASE SyncStep
  BY <1>3, SyncListSteps, SyncQueueSteps, SyncShadowsNoted, SyncShadowGone DEF SyncStep
<1>4. CASE Restart
  BY <1>4, RestartStep
<1>5. ASSUME NEW n \in Names, ChangeDirectory(n) PROVE DInv'
  BY <1>5, DirectoryStep
<1>6. CASE UNCHANGED vars
  <2>1. UNCHANGED flowVars /\ UNCHANGED req /\ UNCHANGED accounts
    BY <1>6 DEF vars, flowVars, accounts
  <2>2. FlowPart'
    BY <2>1, FlowPartKept DEF DInv
  <2> QED BY <2>1, <2>2, AccountsKept
<1> QED BY <1>1, <1>2, <1>3, <1>4, <1>5, <1>6 DEF Next

(* So it holds in every reachable state. *)
LEMMA DInvHolds == Spec => []DInv
BY DInvInit, DInvStep, PTL DEF Spec

(* At most one of a set. *)
LEMMA AtMostOne ==
    ASSUME NEW S, \A a, b \in S : a = b PROVE Cardinality(S) <= 1
<1>1. CASE S = {}
  <2>1. Cardinality(S) = 0
    BY <1>1, FS_EmptySet
  <2> QED BY <2>1
<1>2. CASE S # {}
  <2>1. PICK a : S = {a}
    BY <1>2
  <2>2. Cardinality(S) = 1
    BY <2>1, FS_Singleton
  <2> QED BY <2>2
<1> QED BY <1>1, <1>2

-----------------------------------------------------------------------------
(* The theorems. *)

(* TypeOK holds in every reachable state: rows, flows, the queue and the   *)
(* pass keep their shape, and ids stay unique, whatever logins, deletions  *)
(* and the pass (internal/auth, internal/app/ldap_sync.go) do.             *)
THEOREM DirectoryTypeCorrect == Spec => []TypeOK
<1>1. DInv => TypeOK
  <2> SUFFICES ASSUME DInv PROVE TypeOK
    OBVIOUS
  <2>0. FlowsOK /\ RowsOK /\ SyncOK
    BY DEF DInv, FlowPart, AccountPart
  <2>1. \A t \in Tokens : login[t].stage \in {"none", "password", "otp"} /\ oidc[t].stage \in {"none", "oidc"}
    BY <2>0 DEF FlowsOK, LiveFlows, NoFlow, OIDCFlow
  <2>2. \A n \in Names : users[n] = NoUser \/ users[n] \in [id: 1..ids, prov: Providers, role: Roles]
    BY <2>0, DirectoryAssumption DEF RowsOK, Row
  <2>3. \A m, n \in Names : users[m].id = users[n].id => m = n \/ users[m] = NoUser
    BY <2>0 DEF RowsOK
  <2>4. /\ queue \subseteq Names /\ sync.remote \subseteq Names /\ sync.names \subseteq queue \union {sync.cur}
        /\ ids \in 0..MaxIds
    BY <2>0 DEF SyncOK, SyncState, RowsOK
  <2> QED BY <2>1, <2>2, <2>3, <2>4 DEF TypeOK
<1> QED BY DInvHolds, <1>1, PTL

(* SessionOfItsProvider holds in every reachable state: however a name     *)
(* changes hands between the lookup of AuthenticatePassword, the upsert of *)
(* UpsertExternalUser and CreateSession, a session's account belongs to    *)
(* the provider that vouched for it.                                       *)
THEOREM DirectorySessions == Spec => []SessionOfItsProvider
<1>1. DInv => SessionOfItsProvider
  BY DEF DInv, AccountPart, SessionsOK, SessionOfItsProvider
<1> QED BY DInvHolds, <1>1, PTL

(* OIDCCodeOnce holds in every reachable state: overlapping or repeated    *)
(* calls of handleLoginOIDCCallback get at most one login out of an        *)
(* authorization code, and only one that has spent the state.              *)
THEOREM DirectoryCodeOnce == Spec => []OIDCCodeOnce
<1>1. DInv => OIDCCodeOnce
  <2> SUFFICES ASSUME DInv, NEW c \in Tokens
               PROVE  Cardinality({r \in Reqs : req[r].pc = "upsert" /\ req[r].code = c})
                         <= IF oidc[c] = NoFlow THEN 1 ELSE 0
    BY DEF OIDCCodeOnce
  <2> DEFINE S == {r \in Reqs : req[r].pc = "upsert" /\ req[r].code = c}
  <2>1. \A r \in S : r \in Reqs /\ Bearing(req[r]) /\ req[r].tok = c
    BY LoginFlowAssumption DEF DInv, FlowPart, RequestsOK, Holds, Bearing, Tokens
  <2>2. CASE oidc[c] = NoFlow
    <3>1. \A r, s \in S : r = s
      BY <2>1 DEF DInv, FlowPart, SpentOnce
    <3> HIDE DEF S
    <3>2. Cardinality(S) <= 1
      BY <3>1, AtMostOne
    <3> QED BY <2>2, <3>2 DEF S
  <2>3. CASE oidc[c] # NoFlow
    <3>1. S = {}
      BY <2>1, <2>3 DEF DInv, FlowPart, SpentOnce
    <3>2. Cardinality(S) = 0
      BY <3>1, FS_EmptySet
    <3> QED BY <2>3, <3>2
  <2> QED BY <2>2, <2>3
<1> QED BY DInvHolds, <1>1, PTL

(* One step spares the accounts that are not in the directory. *)
LEMMA SparesStep ==
    ASSUME DInv, Next, NEW n \in Names, users[n].prov \in {"local", "oidc"}, users'[n].id # users[n].id
    PROVE  \E r \in Reqs : req[r].pc = "delete" /\ req[r].user = users[n].id
<1>0. users \in [Names -> Row \union {NoUser}] /\ users[n] # NoUser /\ SyncOK
  BY DEF DInv, AccountPart, RowsOK, NoUser
<1>1. ASSUME NEW i, DeleteRow(i) PROVE users[n].id = i
  BY <1>1 DEF DeleteRow
<1>2. ASSUME NEW m \in Names, NEW v, users[m] = NoUser, users' = [users EXCEPT ![m] = v] PROVE FALSE
  BY <1>0, <1>2
<1>3. ASSUME NEW m \in Names, NEW v, users' = [users EXCEPT ![m].role = v] PROVE FALSE
  <2>1. users[n] \in Row
    BY <1>0
  <2>2. users'[n].id = users[n].id
    BY <1>0, <1>3, <2>1 DEF Row
  <2> QED BY <2>2
<1>4. ASSUME NEW r \in Reqs, DeleteUser(r) PROVE req[r].pc = "delete" /\ req[r].user = users[n].id
  BY <1>1, <1>4 DEF DeleteUser, At
<1>5. ASSUME NEW u \in sync.shadows, SyncRemoveShadow(u) PROVE FALSE
  <2>1. users[n].id = u.id
    BY <1>1, <1>5 DEF SyncRemoveShadow, RemoveShadow
  <2>2. users[n].prov = "ldap"
    BY <1>0, <2>1 DEF SyncOK, Vouches
  <2> QED BY <2>2
<1>6. ASSUME NEW r \in Reqs, LoginUpsert(r) PROVE FALSE
  <2>1. req[r].name \in Names
    BY <1>6 DEF DInv, FlowPart, RequestsOK, Holds, LoginUpsert, At
  <2> QED BY <1>2, <1>3, <1>6, <2>1 DEF LoginUpsert
<1>7. ASSUME NEW m \in Names, NEW role \in Roles, CreateUser(m, role) PROVE FALSE
  BY <1>2, <1>7 DEF CreateUser
<1>8. CASE UNCHANGED users
  BY <1>8
<1>9. CASE AccountStep
  BY <1>4, <1>6, <1>7, <1>8, <1>9 DEF AccountStep, LoginExchange, LoginRefused, LoginFindUser, LoginBind,
     LoginCreateSession, EnqueueLDAPDelete, DeleteReadUser
<1>10. CASE SyncStep
  BY <1>5, <1>8, <1>10 DEF SyncStep, SyncList, SyncListUsers, SyncListQueue, SyncDelEntry, SyncDequeue, SyncEnd, SyncFind
<1>11. CASE Restart \/ \E m \in Names : ChangeDirectory(m)
  BY <1>8, <1>11 DEF Restart, ChangeDirectory
<1> QED BY <1>8, <1>9, <1>10, <1>11 DEF Next

(* SyncSparesOthers holds of every step: syncLDAPUsersOnce, working from a *)
(* list of ids that may be out of date, deletes no local and no OpenID     *)
(* Connect account.                                                        *)
THEOREM DirectorySyncSpares == Spec => SyncSparesOthers
<1> DEFINE A == \A n \in Names :
                  users[n].prov \in {"local", "oidc"} /\ users'[n].id # users[n].id =>
                     \E r \in Reqs : req[r].pc = "delete" /\ req[r].user = users[n].id
<1>1. DInv /\ [Next]_vars => [A]_vars
  BY SparesStep DEF vars
<1> QED BY DInvHolds, <1>1, PTL DEF Spec, SyncSparesOthers
============================================================================
