----------------------------- MODULE LoginFlow -----------------------------
(***************************************************************************)
(* The admin login of internal/api/server.go: the flows in memory that     *)
(* carry a login from its start to the check of the credentials, by        *)
(* password (three requests under one cookie) or by OpenID Connect (start  *)
(* and callback under one state).                                          *)
(*                                                                         *)
(* A step is one critical section of loginMu or oidcMu; a handler that     *)
(* locks twice has two, with a copy of the flow in between.  A flow may    *)
(* expire at any time: every access prunes first, so an expired flow is a  *)
(* flow that is not there.  Of a client's address only one thing matters,  *)
(* whether it is the one that began the flow: the input same.  Directory   *)
(* extends this module with what the check leads to.                       *)
(***************************************************************************)
EXTENDS Integers, FiniteSets

CONSTANTS
    Reqs,     \* requests in flight
    Names,    \* user names
    MaxFlows  \* bound: flows that are begun

ASSUME LoginFlowAssumption == "none" \notin Names /\ MaxFlows \in Nat

(* Flow cookies and OIDC states, random in the code, in the order they are *)
(* drawn; 0 is none.                                                       *)
Tokens == 1..MaxFlows

VARIABLES
    login,  \* Server.login
    oidc,   \* Server.oidc
    req,    \* the requests
    drawn   \* flows begun so far

flowVars == <<login, oidc, req, drawn>>

(* The lack of a flow. *)
NoFlow == [stage |-> "none", name |-> "none"]

(* pc: where the request is; flow: its copy; code: the flow that an        *)
(* authorization code was issued for; user: the id in its copy of a users  *)
(* row (0 for none); via: who vouched; role: what the groups map to.       *)
Idle == [pc |-> "idle", tok |-> 0, flow |-> NoFlow, name |-> "none",
         user |-> 0, via |-> "none", code |-> 0, role |-> "none"]

LoginFlowInit ==
    /\ login = [t \in Tokens |-> NoFlow]
    /\ oidc = [t \in Tokens |-> NoFlow]
    /\ req = [r \in Reqs |-> Idle]
    /\ drawn = 0

At(r, pc) == req[r].pc = pc
Goto(r, pc) == req' = [req EXCEPT ![r].pc = pc]
End(r) == req' = [req EXCEPT ![r] = Idle]
Begun(t) == t <= drawn

NewFlow(stage, n) == [stage |-> stage, name |-> n]

(* pruneLoginFlowsLocked, pruneOIDCFlowsLocked, when the time is up. *)
Expire(t) ==
    /\ \/ login[t] # NoFlow /\ login' = [login EXCEPT ![t] = NoFlow] /\ UNCHANGED oidc
       \/ oidc[t] # NoFlow /\ oidc' = [oidc EXCEPT ![t] = NoFlow] /\ UNCHANGED login
    /\ UNCHANGED <<req, drawn>>

----------------------------------------------------------------------------
(* Login by password *)

handleLoginStart(n) ==
    /\ drawn < MaxFlows /\ drawn' = drawn + 1
    /\ login' = [login EXCEPT ![drawn'] = NewFlow("password", n)]
    /\ UNCHANGED <<oidc, req>>

(* A request at another stage or from another address ends the flow. *)
requireLoginFlow(r, t, same, stage, pc) ==
    LET flow == login[t] IN
    /\ At(r, "idle") /\ Begun(t)
    /\ IF flow.stage = stage /\ same
       THEN /\ req' = [req EXCEPT ![r] = [Idle EXCEPT !.pc = pc, !.tok = t, !.flow = flow, !.name = flow.name]]
            /\ UNCHANGED login
       ELSE login' = [login EXCEPT ![t] = NoFlow] /\ UNCHANGED req
    /\ UNCHANGED <<oidc, drawn>>

handleLoginPassword(r, t, same) == requireLoginFlow(r, t, same, "password", "store")

(* The copy is put back, also when the flow has been ended meanwhile. *)
StoreLoginPassword(r) ==
    /\ At(r, "store") /\ End(r)
    /\ login' = [login EXCEPT ![req[r].tok] = [req[r].flow EXCEPT !.stage = "otp"]]
    /\ UNCHANGED <<oidc, drawn>>

handleLoginFinish(r, t, same) == requireLoginFlow(r, t, same, "otp", "clear")

clearLoginFlow(r) ==
    /\ At(r, "clear") /\ Goto(r, "find")
    /\ login' = [login EXCEPT ![req[r].tok] = NoFlow]
    /\ UNCHANGED <<oidc, drawn>>

----------------------------------------------------------------------------
(* Login by OpenID Connect *)

handleLoginOIDCStart ==
    /\ drawn < MaxFlows /\ drawn' = drawn + 1
    /\ oidc' = [oidc EXCEPT ![drawn'] = NewFlow("oidc", "none")]
    /\ UNCHANGED <<login, req>>

(* The flow is looked up and removed in one critical section. *)
taken(t) == [oidc EXCEPT ![t] = NoFlow]

handleLoginOIDCCallback(r, t, same, code) ==
    LET flow == oidc[t] IN
    /\ At(r, "idle") /\ Begun(t)
    /\ oidc' = taken(t)
    /\ IF flow # NoFlow /\ same
       THEN req' = [req EXCEPT ![r] = [Idle EXCEPT !.pc = "exchange", !.tok = t, !.flow = flow, !.code = code]]
       ELSE UNCHANGED req
    /\ UNCHANGED <<login, drawn>>

(* Mutated form: any nonce will do. *)
oidcNoncePresent(t, code) == code \in Tokens

oidcNonceMatch(t, code) == t = code

(* The provider's answer (external): the identity token of the flow the    *)
(* code was issued for, with a name and groups; role is what they map to.  *)
ExchangeCode(r, n, role) ==
    /\ At(r, "exchange")
    /\ IF oidcNonceMatch(req[r].tok, req[r].code) /\ role # "none"
       THEN req' = [req EXCEPT ![r].pc = "upsert", ![r].name = n, ![r].via = "oidc", ![r].role = role]
       ELSE End(r)
    /\ UNCHANGED <<login, oidc, drawn>>

(* The flows and the requests are gone, the cookies stay with the clients. *)
LoginFlowRestart ==
    /\ login' = [t \in Tokens |-> NoFlow] /\ oidc' = [t \in Tokens |-> NoFlow]
    /\ req' = [r \in Reqs |-> Idle]
    /\ UNCHANGED drawn

LoginFlowStep ==
    \/ \E t \in Tokens : Expire(t)
    \/ \E n \in Names : handleLoginStart(n)
    \/ handleLoginOIDCStart
    \/ \E r \in Reqs, t \in Tokens, same \in BOOLEAN :
          handleLoginPassword(r, t, same) \/ handleLoginFinish(r, t, same)
    \/ \E r \in Reqs, t \in Tokens, same \in BOOLEAN, code \in Tokens :
          handleLoginOIDCCallback(r, t, same, code)
    \/ \E r \in Reqs : StoreLoginPassword(r) \/ clearLoginFlow(r)
=============================================================================
