----------------------------- MODULE AuthProofs -----------------------------
(***************************************************************************)
(* Proofs about Auth: its type invariant; that a recovery code is accepted *)
(* at most once; that MFA is only ever on with a secret its holder proved; *)
(* that no login skips the second factor; that rows of a user go with it;  *)
(* that a lock is bounded; and that a reset token sets a bounded number of *)
(* passwords.                                                              *)
(*                                                                         *)
(* NoOrphans and LockBounded are inductive with TypeOK.  The others speak  *)
(* of rows that one step reads and another uses, and need what holds in    *)
(* between: CodesOK, SecretsOK, FactorOK and TokensSpent.                  *)
(***************************************************************************)
EXTENDS Auth, TLAPS, FiniteSetTheorems

(* The shape of a request is told by its pc. *)
LEMMA ByPC ==
    ASSUME NEW q \in ReqStates
    PROVE  /\ q.pc = "find" => q \in Finding
           /\ q.pc \in LoginPCs => q \in LoggingIn
           /\ q.pc = "failWrite" => q \in Failing
           /\ q.pc \in OwnerPCs => q \in Owning
           /\ q.pc = "disableRedeem" => q \in Disabling
           /\ q.pc = "setPassword" => q \in Changing
           /\ q.pc \in ResetPCs => q \in Resetting
BY DEF ReqStates, Idle, Finding, LoggingIn, Failing, Owning, Disabling, Changing, Resetting,
       LoginPCs, OwnerPCs, ResetPCs

(* Requests stay well-formed when one of them is replaced by a well-formed one. *)
LEMMA ReqUpdate ==
    ASSUME req \in [Reqs -> ReqStates], NEW r \in Reqs, NEW v \in ReqStates,
           req' = [req EXCEPT ![r] = v]
    PROVE  req' \in [Reqs -> ReqStates]
OBVIOUS

(* A request at rest is well-formed. *)
LEMMA IdleState == Idle \in ReqStates
BY DEF ReqStates

(* A request that ends leaves the requests well-formed. *)
LEMMA DoneTypes ==
    ASSUME req \in [Reqs -> ReqStates], NEW r \in Reqs, Done(r)
    PROVE  req' \in [Reqs -> ReqStates]
BY IdleState DEF Done

(* Moving on within a login, an owner's operation or a reset. *)
LEMMA GotoTypes ==
    ASSUME req \in [Reqs -> ReqStates], NEW r \in Reqs, NEW pc, Goto(r, pc),
           \/ req[r].pc \in LoginPCs /\ pc \in LoginPCs
           \/ req[r].pc \in OwnerPCs /\ pc \in OwnerPCs
           \/ req[r].pc \in ResetPCs /\ pc \in ResetPCs
    PROVE  req' \in [Reqs -> ReqStates]
<1> DEFINE v == [req[r] EXCEPT !.pc = pc]
<1>1. /\ req[r].pc \in LoginPCs => req[r] \in LoggingIn
      /\ req[r].pc \in OwnerPCs => req[r] \in Owning
      /\ req[r].pc \in ResetPCs => req[r] \in Resetting
  BY ByPC
<1>2. CASE req[r] \in LoggingIn /\ pc \in LoginPCs
  <2>1. v \in LoggingIn
    BY <1>2 DEF LoggingIn
  <2> QED BY <2>1 DEF Goto, ReqStates
<1>3. CASE req[r] \in Owning /\ pc \in OwnerPCs
  <2>1. v \in Owning
    BY <1>3 DEF Owning
  <2> QED BY <2>1 DEF Goto, ReqStates
<1>4. CASE req[r] \in Resetting /\ pc \in ResetPCs
  <2>1. v \in Resetting
    BY <1>4 DEF Resetting
  <2> QED BY <2>1 DEF Goto, ReqStates
<1> QED BY <1>1, <1>2, <1>3, <1>4

-----------------------------------------------------------------------------
(* Type correctness, one lemma per group of operations. *)

(* The delay of a failed login is a natural number. *)
LEMMA DelayType == ASSUME NEW n \in Nat PROVE loginFailureDelay(n) \in Nat
<1>1. CASE n < 3
  BY <1>1 DEF loginFailureDelay
<1>2. CASE ~(n < 3)
  <2>1. n - 2 \in Nat /\ DelayStep \in Nat /\ DelayCap \in Nat
    BY <1>2, AuthAssumption
  <2>2. DelayStep * (n - 2) \in Nat
    BY <2>1
  <2> QED BY <1>2, <2>1, <2>2 DEF loginFailureDelay
<1> QED BY <1>1, <1>2

(* Redeeming a code writes a well-formed row and count. *)
LEMMA RedeemTypes ==
    ASSUME TypeOK, NEW user, NEW k, ConsumeUserMFARecoveryCode(user, k)
    PROVE  codes' \subseteq CodeRow /\ doors' \in [1..MaxCodes -> Nat]
<1>1. Code(user, k, FALSE) \in CodeRow
  BY DEF ConsumeUserMFARecoveryCode, Redeemable, TypeOK
<1>2. user \in UserIDs /\ k \in 1..MaxCodes
  BY <1>1 DEF Code, CodeRow
<1>3. Code(user, k, TRUE) \in CodeRow
  BY <1>2 DEF Code, CodeRow
<1>4. codes' \subseteq CodeRow
  BY <1>3 DEF ConsumeUserMFARecoveryCode, TypeOK
<1>5. doors' \in [1..MaxCodes -> Nat]
  BY <1>2 DEF ConsumeUserMFARecoveryCode, TypeOK
<1> QED BY <1>4, <1>5

(* A login that gets past the lookup holds a copy of an existing user. *)
LEMMA LoginTypes ==
    ASSUME TypeOK, NEW r \in Reqs, LoginStep(r) PROVE TypeOK'
<1> USE DEF attempts, counters, history
<1>1. ASSUME NEW pw \in Passwords, NEW second \in Seconds, NEW inside \in BOOLEAN,
             LoginAttempt(r, pw, second, inside)
      PROVE  TypeOK'
  <2> DEFINE v == [pc |-> "find", pw |-> pw, second |-> second, inside |-> inside]
  <2>1. second \in Second
    BY DEF Seconds, Second, TypeOK
  <2>2. v \in Finding
    BY <2>1 DEF Finding
  <2>3. req' \in [Reqs -> ReqStates]
    BY <1>1, <2>2 DEF LoginAttempt, ReqStates, TypeOK
  <2> QED BY <1>1, <2>3 DEF LoginAttempt, TypeOK
<1>2. CASE LoginFindUser(r)
  <2>1. req[r] \in Finding
    BY <1>2, ByPC DEF LoginFindUser, TypeOK
  <2>2. CASE ~Exists
    BY <1>2, <2>2, DoneTypes DEF LoginFindUser, TypeOK
  <2>3. CASE Exists
    <3> DEFINE q == req[r]
               v == [pc |-> afterPassword(q, acct), u |-> acct, second |-> q.second,
                     factor |-> q.second = [kind |-> "totp", n |-> acct.secret]]
    <3>1. acct \in User
      BY <2>3 DEF Exists, TypeOK, AccountOf, User, UserIDs
    <3>2. afterPassword(q, acct) \in LoginPCs
      BY DEF afterPassword, LoginPCs
    <3>3. v \in LoggingIn
      BY <2>1, <3>1, <3>2 DEF LoggingIn, Finding
    <3>4. req' = [req EXCEPT ![r] = v]
      BY <1>2, <2>3 DEF LoginFindUser
    <3> HIDE DEF v
    <3>5. req' \in [Reqs -> ReqStates]
      BY <3>3, <3>4 DEF ReqStates, TypeOK
    <3> QED BY <1>2, <3>5 DEF LoginFindUser, TypeOK
  <2> QED BY <2>2, <2>3
<1>3. CASE LoginReadPolicy(r)
  BY <1>3, GotoTypes DEF LoginReadPolicy, LoginPCs, TypeOK
<1>4. CASE LoginRedeem(r)
  <2>1. req[r] \in LoggingIn
    BY <1>4, ByPC DEF LoginRedeem, LoginPCs, TypeOK
  <2>2. CASE /\ ConsumeUserMFARecoveryCode(req[r].u.id, req[r].second.n)
             /\ req' = [req EXCEPT ![r].pc = "clear", ![r].factor = TRUE]
    <3> DEFINE v == [req[r] EXCEPT !.pc = "clear", !.factor = TRUE]
    <3>1. v \in LoggingIn
      BY <2>1 DEF LoggingIn, LoginPCs
    <3>2. req' \in [Reqs -> ReqStates]
      BY <2>2, <3>1 DEF ReqStates, TypeOK
    <3>3. codes' \subseteq CodeRow /\ doors' \in [1..MaxCodes -> Nat]
      BY <2>2, RedeemTypes
    <3> QED BY <1>4, <3>2, <3>3 DEF LoginRedeem, TypeOK
  <2>3. CASE Goto(r, "failRead") /\ UNCHANGED <<codes, doors>>
    BY <1>4, <2>3, GotoTypes DEF LoginRedeem, LoginPCs, TypeOK
  <2> QED BY <1>4, <2>2, <2>3 DEF LoginRedeem
<1>5. CASE LoginFailRead(r)
  <2>1. [pc |-> "failWrite", n |-> fails] \in Failing
    BY DEF Failing, TypeOK
  <2>2. req' \in [Reqs -> ReqStates]
    BY <1>5, <2>1 DEF LoginFailRead, ReqStates, TypeOK
  <2> QED BY <1>5, <2>2 DEF LoginFailRead, TypeOK
<1>6. CASE LoginFailWrite(r)
  <2>1. req[r].n + 1 \in Nat
    BY <1>6, ByPC DEF LoginFailWrite, Failing, TypeOK
  <2>2. loginFailureDelay(req[r].n + 1) \in Nat
    BY <2>1, DelayType
  <2>3. now + loginFailureDelay(req[r].n + 1) \in Nat
    BY <2>2 DEF TypeOK
  <2> QED BY <1>6, <2>1, <2>3, DoneTypes DEF LoginFailWrite, TypeOK
<1>7. CASE LoginClearFailures(r)
  BY <1>7, GotoTypes DEF LoginClearFailures, LoginPCs, TypeOK
<1>8. ASSUME NEW sid \in SIDs, LoginCreateSession(r, sid) PROVE TypeOK'
  <2>1. req[r].u.id \in UserIDs
    BY <1>8, ByPC DEF LoginCreateSession, LoginPCs, LoggingIn, User, AccountOf, TypeOK
  <2>2. [id |-> sid, user |-> req[r].u.id, exp |-> now + SessionTTL] \in SessionRow
    BY <2>1, AuthAssumption DEF SessionRow, TypeOK
  <2>3. sessions' \subseteq SessionRow
    BY <1>8, <2>2 DEF LoginCreateSession, CreateSession, TypeOK
  <2> QED BY <1>8, <2>3, DoneTypes DEF LoginCreateSession, TypeOK
<1> QED BY <1>1, <1>2, <1>3, <1>4, <1>5, <1>6, <1>7, <1>8 DEF LoginStep

(* Somebody who is signed in is a user who exists. *)
LEMMA SignedInUser == ASSUME TypeOK, SignedIn PROVE acct \in User
<1>1. acct.id \in UserIDs
  BY DEF SignedIn, TypeOK, SessionRow
<1> QED BY <1>1 DEF TypeOK, AccountOf, User

(* An update of some columns leaves a well-formed row. *)
LEMMA UpdateTypes ==
    ASSUME TypeOK, NEW id, NEW row \in AccountOf(UserIDs \union {0}), UpdateUser(id, row)
    PROVE  acct' \in AccountOf(UserIDs \union {0})
BY DEF UpdateUser, TypeOK

(* A row without MFA is well-formed. *)
LEMMA PlainType ==
    ASSUME NEW id \in UserIDs \union {0}, NEW pw \in Passwords
    PROVE  PlainUser(id, pw) \in AccountOf(UserIDs \union {0})
BY AuthAssumption DEF PlainUser, AccountOf

(* So is the row ResetUserMFA writes, and the codes it leaves. *)
LEMMA ResetMFATypes ==
    ASSUME TypeOK, NEW id, ResetUserMFA(id)
    PROVE  acct' \in AccountOf(UserIDs \union {0}) /\ codes' \subseteq CodeRow
<1>1. PlainUser(acct.id, acct.pw) \in AccountOf(UserIDs \union {0})
  BY PlainType DEF TypeOK, AccountOf
<1>2. acct' \in AccountOf(UserIDs \union {0})
  BY <1>1, UpdateTypes DEF ResetUserMFA
<1>3. codes' \subseteq CodeRow
  BY DEF ResetUserMFA, TypeOK
<1> QED BY <1>2, <1>3

(* The operations of the account's owner. *)
LEMMA OwnerTypes ==
    ASSUME TypeOK, NEW r \in Reqs, OwnerStep(r) PROVE TypeOK'
<1> USE DEF attempts, counters, history
<1>1. CASE ConfirmRead(r)
  <2>1. [pc |-> "enable", u |-> acct] \in Owning
    BY <1>1, SignedInUser DEF ConfirmRead, Owning, OwnerPCs
  <2>2. req' \in [Reqs -> ReqStates]
    BY <1>1, <2>1 DEF ConfirmRead, ReqStates, TypeOK
  <2>3. acct.secret \in 0..MaxSecrets /\ acct.secret # 0
    BY <1>1 DEF ConfirmRead, TypeOK, AccountOf
  <2>4. acct.secret \in 1..MaxSecrets
    BY <2>3, AuthAssumption
  <2>5. confirmed' \subseteq 1..MaxSecrets
    BY <1>1, <2>4 DEF ConfirmRead, TypeOK
  <2> QED BY <1>1, <2>2, <2>5 DEF ConfirmRead, TypeOK
<1>2. CASE ConfirmEnable(r)
  <2>1. req[r].u.secret \in 0..MaxSecrets
    BY <1>2, ByPC DEF ConfirmEnable, OwnerPCs, Owning, User, AccountOf, TypeOK
  <2>2. [acct EXCEPT !.mfa = TRUE, !.secret = req[r].u.secret] \in AccountOf(UserIDs \union {0})
    BY <2>1 DEF TypeOK, AccountOf
  <2>3. acct' \in AccountOf(UserIDs \union {0})
    BY <1>2, <2>2, UpdateTypes DEF ConfirmEnable
  <2>4. req' \in [Reqs -> ReqStates]
    BY <1>2, GotoTypes DEF ConfirmEnable, OwnerPCs, TypeOK
  <2> QED BY <1>2, <2>3, <2>4 DEF ConfirmEnable, TypeOK
<1>3. CASE ConfirmReplaceCodes(r)
  <2>1. req[r].u.id \in UserIDs
    BY <1>3, ByPC DEF ConfirmReplaceCodes, OwnerPCs, Owning, User, AccountOf, TypeOK
  <2>2. codeSets' \in 0..MaxCodes /\ codeSets + 1 \in 1..MaxCodes
    BY <1>3, AuthAssumption DEF ConfirmReplaceCodes, TypeOK
  <2>3. Code(req[r].u.id, codeSets + 1, FALSE) \in CodeRow
    BY <2>1, <2>2 DEF Code, CodeRow
  <2>4. codes' \subseteq CodeRow
    BY <1>3, <2>3 DEF ConfirmReplaceCodes, TypeOK
  <2>5. req' \in [Reqs -> ReqStates]
    BY <1>3, DoneTypes DEF ConfirmReplaceCodes, TypeOK
  <2> QED BY <1>3, <2>2, <2>4, <2>5 DEF ConfirmReplaceCodes, TypeOK
<1>4. ASSUME NEW pw \in Passwords, NEW second \in Seconds, DisableRead(r, pw, second)
      PROVE  TypeOK'
  <2>1. [pc |-> "resetMFA", u |-> acct] \in Owning
    BY <1>4, SignedInUser DEF DisableRead, Owning, OwnerPCs
  <2>2. second \in Second
    BY DEF Seconds, Second, TypeOK
  <2>3. [pc |-> "disableRedeem", u |-> acct, second |-> second] \in Disabling
    BY <1>4, <2>2, SignedInUser DEF DisableRead, Disabling
  <2>4. req' \in [Reqs -> ReqStates]
    BY <1>4, <2>1, <2>3 DEF DisableRead, ReqStates, TypeOK
  <2> QED BY <1>4, <2>4 DEF DisableRead, TypeOK
<1>5. CASE DisableRedeem(r)
  <2>1. req[r].u \in User
    BY <1>5, ByPC DEF DisableRedeem, Disabling, TypeOK
  <2>2. [pc |-> "resetMFA", u |-> req[r].u] \in Owning
    BY <2>1 DEF Owning, OwnerPCs
  <2>3. req' \in [Reqs -> ReqStates]
    BY <1>5, <2>2, DoneTypes DEF DisableRedeem, ReqStates, TypeOK
  <2>4. codes' \subseteq CodeRow /\ doors' \in [1..MaxCodes -> Nat]
    BY <1>5, RedeemTypes DEF DisableRedeem, TypeOK
  <2> QED BY <1>5, <2>3, <2>4 DEF DisableRedeem, TypeOK
<1>6. CASE DisableReset(r)
  BY <1>6, ResetMFATypes, DoneTypes DEF DisableReset, TypeOK
<1>7. ASSUME NEW old \in Passwords, NEW new \in Passwords, PasswordRead(r, old, new)
      PROVE  TypeOK'
  <2>1. [pc |-> "setPassword", u |-> acct, new |-> new] \in Changing
    BY <1>7, SignedInUser DEF PasswordRead, Changing
  <2>2. req' \in [Reqs -> ReqStates]
    BY <1>7, <2>1 DEF PasswordRead, ReqStates, TypeOK
  <2> QED BY <1>7, <2>2 DEF PasswordRead, TypeOK
<1>8. CASE PasswordWrite(r)
  <2>1. req[r].new \in Passwords
    BY <1>8, ByPC DEF PasswordWrite, Changing, TypeOK
  <2>2. [acct EXCEPT !.pw = req[r].new] \in AccountOf(UserIDs \union {0})
    BY <2>1 DEF TypeOK, AccountOf
  <2>3. acct' \in AccountOf(UserIDs \union {0})
    BY <1>8, <2>2, UpdateTypes DEF PasswordWrite
  <2> QED BY <1>8, <2>3, DoneTypes DEF PasswordWrite, TypeOK
<1> QED BY <1>1, <1>2, <1>3, <1>4, <1>5, <1>6, <1>7, <1>8 DEF OwnerStep

(* Consuming a reset token. *)
LEMMA ResetTypes ==
    ASSUME TypeOK, NEW r \in Reqs, ResetStep(r) PROVE TypeOK'
<1> USE DEF attempts, counters, history
<1>1. ASSUME NEW k \in toks, NEW new \in Passwords, ResetRead(r, k, new) PROVE TypeOK'
  <2>1. [pc |-> "mark", tok |-> k, new |-> new] \in Resetting
    BY DEF Resetting, ResetPCs, TypeOK
  <2>2. req' \in [Reqs -> ReqStates]
    BY <1>1, <2>1 DEF ResetRead, ReqStates, TypeOK
  <2> QED BY <1>1, <2>2 DEF ResetRead, TypeOK
<1>2. CASE ResetMark(r)
  <2>1. \A k \in TokenRow : [k EXCEPT !.used = TRUE] \in TokenRow
    BY DEF TokenRow
  <2>2. toks' \subseteq TokenRow
    BY <1>2, <2>1 DEF ResetMark, TypeOK
  <2>3. req' \in [Reqs -> ReqStates]
    BY <1>2, GotoTypes DEF ResetMark, ResetPCs, TypeOK
  <2> QED BY <1>2, <2>2, <2>3 DEF ResetMark, TypeOK
<1>3. CASE ResetPassword(r)
  <2>1. req[r].new \in Passwords /\ req[r].tok.id \in Tokens
    BY <1>3, ByPC DEF ResetPassword, ResetPCs, Resetting, TokenRow, TypeOK
  <2>2. [acct EXCEPT !.pw = req[r].new] \in AccountOf(UserIDs \union {0})
    BY <2>1 DEF TypeOK, AccountOf
  <2>3. acct' \in AccountOf(UserIDs \union {0})
    BY <1>3, <2>2, UpdateTypes DEF ResetPassword
  <2>4. resets' \in [Tokens -> Nat]
    BY <1>3, <2>1 DEF ResetPassword, TypeOK
  <2> QED BY <1>3, <2>3, <2>4, DoneTypes DEF ResetPassword, TypeOK
<1> QED BY <1>1, <1>2, <1>3 DEF ResetStep

(* Administrators. *)
LEMMA AdminTypes ==
    ASSUME TypeOK, AdminStep PROVE TypeOK'
<1> USE DEF attempts, counters, history
<1> DEFINE A == AccountOf(UserIDs \union {0})
<1>1. CASE SetMFAPolicy
  BY <1>1 DEF SetMFAPolicy, TypeOK
<1>2. CASE ResetManagedUserMFA
  BY <1>2, ResetMFATypes DEF ResetManagedUserMFA, TypeOK
<1>3. CASE DeleteManagedUser
  <2>1. NoAccount \in A
    BY AuthAssumption, PlainType DEF NoAccount
  <2>2. /\ sessions' \subseteq SessionRow /\ codes' \subseteq CodeRow /\ toks' \subseteq TokenRow
    BY <1>3 DEF DeleteManagedUser, TypeOK
  <2> QED BY <1>3, <2>1, <2>2 DEF DeleteManagedUser, TypeOK
<1>4. ASSUME NEW off \in BOOLEAN, SetManagedUserAccess(off) PROVE TypeOK'
  <2>1. [acct EXCEPT !.ipOff = off] \in A
    BY DEF TypeOK, AccountOf
  <2> QED BY <1>4, <2>1 DEF SetManagedUserAccess, TypeOK
<1>5. ASSUME NEW pw \in Passwords, SetManagedUserPassword(pw) PROVE TypeOK'
  <2>1. [acct EXCEPT !.pw = pw] \in A
    BY DEF TypeOK, AccountOf
  <2> QED BY <1>5, <2>1 DEF SetManagedUserPassword, TypeOK
<1>6. ASSUME NEW pw \in Passwords, CreateManagedUser(pw) PROVE TypeOK'
  <2>1. ids' \in 0..MaxUsers /\ ids' \in UserIDs
    BY <1>6, AuthAssumption DEF CreateManagedUser, TypeOK, UserIDs
  <2>2. acct' \in A
    BY <1>6, <2>1, PlainType DEF CreateManagedUser
  <2> QED BY <1>6, <2>1, <2>2 DEF CreateManagedUser, TypeOK
<1>7. ASSUME NEW t \in Tokens, CreatePasswordResetToken(t) PROVE TypeOK'
  <2>1. acct.id \in UserIDs /\ now + ResetTTL \in Nat
    BY <1>7, AuthAssumption DEF CreatePasswordResetToken, Exists, TypeOK, AccountOf
  <2>2. Token(t, acct.id, now + ResetTTL, FALSE) \in TokenRow
    BY <2>1 DEF Token, TokenRow
  <2> QED BY <1>7, <2>2 DEF CreatePasswordResetToken, TypeOK
<1> QED BY <1>1, <1>2, <1>3, <1>4, <1>5, <1>6, <1>7 DEF AdminStep

(* TypeOK holds at the start. *)
LEMMA TypesInitially == Init => TypeOK
<1> SUFFICES ASSUME Init PROVE TypeOK
  OBVIOUS
<1>1. acct \in AccountOf(UserIDs \union {0})
  <2>1. 1 \in UserIDs
    BY AuthAssumption DEF UserIDs
  <2> QED BY <2>1, PlainType DEF Init
<1>2. ids \in 0..MaxUsers /\ secrets \in 0..MaxSecrets /\ codeSets \in 0..MaxCodes
  <2>1. 1 \in 0..MaxUsers /\ 0 \in 0..MaxSecrets /\ 0 \in 0..MaxCodes
    BY AuthAssumption
  <2> QED BY <2>1 DEF Init
<1> QED BY <1>1, <1>2, IdleState DEF Init, TypeOK

(* Every step keeps TypeOK. *)
LEMMA TypesInductive == TypeOK /\ [Next]_vars => TypeOK'
<1> SUFFICES ASSUME TypeOK, [Next]_vars PROVE TypeOK'
  OBVIOUS
<1> USE DEF attempts, counters, history
<1>1. ASSUME NEW r \in Reqs, Abort(r) PROVE TypeOK'
  BY <1>1, DoneTypes DEF Abort, TypeOK
<1>2. ASSUME NEW sid \in SIDs, Logout(sid) PROVE TypeOK'
  BY <1>2 DEF Logout, TypeOK
<1>3. CASE LogoutAll
  BY <1>3 DEF LogoutAll, TypeOK
<1>4. CASE StartOwnMFAEnrollment
  <2>1. secrets' \in 0..MaxSecrets
    BY <1>4, AuthAssumption DEF StartOwnMFAEnrollment, TypeOK
  <2>2. acct' \in AccountOf(UserIDs \union {0})
    BY <1>4, <2>1 DEF StartOwnMFAEnrollment, TypeOK, AccountOf
  <2> QED BY <1>4, <2>1, <2>2 DEF StartOwnMFAEnrollment, TypeOK
<1>5. CASE Tick
  BY <1>5 DEF Tick, TypeOK
<1>6. CASE UNCHANGED vars
  BY <1>6 DEF vars, TypeOK
<1> QED BY <1>1, <1>2, <1>3, <1>4, <1>5, <1>6, LoginTypes, OwnerTypes, ResetTypes, AdminTypes
    DEF Next

(* Tables and requests keep their shape for every number of requests,      *)
(* passwords, tokens and sessions; in particular no step in flight writes  *)
(* a row for the user id 0 of a name without an account.                   *)
THEOREM AuthTypes == Spec => []TypeOK
BY TypesInitially, TypesInductive, PTL DEF Spec

-----------------------------------------------------------------------------
(* Recovery codes. *)

(* A generated code has one row at most, and an unused one opened nothing. *)
CodesOK ==
    /\ \A c \in codes : c.n <= codeSets
    /\ \A c, d \in codes : c.n = d.n => c = d
    /\ \A c \in codes : ~c.used => doors[c.n] = 0
    /\ \A k \in 1..MaxCodes : k > codeSets => doors[k] = 0
    /\ RecoveryCodeOnce

(* The steps of a request that write recovery codes. *)
CodeStep(r) ==
    \/ LoginRedeem(r) \/ ConfirmReplaceCodes(r) \/ DisableRedeem(r) \/ DisableReset(r)

(* Removing rows keeps CodesOK. *)
LEMMA FewerCodes ==
    ASSUME CodesOK, codes' \subseteq codes, UNCHANGED <<doors, codeSets>>
    PROVE  CodesOK'
BY DEF CodesOK, RecoveryCodeOnce

(* Redeeming replaces the only row of a code that opened nothing so far. *)
LEMMA RedeemOnce ==
    ASSUME TypeOK, CodesOK, NEW user, NEW k, ConsumeUserMFARecoveryCode(user, k),
           UNCHANGED codeSets
    PROVE  CodesOK'
<1> DEFINE old == Code(user, k, FALSE)
           new == Code(user, k, TRUE)
<1>1. old \in codes /\ old.n = k /\ ~old.used /\ new.n = k /\ new.used
  BY DEF ConsumeUserMFARecoveryCode, Redeemable, Code
<1>2. k \in 1..MaxCodes /\ k <= codeSets /\ doors[k] = 0
  BY <1>1 DEF TypeOK, CodeRow, CodesOK
<1>3. codes' = (codes \ {old}) \union {new} /\ doors' = [doors EXCEPT ![k] = @ + 1]
  BY DEF ConsumeUserMFARecoveryCode
<1>4. \A c \in codes : c.n = k => c = old
  BY <1>1 DEF CodesOK
<1> HIDE DEF old, new
<1>5. doors'[k] = 1 /\ \A j \in 1..MaxCodes : j # k => doors'[j] = doors[j]
  BY <1>2, <1>3 DEF TypeOK
<1>6. \A c \in codes' : c = new \/ (c \in codes /\ c.n # k)
  BY <1>3, <1>4
<1>7. \A c \in codes : c.n \in 1..MaxCodes
  BY DEF TypeOK, CodeRow
<1>8. \A c \in codes' : c.n <= codeSets'
  BY <1>1, <1>2, <1>6 DEF CodesOK
<1>9. \A c, d \in codes' : c.n = d.n => c = d
  BY <1>1, <1>6 DEF CodesOK
<1>10. \A c \in codes' : ~c.used => doors'[c.n] = 0
  BY <1>1, <1>5, <1>6, <1>7 DEF CodesOK
<1>11. \A j \in 1..MaxCodes : j > codeSets' => doors'[j] = 0
  BY <1>2, <1>5 DEF CodesOK, TypeOK
<1>12. \A j \in 1..MaxCodes : doors'[j] <= 1
  BY <1>5 DEF CodesOK, RecoveryCodeOnce
<1> QED BY <1>8, <1>9, <1>10, <1>11, <1>12 DEF CodesOK, RecoveryCodeOnce

(* Every step keeps CodesOK: redeeming, generating and deleting codes. *)
LEMMA CodesInductive == TypeOK /\ CodesOK /\ [Next]_vars => CodesOK'
<1> SUFFICES ASSUME TypeOK, CodesOK, [Next]_vars PROVE CodesOK'
  OBVIOUS
<1> USE DEF attempts, counters, history
<1>1. ASSUME NEW r \in Reqs, LoginRedeem(r) PROVE CodesOK'
  BY <1>1, RedeemOnce, FewerCodes DEF LoginRedeem
<1>2. ASSUME NEW r \in Reqs, DisableRedeem(r) PROVE CodesOK'
  BY <1>2, RedeemOnce, FewerCodes DEF DisableRedeem
<1>3. ASSUME NEW r \in Reqs, DisableReset(r) PROVE CodesOK'
  BY <1>3, FewerCodes DEF DisableReset, ResetUserMFA
<1>4. CASE ResetManagedUserMFA
  BY <1>4, FewerCodes DEF ResetManagedUserMFA, ResetUserMFA
<1>5. CASE DeleteManagedUser
  BY <1>5, FewerCodes DEF DeleteManagedUser
<1>6. ASSUME NEW r \in Reqs, ConfirmReplaceCodes(r) PROVE CodesOK'
  <2> DEFINE new == Code(req[r].u.id, codeSets + 1, FALSE)
  <2>1. codeSets \in Nat /\ codeSets + 1 \in 1..MaxCodes /\ codeSets' = codeSets + 1
    BY <1>6, AuthAssumption DEF ConfirmReplaceCodes, TypeOK
  <2>2. new.n = codeSets + 1 /\ doors[codeSets + 1] = 0
    BY <2>1 DEF Code, CodesOK
  <2>3. \A c \in codes' : c = new \/ c \in codes
    BY <1>6 DEF ConfirmReplaceCodes
  <2>4. \A c \in codes : c.n \in Nat /\ c.n <= codeSets
    BY DEF TypeOK, CodeRow, CodesOK
  <2>5. UNCHANGED doors
    BY <1>6 DEF ConfirmReplaceCodes
  <2> HIDE DEF new
  <2>6. \A c \in codes' : c.n <= codeSets'
    BY <2>1, <2>2, <2>3, <2>4
  <2>7. \A c, d \in codes' : c.n = d.n => c = d
    BY <2>1, <2>2, <2>3, <2>4 DEF CodesOK
  <2>8. \A c \in codes' : ~c.used => doors'[c.n] = 0
    BY <2>2, <2>3, <2>5 DEF CodesOK
  <2>9. \A k \in 1..MaxCodes : k > codeSets' => doors'[k] = 0
    BY <2>1, <2>5 DEF CodesOK
  <2> QED BY <2>5, <2>6, <2>7, <2>8, <2>9 DEF CodesOK, RecoveryCodeOnce
<1>7. CASE UNCHANGED <<codes, doors, codeSets>>
  BY <1>7, FewerCodes
<1>8. \/ UNCHANGED <<codes, doors, codeSets>>
      \/ \E r \in Reqs : CodeStep(r)
      \/ ResetManagedUserMFA \/ DeleteManagedUser
  <2>1. ASSUME NEW r \in Reqs, LoginStep(r) PROVE UNCHANGED <<codes, doors, codeSets>> \/ CodeStep(r)
    BY <2>1 DEF CodeStep, LoginStep, LoginAttempt, LoginFindUser, LoginReadPolicy, LoginFailRead,
       LoginFailWrite, LoginClearFailures, LoginCreateSession
  <2>2. ASSUME NEW r \in Reqs, OwnerStep(r) PROVE UNCHANGED <<codes, doors, codeSets>> \/ CodeStep(r)
    BY <2>2 DEF CodeStep, OwnerStep, ConfirmRead, ConfirmEnable, DisableRead, PasswordRead, PasswordWrite
  <2>3. ASSUME NEW r \in Reqs, ResetStep(r) \/ Abort(r) PROVE UNCHANGED <<codes, doors, codeSets>>
    BY <2>3 DEF ResetStep, Abort, ResetRead, ResetMark, ResetPassword
  <2>4. CASE AdminStep
    BY <2>4 DEF AdminStep, SetMFAPolicy, SetManagedUserAccess, SetManagedUserPassword, CreateManagedUser,
       CreatePasswordResetToken
  <2>5. CASE (\E sid \in SIDs : Logout(sid)) \/ LogoutAll \/ StartOwnMFAEnrollment \/ Tick
    BY <2>5 DEF Logout, LogoutAll, StartOwnMFAEnrollment, Tick
  <2>6. CASE UNCHANGED vars
    BY <2>6 DEF vars
  <2> QED BY <2>1, <2>2, <2>3, <2>4, <2>5, <2>6 DEF Next
<1> QED BY <1>1, <1>2, <1>3, <1>4, <1>5, <1>6, <1>7, <1>8 DEF CodeStep

(* No codes at the start. *)
LEMMA CodesInitially == Init => CodesOK
BY AuthAssumption DEF Init, CodesOK, RecoveryCodeOnce

(* However many logins and requests to disable MFA send a recovery code at *)
(* the same time, at most one of them is let through by it.                *)
THEOREM CodeOnce == Spec => []RecoveryCodeOnce
<1>1. CodesOK => RecoveryCodeOnce
  BY DEF CodesOK
<1> QED BY <1>1, CodesInitially, CodesInductive, AuthTypes, PTL DEF Spec

-----------------------------------------------------------------------------
(* Secrets. *)

(* A confirmation in flight writes the secret that was confirmed. *)
SecretsOK ==
    /\ ConfirmedSecret
    /\ \A r \in Reqs : req[r].pc = "enable" => req[r].u.secret \in confirmed

(* A step after which nobody new confirms and the row is no more demanding. *)
LEMMA SecretsFrame ==
    ASSUME SecretsOK, confirmed \subseteq confirmed',
           acct'.mfa => acct.mfa /\ acct'.secret = acct.secret,
           \A r \in Reqs : req'[r].pc = "enable" => req'[r] = req[r]
    PROVE  SecretsOK'
BY DEF SecretsOK, ConfirmedSecret

(* Requests other than r keep their state, and r is not about to confirm. *)
Moved(r) ==
    /\ req'[r].pc # "enable"
    /\ \A q \in Reqs : q # r => req'[q] = req[q]

(* After such a step a confirmation in flight is one that was. *)
LEMMA OthersKeep ==
    ASSUME NEW r \in Reqs, Moved(r)
    PROVE  \A q \in Reqs : req'[q].pc = "enable" => req'[q] = req[q]
BY DEF Moved

(* A request that is at no confirmation moves on to no confirmation. *)
LEMMA DoneMoved == ASSUME TypeOK, NEW r \in Reqs, Done(r) PROVE Moved(r)
BY DEF Done, Idle, TypeOK, Moved

(* Going to another step than the confirmation. *)
LEMMA GotoMoved ==
    ASSUME TypeOK, NEW r \in Reqs, req[r].pc \in LoginPCs \union OwnerPCs \union ResetPCs,
           NEW pc, Goto(r, pc), pc # "enable"
    PROVE  Moved(r)
<1>1. req[r] \in LoggingIn \union Owning \union Resetting
  BY ByPC DEF TypeOK
<1>2. [req[r] EXCEPT !.pc = pc].pc = pc
  BY <1>1 DEF LoggingIn, Owning, Resetting
<1> QED BY <1>2 DEF Goto, TypeOK, Moved

(* Every step keeps SecretsOK; only a confirmation switches MFA on. *)
LEMMA SecretsInductive == TypeOK /\ SecretsOK /\ [Next]_vars => SecretsOK'
<1> SUFFICES ASSUME TypeOK, SecretsOK, [Next]_vars PROVE SecretsOK'
  OBVIOUS
<1> USE DEF attempts, counters, history
<1> DEFINE Same == \A q \in Reqs : req'[q].pc = "enable" => req'[q] = req[q]
<1>1. ASSUME NEW r \in Reqs, LoginStep(r) PROVE SecretsOK'
  <2>1. UNCHANGED <<acct, confirmed>>
    BY <1>1 DEF LoginStep, LoginAttempt, LoginFindUser, LoginReadPolicy, LoginRedeem,
       LoginFailRead, LoginFailWrite, LoginClearFailures, LoginCreateSession
  <2>2. Moved(r)
    <3>1. CASE \E pw \in Passwords, second \in Seconds, inside \in BOOLEAN :
                  LoginAttempt(r, pw, second, inside)
      BY <3>1 DEF LoginAttempt, Moved, TypeOK
    <3>2. CASE LoginFindUser(r)
      <4>1. afterPassword(req[r], acct) # "enable"
        BY DEF afterPassword
      <4> HIDE DEF afterPassword
      <4> QED BY <3>2, <4>1, DoneMoved DEF LoginFindUser, Moved, TypeOK
    <3>3. CASE LoginReadPolicy(r) \/ LoginClearFailures(r)
      BY <3>3, GotoMoved DEF LoginReadPolicy, LoginClearFailures, LoginPCs
    <3>4. CASE LoginRedeem(r)
      <4>1. CASE Goto(r, "failRead")
        BY <3>4, <4>1, GotoMoved DEF LoginRedeem, LoginPCs
      <4>2. CASE req' = [req EXCEPT ![r].pc = "clear", ![r].factor = TRUE]
        <5>1. req[r] \in LoggingIn
          BY <3>4, ByPC DEF LoginRedeem, LoginPCs, TypeOK
        <5>2. req'[r].pc = "clear"
          BY <4>2, <5>1 DEF LoggingIn, TypeOK
        <5> QED BY <4>2, <5>2 DEF Moved, TypeOK
      <4> QED BY <3>4, <4>1, <4>2 DEF LoginRedeem
    <3>5. CASE LoginFailRead(r)
      BY <3>5 DEF LoginFailRead, Moved, TypeOK
    <3>6. CASE LoginFailWrite(r) \/ \E sid \in SIDs : LoginCreateSession(r, sid)
      BY <3>6, DoneMoved DEF LoginFailWrite, LoginCreateSession
    <3> QED BY <1>1, <3>1, <3>2, <3>3, <3>4, <3>5, <3>6 DEF LoginStep
  <2> QED BY <2>1, <2>2, OthersKeep, SecretsFrame
<1>2. ASSUME NEW r \in Reqs, ConfirmRead(r) PROVE SecretsOK'
  BY <1>2 DEF ConfirmRead, SecretsOK, ConfirmedSecret, TypeOK
<1>3. ASSUME NEW r \in Reqs, ConfirmEnable(r) PROVE SecretsOK'
  <2>1. UNCHANGED confirmed /\ req[r].u.secret \in confirmed
    BY <1>3 DEF ConfirmEnable, SecretsOK
  <2>2. acct' = acct \/ acct' = [acct EXCEPT !.mfa = TRUE, !.secret = req[r].u.secret]
    BY <1>3 DEF ConfirmEnable, UpdateUser
  <2>3. acct' = acct \/ acct'.secret = req[r].u.secret
    BY <2>2 DEF TypeOK, AccountOf
  <2>4. Same
    BY <1>3, OthersKeep, GotoMoved DEF ConfirmEnable, OwnerPCs
  <2> QED BY <2>1, <2>3, <2>4 DEF SecretsOK, ConfirmedSecret
<1>4. ASSUME NEW r \in Reqs,
             \/ ConfirmReplaceCodes(r) \/ DisableRedeem(r)
             \/ \E pw \in Passwords, second \in Seconds : DisableRead(r, pw, second)
             \/ \E old, new \in Passwords : PasswordRead(r, old, new)
             \/ \E k \in toks, new \in Passwords : ResetRead(r, k, new)
             \/ ResetMark(r) \/ Abort(r)
      PROVE  SecretsOK'
  <2>1. UNCHANGED <<acct, confirmed>>
    BY <1>4 DEF ConfirmReplaceCodes, DisableRedeem, DisableRead, PasswordRead, ResetRead,
       ResetMark, Abort
  <2>2. Moved(r)
    <3>1. CASE ResetMark(r)
      BY <3>1, GotoMoved DEF ResetMark, ResetPCs
    <3>2. CASE ConfirmReplaceCodes(r) \/ Abort(r)
      BY <3>2, DoneMoved DEF ConfirmReplaceCodes, Abort
    <3>3. CASE DisableRedeem(r)
      BY <3>3, DoneMoved DEF DisableRedeem, Moved, TypeOK
    <3>4. CASE \E pw \in Passwords, second \in Seconds : DisableRead(r, pw, second)
      BY <3>4 DEF DisableRead, Moved, TypeOK
    <3>5. CASE \E old, new \in Passwords : PasswordRead(r, old, new)
      BY <3>5 DEF PasswordRead, Moved, TypeOK
    <3>6. CASE \E k \in toks, new \in Passwords : ResetRead(r, k, new)
      BY <3>6 DEF ResetRead, Moved, TypeOK
    <3> QED BY <1>4, <3>1, <3>2, <3>3, <3>4, <3>5, <3>6
  <2> QED BY <2>1, <2>2, OthersKeep, SecretsFrame
<1>5. ASSUME NEW r \in Reqs, DisableReset(r) \/ PasswordWrite(r) \/ ResetPassword(r)
      PROVE  SecretsOK'
  <2>1. UNCHANGED confirmed /\ Done(r)
    BY <1>5 DEF DisableReset, PasswordWrite, ResetPassword
  <2>2. acct'.mfa => acct.mfa /\ acct'.secret = acct.secret
    BY <1>5 DEF DisableReset, PasswordWrite, ResetPassword, ResetUserMFA, UpdateUser,
       PlainUser, TypeOK, AccountOf
  <2>3. Same
    BY <2>1, OthersKeep, DoneMoved
  <2> QED BY <2>1, <2>2, <2>3, SecretsFrame
<1>6. CASE AdminStep \/ StartOwnMFAEnrollment
  <2>1. UNCHANGED <<confirmed, req>>
    BY <1>6 DEF AdminStep, StartOwnMFAEnrollment, SetMFAPolicy, ResetManagedUserMFA,
       DeleteManagedUser, SetManagedUserAccess, SetManagedUserPassword, CreateManagedUser,
       CreatePasswordResetToken
  <2>2. CASE SetMFAPolicy \/ \E t \in Tokens : CreatePasswordResetToken(t)
    BY <2>1, <2>2, SecretsFrame DEF SetMFAPolicy, CreatePasswordResetToken
  <2>3. CASE ResetManagedUserMFA \/ DeleteManagedUser \/ StartOwnMFAEnrollment
             \/ \E pw \in Passwords : CreateManagedUser(pw)
    <3>1. ~acct'.mfa
      <4>1. CASE ResetManagedUserMFA
        BY <4>1 DEF ResetManagedUserMFA, ResetUserMFA, UpdateUser, PlainUser
      <4>2. CASE DeleteManagedUser \/ \E pw \in Passwords : CreateManagedUser(pw)
        BY <4>2 DEF DeleteManagedUser, NoAccount, CreateManagedUser, PlainUser
      <4>3. CASE StartOwnMFAEnrollment
        BY <4>3 DEF StartOwnMFAEnrollment, TypeOK, AccountOf
      <4> QED BY <2>3, <4>1, <4>2, <4>3
    <3> QED BY <2>1, <3>1, SecretsFrame
  <2>4. CASE \E off \in BOOLEAN : SetManagedUserAccess(off)
    BY <2>1, <2>4, SecretsFrame DEF SetManagedUserAccess, TypeOK, AccountOf
  <2>5. CASE \E pw \in Passwords : SetManagedUserPassword(pw)
    BY <2>1, <2>5, SecretsFrame DEF SetManagedUserPassword, TypeOK, AccountOf
  <2> QED BY <1>6, <2>2, <2>3, <2>4, <2>5 DEF AdminStep
<1>7. CASE LogoutAll \/ Tick \/ (\E sid \in SIDs : Logout(sid)) \/ UNCHANGED vars
  <2>1. UNCHANGED <<acct, confirmed, req>>
    BY <1>7 DEF LogoutAll, Tick, Logout, vars
  <2> QED BY <2>1, SecretsFrame
<1> QED BY <1>1, <1>2, <1>3, <1>4, <1>5, <1>6, <1>7 DEF Next, OwnerStep, ResetStep

(* MFA is off at the start. *)
LEMMA SecretsInitially == Init => SecretsOK
BY DEF Init, SecretsOK, ConfirmedSecret, PlainUser, Idle

(* Whatever enrolments, confirmations, resets and aborts overlap, MFA is   *)
(* never on with a secret nobody proved to hold.                           *)
THEOREM SecretConfirmed == Spec => []ConfirmedSecret
<1>1. SecretsOK => ConfirmedSecret
  BY DEF SecretsOK
<1> QED BY <1>1, SecretsInitially, SecretsInductive, AuthTypes, PTL DEF Spec

-----------------------------------------------------------------------------
(* Rows of a user. *)

(* The name keeps its account, and its tables get no row of another one. *)
LEMMA OwnedFrame ==
    ASSUME NoOrphans, acct'.id = acct.id,
           \A s \in sessions' : s \in sessions \/ s.user = acct.id,
           \A c \in codes' : c \in codes \/ c.user = acct.id,
           \A k \in toks' : k \in toks \/ k.user = acct.id
    PROVE  NoOrphans'
BY DEF NoOrphans

(* An update of the row keeps its id. *)
LEMMA UpdateKeepsID ==
    ASSUME TypeOK, NEW id, NEW row, UpdateUser(id, row), row.id = acct.id
    PROVE  acct'.id = acct.id
BY DEF UpdateUser

(* A code that can be redeemed is one of the account. *)
LEMMA RedeemOwned ==
    ASSUME NoOrphans, NEW user, NEW k, ConsumeUserMFARecoveryCode(user, k)
    PROVE  \A c \in codes' : c \in codes \/ c.user = acct.id
<1>1. user = acct.id
  BY DEF ConsumeUserMFARecoveryCode, Redeemable, Code, NoOrphans
<1> QED BY <1>1 DEF ConsumeUserMFARecoveryCode, Code

(* Every step keeps NoOrphans. *)
LEMMA OrphansInductive == TypeOK /\ NoOrphans /\ [Next]_vars => NoOrphans'
<1> SUFFICES ASSUME TypeOK, NoOrphans, [Next]_vars PROVE NoOrphans'
  OBVIOUS
<1> USE DEF attempts, counters, history
<1>1. ASSUME NEW r \in Reqs, LoginStep(r) PROVE NoOrphans'
  <2>1. UNCHANGED <<acct, toks>>
    BY <1>1 DEF LoginStep, LoginAttempt, LoginFindUser, LoginReadPolicy, LoginRedeem,
       LoginFailRead, LoginFailWrite, LoginClearFailures, LoginCreateSession
  <2>2. CASE LoginRedeem(r)
    BY <2>1, <2>2, RedeemOwned, OwnedFrame DEF LoginRedeem
  <2>3. CASE \E sid \in SIDs : LoginCreateSession(r, sid)
    <3>1. UNCHANGED codes /\ \A s \in sessions' : s \in sessions \/ s.user = acct.id
      BY <2>3 DEF LoginCreateSession, CreateSession
    <3> QED BY <2>1, <3>1, OwnedFrame
  <2>4. CASE UNCHANGED <<codes, sessions>>
    BY <2>1, <2>4, OwnedFrame
  <2> QED BY <1>1, <2>2, <2>3, <2>4
      DEF LoginStep, LoginAttempt, LoginFindUser, LoginReadPolicy, LoginFailRead,
          LoginFailWrite, LoginClearFailures
<1>2. ASSUME NEW r \in Reqs, ConfirmEnable(r) PROVE NoOrphans'
  <2>1. acct'.id = acct.id
    BY <1>2, UpdateKeepsID DEF ConfirmEnable, UpdateUser, TypeOK, AccountOf
  <2> QED BY <1>2, <2>1, OwnedFrame DEF ConfirmEnable
<1>3. ASSUME NEW r \in Reqs, PasswordWrite(r) PROVE NoOrphans'
  <2>1. acct'.id = acct.id
    BY <1>3, UpdateKeepsID DEF PasswordWrite, TypeOK, AccountOf
  <2> QED BY <1>3, <2>1, OwnedFrame DEF PasswordWrite
<1>4. ASSUME NEW r \in Reqs, ResetPassword(r) PROVE NoOrphans'
  <2>1. acct'.id = acct.id
    BY <1>4, UpdateKeepsID DEF ResetPassword, TypeOK, AccountOf
  <2> QED BY <1>4, <2>1, OwnedFrame DEF ResetPassword
<1>5. ASSUME NEW id, ResetUserMFA(id), UNCHANGED <<sessions, toks>> PROVE NoOrphans'
  <2>1. acct'.id = acct.id
    BY <1>5, UpdateKeepsID DEF ResetUserMFA, PlainUser
  <2> QED BY <1>5, <2>1, OwnedFrame DEF ResetUserMFA
<1>6. ASSUME NEW r \in Reqs, ConfirmReplaceCodes(r) PROVE NoOrphans'
  <2>1. \A c \in codes' : c \in codes \/ c.user = acct.id
    BY <1>6 DEF ConfirmReplaceCodes, Code
  <2> QED BY <1>6, <2>1, OwnedFrame DEF ConfirmReplaceCodes
<1>7. ASSUME NEW r \in Reqs, DisableRedeem(r) PROVE NoOrphans'
  BY <1>7, RedeemOwned, OwnedFrame DEF DisableRedeem
<1>8. ASSUME NEW r \in Reqs, ResetMark(r) PROVE NoOrphans'
  <2>1. \A k \in TokenRow : [k EXCEPT !.used = TRUE].user = k.user
    BY DEF TokenRow
  <2>2. \A k \in toks' : k.user = acct.id
    BY <1>8, <2>1 DEF ResetMark, NoOrphans, TypeOK
  <2> QED BY <1>8, <2>2, OwnedFrame DEF ResetMark
<1>9. CASE DeleteManagedUser
  BY <1>9 DEF DeleteManagedUser, NoOrphans
<1>10. ASSUME NEW pw \in Passwords, CreateManagedUser(pw) PROVE NoOrphans'
  <2>1. \A row \in sessions \union codes \union toks : row.user \in UserIDs
    BY DEF TypeOK, SessionRow, CodeRow, TokenRow
  <2>2. 0 \notin UserIDs
    BY DEF UserIDs
  <2>3. sessions \union codes \union toks = {}
    BY <1>10, <2>1, <2>2 DEF CreateManagedUser, Exists, NoOrphans
  <2> QED BY <1>10, <2>3 DEF CreateManagedUser, NoOrphans
<1>11. ASSUME NEW t \in Tokens, CreatePasswordResetToken(t) PROVE NoOrphans'
  <2>1. \A k \in toks' : k \in toks \/ k.user = acct.id
    BY <1>11 DEF CreatePasswordResetToken, Token
  <2> QED BY <1>11, <2>1, OwnedFrame DEF CreatePasswordResetToken
<1>12. ASSUME acct'.id = acct.id, sessions' \subseteq sessions, UNCHANGED <<codes, toks>>
       PROVE  NoOrphans'
  BY <1>12, OwnedFrame
<1>13. CASE StartOwnMFAEnrollment
  <2>1. acct'.id = acct.id
    BY <1>13 DEF StartOwnMFAEnrollment, TypeOK, AccountOf
  <2> QED BY <1>12, <1>13, <2>1 DEF StartOwnMFAEnrollment
<1>14. ASSUME NEW off \in BOOLEAN, SetManagedUserAccess(off) PROVE NoOrphans'
  BY <1>12, <1>14 DEF SetManagedUserAccess, TypeOK, AccountOf
<1>15. ASSUME NEW pw \in Passwords, SetManagedUserPassword(pw) PROVE NoOrphans'
  BY <1>12, <1>15 DEF SetManagedUserPassword, TypeOK, AccountOf
<1>16. CASE AdminStep
  <2>1. CASE ResetManagedUserMFA
    BY <1>5, <2>1 DEF ResetManagedUserMFA
  <2>2. CASE SetMFAPolicy
    BY <1>12, <2>2 DEF SetMFAPolicy
  <2> QED BY <1>9, <1>10, <1>11, <1>14, <1>15, <1>16, <2>1, <2>2 DEF AdminStep
<1>17. ASSUME NEW r \in Reqs, OwnerStep(r) PROVE NoOrphans'
  <2>1. CASE DisableReset(r)
    BY <1>5, <2>1 DEF DisableReset
  <2>2. CASE ConfirmRead(r) \/ (\E old, new \in Passwords : PasswordRead(r, old, new))
             \/ \E pw \in Passwords, second \in Seconds : DisableRead(r, pw, second)
    BY <1>12, <2>2 DEF ConfirmRead, PasswordRead, DisableRead
  <2> QED BY <1>2, <1>3, <1>6, <1>7, <1>17, <2>1, <2>2 DEF OwnerStep
<1>18. ASSUME NEW r \in Reqs, ResetStep(r) PROVE NoOrphans'
  <2>1. CASE \E k \in toks, new \in Passwords : ResetRead(r, k, new)
    BY <1>12, <2>1 DEF ResetRead
  <2> QED BY <1>4, <1>8, <1>18, <2>1 DEF ResetStep
<1>19. CASE LogoutAll \/ Tick \/ (\E sid \in SIDs : Logout(sid)) \/ UNCHANGED vars
            \/ \E r \in Reqs : Abort(r)
  BY <1>12, <1>19 DEF LogoutAll, Tick, Logout, Abort, vars
<1> QED BY <1>1, <1>13, <1>16, <1>17, <1>18, <1>19 DEF Next

(* No rows at the start. *)
LEMMA OrphansInitially == Init => NoOrphans
BY DEF Init, NoOrphans

(* No login, enrolment or reset in flight leaves a row of a deleted user:  *)
(* the account that gets the name next starts with none.                   *)
THEOREM RowsGoWithTheUser == Spec => []NoOrphans
BY OrphansInitially, OrphansInductive, AuthTypes, PTL DEF Spec

-----------------------------------------------------------------------------
(* The second factor. *)

(* Only a user who was not enrolled is left to the enforcement policy. *)
FactorOK(q) ==
    /\ q.pc = "policy" => ~q.u.mfa
    /\ q.pc \in {"clear", "session"} /\ q.u.mfa => q.factor

(* A step that moves one request on keeps FactorOK if its new state has it. *)
LEMMA FactorUpdate ==
    ASSUME TypeOK, \A q \in Reqs : FactorOK(req[q]), NEW r \in Reqs, NEW v, FactorOK(v),
           req' = [req EXCEPT ![r] = v]
    PROVE  \A q \in Reqs : FactorOK(req'[q])
BY DEF TypeOK

(* Requests of other kinds are at none of the steps FactorOK speaks of. *)
LEMMA FactorElsewhere ==
    ASSUME NEW q, q.pc \notin {"policy", "clear", "session"} PROVE FactorOK(q)
BY DEF FactorOK

(* A request that ends. *)
LEMMA FactorDone ==
    ASSUME TypeOK, \A q \in Reqs : FactorOK(req[q]), NEW r \in Reqs, Done(r)
    PROVE  \A q \in Reqs : FactorOK(req'[q])
BY FactorUpdate, FactorElsewhere DEF Done, Idle

(* Going to pc keeps the copy of the user and the factor of the request. *)
LEMMA FactorGoto ==
    ASSUME TypeOK, \A q \in Reqs : FactorOK(req[q]), NEW r \in Reqs, NEW pc, Goto(r, pc),
           req[r].pc \in LoginPCs \union OwnerPCs \union ResetPCs,
           \/ pc \notin {"policy", "clear", "session"}
           \/ req[r].pc = "policy" /\ pc = "clear"
           \/ req[r].pc = "clear" /\ pc = "session"
    PROVE  \A q \in Reqs : FactorOK(req'[q])
<1> DEFINE v == [req[r] EXCEPT !.pc = pc]
<1>1. req[r] \in LoggingIn \union Owning \union Resetting
  BY ByPC DEF TypeOK
<1>2. v.pc = pc
  BY <1>1 DEF LoggingIn, Owning, Resetting
<1>3. req' = [req EXCEPT ![r] = v]
  BY DEF Goto
<1>4. CASE pc \notin {"policy", "clear", "session"}
  <2> HIDE DEF v
  <2> QED BY <1>2, <1>3, <1>4, FactorUpdate, FactorElsewhere
<1>5. CASE req[r].pc \in {"policy", "clear"} /\ pc \in {"clear", "session"}
  <2>1. req[r] \in LoggingIn
    BY <1>5, ByPC DEF LoginPCs, TypeOK
  <2>2. v.u = req[r].u /\ v.factor = req[r].factor
    BY <2>1 DEF LoggingIn
  <2>3. req[r].u.mfa => req[r].factor
    BY <1>5 DEF FactorOK
  <2> HIDE DEF v
  <2>4. FactorOK(v)
    BY <1>2, <1>5, <2>2, <2>3 DEF FactorOK
  <2> QED BY <1>3, <2>4, FactorUpdate
<1> QED BY <1>4, <1>5

(* Every step keeps FactorOK of every request. *)
LEMMA FactorInductive ==
    TypeOK /\ (\A q \in Reqs : FactorOK(req[q])) /\ [Next]_vars
        => (\A q \in Reqs : FactorOK(req[q]))'
<1> SUFFICES ASSUME TypeOK, \A q \in Reqs : FactorOK(req[q]), [Next]_vars
             PROVE  \A q \in Reqs : FactorOK(req'[q])
  OBVIOUS
<1> USE DEF attempts, counters, history
<1> DEFINE Goal == \A q \in Reqs : FactorOK(req'[q])
<1>1. ASSUME NEW r \in Reqs, LoginFindUser(r) PROVE Goal
  <2> DEFINE q == req[r]
             v == [pc |-> afterPassword(q, acct), u |-> acct, second |-> q.second,
                   factor |-> q.second = [kind |-> "totp", n |-> acct.secret]]
  <2>1. CASE ~Exists
    BY <1>1, <2>1, FactorDone DEF LoginFindUser
  <2>2. CASE Exists
    <3>1. q.second \in Second
      BY <1>1, ByPC DEF LoginFindUser, Finding, TypeOK
    <3>2. q.second.kind = "totp" /\ q.second.n = acct.secret
              => q.second = [kind |-> "totp", n |-> acct.secret]
      BY <3>1 DEF Second
    <3>3. FactorOK(v)
      BY <3>2 DEF FactorOK, afterPassword
    <3>4. req' = [req EXCEPT ![r] = v]
      BY <1>1, <2>2 DEF LoginFindUser
    <3> HIDE DEF v
    <3> QED BY <3>3, <3>4, FactorUpdate
  <2> QED BY <2>1, <2>2
<1>2. ASSUME NEW r \in Reqs, LoginRedeem(r) PROVE Goal
  <2>1. req[r] \in LoggingIn
    BY <1>2, ByPC DEF LoginRedeem, LoginPCs, TypeOK
  <2>2. CASE req' = [req EXCEPT ![r].pc = "clear", ![r].factor = TRUE]
    <3> DEFINE v == [req[r] EXCEPT !.pc = "clear", !.factor = TRUE]
    <3>1. v.pc = "clear" /\ v.factor
      BY <2>1 DEF LoggingIn
    <3>2. req' = [req EXCEPT ![r] = v]
      BY <2>2
    <3> HIDE DEF v
    <3>3. FactorOK(v)
      BY <3>1 DEF FactorOK
    <3> QED BY <3>2, <3>3, FactorUpdate
  <2>3. CASE Goto(r, "failRead")
    BY <1>2, <2>3, FactorGoto DEF LoginRedeem, LoginPCs
  <2> QED BY <1>2, <2>2, <2>3 DEF LoginRedeem
<1>3. ASSUME NEW r \in Reqs, LoginReadPolicy(r) \/ LoginClearFailures(r) PROVE Goal
  BY <1>3, FactorGoto DEF LoginReadPolicy, LoginClearFailures, LoginPCs
<1>4. ASSUME NEW r \in Reqs, NEW v, req' = [req EXCEPT ![r] = v],
             v.pc \notin {"policy", "clear", "session"}
      PROVE  Goal
  BY <1>4, FactorUpdate, FactorElsewhere
<1>5. ASSUME NEW r \in Reqs, LoginStep(r) PROVE Goal
  <2>1. CASE \E pw \in Passwords, second \in Seconds, inside \in BOOLEAN :
                LoginAttempt(r, pw, second, inside)
    BY <1>4, <2>1 DEF LoginAttempt
  <2>2. CASE LoginFailRead(r)
    BY <1>4, <2>2 DEF LoginFailRead
  <2>3. CASE LoginFailWrite(r) \/ \E sid \in SIDs : LoginCreateSession(r, sid)
    BY <2>3, FactorDone DEF LoginFailWrite, LoginCreateSession
  <2> QED BY <1>1, <1>2, <1>3, <1>5, <2>1, <2>2, <2>3 DEF LoginStep
<1>6. ASSUME NEW r \in Reqs, OwnerStep(r) PROVE Goal
  <2>1. CASE ConfirmRead(r)
    BY <1>4, <2>1 DEF ConfirmRead
  <2>2. CASE ConfirmEnable(r)
    BY <2>2, FactorGoto DEF ConfirmEnable, OwnerPCs
  <2>3. CASE ConfirmReplaceCodes(r) \/ DisableReset(r) \/ PasswordWrite(r)
    BY <2>3, FactorDone DEF ConfirmReplaceCodes, DisableReset, PasswordWrite
  <2>4. CASE \E pw \in Passwords, second \in Seconds : DisableRead(r, pw, second)
    BY <1>4, <2>4 DEF DisableRead
  <2>5. CASE DisableRedeem(r)
    BY <1>4, <2>5, FactorDone DEF DisableRedeem
  <2>6. CASE \E old, new \in Passwords : PasswordRead(r, old, new)
    BY <1>4, <2>6 DEF PasswordRead
  <2> QED BY <1>6, <2>1, <2>2, <2>3, <2>4, <2>5, <2>6 DEF OwnerStep
<1>7. ASSUME NEW r \in Reqs, ResetStep(r) \/ Abort(r) PROVE Goal
  <2>1. CASE \E k \in toks, new \in Passwords : ResetRead(r, k, new)
    BY <1>4, <2>1 DEF ResetRead
  <2>2. CASE ResetMark(r)
    BY <2>2, FactorGoto DEF ResetMark, ResetPCs
  <2>3. CASE ResetPassword(r) \/ Abort(r)
    BY <2>3, FactorDone DEF ResetPassword, Abort
  <2> QED BY <1>7, <2>1, <2>2, <2>3 DEF ResetStep
<1>8. CASE UNCHANGED req
  BY <1>8
<1> QED BY <1>5, <1>6, <1>7, <1>8
    DEF Next, vars, AdminStep, Tick, Logout, LogoutAll, StartOwnMFAEnrollment, SetMFAPolicy,
        ResetManagedUserMFA, DeleteManagedUser, SetManagedUserAccess, SetManagedUserPassword,
        CreateManagedUser, CreatePasswordResetToken

(* A login that found MFA on creates a session only with a valid TOTP code *)
(* or a recovery code it redeemed, whatever happens to the account while   *)
(* it is under way.                                                        *)
THEOREM FactorShown == Spec => []MFANotSkipped
<1> DEFINE Inv == \A q \in Reqs : FactorOK(req[q])
<1>1. Init => Inv
  BY DEF Init, Idle, FactorOK
<1>2. TypeOK /\ Inv /\ [Next]_vars => Inv'
  BY FactorInductive
<1>3. Inv => MFANotSkipped
  BY DEF FactorOK, MFANotSkipped
<1> QED BY <1>1, <1>2, <1>3, AuthTypes, PTL DEF Spec

-----------------------------------------------------------------------------
(* Lockout. *)

(* The delay is capped. *)
LEMMA DelayBounded == ASSUME NEW n \in Nat PROVE loginFailureDelay(n) <= DelayCap
<1>1. DelayCap \in Nat /\ DelayStep \in Nat
  BY AuthAssumption
<1>2. CASE n < 3
  BY <1>1, <1>2 DEF loginFailureDelay
<1>3. CASE ~(n < 3)
  <2>1. n - 2 \in Nat
    BY <1>3
  <2>2. DelayStep * (n - 2) \in Nat
    BY <1>1, <2>1
  <2> QED BY <1>1, <1>3, <2>2 DEF loginFailureDelay
<1> QED BY <1>2, <1>3

(* Every step keeps LockBounded; the clock only moves forward. *)
LEMMA LockInductive == TypeOK /\ LockBounded /\ [Next]_vars => LockBounded'
<1> SUFFICES ASSUME TypeOK, LockBounded, [Next]_vars PROVE LockBounded'
  OBVIOUS
<1> USE DEF attempts, counters, history
<1>0. DelayCap \in Nat /\ now \in Nat /\ lock \in Nat
  BY AuthAssumption DEF TypeOK
<1>1. ASSUME NEW r \in Reqs, LoginFailWrite(r) PROVE LockBounded'
  <2>1. req[r].n + 1 \in Nat
    BY <1>1, ByPC DEF LoginFailWrite, Failing, TypeOK
  <2>2. /\ loginFailureDelay(req[r].n + 1) \in Nat
        /\ loginFailureDelay(req[r].n + 1) <= DelayCap
    BY <2>1, DelayType, DelayBounded
  <2> QED BY <1>0, <1>1, <2>2 DEF LoginFailWrite, LockBounded
<1>2. ASSUME NEW r \in Reqs, LoginClearFailures(r) PROVE LockBounded'
  BY <1>0, <1>2 DEF LoginClearFailures, LockBounded
<1>3. CASE Tick
  BY <1>0, <1>3 DEF Tick, LockBounded
<1>4. CASE UNCHANGED <<now, lock>>
  BY <1>4 DEF LockBounded
<1> QED BY <1>1, <1>2, <1>3, <1>4
    DEF Next, vars, LoginStep, OwnerStep, ResetStep, AdminStep, Abort, Logout, LogoutAll,
     StartOwnMFAEnrollment, LoginAttempt, LoginFindUser, LoginReadPolicy, LoginRedeem,
     LoginFailRead, LoginCreateSession, ConfirmRead, ConfirmEnable, ConfirmReplaceCodes,
     DisableRead, DisableRedeem, DisableReset, PasswordRead, PasswordWrite, ResetRead,
     ResetMark, ResetPassword, SetMFAPolicy, SetManagedUserAccess, ResetManagedUserMFA,
     SetManagedUserPassword, DeleteManagedUser, CreateManagedUser, CreatePasswordResetToken

(* However many logins fail, and however stale the count each of them      *)
(* writes, the name is free again within DelayCap of now.                  *)
THEOREM LockCapped == Spec => []LockBounded
<1>1. Init => LockBounded
  BY AuthAssumption DEF Init, LockBounded
<1> QED BY <1>1, LockInductive, AuthTypes, PTL DEF Spec

-----------------------------------------------------------------------------
(* Reset tokens. *)

(* The requests that got past the check of the token t. *)
Holding(t) == {r \in Reqs : req[r].pc \in {"mark", "resetPassword"} /\ req[r].tok.id = t}

(* The token t has been marked, by a request that sets a password or did.  *)
Marked(t) == resets[t] > 0 \/ \E r \in Reqs : req[r].pc = "resetPassword" /\ req[r].tok.id = t

(* A token that was marked has no unused row: no request gets past its     *)
(* check any more.                                                         *)
TokensSpent == \A t \in Tokens : Marked(t) => \A k \in toks : k.id = t => k.used

ResetsOK == TokensSpent /\ ResetsBounded

(* Requests are finite in number, and so are those that hold a token. *)
LEMMA HoldingFinite ==
    ASSUME NEW S, S \subseteq Reqs
    PROVE  IsFiniteSet(S) /\ Cardinality(S) \in Nat /\ Cardinality(S) <= Cardinality(Reqs)
           /\ Cardinality(Reqs) \in Nat
<1>1. IsFiniteSet(Reqs)
  BY AuthAssumption
<1> QED BY <1>1, FS_Subset, FS_CardinalityType

(* No more requests hold the token t, and it set no further password. *)
LEMMA NoMoreHolders ==
    ASSUME TypeOK, ResetsOK, NEW t \in Tokens, resets'[t] = resets[t], Holding(t)' \subseteq Holding(t)
    PROVE  resets'[t] + Cardinality(Holding(t)') <= Cardinality(Reqs)
<1> DEFINE A == Holding(t)
           B == Holding(t)'
<1>1. A \subseteq Reqs /\ B \subseteq A /\ resets[t] \in Nat
  BY DEF Holding, TypeOK
<1>2. resets[t] + Cardinality(A) <= Cardinality(Reqs)
  BY DEF ResetsOK, ResetsBounded, Holding
<1> HIDE DEF A, B
<1>3. IsFiniteSet(A) /\ Cardinality(A) \in Nat /\ Cardinality(Reqs) \in Nat
  BY <1>1, HoldingFinite
<1>4. Cardinality(B) <= Cardinality(A) /\ Cardinality(B) \in Nat
  BY <1>1, <1>3, FS_Subset, FS_CardinalityType
<1>5. resets[t] + Cardinality(B) <= Cardinality(Reqs)
  BY <1>1, <1>2, <1>3, <1>4
<1> QED BY <1>5 DEF B

(* Nobody gets past the check of a token, and no row becomes unused. *)
LEMMA ResetsFrame ==
    ASSUME TypeOK, ResetsOK, UNCHANGED resets, toks' \subseteq toks,
           \A q \in Reqs : req'[q].pc \in {"mark", "resetPassword"} => req'[q] = req[q]
    PROVE  ResetsOK'
<1>1. ASSUME NEW t \in Tokens PROVE resets'[t] + Cardinality(Holding(t)') <= Cardinality(Reqs)
  <2>1. Holding(t)' \subseteq Holding(t)
    BY DEF Holding
  <2> QED BY <2>1, NoMoreHolders
<1>2. TokensSpent'
  BY DEF ResetsOK, TokensSpent, Marked
<1> QED BY <1>1, <1>2 DEF ResetsOK, ResetsBounded, Holding

(* Requests other than r keep their state, and r holds no token. *)
Away(r) ==
    /\ req'[r].pc \notin {"mark", "resetPassword"}
    /\ \A q \in Reqs : q # r => req'[q] = req[q]

(* A request away from the reset and the mark changes neither, so the reset bookkeeping holds on. *)
LEMMA AwayFrame ==
    ASSUME TypeOK, ResetsOK, UNCHANGED <<resets, toks>>, NEW r \in Reqs, Away(r)
    PROVE  ResetsOK'
BY ResetsFrame DEF Away

(* A request that ends is away from the reset steps. *)
LEMMA DoneAway == ASSUME TypeOK, NEW r \in Reqs, Done(r) PROVE Away(r)
BY DEF Done, Idle, TypeOK, Away

(* So is a login or owner request that goes to a step other than those two. *)
LEMMA GotoAway ==
    ASSUME TypeOK, NEW r \in Reqs, req[r].pc \in LoginPCs \union OwnerPCs,
           NEW pc, Goto(r, pc), pc \notin {"mark", "resetPassword"}
    PROVE  Away(r)
<1>1. req[r] \in LoggingIn \union Owning
  BY ByPC DEF TypeOK
<1>2. [req[r] EXCEPT !.pc = pc].pc = pc
  BY <1>1 DEF LoggingIn, Owning
<1> QED BY <1>2 DEF Goto, TypeOK, Away

(* Logins, operations of the owner and aborts hold no token afterwards. *)
LEMMA OthersAway ==
    ASSUME TypeOK, NEW r \in Reqs, LoginStep(r) \/ OwnerStep(r) \/ Abort(r)
    PROVE  Away(r) /\ UNCHANGED <<resets, toks>>
<1> USE DEF attempts, counters, history
<1>1. UNCHANGED <<resets, toks>>
  BY DEF LoginStep, LoginAttempt, LoginFindUser, LoginReadPolicy, LoginRedeem, LoginFailRead,
     LoginFailWrite, LoginClearFailures, LoginCreateSession, OwnerStep, ConfirmRead, ConfirmEnable,
     ConfirmReplaceCodes, DisableRead, DisableRedeem, DisableReset, PasswordRead, PasswordWrite, Abort
<1>2. CASE \E pw \in Passwords, second \in Seconds, inside \in BOOLEAN : LoginAttempt(r, pw, second, inside)
  BY <1>2 DEF LoginAttempt, Away, TypeOK
<1>3. CASE LoginFindUser(r)
  <2>1. afterPassword(req[r], acct) \notin {"mark", "resetPassword"}
    BY DEF afterPassword
  <2> HIDE DEF afterPassword
  <2> QED BY <1>3, <2>1, DoneAway DEF LoginFindUser, Away, TypeOK
<1>4. CASE LoginReadPolicy(r) \/ LoginClearFailures(r) \/ ConfirmEnable(r)
  BY <1>4, GotoAway DEF LoginReadPolicy, LoginClearFailures, ConfirmEnable, LoginPCs, OwnerPCs
<1>5. CASE LoginRedeem(r)
  <2>1. CASE Goto(r, "failRead")
    BY <1>5, <2>1, GotoAway DEF LoginRedeem, LoginPCs
  <2>2. CASE req' = [req EXCEPT ![r].pc = "clear", ![r].factor = TRUE]
    <3>1. req[r] \in LoggingIn
      BY <1>5, ByPC DEF LoginRedeem, LoginPCs, TypeOK
    <3>2. req'[r].pc = "clear"
      BY <2>2, <3>1 DEF LoggingIn, TypeOK
    <3>3. \A q \in Reqs : q # r => req'[q] = req[q]
      BY <2>2 DEF TypeOK
    <3> QED BY <1>1, <3>2, <3>3 DEF Away
  <2> QED BY <1>5, <2>1, <2>2 DEF LoginRedeem
<1>6. CASE LoginFailRead(r) \/ ConfirmRead(r)
  BY <1>6 DEF LoginFailRead, ConfirmRead, Away, TypeOK
<1>7. CASE \/ LoginFailWrite(r) \/ ConfirmReplaceCodes(r) \/ DisableReset(r) \/ PasswordWrite(r) \/ Abort(r)
           \/ \E sid \in SIDs : LoginCreateSession(r, sid)
  BY <1>7, DoneAway DEF LoginFailWrite, ConfirmReplaceCodes, DisableReset, PasswordWrite, Abort,
     LoginCreateSession
<1>8. CASE DisableRedeem(r)
  BY <1>8, DoneAway DEF DisableRedeem, Away, TypeOK
<1>9. CASE \E pw \in Passwords, second \in Seconds : DisableRead(r, pw, second)
  BY <1>9 DEF DisableRead, Away, TypeOK
<1>10. CASE \E old, new \in Passwords : PasswordRead(r, old, new)
  BY <1>10 DEF PasswordRead, Away, TypeOK
<1> QED BY <1>1, <1>2, <1>3, <1>4, <1>5, <1>6, <1>7, <1>8, <1>9, <1>10 DEF LoginStep, OwnerStep

(* A request gets past the check of a token that set no password yet. *)
LEMMA ReadKeepsResets ==
    ASSUME TypeOK, ResetsOK, NEW r \in Reqs, NEW k \in toks, NEW new \in Passwords, ResetRead(r, k, new)
    PROVE  ResetsOK'
<1> USE DEF history
<1> DEFINE v == [pc |-> "mark", tok |-> k, new |-> new]
<1>1. /\ UNCHANGED <<resets, toks>> /\ ~k.used /\ req' = [req EXCEPT ![r] = v]
      /\ v.pc = "mark" /\ v.tok = k
  BY DEF ResetRead
<1> HIDE DEF v
<1>2. req'[r] = v /\ \A q \in Reqs : q # r => req'[q] = req[q]
  BY <1>1 DEF TypeOK
<1>3. \A t \in Tokens : Marked(t)' => Marked(t)
  BY <1>1, <1>2 DEF Marked
<1>4. TokensSpent'
  BY <1>1, <1>3 DEF ResetsOK, TokensSpent
<1>5. ASSUME NEW t \in Tokens PROVE resets'[t] + Cardinality(Holding(t)') <= Cardinality(Reqs)
  <2>1. CASE t = k.id
    <3>1. ~Marked(t) /\ resets[t] \in Nat
      BY <1>1, <2>1 DEF ResetsOK, TokensSpent, TypeOK
    <3>2. resets'[t] = 0
      BY <1>1, <3>1 DEF Marked
    <3>3. Cardinality(Holding(t)') <= Cardinality(Reqs) /\ Cardinality(Holding(t)') \in Nat
      <4>1. Holding(t)' \subseteq Reqs
        BY DEF Holding
      <4> HIDE DEF Holding
      <4> QED BY <4>1, HoldingFinite
    <3> QED BY <3>2, <3>3
  <2>2. CASE t # k.id
    <3>1. Holding(t)' \subseteq Holding(t)
      BY <1>1, <1>2, <2>2 DEF Holding
    <3> QED BY <1>1, <3>1, NoMoreHolders
  <2> QED BY <2>1, <2>2
<1> QED BY <1>4, <1>5 DEF ResetsOK, ResetsBounded, Holding

(* The mark takes the unused rows of the token away. *)
LEMMA MarkKeepsResets ==
    ASSUME TypeOK, ResetsOK, NEW r \in Reqs, ResetMark(r)
    PROVE  ResetsOK'
<1> USE DEF history
<1> DEFINE id == req[r].tok.id
           v == [req[r] EXCEPT !.pc = "resetPassword"]
<1>1. req[r].pc = "mark" /\ req' = [req EXCEPT ![r] = v] /\ UNCHANGED resets
  BY DEF ResetMark, Goto
<1>2. v.pc = "resetPassword" /\ v.tok = req[r].tok
  <2>1. req[r] \in Resetting
    BY <1>1, ByPC DEF ResetPCs, TypeOK
  <2> QED BY <2>1 DEF Resetting
<1> HIDE DEF v
<1>3. req'[r] = v /\ \A q \in Reqs : q # r => req'[q] = req[q]
  BY <1>1 DEF TypeOK
<1>4. \A k \in toks' : IF k.id = id THEN k.used ELSE k \in toks
  <2>1. \A k \in TokenRow : [k EXCEPT !.used = TRUE].used /\ [k EXCEPT !.used = TRUE].id = k.id
    BY DEF TokenRow
  <2>2. \A k \in toks : k \in TokenRow
    BY DEF TypeOK
  <2>3. ASSUME NEW j \in toks' PROVE IF j.id = id THEN j.used ELSE j \in toks
    <3>1. PICK k \in toks : j = IF k.id = id THEN [k EXCEPT !.used = TRUE] ELSE k
      BY <2>3 DEF ResetMark
    <3> QED BY <2>1, <2>2, <3>1
  <2> QED BY <2>3
<1>5. \A t \in Tokens : t # id /\ Marked(t)' => Marked(t)
  BY <1>1, <1>2, <1>3 DEF Marked
<1>6. TokensSpent'
  BY <1>4, <1>5 DEF ResetsOK, TokensSpent
<1>7. ASSUME NEW t \in Tokens PROVE resets'[t] + Cardinality(Holding(t)') <= Cardinality(Reqs)
  <2>1. Holding(t)' \subseteq Holding(t)
    BY <1>1, <1>2, <1>3 DEF Holding
  <2> QED BY <1>1, <2>1, NoMoreHolders
<1> QED BY <1>6, <1>7 DEF ResetsOK, ResetsBounded, Holding

(* A password is set by one of the requests that hold the token. *)
LEMMA PasswordKeepsResets ==
    ASSUME TypeOK, ResetsOK, NEW r \in Reqs, ResetPassword(r)
    PROVE  ResetsOK'
<1> DEFINE id == req[r].tok.id
<1>1. /\ req[r].pc = "resetPassword" /\ UNCHANGED toks /\ Done(r)
      /\ resets' = [resets EXCEPT ![id] = @ + 1]
  BY DEF ResetPassword
<1>2. id \in Tokens
  BY <1>1, ByPC DEF ResetPCs, Resetting, TokenRow, TypeOK
<1>3. Away(r) /\ \A t \in Tokens : resets'[t] = IF t = id THEN resets[t] + 1 ELSE resets[t]
  BY <1>1, <1>2, DoneAway DEF TypeOK
<1>4. \A t \in Tokens : Marked(t)' => Marked(t)
  BY <1>1, <1>3 DEF Marked, Away
<1>5. TokensSpent'
  BY <1>1, <1>4 DEF ResetsOK, TokensSpent
<1>6. ASSUME NEW t \in Tokens PROVE resets'[t] + Cardinality(Holding(t)') <= Cardinality(Reqs)
  <2>1. CASE t # id
    <3>1. Holding(t)' \subseteq Holding(t)
      BY <1>3 DEF Holding, Away
    <3> QED BY <1>3, <2>1, <3>1, NoMoreHolders
  <2>2. CASE t = id
    <3> DEFINE A == Holding(t)
               B == Holding(t)'
    <3>1. r \in A /\ B = A \ {r} /\ A \subseteq Reqs
      BY <1>1, <1>3, <2>2 DEF Holding, Away
    <3>2. resets[t] \in Nat /\ resets[t] + Cardinality(A) <= Cardinality(Reqs)
      BY DEF ResetsOK, ResetsBounded, Holding, TypeOK
    <3> HIDE DEF A, B
    <3>3. IsFiniteSet(A) /\ Cardinality(A) \in Nat /\ Cardinality(Reqs) \in Nat
      BY <3>1, HoldingFinite
    <3>4. Cardinality(B) = Cardinality(A) - 1
      BY <3>1, <3>3, FS_RemoveElement
    <3>5. resets[t] + 1 + Cardinality(B) <= Cardinality(Reqs)
      BY <3>2, <3>3, <3>4
    <3> QED BY <1>3, <2>2, <3>5 DEF B
  <2> QED BY <2>1, <2>2
<1> QED BY <1>5, <1>6 DEF ResetsOK, ResetsBounded, Holding

(* Every step keeps ResetsOK. *)
LEMMA ResetsInductive == TypeOK /\ ResetsOK /\ [Next]_vars => ResetsOK'
<1> SUFFICES ASSUME TypeOK, ResetsOK, [Next]_vars PROVE ResetsOK'
  OBVIOUS
<1> USE DEF attempts, counters, history
<1>1. ASSUME NEW r \in Reqs, LoginStep(r) \/ OwnerStep(r) \/ Abort(r) PROVE ResetsOK'
  BY <1>1, OthersAway, AwayFrame
<1>2. ASSUME NEW r \in Reqs, ResetStep(r) PROVE ResetsOK'
  BY <1>2, ReadKeepsResets, MarkKeepsResets, PasswordKeepsResets DEF ResetStep
<1>3. CASE UNCHANGED <<toks, req, resets>>
  BY <1>3, ResetsFrame
<1>4. CASE DeleteManagedUser
  <2>1. toks' \subseteq toks /\ UNCHANGED <<req, resets>>
    BY <1>4 DEF DeleteManagedUser
  <2> QED BY <2>1, ResetsFrame
<1>5. ASSUME NEW t \in Tokens, CreatePasswordResetToken(t) PROVE ResetsOK'
  <2>1. UNCHANGED <<req, resets>> /\ ~Marked(t)
    BY <1>5 DEF CreatePasswordResetToken, Drawn, Marked
  <2>2. \A k \in toks' : k \in toks \/ k.id = t
    BY <1>5 DEF CreatePasswordResetToken, Token
  <2>3. TokensSpent'
    BY <2>1, <2>2 DEF ResetsOK, TokensSpent, Marked
  <2>4. ResetsBounded'
    BY <2>1 DEF ResetsOK, ResetsBounded
  <2> QED BY <2>3, <2>4 DEF ResetsOK
<1>6. CASE AdminStep
  BY <1>3, <1>4, <1>5, <1>6 DEF AdminStep, SetMFAPolicy, ResetManagedUserMFA, SetManagedUserAccess,
     SetManagedUserPassword, CreateManagedUser
<1> QED BY <1>1, <1>2, <1>3, <1>6 DEF Next, vars, Logout, LogoutAll, StartOwnMFAEnrollment, Tick

(* However many requests with the same token overlap, between its check    *)
(* and its mark, the token sets at most one password for each of them, and *)
(* none for a request that comes later.                                    *)
THEOREM ResetsCapped == Spec => []ResetsBounded
<1>1. Init => ResetsOK
  <2> SUFFICES ASSUME Init PROVE ResetsOK
    OBVIOUS
  <2>1. TokensSpent
    BY DEF Init, TokensSpent
  <2>2. ASSUME NEW t \in Tokens PROVE resets[t] + Cardinality(Holding(t)) <= Cardinality(Reqs)
    <3>1. resets[t] = 0
      BY DEF Init
    <3>2. Holding(t) \subseteq Reqs
      BY DEF Holding
    <3> QED BY <3>1, <3>2, HoldingFinite
  <2> QED BY <2>1, <2>2 DEF ResetsOK, ResetsBounded, Holding
<1>2. ResetsOK => ResetsBounded
  BY DEF ResetsOK
<1> QED BY <1>1, <1>2, ResetsInductive, AuthTypes, PTL DEF Spec
=============================================================================
