-------------------------------- MODULE Auth --------------------------------
(***************************************************************************)
(* The local account of one username (internal/auth/auth.go, and the user, *)
(* MFA and password-reset operations of internal/app/service.go over       *)
(* internal/store/store.go): password login with lockout, second factor    *)
(* and recovery codes, enrolment, reset tokens, sessions, deletion and     *)
(* re-creation.                                                            *)
(*                                                                         *)
(* A store call or transaction is one step (one database connection); a    *)
(* handler is a sequence of steps with a copy of the user row between      *)
(* them, and any of them may end early because its client went away.  The  *)
(* blocked-source check, audit records and the directory (LDAP) provider   *)
(* are left out: the accounts here have auth_provider = local.             *)
(***************************************************************************)
EXTENDS Integers, FiniteSets

CONSTANTS
    Reqs,        \* requests in flight
    Passwords,   \* the passwords in play
    Tokens,      \* password reset tokens
    SIDs,        \* session ids
    Ops,         \* operations the run exercises
    DelayStep,   \* 6 seconds
    DelayCap,    \* 300 seconds
    SessionTTL, ResetTTL,
    MaxTime,     \* bounds: the clock,
    MaxFails,    \* failed logins in a row,
    MaxUsers,    \* times the account is created,
    MaxSecrets,  \* TOTP secrets generated,
    MaxCodes     \* recovery code sets generated (one code stands for ten)

ASSUME AuthAssumption ==
    /\ IsFiniteSet(Reqs)
    /\ DelayStep \in Nat /\ DelayCap \in Nat
    /\ SessionTTL \in Nat /\ ResetTTL \in Nat
    /\ MaxTime \in Nat /\ MaxFails \in Nat
    /\ Passwords # {} /\ MaxUsers \in Nat \ {0} /\ MaxSecrets \in Nat /\ MaxCodes \in Nat
    /\ Ops \subseteq {"login", "enrol", "disable", "admin", "reset", "password", "delete"}

VARIABLES
    now,
    acct,        \* the users row: id (0 for none), pw, mfa, secret (0 for none), ipOff
    enforce,     \* auth.mfa.enforce_<role>
    fails, lock, \* the login_attempts row: 0 and 0 for none
    codes,       \* user_mfa_recovery_codes
    toks,        \* password_reset_tokens
    sessions,
    req,
    ids, secrets, codeSets,  \* how many were generated so far
    doors,       \* history: how often each recovery code was accepted
    resets,      \* history: how often each reset token set a password
    confirmed    \* history: secrets whose holder produced a valid code

vars == <<now, acct, enforce, fails, lock, codes, toks, sessions, req,
          ids, secrets, codeSets, doors, resets, confirmed>>
attempts == <<fails, lock>>
counters == <<ids, secrets, codeSets>>
history == <<doors, resets, confirmed>>

(* A users row without MFA, and the lack of a row. *)
PlainUser(id, pw) == [id |-> id, pw |-> pw, mfa |-> FALSE, secret |-> 0, ipOff |-> FALSE]
NoAccount == PlainUser(0, CHOOSE p \in Passwords : TRUE)
Idle == [pc |-> "idle"]

Init ==
    /\ now = 0
    /\ acct \in {PlainUser(1, p) : p \in Passwords}
    /\ enforce \in BOOLEAN
    /\ fails = 0 /\ lock = 0
    /\ codes = {} /\ toks = {} /\ sessions = {}
    /\ req = [r \in Reqs |-> Idle]
    /\ ids = 1 /\ secrets = 0 /\ codeSets = 0
    /\ doors = [k \in 1..MaxCodes |-> 0]
    /\ resets = [t \in Tokens |-> 0]
    /\ confirmed = {}

Exists == acct.id # 0
Goto(r, pc) == req' = [req EXCEPT ![r].pc = pc]
Done(r) == req' = [req EXCEPT ![r] = Idle]
Begin(r, op) == op \in Ops /\ req[r].pc = "idle"

-----------------------------------------------------------------------------
(* Store calls. *)

(* Mutated forms: no grace for the first failures; no cap. *)
delayFromFirst(n) == DelayStep * (n - 2)
delayUncapped(n) == IF n < 3 THEN 0 ELSE DelayStep * (n - 2)

loginFailureDelay(n) ==
    IF n < 3 THEN 0
    ELSE IF DelayStep * (n - 2) > DelayCap THEN DelayCap ELSE DelayStep * (n - 2)

Code(user, k, used) == [user |-> user, n |-> k, used |-> used]

(* UPDATE ... WHERE user_id AND code_hash AND unused: both outcomes.       *)
Redeemable(user, k) == Code(user, k, FALSE) \in codes

(* Mutated form: the code is accepted and stays unused. *)
RedeemKeepsCode(user, k) ==
    /\ Redeemable(user, k)
    /\ doors' = [doors EXCEPT ![k] = @ + 1]
    /\ UNCHANGED codes

ConsumeUserMFARecoveryCode(user, k) ==
    /\ Redeemable(user, k)
    /\ codes' = (codes \ {Code(user, k, FALSE)}) \union {Code(user, k, TRUE)}
    /\ doors' = [doors EXCEPT ![k] = @ + 1]

(* UPDATE users ... WHERE id: nothing happens when the user is gone.       *)
UpdateUser(id, row) == acct' = IF acct.id = id THEN row ELSE acct

(* One transaction. *)
ResetUserMFA(id) ==
    /\ UpdateUser(id, PlainUser(acct.id, acct.pw))
    /\ codes' = {c \in codes : c.user # id}

(* Mutated form: the foreign key is not enforced. *)
InsertSession(s) == sessions' = sessions \union {s}

(* The foreign key: no row for a user that is gone. *)
CreateSession(s) ==
    sessions' = IF s.user = acct.id THEN sessions \union {s} ELSE sessions

-----------------------------------------------------------------------------
(* AuthenticatePassword. *)

(* A locked username is turned away before its password is looked at.      *)
(* second is the code sent along: a TOTP code of a secret, a recovery code *)
(* or none.                                                                *)
LoginAttempt(r, pw, second, inside) ==
    /\ Begin(r, "login") /\ fails < MaxFails
    /\ ~(fails > 0 /\ lock > now)
    /\ req' = [req EXCEPT ![r] = [pc |-> "find", pw |-> pw, second |-> second,
                                  inside |-> inside]]
    /\ UNCHANGED <<now, acct, enforce, attempts, codes, toks, sessions, counters, history>>

(* isSourceAllowedForUser: the bypass is only valid with MFA. *)
SourceAllowed(u, inside) == (u.ipOff /\ u.mfa) \/ inside

(* Mutated form: MFA is asked of nobody the policy does not name. *)
afterPasswordPolicyOnly(q, u) ==
    IF u.pw # q.pw \/ ~SourceAllowed(u, q.inside) THEN "failRead" ELSE "policy"

(* What the copy of the user decides: password, source, second factor.     *)
afterPassword(q, u) ==
    IF u.pw # q.pw \/ ~SourceAllowed(u, q.inside) THEN "failRead"
    ELSE IF ~u.mfa THEN "policy"
    ELSE IF q.second.kind = "totp" /\ q.second.n = u.secret THEN "clear"
    ELSE IF q.second.kind = "code" THEN "redeem" ELSE "failRead"

(* An unknown user goes to the directory, which is disabled: not counted.  *)
(* factor (history): a valid second factor has been shown.                 *)
LoginFindUser(r) ==
    /\ req[r].pc = "find"
    /\ IF ~Exists THEN Done(r)
       ELSE req' = [req EXCEPT ![r] = [pc |-> afterPassword(@, acct), u |-> acct, second |-> @.second,
                 factor |-> @.second = [kind |-> "totp", n |-> acct.secret]]]
    /\ UNCHANGED <<now, acct, enforce, attempts, codes, toks, sessions, counters, history>>

(* userRequiresMFA for a user who is not enrolled: GetSetting. *)
LoginReadPolicy(r) ==
    /\ req[r].pc = "policy"
    /\ Goto(r, IF enforce THEN "failRead" ELSE "clear")
    /\ UNCHANGED <<now, acct, enforce, attempts, codes, toks, sessions, counters, history>>

LoginRedeem(r) ==
    /\ req[r].pc = "redeem"
    /\ \/ /\ ConsumeUserMFARecoveryCode(req[r].u.id, req[r].second.n)
          /\ req' = [req EXCEPT ![r].pc = "clear", ![r].factor = TRUE]
       \/ /\ ~Redeemable(req[r].u.id, req[r].second.n)
          /\ Goto(r, "failRead")
          /\ UNCHANGED <<codes, doors>>
    /\ UNCHANGED <<now, acct, enforce, attempts, toks, sessions, counters, resets, confirmed>>

(* RegisterLoginFailure reads the count and then writes it. *)
LoginFailRead(r) ==
    /\ req[r].pc = "failRead"
    /\ req' = [req EXCEPT ![r] = [pc |-> "failWrite", n |-> fails]]
    /\ UNCHANGED <<now, acct, enforce, attempts, codes, toks, sessions, counters, history>>

LoginFailWrite(r) ==
    /\ req[r].pc = "failWrite"
    /\ fails' = req[r].n + 1
    /\ lock' = now + loginFailureDelay(req[r].n + 1)
    /\ Done(r)
    /\ UNCHANGED <<now, acct, enforce, codes, toks, sessions, counters, history>>

LoginClearFailures(r) ==
    /\ req[r].pc = "clear"
    /\ fails' = 0 /\ lock' = 0
    /\ Goto(r, "session")
    /\ UNCHANGED <<now, acct, enforce, codes, toks, sessions, counters, history>>

LoginCreateSession(r, sid) ==
    /\ req[r].pc = "session"
    /\ \A s \in sessions : s.id # sid
    /\ CreateSession([id |-> sid, user |-> req[r].u.id, exp |-> now + SessionTTL])
    /\ Done(r)
    /\ UNCHANGED <<now, acct, enforce, attempts, codes, toks, counters, history>>

(* ResolveIdentity: a session that has not expired, of a user who exists.  *)
SignedIn == \E s \in sessions : s.exp >= now /\ s.user = acct.id

Logout(sid) ==
    /\ \E s \in sessions : s.id = sid
    /\ sessions' = {s \in sessions : s.id # sid}
    /\ UNCHANGED <<now, acct, enforce, attempts, codes, toks, req, counters, history>>

LogoutAll ==
    /\ SignedIn
    /\ sessions' = {s \in sessions : s.user # acct.id}
    /\ UNCHANGED <<now, acct, enforce, attempts, codes, toks, req, counters, history>>

-----------------------------------------------------------------------------
(* The account's owner, signed in. *)

(* A new secret switches MFA off until it is confirmed. *)
StartOwnMFAEnrollment ==
    /\ "enrol" \in Ops /\ SignedIn /\ secrets < MaxSecrets
    /\ secrets' = secrets + 1
    /\ acct' = [acct EXCEPT !.mfa = FALSE, !.secret = secrets']
    /\ UNCHANGED <<now, enforce, attempts, codes, toks, sessions, req, ids, codeSets, history>>

(* ConfirmOwnMFAEnrollment: a valid code of the secret just read, then the *)
(* two writes.                                                             *)
ConfirmRead(r) ==
    /\ Begin(r, "enrol") /\ SignedIn /\ acct.secret # 0
    /\ confirmed' = confirmed \union {acct.secret}
    /\ req' = [req EXCEPT ![r] = [pc |-> "enable", u |-> acct]]
    /\ UNCHANGED <<now, acct, enforce, attempts, codes, toks, sessions, counters, doors, resets>>

(* Mutated form: only the flag is written. *)
ConfirmFlagOnly(r) ==
    /\ req[r].pc = "enable"
    /\ UpdateUser(req[r].u.id, [acct EXCEPT !.mfa = TRUE])
    /\ Goto(r, "codes")
    /\ UNCHANGED <<now, enforce, attempts, codes, toks, sessions, counters, history>>

ConfirmEnable(r) ==
    /\ req[r].pc = "enable"
    /\ UpdateUser(req[r].u.id, [acct EXCEPT !.mfa = TRUE, !.secret = req[r].u.secret])
    /\ Goto(r, "codes")
    /\ UNCHANGED <<now, enforce, attempts, codes, toks, sessions, counters, history>>

(* ReplaceUserMFARecoveryCodes: one transaction that the foreign key       *)
(* refuses when the user is gone.                                          *)
ConfirmReplaceCodes(r) ==
    /\ req[r].pc = "codes" /\ codeSets < MaxCodes
    /\ LET id == req[r].u.id IN
       /\ codes' = IF acct.id = id
                   THEN {c \in codes : c.user # id} \union {Code(id, codeSets + 1, FALSE)}
                   ELSE codes
       /\ codeSets' = codeSets + 1
    /\ Done(r)
    /\ UNCHANGED <<now, acct, enforce, attempts, toks, sessions, ids, secrets, history>>

(* DisableOwnMFA: password and second factor, then one transaction. *)
DisableRead(r, pw, second) ==
    /\ Begin(r, "disable") /\ SignedIn
    /\ acct.mfa /\ pw = acct.pw
    /\ \/ second = [kind |-> "totp", n |-> acct.secret]
          /\ req' = [req EXCEPT ![r] = [pc |-> "resetMFA", u |-> acct]]
       \/ second.kind = "code"
          /\ req' = [req EXCEPT ![r] = [pc |-> "disableRedeem", u |-> acct, second |-> second]]
    /\ UNCHANGED <<now, acct, enforce, attempts, codes, toks, sessions, counters, history>>

DisableRedeem(r) ==
    /\ req[r].pc = "disableRedeem"
    /\ \/ /\ ConsumeUserMFARecoveryCode(req[r].u.id, req[r].second.n)
          /\ req' = [req EXCEPT ![r] = [pc |-> "resetMFA", u |-> @.u]]
       \/ /\ ~Redeemable(req[r].u.id, req[r].second.n)
          /\ Done(r)
          /\ UNCHANGED <<codes, doors>>
    /\ UNCHANGED <<now, acct, enforce, attempts, toks, sessions, counters, resets, confirmed>>

DisableReset(r) ==
    /\ req[r].pc = "resetMFA"
    /\ ResetUserMFA(req[r].u.id)
    /\ Done(r)
    /\ UNCHANGED <<now, enforce, attempts, toks, sessions, counters, history>>

(* ChangeOwnPassword: the current password is checked on a copy. *)
PasswordRead(r, old, new) ==
    /\ Begin(r, "password") /\ SignedIn
    /\ acct.pw = old
    /\ req' = [req EXCEPT ![r] = [pc |-> "setPassword", u |-> acct, new |-> new]]
    /\ UNCHANGED <<now, acct, enforce, attempts, codes, toks, sessions, counters, history>>

PasswordWrite(r) ==
    /\ req[r].pc = "setPassword"
    /\ UpdateUser(req[r].u.id, [acct EXCEPT !.pw = req[r].new])
    /\ Done(r)
    /\ UNCHANGED <<now, enforce, attempts, codes, toks, sessions, counters, history>>

-----------------------------------------------------------------------------
(* Password reset tokens. *)

Token(t, user, exp, used) == [id |-> t, user |-> user, exp |-> exp, used |-> used]

(* Random in the code, so never drawn twice. *)
Drawn(t) ==
    \/ resets[t] > 0
    \/ \E k \in toks : k.id = t
    \/ \E r \in Reqs : req[r].pc \in {"mark", "resetPassword"} /\ req[r].tok.id = t

CreatePasswordResetToken(t) ==
    /\ "reset" \in Ops /\ Exists
    /\ ~Drawn(t)
    /\ toks' = toks \union {Token(t, acct.id, now + ResetTTL, FALSE)}
    /\ UNCHANGED <<now, acct, enforce, attempts, codes, sessions, req, counters, history>>

(* ConsumePasswordResetToken: the check, the mark, then the password. *)
ResetRead(r, k, new) ==
    /\ Begin(r, "reset") /\ k \in toks
    /\ ~k.used /\ now <= k.exp
    /\ req' = [req EXCEPT ![r] = [pc |-> "mark", tok |-> k, new |-> new]]
    /\ UNCHANGED <<now, acct, enforce, attempts, codes, toks, sessions, counters, history>>

(* Mutated form: the token is not marked. *)
ResetMarkSkipped(r) ==
    /\ req[r].pc = "mark"
    /\ Goto(r, "resetPassword")
    /\ UNCHANGED <<now, acct, enforce, attempts, codes, toks, sessions, counters, history>>

ResetMark(r) ==
    /\ req[r].pc = "mark"
    /\ toks' = {IF k.id = req[r].tok.id THEN [k EXCEPT !.used = TRUE] ELSE k : k \in toks}
    /\ Goto(r, "resetPassword")
    /\ UNCHANGED <<now, acct, enforce, attempts, codes, sessions, counters, history>>

ResetPassword(r) ==
    /\ req[r].pc = "resetPassword"
    /\ UpdateUser(req[r].tok.user, [acct EXCEPT !.pw = req[r].new])
    /\ resets' = [resets EXCEPT ![req[r].tok.id] = @ + 1]
    /\ Done(r)
    /\ UNCHANGED <<now, enforce, attempts, codes, toks, sessions, counters, doors, confirmed>>

-----------------------------------------------------------------------------
(* Administrators. *)

SetMFAPolicy ==
    /\ "admin" \in Ops
    /\ enforce' = ~enforce
    /\ UNCHANGED <<now, acct, attempts, codes, toks, sessions, req, counters, history>>

(* SetManagedUserAccess: the transaction checks MFA again before it lets   *)
(* the IP check be disabled.                                               *)
SetManagedUserAccess(off) ==
    /\ "admin" \in Ops /\ Exists
    /\ off => acct.mfa
    /\ acct' = [acct EXCEPT !.ipOff = off]
    /\ UNCHANGED <<now, enforce, attempts, codes, toks, sessions, req, counters, history>>

ResetManagedUserMFA ==
    /\ "admin" \in Ops /\ Exists
    /\ ResetUserMFA(acct.id)
    /\ UNCHANGED <<now, enforce, attempts, toks, sessions, req, counters, history>>

SetManagedUserPassword(new) ==
    /\ "password" \in Ops /\ Exists
    /\ acct' = [acct EXCEPT !.pw = new]
    /\ UNCHANGED <<now, enforce, attempts, codes, toks, sessions, req, counters, history>>

(* ON DELETE CASCADE; login_attempts is keyed by the name and stays. *)
DeleteManagedUser ==
    /\ "delete" \in Ops /\ Exists /\ ids < MaxUsers
    /\ acct' = NoAccount
    /\ sessions' = {s \in sessions : s.user # acct.id}
    /\ codes' = {c \in codes : c.user # acct.id}
    /\ toks' = {k \in toks : k.user # acct.id}
    /\ UNCHANGED <<now, enforce, attempts, req, counters, history>>

CreateManagedUser(pw) ==
    /\ "delete" \in Ops /\ ~Exists /\ ids < MaxUsers
    /\ ids' = ids + 1
    /\ acct' = PlainUser(ids', pw)
    /\ UNCHANGED <<now, enforce, attempts, codes, toks, sessions, req, secrets, codeSets, history>>

-----------------------------------------------------------------------------
Abort(r) ==
    /\ req[r].pc # "idle"
    /\ Done(r)
    /\ UNCHANGED <<now, acct, enforce, attempts, codes, toks, sessions, counters, history>>

Tick ==
    /\ now < MaxTime
    /\ now' = now + 1
    /\ UNCHANGED <<acct, enforce, attempts, codes, toks, sessions, req, counters, history>>

(* What a client may send as a second factor: codes of secrets and         *)
(* recovery codes that were handed out, or nothing.                        *)
Seconds ==
    {[kind |-> "none", n |-> 0]}
    \union [kind: {"totp"}, n: 1..secrets]
    \union [kind: {"code"}, n: 1..codeSets]

LoginStep(r) ==
    \/ \E pw \in Passwords, second \in Seconds, inside \in BOOLEAN :
          LoginAttempt(r, pw, second, inside)
    \/ LoginFindUser(r) \/ LoginReadPolicy(r) \/ LoginRedeem(r)
    \/ LoginFailRead(r) \/ LoginFailWrite(r) \/ LoginClearFailures(r)
    \/ \E sid \in SIDs : LoginCreateSession(r, sid)

OwnerStep(r) ==
    \/ ConfirmRead(r) \/ ConfirmEnable(r) \/ ConfirmReplaceCodes(r)
    \/ \E pw \in Passwords, second \in Seconds : DisableRead(r, pw, second)
    \/ DisableRedeem(r) \/ DisableReset(r)
    \/ \E old, new \in Passwords : PasswordRead(r, old, new)
    \/ PasswordWrite(r)

ResetStep(r) ==
    \/ \E k \in toks, new \in Passwords : ResetRead(r, k, new)
    \/ ResetMark(r) \/ ResetPassword(r)

AdminStep ==
    \/ SetMFAPolicy \/ ResetManagedUserMFA \/ DeleteManagedUser
    \/ \E off \in BOOLEAN : SetManagedUserAccess(off)
    \/ \E pw \in Passwords : SetManagedUserPassword(pw) \/ CreateManagedUser(pw)
    \/ \E t \in Tokens : CreatePasswordResetToken(t)

Next ==
    \/ \E r \in Reqs : LoginStep(r) \/ OwnerStep(r) \/ ResetStep(r) \/ Abort(r)
    \/ \E sid \in SIDs : Logout(sid)
    \/ LogoutAll \/ StartOwnMFAEnrollment
    \/ AdminStep
    \/ Tick

Spec == Init /\ [][Next]_vars

-----------------------------------------------------------------------------
(* Properties. *)

AccountOf(I) ==
    [id: I, pw: Passwords, mfa: BOOLEAN, secret: 0..MaxSecrets, ipOff: BOOLEAN]
UserIDs == 1..MaxUsers
User == AccountOf(UserIDs)
Second == [kind: {"none", "totp", "code"}, n: Nat]
CodeRow == [user: UserIDs, n: 1..MaxCodes, used: BOOLEAN]
TokenRow == [id: Tokens, user: UserIDs, exp: Nat, used: BOOLEAN]
SessionRow == [id: SIDs, user: UserIDs, exp: Nat]

(* A request, by what it holds between its steps. *)
LoginPCs == {"policy", "redeem", "failRead", "clear", "session"}
OwnerPCs == {"enable", "codes", "resetMFA"}
ResetPCs == {"mark", "resetPassword"}

Finding == [pc: {"find"}, pw: Passwords, second: Second, inside: BOOLEAN]
LoggingIn == [pc: LoginPCs, u: User, second: Second, factor: BOOLEAN]
Failing == [pc: {"failWrite"}, n: Nat]
Owning == [pc: OwnerPCs, u: User]
Disabling == [pc: {"disableRedeem"}, u: User, second: Second]
Changing == [pc: {"setPassword"}, u: User, new: Passwords]
Resetting == [pc: ResetPCs, tok: TokenRow, new: Passwords]
ReqStates == {Idle} \union Finding \union LoggingIn \union Failing \union Owning
             \union Disabling \union Changing \union Resetting

(* The shape of the tables and of the requests in flight. *)
TypeOK ==
    /\ now \in Nat /\ acct \in AccountOf(UserIDs \union {0}) /\ enforce \in BOOLEAN
    /\ fails \in Nat /\ lock \in Nat
    /\ codes \subseteq CodeRow /\ toks \subseteq TokenRow /\ sessions \subseteq SessionRow
    /\ req \in [Reqs -> ReqStates]
    /\ ids \in 0..MaxUsers /\ secrets \in 0..MaxSecrets /\ codeSets \in 0..MaxCodes
    /\ doors \in [1..MaxCodes -> Nat] /\ resets \in [Tokens -> Nat]
    /\ confirmed \subseteq 1..MaxSecrets

(* A recovery code opens one door: two logins, or a login and a request to *)
(* disable MFA, that send the same code at the same time cannot both pass. *)
RecoveryCodeOnce == \A k \in 1..MaxCodes : doors[k] <= 1

(* An account never asks for codes of a secret whose holder has not proved *)
(* to have it, however enrolments, resets and aborts overlap: its owner    *)
(* would be locked out.                                                    *)
ConfirmedSecret == acct.mfa => acct.secret \in confirmed

(* A login that found the user enrolled gets no session without a valid    *)
(* TOTP code or a recovery code that was redeemed for it.                  *)
MFANotSkipped ==
    \A r \in Reqs : req[r].pc \in {"clear", "session"} /\ req[r].u.mfa => req[r].factor

(* Deleting a user leaves no session, recovery code or reset token of it,  *)
(* whatever was in flight, for the account that gets its name next.        *)
NoOrphans == \A row \in sessions \union codes \union toks : row.user = acct.id

(* Failures lock a name for at most DelayCap, so nobody can keep its owner *)
(* out for longer by failing more often.                                   *)
LockBounded == lock <= now + DelayCap

(* The check of a reset token and its mark are two statements, so requests *)
(* that overlap may all get past the check; but each sets one password and *)
(* none that comes later does: a token sets at most as many passwords as   *)
(* there were requests at the same time.                                   *)
ResetsBounded ==
    \A t \in Tokens :
        resets[t] + Cardinality({r \in Reqs : req[r].pc \in {"mark", "resetPassword"} /\ req[r].tok.id = t})
            <= Cardinality(Reqs)
=============================================================================
