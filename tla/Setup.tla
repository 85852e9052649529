------------------------------- MODULE Setup -------------------------------
(***************************************************************************)
(* The setup assistant (internal/app/setup.go, UploadSetupBackup in        *)
(* backup.go, the setup gate in internal/api/server.go), composed with     *)
(* Backup: a fresh installation is set up or restored from a package, and  *)
(* from then on the API and its backup handlers are open.                  *)
(*                                                                         *)
(* setupMu is held during every call of the assistant; ApplyInitialSetup   *)
(* holds it across many store calls, so it is the only one with more than  *)
(* one step.  The time-outs of the code (20, 45 and 5 minutes) are         *)
(* constants.                                                              *)
(***************************************************************************)
EXTENDS Backup

CONSTANTS
    OTSTTL, UnlockTTL, CooldownTTL,
    MaxAttempts,  \* setupMaxAttempts
    MaxGen        \* bound: one-time codes generated

ASSUME SetupAssumption ==
    /\ OTSTTL \in Nat \ {0} /\ UnlockTTL \in Nat \ {0} /\ CooldownTTL \in Nat \ {0}
    /\ MaxAttempts \in Nat \ {0} /\ MaxGen \in Nat

VARIABLES
    setup,   \* the setup fields of Service; times are 0 for the zero time
    guesses  \* history: wrong codes since the code was made or entered

vars == <<backupVars, setup, guesses>>

(* inited is setupInitialized; gen stands for the code. *)
NotSetUp == [inited |-> FALSE, gen |-> 0, exp |-> 0, unlock |-> 0,
             attempts |-> 0, cooldown |-> 0, restore |-> NoPkg]

(* Once inited is set nothing reads the other fields again, so the model   *)
(* forgets what they were.                                                 *)
InUse == [NotSetUp EXCEPT !.inited = TRUE]

Applying == \E p \in Procs : op[p].kind = "apply"

(* Bootstrap: a configured administrator is there from the first start. *)
Init == BackupInit /\ setup = NotSetUp /\ guesses = 0

----------------------------------------------------------------------------

rotateOTSLocked(st) ==
    [st EXCEPT !.gen = @ + 1, !.exp = now + OTSTTL, !.unlock = 0, !.attempts = 0, !.cooldown = 0]

(* What ensureSetupStateLocked makes of the fields. *)
ensured ==
    IF setup.inited \/ db.done \/ db.users THEN InUse
    ELSE IF now < setup.exp THEN setup ELSE rotateOTSLocked(setup)

(* ... and of the marker: users without it make it set; the error of that  *)
(* call is ignored.                                                        *)
Ensure ==
    \/ Works /\ db' = IF ~setup.inited /\ db.users THEN [db EXCEPT !.done = TRUE] ELSE db
    \/ ~setup.inited /\ ~db.done /\ db.users /\ Fails /\ UNCHANGED db

NewGuesses(st) == IF st.gen = setup.gen THEN guesses ELSE 0

backupRest == <<keyFile, keystore, files, held, now, ids, lastName, fresh, torn>>

(* GetSetupStatus, also the first call of every API request. *)
GetSetupStatus ==
    /\ ~Applying /\ ensured.gen <= MaxGen
    /\ setup' = ensured /\ guesses' = NewGuesses(ensured) /\ Ensure
    /\ UNCHANGED <<backupRest, starts, op>>

(* Mutated form: after the last attempt no pause. *)
wrongCodeForgets(st) ==
    IF st.attempts + 1 >= MaxAttempts THEN [st EXCEPT !.attempts = 0]
    ELSE [st EXCEPT !.attempts = @ + 1]

wrongCode(st) ==
    IF st.attempts + 1 >= MaxAttempts
    THEN [st EXCEPT !.attempts = 0, !.cooldown = now + CooldownTTL]
    ELSE [st EXCEPT !.attempts = @ + 1]

UnlockSetup(right) ==
    LET st == ensured IN
    /\ ~Applying /\ st.gen <= MaxGen /\ Ensure
    /\ \/ /\ st.inited \/ now < st.cooldown
          /\ setup' = st /\ guesses' = NewGuesses(st)
       \/ /\ ~st.inited /\ now >= st.cooldown /\ right
          /\ setup' = [st EXCEPT !.unlock = now + UnlockTTL, !.attempts = 0, !.cooldown = 0]
          /\ guesses' = 0
       \/ /\ ~st.inited /\ now >= st.cooldown /\ ~right
          /\ setup' = wrongCode(st) /\ guesses' = NewGuesses(st) + 1
    /\ UNCHANGED <<backupRest, starts, op>>

(* Mutated form: any caller may apply. *)
openToAll(st) == ~st.inited

open(st) == ~st.inited /\ now < st.unlock

UploadSetupBackup ==
    /\ ~Applying /\ open(ensured)
    /\ \E g \in Foreign : setup' = [ensured EXCEPT !.restore = g]
    /\ guesses' = NewGuesses(ensured) /\ Ensure
    /\ UNCHANGED <<backupRest, starts, op>>

----------------------------------------------------------------------------
(* ApplyInitialSetup *)

StartApply(p) ==
    /\ NewRequest(p, "apply") /\ ~Applying
    /\ open(ensured) /\ ensured.gen <= MaxGen
    /\ setup' = ensured /\ guesses' = NewGuesses(ensured) /\ Works /\ UNCHANGED db
    /\ \/ Set(p, [Idle EXCEPT !.kind = "apply", !.pc = "fresh"])
       \/ /\ ensured.restore # NoPkg
          /\ Set(p, [Idle EXCEPT !.kind = "apply", !.pc = "restore_db", !.pkg = ensured.restore])
    /\ UNCHANGED backupRest

(* Domain, runtime settings and first host of a fresh installation; the    *)
(* first that fails ends the call.                                         *)
ApplyFresh(p) ==
    /\ At(p, "fresh")
    /\ \/ Works /\ Goto(p, "admin")
       \/ Fails /\ End(p)
    /\ UNCHANGED <<db, backupRest, starts, setup, guesses>>

(* Mutated form: the marker is written before there is an administrator. *)
CompleteFirst(p) ==
    /\ At(p, "admin")
    /\ Works /\ Goto(p, "complete") /\ db' = [db EXCEPT !.done = TRUE]
    /\ UNCHANGED <<backupRest, starts, setup, guesses>>

(* The administrator's password is looked at only now. *)
ApplyAdmin(p) ==
    /\ At(p, "admin")
    /\ \/ Works /\ Goto(p, "complete") /\ db' = [db EXCEPT !.users = TRUE]
       \/ (Works \/ Fails) /\ End(p) /\ UNCHANGED db
    /\ setup' = [setup EXCEPT !.restore = IF op[p].pkg = NoPkg THEN @ ELSE NoPkg]
    /\ UNCHANGED <<backupRest, starts, guesses>>

ApplyComplete(p) ==
    /\ At(p, "complete") /\ End(p)
    /\ \/ /\ Works /\ db' = [db EXCEPT !.done = TRUE]
          /\ setup' = InUse /\ guesses' = 0
       \/ Fails /\ UNCHANGED <<db, setup, guesses>>
    /\ UNCHANGED <<backupRest, starts>>

----------------------------------------------------------------------------

(* A request that starts behind the gate; the scheduler runs regardless. *)
Gated(p) == setup.inited /\ ~Applying /\ BackupStart(p)

RunNow(p) == (p \in Reqs => setup.inited /\ ~Applying) /\ StartRun(p)

Restart == BackupRestart /\ setup' = NotSetUp /\ guesses' = 0

Next ==
    \/ GetSetupStatus \/ UploadSetupBackup
    \/ \E right \in BOOLEAN : UnlockSetup(right)
    \/ \E p \in Procs : StartApply(p) \/ ApplyFresh(p) \/ ApplyAdmin(p) \/ ApplyComplete(p)
    \/ /\ \E p \in Procs : Gated(p) \/ RunNow(p) \/ BackupStep(p)
       /\ UNCHANGED <<setup, guesses>>
    \/ Tick /\ UNCHANGED <<setup, guesses>>
    \/ Restart

Spec == Init /\ [][Next]_vars

----------------------------------------------------------------------------
(* Properties *)

(* The shape of the variables. *)
TypeOK ==
    /\ db \in DBType /\ keyFile \in Keys /\ keystore \in Keys
    /\ \A s \in Storages, n \in Names :
          files[s][n] \in PackageType \union {NoPkg}
    /\ held \subseteq PackageType
    /\ now \in 1..MaxTime /\ ids \in Nat /\ lastName \in 0..MaxNames
    /\ setup.attempts \in 0..(MaxAttempts - 1)

(* The phase of the installation, from what the program keeps: in use once *)
(* there is a user or the marker, at work while an apply holds setupMu,    *)
(* open while the unlock lasts.                                            *)
Phase ==
    IF db.users \/ db.done THEN "done"
    ELSE IF Applying THEN "working"
    ELSE IF now < setup.unlock THEN "open" ELSE "locked"

Promise == INSTANCE Onboarding WITH phase <- Phase

(* setup.go implements the promise of Onboarding through restarts, failed  *)
(* applies, rotations of the code and restores: no apply begins while the  *)
(* assistant is locked, only an apply takes the installation into use, and *)
(* a database in use is never offered for setup again.                     *)
SetupPromise == Promise!Spec

(* When the gate opens there is a user to log in, whichever way            *)
(* ensureSetupStateLocked or ApplyInitialSetup got there.                  *)
GateOpensWithUser == [][~setup.inited /\ setup'.inited => db'.users]_vars

(* However the calls are spread, at most setupMaxAttempts wrong codes per  *)
(* pause can be tried on one code.                                         *)
GuessesBounded ==
    setup.gen # 0 /\ ~setup.inited =>
        guesses <= MaxAttempts * ((OTSTTL - (setup.exp - now)) \div CooldownTTL + 1)
=============================================================================
