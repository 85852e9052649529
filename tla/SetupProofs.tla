---------------------------- MODULE SetupProofs -----------------------------
(***************************************************************************)
(* The theorems about Setup and Backup, for every set of requests, every   *)
(* package, time-out and bound.  BackupProofs has the lemmas about the     *)
(* calls of Backup; this module adds the calls of the setup assistant.     *)
(***************************************************************************)
EXTENDS Setup, BackupProofs

SetupType ==
    [inited: BOOLEAN, gen: Nat, exp: Nat, unlock: Nat, attempts: 0..(MaxAttempts - 1), cooldown: Nat,
     restore: Foreign \union {NoPkg}]

(* The gate is open only for a database with a user. *)
SetupOK == setup \in SetupType /\ guesses \in Nat /\ (setup.inited => db.users)

(* At time t, g wrong codes were tried on the code of st: j full rounds,   *)
(* each of which ended in a pause that the next one waited for, and the    *)
(* attempts of the present round.                                          *)
Tally(st, g, t) == \E j \in Nat :
    /\ g = MaxAttempts * j + st.attempts
    /\ st.exp <= t + OTSTTL
    /\ j > 0 => /\ st.cooldown >= (st.exp - OTSTTL) + j * CooldownTTL
                /\ st.cooldown <= t + CooldownTTL
    /\ st.attempts > 0 => st.cooldown <= t

Counted == setup.gen # 0 /\ ~setup.inited => Tally(setup, guesses, now)

(* The inductive invariant. *)
IInv == BInv /\ SetupOK /\ Counted

-----------------------------------------------------------------------------
(* The fields of the assistant *)

(* The two initial records have their type. *)
LEMMA NotSetUpOK ==
    /\ NotSetUp \in SetupType /\ NotSetUp.inited = FALSE /\ NotSetUp.gen = 0 /\ NotSetUp.unlock = 0
    /\ InUse \in SetupType /\ InUse.inited = TRUE
<1>1. NotSetUp \in SetupType
  BY SetupAssumption DEF NotSetUp, SetupType
<1>2. NotSetUp.inited = FALSE /\ NotSetUp.gen = 0 /\ NotSetUp.unlock = 0
  BY DEF NotSetUp
<1>3. InUse \in SetupType /\ InUse.inited = TRUE
  BY <1>1 DEF InUse, SetupType
<1> QED BY <1>1, <1>2, <1>3

(* A code that was just made. *)
LEMMA RotatedOK ==
    ASSUME Typed, NEW st \in SetupType
    PROVE  LET r == rotateOTSLocked(st) IN
           /\ r \in SetupType /\ r.inited = st.inited /\ r.gen = st.gen + 1 /\ r.unlock = 0
           /\ r.restore = st.restore /\ Tally(r, 0, now)
<1> DEFINE r == rotateOTSLocked(st)
<1>0. now \in Nat
  BY DEF Typed, DataOK
<1>1. /\ r \in SetupType /\ r.inited = st.inited /\ r.gen = st.gen + 1 /\ r.unlock = 0
      /\ r.restore = st.restore /\ r.exp = now + OTSTTL /\ r.attempts = 0 /\ r.cooldown = 0
  <2>1. r = [st EXCEPT !.gen = st.gen + 1, !.exp = now + OTSTTL, !.unlock = 0, !.attempts = 0, !.cooldown = 0]
    BY DEF rotateOTSLocked
  <2>2. st.gen + 1 \in Nat /\ now + OTSTTL \in Nat /\ 0 \in 0..(MaxAttempts - 1)
    BY <1>0, SetupAssumption DEF SetupType
  <2> HIDE DEF r
  <2> QED BY <2>1, <2>2 DEF SetupType
<1> HIDE DEF r
<1>2. Tally(r, 0, now)
  <2>1. 0 = MaxAttempts * 0 + r.attempts /\ r.exp <= now + OTSTTL /\ ~(r.attempts > 0)
    BY <1>0, <1>1, SetupAssumption
  <2> QED BY <2>1 DEF Tally
<1> QED BY <1>1, <1>2 DEF r

(* What ensureSetupStateLocked leaves. *)
LEMMA EnsuredOK ==
    ASSUME IInv
    PROVE  /\ ensured \in SetupType /\ NewGuesses(ensured) \in Nat
           /\ ensured.inited => db.users
           /\ ~ensured.inited => /\ ~db.users /\ ~db.done
                                 /\ ensured.unlock \in {0, setup.unlock}
                                 /\ ensured.gen # 0 => Tally(ensured, NewGuesses(ensured), now)
<1>0. Typed /\ HasUsers /\ setup \in SetupType /\ guesses \in Nat /\ now \in Nat
  BY DEF IInv, BInv, SetupOK, Typed, DataOK
<1>1. NewGuesses(ensured) \in Nat
  BY <1>0 DEF NewGuesses
<1>2. CASE setup.inited \/ db.done \/ db.users
  <2>1. ensured = InUse
    BY <1>2 DEF ensured
  <2>2. db.users
    BY <1>0, <1>2 DEF IInv, SetupOK, HasUsers
  <2> QED BY <1>1, <2>1, <2>2, NotSetUpOK
<1>3. CASE ~(setup.inited \/ db.done \/ db.users) /\ now < setup.exp
  <2>1. ensured = setup
    BY <1>3 DEF ensured
  <2>2. NewGuesses(ensured) = guesses
    BY <2>1 DEF NewGuesses
  <2> QED BY <1>0, <1>1, <1>3, <2>1, <2>2 DEF IInv, Counted
<1>4. CASE ~(setup.inited \/ db.done \/ db.users) /\ ~(now < setup.exp)
  <2>1. ensured = rotateOTSLocked(setup)
    BY <1>4 DEF ensured
  <2>2. ensured.gen = setup.gen + 1 /\ setup.gen \in Nat
    BY <1>0, <2>1, RotatedOK DEF SetupType
  <2>3. NewGuesses(ensured) = 0
    BY <2>2 DEF NewGuesses
  <2> QED BY <1>0, <1>1, <1>4, <2>1, <2>3, RotatedOK
<1> QED BY <1>2, <1>3, <1>4

(* ... and what it makes of the marker. *)
LEMMA EnsureKeeps ==
    ASSUME BInv, Ensure, UNCHANGED <<backupRest, starts, op>>
    PROVE  /\ BInv' /\ UNCHANGED now /\ db'.users = db.users
           /\ ~db.users /\ ~db.done => ~db'.done
<1>0. Typed /\ HasUsers /\ db \in DBType
  BY DEF BInv, Typed, DataOK
<1>1. UNCHANGED <<keyFile, keystore, files, held, now, ids, lastName, fresh, torn, starts, op>>
  BY DEF backupRest
<1>2. db' = db \/ (db.users /\ db' = [db EXCEPT !.done = TRUE])
  BY DEF Ensure
<1>3. /\ db' \in DBType /\ db'.users = db.users /\ db'.sched = db.sched /\ db'.secret = db.secret
      /\ db'.rows = db.rows /\ (db'.done => db'.users) /\ (~db.users => db'.done = db.done)
  BY <1>0, <1>2 DEF DBType, HasUsers
<1>4. faults' \in Nat
  BY <1>0, CountersOK DEF Ensure, Typed
<1>5. Typed'
  BY <1>0, <1>1, <1>3, <1>4 DEF Typed, DataOK, ProcsOK
<1>6. BInv'
  BY <1>1, <1>3, <1>5, StillKeeps
<1> QED BY <1>1, <1>3, <1>6

-----------------------------------------------------------------------------
(* Counting wrong codes *)

(* Multiplication by a natural is monotone. *)
LEMMA TimesMonotone ==
    ASSUME NEW a \in Int, NEW b \in Int, NEW c \in Nat, a <= b
    PROVE  c * a <= c * b
<1>1. PICK d \in Nat : b = a + d
  <2>1. b - a \in Nat /\ b = a + (b - a)
    OBVIOUS
  <2> QED BY <2>1
<1>2. c * b = c * a + c * d /\ c * d \in Nat /\ c * a \in Int
  BY <1>1
<1> QED BY <1>2

(* What fits e in windows of c is at most e div c. *)
LEMMA DivisionBound ==
    ASSUME NEW e \in Nat, NEW c \in Nat \ {0}, NEW j \in Nat, c * j <= e
    PROVE  j <= e \div c /\ e \div c \in Nat
<1>1. e \div c \in Nat /\ e < c * (e \div c + 1)
  OBVIOUS
<1> DEFINE q == e \div c
<1> HIDE DEF q
<1>2. q \in Nat /\ e < c * (q + 1)
  BY <1>1 DEF q
<1>3. j <= q
  <2> SUFFICES ASSUME ~(j <= q) PROVE FALSE
    OBVIOUS
  <2>1. c * (q + 1) <= c * j
    BY <1>2, TimesMonotone
  <2>2. c * (q + 1) \in Int /\ c * j \in Int
    BY <1>2
  <2> QED BY <1>2, <2>1, <2>2
<1> QED BY <1>2, <1>3 DEF q

(* A round of attempts ends in a pause, and the next begins after it. *)
LEMMA WrongCodeOK ==
    ASSUME Typed, NEW st \in SetupType, NEW g \in Nat, now >= st.cooldown
    PROVE  LET w == wrongCode(st) IN
           /\ w \in SetupType /\ w.inited = st.inited /\ w.gen = st.gen /\ w.unlock = st.unlock
           /\ Tally(st, g, now) => Tally(w, g + 1, now)
<1> DEFINE w == wrongCode(st)
<1>0. /\ now \in Nat /\ st.exp \in Nat /\ st.cooldown \in Nat /\ st.attempts \in 0..(MaxAttempts - 1)
      /\ OTSTTL \in Nat /\ CooldownTTL \in Nat /\ MaxAttempts \in Nat \ {0}
  BY SetupAssumption DEF Typed, DataOK, SetupType
<1>1. CASE st.attempts + 1 >= MaxAttempts
  <2>1. w = [st EXCEPT !.attempts = 0, !.cooldown = now + CooldownTTL]
    BY <1>1 DEF wrongCode
  <2>2. /\ w \in SetupType /\ w.inited = st.inited /\ w.gen = st.gen /\ w.unlock = st.unlock
        /\ w.attempts = 0 /\ w.cooldown = now + CooldownTTL /\ w.exp = st.exp
    <3>1. now + CooldownTTL \in Nat /\ 0 \in 0..(MaxAttempts - 1)
      BY <1>0
    <3> HIDE DEF w
    <3> QED BY <2>1, <3>1 DEF SetupType
  <2> HIDE DEF w
  <2>3. ASSUME Tally(st, g, now) PROVE Tally(w, g + 1, now)
    <3>1. PICK j \in Nat :
             /\ g = MaxAttempts * j + st.attempts
             /\ st.exp <= now + OTSTTL
             /\ j > 0 => /\ st.cooldown >= (st.exp - OTSTTL) + j * CooldownTTL
                         /\ st.cooldown <= now + CooldownTTL
      BY <2>3 DEF Tally
    <3>2. st.attempts = MaxAttempts - 1
      BY <1>0, <1>1
    <3>3. MaxAttempts * (j + 1) = MaxAttempts * j + MaxAttempts /\ MaxAttempts * j \in Int
      BY <1>0
    <3>4. g + 1 = MaxAttempts * (j + 1) + w.attempts
      BY <1>0, <2>2, <3>1, <3>2, <3>3
    <3>5. (j + 1) * CooldownTTL = j * CooldownTTL + CooldownTTL /\ j * CooldownTTL \in Int
      BY <1>0
    <3>6. now >= (st.exp - OTSTTL) + j * CooldownTTL
      <4>1. CASE j = 0
        <5>1. j * CooldownTTL = 0
          BY <1>0, <4>1
        <5> QED BY <1>0, <3>1, <5>1
      <4>2. CASE j > 0
        BY <1>0, <3>1, <3>5, <4>2
      <4> QED BY <4>1, <4>2
    <3>7. w.cooldown >= (w.exp - OTSTTL) + (j + 1) * CooldownTTL
      BY <1>0, <2>2, <3>5, <3>6
    <3>8. j + 1 \in Nat /\ w.exp <= now + OTSTTL /\ w.cooldown <= now + CooldownTTL /\ ~(w.attempts > 0)
      BY <1>0, <2>2, <3>1
    <3> QED BY <3>4, <3>7, <3>8 DEF Tally
  <2> QED BY <2>2, <2>3 DEF w
<1>2. CASE ~(st.attempts + 1 >= MaxAttempts)
  <2>1. w = [st EXCEPT !.attempts = st.attempts + 1]
    BY <1>2 DEF wrongCode
  <2>2. /\ w \in SetupType /\ w.inited = st.inited /\ w.gen = st.gen /\ w.unlock = st.unlock
        /\ w.attempts = st.attempts + 1 /\ w.cooldown = st.cooldown /\ w.exp = st.exp
    <3>1. st.attempts + 1 \in 0..(MaxAttempts - 1)
      BY <1>0, <1>2
    <3> HIDE DEF w
    <3> QED BY <2>1, <3>1 DEF SetupType
  <2> HIDE DEF w
  <2>3. ASSUME Tally(st, g, now) PROVE Tally(w, g + 1, now)
    <3>1. PICK j \in Nat :
             /\ g = MaxAttempts * j + st.attempts
             /\ st.exp <= now + OTSTTL
             /\ j > 0 => /\ st.cooldown >= (st.exp - OTSTTL) + j * CooldownTTL
                         /\ st.cooldown <= now + CooldownTTL
      BY <2>3 DEF Tally
    <3>2. MaxAttempts * j \in Int
      BY <1>0
    <3>3. g + 1 = MaxAttempts * j + w.attempts
      BY <1>0, <2>2, <3>1, <3>2
    <3> QED BY <1>0, <2>2, <3>1, <3>3 DEF Tally
  <2> QED BY <2>2, <2>3 DEF w
<1> QED BY <1>1, <1>2

(* The invariant implies the bound on guesses. *)
LEMMA CountedIsEnough ==
    ASSUME IInv
    PROVE  GuessesBounded
<1> SUFFICES ASSUME setup.gen # 0, ~setup.inited
             PROVE  guesses <= MaxAttempts * ((OTSTTL - (setup.exp - now)) \div CooldownTTL + 1)
  BY DEF GuessesBounded
<1>0. /\ now \in Nat /\ setup.exp \in Nat /\ setup.cooldown \in Nat /\ setup.attempts \in 0..(MaxAttempts - 1)
      /\ OTSTTL \in Nat /\ CooldownTTL \in Nat \ {0} /\ MaxAttempts \in Nat \ {0} /\ guesses \in Nat
  BY SetupAssumption DEF IInv, BInv, SetupOK, Typed, DataOK, SetupType
<1>1. PICK j \in Nat :
         /\ guesses = MaxAttempts * j + setup.attempts
         /\ setup.exp <= now + OTSTTL
         /\ j > 0 => /\ setup.cooldown >= (setup.exp - OTSTTL) + j * CooldownTTL
                     /\ setup.cooldown <= now + CooldownTTL
         /\ setup.attempts > 0 => setup.cooldown <= now
  BY DEF IInv, Counted, Tally
<1> DEFINE e == OTSTTL - (setup.exp - now)
           q == e \div CooldownTTL
<1>2. e \in Nat
  BY <1>0, <1>1
<1>3. e = now - (setup.exp - OTSTTL) /\ j * CooldownTTL = CooldownTTL * j /\ CooldownTTL * j \in Int
  BY <1>0
<1> HIDE DEF e
<1>4. q \in Nat
  <2>1. CooldownTTL * 0 <= e
    BY <1>0, <1>2
  <2> QED BY <1>0, <1>2, <2>1, DivisionBound
<1>5. MaxAttempts * (q + 1) \in Int /\ MaxAttempts * j \in Int
  BY <1>0, <1>4
<1>6. CASE setup.attempts > 0
  <2>1. CooldownTTL * j <= e
    <3>1. CASE j = 0
      BY <1>0, <1>2, <3>1
    <3>2. CASE j > 0
      BY <1>0, <1>1, <1>3, <1>6, <3>2
    <3> QED BY <3>1, <3>2
  <2>2. j <= q
    BY <1>0, <1>2, <2>1, DivisionBound
  <2> HIDE DEF q
  <2>3. MaxAttempts * (j + 1) <= MaxAttempts * (q + 1)
    BY <1>0, <1>4, <2>2, TimesMonotone
  <2>4. MaxAttempts * (j + 1) = MaxAttempts * j + MaxAttempts
    BY <1>0
  <2>5. guesses <= MaxAttempts * (q + 1)
    BY <1>0, <1>1, <1>5, <2>3, <2>4
  <2> QED BY <2>5 DEF q, e
<1>7. CASE setup.attempts = 0
  <2>1. j <= q + 1
    <3>1. CASE j = 0
      <4> HIDE DEF q
      <4> QED BY <1>4, <3>1
    <3>2. CASE j > 0
      <4>1. j - 1 \in Nat /\ CooldownTTL * (j - 1) = CooldownTTL * j - CooldownTTL
        BY <1>0, <3>2
      <4>2. CooldownTTL * (j - 1) <= e
        BY <1>0, <1>1, <1>3, <3>2, <4>1
      <4>3. j - 1 <= q
        BY <1>0, <1>2, <4>1, <4>2, DivisionBound
      <4> HIDE DEF q
      <4> QED BY <1>4, <4>3
    <3> QED BY <3>1, <3>2
  <2> HIDE DEF q
  <2>2. MaxAttempts * j <= MaxAttempts * (q + 1)
    BY <1>0, <1>4, <2>1, TimesMonotone
  <2>3. guesses <= MaxAttempts * (q + 1)
    BY <1>0, <1>1, <1>5, <1>7, <2>2
  <2> QED BY <2>3 DEF q, e
<1> QED BY <1>0, <1>6, <1>7

-----------------------------------------------------------------------------
(* The calls of the assistant *)

(* A status request, which may draw the code. *)
LEMMA StatusKeeps ==
    ASSUME IInv, GetSetupStatus
    PROVE  IInv'
<1>0. BInv' /\ UNCHANGED now /\ db'.users = db.users
  BY EnsureKeeps DEF IInv, GetSetupStatus
<1>1. setup' = ensured /\ guesses' = NewGuesses(ensured)
  BY DEF GetSetupStatus
<1>2. SetupOK'
  BY <1>0, <1>1, EnsuredOK DEF SetupOK
<1>3. Counted'
  <2>1. setup'.gen # 0 /\ ~setup'.inited => Tally(setup', guesses', now')
    BY <1>0, <1>1, EnsuredOK
  <2> QED BY <2>1 DEF Counted, Tally
<1> QED BY <1>0, <1>2, <1>3 DEF IInv

(* The right code, of which the assistant then makes an unlock. *)
LEMMA UnlockedOK ==
    ASSUME Typed, NEW st \in SetupType
    PROVE  LET u == [st EXCEPT !.unlock = now + UnlockTTL, !.attempts = 0, !.cooldown = 0] IN
           /\ u \in SetupType /\ u.inited = st.inited /\ u.gen = st.gen
           /\ \A g \in Nat : Tally(st, g, now) => Tally(u, 0, now)
<1> DEFINE u == [st EXCEPT !.unlock = now + UnlockTTL, !.attempts = 0, !.cooldown = 0]
<1>0. now \in Nat /\ now + UnlockTTL \in Nat /\ 0 \in 0..(MaxAttempts - 1)
  BY SetupAssumption DEF Typed, DataOK
<1>1. /\ u \in SetupType /\ u.inited = st.inited /\ u.gen = st.gen
      /\ u.attempts = 0 /\ u.exp = st.exp
  BY <1>0 DEF SetupType
<1> HIDE DEF u
<1>2. ASSUME NEW g \in Nat, Tally(st, g, now) PROVE Tally(u, 0, now)
  <2>1. 0 = MaxAttempts * 0 + u.attempts /\ u.exp <= now + OTSTTL /\ ~(u.attempts > 0)
    BY <1>0, <1>1, <1>2, SetupAssumption DEF Tally
  <2> QED BY <2>1 DEF Tally
<1> QED BY <1>1, <1>2 DEF u

(* A guess at the code. *)
LEMMA UnlockKeeps ==
    ASSUME IInv, NEW right \in BOOLEAN, UnlockSetup(right)
    PROVE  IInv'
<1>0. BInv' /\ UNCHANGED now /\ db'.users = db.users /\ Typed
  BY EnsureKeeps DEF IInv, BInv, UnlockSetup
<1> DEFINE st == ensured
           g == NewGuesses(ensured)
<1>1. /\ st \in SetupType /\ g \in Nat /\ (st.inited => db.users)
      /\ ~st.inited => (st.gen # 0 => Tally(st, g, now))
  BY EnsuredOK
<1>2. \/ setup' = st /\ guesses' = g
      \/ /\ ~st.inited /\ guesses' = 0
         /\ setup' = [st EXCEPT !.unlock = now + UnlockTTL, !.attempts = 0, !.cooldown = 0]
      \/ ~st.inited /\ now >= st.cooldown /\ setup' = wrongCode(st) /\ guesses' = g + 1
  BY DEF UnlockSetup
<1> HIDE DEF st, g
<1>3. /\ setup' \in SetupType /\ guesses' \in Nat /\ (setup'.inited => db.users)
      /\ setup'.gen # 0 /\ ~setup'.inited => Tally(setup', guesses', now)
  <2>1. CASE setup' = st /\ guesses' = g
    BY <1>1, <2>1
  <2>2. CASE /\ ~st.inited /\ guesses' = 0
             /\ setup' = [st EXCEPT !.unlock = now + UnlockTTL, !.attempts = 0, !.cooldown = 0]
    <3>1. /\ setup' \in SetupType /\ setup'.inited = st.inited /\ setup'.gen = st.gen
          /\ \A n \in Nat : Tally(st, n, now) => Tally(setup', 0, now)
      BY <1>0, <1>1, <2>2, UnlockedOK
    <3>2. setup'.gen # 0 => Tally(setup', 0, now)
      BY <1>1, <2>2, <3>1
    <3> QED BY <2>2, <3>1, <3>2
  <2>3. CASE ~st.inited /\ now >= st.cooldown /\ setup' = wrongCode(st) /\ guesses' = g + 1
    BY <1>0, <1>1, <2>3, WrongCodeOK
  <2> QED BY <1>2, <2>1, <2>2, <2>3
<1>4. SetupOK'
  BY <1>0, <1>3 DEF SetupOK
<1>5. Counted'
  BY <1>0, <1>3 DEF Counted, Tally
<1> QED BY <1>0, <1>4, <1>5 DEF IInv

(* The package to restore does not count. *)
LEMMA RestoreSet ==
    ASSUME NEW st \in SetupType, NEW g \in Foreign \union {NoPkg}, NEW u, u = [st EXCEPT !.restore = g]
    PROVE  /\ u \in SetupType /\ u.inited = st.inited /\ u.gen = st.gen /\ u.unlock = st.unlock
           /\ u.restore = g
           /\ \A n, t : Tally(st, n, t) => Tally(u, n, t)
<1>1. /\ u \in SetupType /\ u.inited = st.inited /\ u.gen = st.gen /\ u.unlock = st.unlock
      /\ u.restore = g /\ u.exp = st.exp /\ u.attempts = st.attempts /\ u.cooldown = st.cooldown
  BY DEF SetupType
<1> QED BY <1>1 DEF Tally

(* The upload of a package to restore. *)
LEMMA UploadKeeps ==
    ASSUME IInv, UploadSetupBackup
    PROVE  IInv'
<1>0. BInv' /\ UNCHANGED now /\ db'.users = db.users
  BY EnsureKeeps DEF IInv, UploadSetupBackup
<1>1. PICK g \in Foreign : setup' = [ensured EXCEPT !.restore = g]
  BY DEF UploadSetupBackup
<1>2. guesses' = NewGuesses(ensured)
  BY DEF UploadSetupBackup
<1>3. /\ setup' \in SetupType /\ guesses' \in Nat /\ (setup'.inited => db.users)
      /\ setup'.gen # 0 /\ ~setup'.inited => Tally(setup', guesses', now)
  BY <1>1, <1>2, EnsuredOK, RestoreSet
<1>4. SetupOK'
  BY <1>0, <1>3 DEF SetupOK
<1>5. Counted'
  BY <1>0, <1>3 DEF Counted, Tally
<1> QED BY <1>0, <1>4, <1>5 DEF IInv

(* What an apply finds when it starts. *)
LEMMA ApplyStarts ==
    ASSUME IInv, NEW p \in Procs, StartApply(p)
    PROVE  /\ Typed' /\ Moved(p) /\ op[p] = Idle /\ op'[p].kind = "apply"
           /\ UNCHANGED <<db, keyFile, keystore, files, held, now, ids, lastName, fresh, torn>>
           /\ op'[p].todo = {} /\ op'[p].pc \in {"fresh", "restore_db"}
           /\ op'[p].pkg \in Packages \/ (op'[p].pkg = NoPkg /\ op'[p].pc = "fresh")
           /\ ~db.users /\ ~db.done /\ now < setup.unlock
<1>0. Typed /\ ProcsOK
  BY DEF IInv, BInv, Typed
<1>1. UNCHANGED <<db, keyFile, keystore, files, held, now, ids, lastName, fresh, torn, faults>> /\ op[p] = Idle
  BY DEF StartApply, backupRest, Works, NewRequest
<1>2. DataOK'
  BY <1>0, <1>1, CountersOK DEF StartApply, Typed, DataOK
<1>3. ~db.users /\ ~db.done /\ now < setup.unlock
  <2>1. ~ensured.inited /\ now < ensured.unlock
    BY DEF StartApply, open
  <2>2. ensured.unlock \in {0, setup.unlock} /\ ~db.users /\ ~db.done
    BY <2>1, EnsuredOK
  <2>3. now \in 1..MaxTime
    BY <1>0 DEF Typed, DataOK
  <2> QED BY <2>1, <2>2, <2>3, BackupAssumption
<1>4. CASE Set(p, [Idle EXCEPT !.kind = "apply", !.pc = "fresh"])
  <2> DEFINE v == [Idle EXCEPT !.kind = "apply", !.pc = "fresh"]
  <2>0. "apply" \in Kinds /\ "fresh" \in Steps
    BY DEF Kinds, Steps
  <2>1. v \in OpType /\ v.kind = "apply" /\ v.pc = "fresh" /\ v.pkg = NoPkg /\ v.todo = {}
    <3>1. Idle \in OpType
      BY IdleOK
    <3>2. v \in OpType
      BY <2>0, <3>1 DEF OpType
    <3>3. v.kind = "apply" /\ v.pc = "fresh" /\ v.pkg = Idle.pkg /\ v.todo = Idle.todo
      BY <3>1 DEF OpType
    <3> QED BY <3>2, <3>3, IdleOK
  <2> HIDE DEF v
  <2>2. Shape(v)
    BY <2>1 DEF Shape, PCs, Whole, RestorePCs
  <2>3. ProcsOK' /\ op'[p] = v /\ Moved(p)
    BY <1>0, <1>4, <2>2, ProcSet DEF v, Moved
  <2> QED BY <1>1, <1>2, <1>3, <2>1, <2>3 DEF Typed
<1>5. CASE /\ ensured.restore # NoPkg
           /\ Set(p, [Idle EXCEPT !.kind = "apply", !.pc = "restore_db", !.pkg = ensured.restore])
  <2> DEFINE g == ensured.restore
             v == [Idle EXCEPT !.kind = "apply", !.pc = "restore_db", !.pkg = g]
  <2>1. g \in Foreign /\ g \in PackageType
    BY <1>5, EnsuredOK, BackupAssumption DEF SetupType
  <2> HIDE DEF g
  <2>2. Shape(v) /\ v.kind = "apply" /\ v.pc = "restore_db" /\ v.pkg = g /\ v.todo = {}
    BY <2>1, RestoreProc
  <2> HIDE DEF v
  <2>3. ProcsOK' /\ op'[p] = v /\ Moved(p)
    BY <1>0, <1>5, <2>2, ProcSet DEF v, g, Moved
  <2>4. g \in Packages
    BY <2>1 DEF Packages
  <2> QED BY <1>1, <1>2, <1>3, <2>2, <2>3, <2>4 DEF Typed
<1> QED BY <1>4, <1>5 DEF StartApply

(* The start of an apply. *)
LEMMA StartApplyKeeps ==
    ASSUME IInv, NEW p \in Procs, StartApply(p)
    PROVE  IInv'
<1>0. BInv /\ Typed /\ HasUsers
  BY DEF IInv, BInv
<1>1. /\ Typed' /\ Moved(p) /\ op[p] = Idle /\ op'[p].kind = "apply"
      /\ UNCHANGED <<db, keyFile, keystore, files, held, now, ids, lastName, fresh, torn>>
      /\ op'[p].todo = {} /\ op'[p].pc \in {"fresh", "restore_db"}
      /\ op'[p].pkg \in Packages \/ (op'[p].pkg = NoPkg /\ op'[p].pc = "fresh")
  BY ApplyStarts
<1>2. QuietProc(p)
  <2>1. op'[p].pkg.db.rows \subseteq RowsAnywhere
    BY <1>0, <1>1, RowsIn, DefaultsOK
  <2>2. Whole(op'[p]) => op'[p].pkg \in Packages
    BY <1>1 DEF Whole, RestorePCs
  <2> QED BY <1>1, <2>1, <2>2, NoPCs DEF QuietProc
<1>3. BInv'
  BY <1>0, <1>1, <1>2, UnchangedQuiet, QuietStep
<1>4. setup' = ensured /\ guesses' = NewGuesses(ensured)
  BY DEF StartApply
<1>5. SetupOK'
  BY <1>1, <1>4, EnsuredOK DEF SetupOK
<1>6. Counted'
  <2>1. setup'.gen # 0 /\ ~setup'.inited => Tally(setup', guesses', now')
    BY <1>1, <1>4, EnsuredOK
  <2> QED BY <2>1 DEF Counted, Tally
<1> QED BY <1>3, <1>5, <1>6 DEF IInv

(* Counted speaks of the assistant and the clock. *)
LEMMA CountedKept ==
    ASSUME SetupOK, Counted, UNCHANGED <<setup, guesses, now>>, db.users => db'.users
    PROVE  SetupOK' /\ Counted'
BY DEF SetupOK, Counted, Tally

(* The steps of an apply: it goes on to the next, or ends. *)
LEMMA ApplySteps ==
    ASSUME IInv, NEW p \in Procs, ApplyFresh(p) \/ ApplyAdmin(p) \/ ApplyComplete(p)
    PROVE  /\ Typed' /\ Moved(p) /\ op[p].kind = "apply" /\ op[p].pc \in {"fresh", "admin", "complete"}
           /\ UNCHANGED <<keyFile, keystore, files, held, now, ids, lastName, fresh, torn>>
           /\ op'[p] = Idle \/ (op'[p].kind = "apply" /\ Same(op'[p], op[p]) /\ op'[p].pc \in {"admin", "complete"})
           /\ op'[p].pc = "complete" => db'.users
           /\ db'.rows = db.rows /\ db'.secret = db.secret /\ db'.sched = db.sched
           /\ db.users => db'.users
           /\ db'.done => db'.users
<1>0. Typed /\ ProcsOK /\ HasUsers /\ db \in DBType
  BY DEF IInv, BInv, Typed, DataOK
<1>1. op[p].pc \in {"fresh", "admin", "complete"} /\ op[p].kind = "apply"
  BY <1>0, ProcFacts, StepsOfKinds DEF ApplyFresh, ApplyAdmin, ApplyComplete, At
<1>2. /\ UNCHANGED <<keyFile, keystore, files, held, now, ids, lastName, fresh, torn, starts>>
      /\ faults' \in Nat
  BY <1>0, CountersOK DEF ApplyFresh, ApplyAdmin, ApplyComplete, backupRest, Typed
<1>3. \/ End(p)
      \/ Goto(p, "admin")
      \/ Goto(p, "complete") /\ db' = [db EXCEPT !.users = TRUE]
  BY DEF ApplyFresh, ApplyAdmin, ApplyComplete
<1>4. \/ db' = db
      \/ db' = [db EXCEPT !.users = TRUE]
      \/ op[p].pc = "complete" /\ db' = [db EXCEPT !.done = TRUE]
  BY DEF ApplyFresh, ApplyAdmin, ApplyComplete, At
<1>5. op[p].pc = "complete" => db.users
  BY <1>0 DEF HasUsers
<1>6. /\ db' \in DBType /\ db'.rows = db.rows /\ db'.secret = db.secret /\ db'.sched = db.sched
      /\ db.users => db'.users
      /\ db'.done => db'.users
  BY <1>0, <1>4, <1>5 DEF DBType, HasUsers
<1>7. DataOK'
  BY <1>0, <1>2, <1>6 DEF Typed, DataOK
<1>8. CASE End(p)
  BY <1>0, <1>1, <1>2, <1>6, <1>7, <1>8, ProcEnd, IdleOK DEF Typed, Moved
<1>9. ASSUME NEW x \in {"admin", "complete"}, Goto(p, x)
      PROVE  ProcsOK' /\ Moved(p) /\ Same(op'[p], op[p]) /\ op'[p].pc = x
  <2>1. /\ x \in Steps /\ x \in PCs(op[p].kind) /\ x \notin RestorePCs /\ x \notin {"local", "ftp"}
        /\ x \notin {"vacuum", "read_key", "store_secret", "fields"}
    BY <1>1, <1>9 DEF Steps, PCs, RestorePCs
  <2> QED BY <1>0, <1>1, <1>9, <2>1, GotoTyped
<1>10. CASE Goto(p, "admin")
  BY <1>1, <1>2, <1>6, <1>7, <1>9, <1>10 DEF Typed, Same
<1>11. CASE Goto(p, "complete") /\ db' = [db EXCEPT !.users = TRUE]
  <2>1. db'.users
    BY <1>0, <1>11 DEF DBType
  <2> QED BY <1>1, <1>2, <1>6, <1>7, <1>9, <1>11, <2>1 DEF Typed, Same
<1> QED BY <1>3, <1>8, <1>10, <1>11

(* The steps of an apply outside the restore. *)
LEMMA ApplyKeeps ==
    ASSUME IInv, NEW p \in Procs, ApplyFresh(p) \/ ApplyAdmin(p) \/ ApplyComplete(p)
    PROVE  IInv'
<1>0. BInv /\ Typed /\ HasUsers /\ SetupOK /\ Counted
  BY DEF IInv, BInv
<1>1. /\ Typed' /\ Moved(p) /\ op[p].kind = "apply" /\ op[p].pc \in {"fresh", "admin", "complete"}
      /\ UNCHANGED <<keyFile, keystore, files, held, now, ids, lastName, fresh, torn>>
      /\ op'[p] = Idle \/ (op'[p].kind = "apply" /\ Same(op'[p], op[p]) /\ op'[p].pc \in {"admin", "complete"})
      /\ op'[p].pc = "complete" => db'.users
      /\ db'.rows = db.rows /\ db'.secret = db.secret /\ db'.sched = db.sched
      /\ db.users => db'.users
      /\ db'.done => db'.users
  BY ApplySteps
<1>2. QuietData
  BY <1>0, <1>1 DEF QuietData, HasUsers
<1>3. QuietProc(p)
  <2>1. CASE op'[p] = Idle
    BY <1>1, <2>1, IdleQuiet
  <2>2. CASE op'[p].kind = "apply" /\ Same(op'[p], op[p]) /\ op'[p].pc \in {"admin", "complete"}
    <3>1. op'[p].pkg.db.rows \subseteq RowsAnywhere /\ op'[p].todo \subseteq op[p].todo
      BY <1>0, <2>2, RowsIn DEF Same
    <3>2. ~Whole(op'[p])
      BY <2>2 DEF Whole, RestorePCs
    <3> QED BY <1>1, <2>2, <3>1, <3>2 DEF QuietProc
  <2> QED BY <1>1, <2>1, <2>2
<1>4. BInv'
  BY <1>0, <1>1, <1>2, <1>3, QuietStep
<1>5. SetupOK' /\ Counted'
  <2>1. CASE ApplyFresh(p)
    BY <1>0, <1>1, <2>1, CountedKept DEF ApplyFresh
  <2>2. CASE ApplyAdmin(p)
    <3> DEFINE g == IF op[p].pkg = NoPkg THEN setup.restore ELSE NoPkg
    <3>1. setup' = [setup EXCEPT !.restore = g] /\ guesses' = guesses
      BY <2>2 DEF ApplyAdmin
    <3>2. g \in Foreign \union {NoPkg} /\ setup \in SetupType
      BY <1>0 DEF SetupOK, SetupType
    <3> HIDE DEF g
    <3>3. /\ setup' \in SetupType /\ setup'.inited = setup.inited /\ setup'.gen = setup.gen
          /\ \A n, t : Tally(setup, n, t) => Tally(setup', n, t)
      BY <3>1, <3>2, RestoreSet
    <3>4. SetupOK'
      BY <1>0, <1>1, <3>1, <3>3 DEF SetupOK
    <3>5. setup'.gen # 0 /\ ~setup'.inited => Tally(setup', guesses', now')
      BY <1>0, <1>1, <3>1, <3>3 DEF Counted
    <3> QED BY <3>4, <3>5 DEF Counted, Tally
  <2>3. CASE ApplyComplete(p) /\ UNCHANGED <<setup, guesses>>
    BY <1>0, <1>1, <2>3, CountedKept
  <2>4. CASE ApplyComplete(p) /\ setup' = InUse /\ guesses' = 0
    <3>1. db.users
      BY <1>0, <2>4 DEF ApplyComplete, At, HasUsers
    <3> QED BY <1>1, <2>4, <3>1, NotSetUpOK DEF SetupOK, Counted
  <2> QED BY <2>1, <2>2, <2>3, <2>4 DEF ApplyComplete
<1> QED BY <1>4, <1>5 DEF IInv

-----------------------------------------------------------------------------
(* The invariant *)

(* The invariant holds at the start. *)
LEMMA InitOK == Init => IInv
<1> SUFFICES ASSUME Init PROVE IInv
  OBVIOUS
<1>1. BInv
  BY BackupStarts DEF Init
<1>2. SetupOK /\ Counted
  BY NotSetUpOK DEF Init, SetupOK, Counted
<1> QED BY <1>1, <1>2 DEF IInv

(* Time passing leaves the count of guesses within its bound. *)
LEMMA TickCounts ==
    ASSUME IInv, Tick, UNCHANGED <<setup, guesses>>
    PROVE  IInv'
<1>0. BInv /\ Typed /\ SetupOK /\ Counted
  BY DEF IInv, BInv
<1>1. BInv' /\ now' = now + 1 /\ UNCHANGED db
  BY <1>0, TickKeeps, TickTyped
<1>2. SetupOK'
  BY <1>0, <1>1 DEF SetupOK
<1>3. Counted'
  <2>1. now \in Nat /\ setup.exp \in Nat /\ setup.cooldown \in Nat /\ OTSTTL \in Nat /\ CooldownTTL \in Nat
    BY <1>0, SetupAssumption DEF Typed, DataOK, SetupOK, SetupType
  <2>2. setup.gen # 0 /\ ~setup.inited => Tally(setup, guesses, now + 1)
    BY <1>0, <2>1 DEF Counted, Tally
  <2> QED BY <1>1, <2>2 DEF Counted, Tally
<1> QED BY <1>1, <1>2, <1>3 DEF IInv

(* Every step preserves the invariant. *)
LEMMA NextOK == IInv /\ [Next]_vars => IInv'
<1> SUFFICES ASSUME IInv, [Next]_vars PROVE IInv'
  OBVIOUS
<1>0. BInv /\ Typed /\ SetupOK /\ Counted
  BY DEF IInv, BInv
<1>1. CASE GetSetupStatus \/ UploadSetupBackup \/ \E right \in BOOLEAN : UnlockSetup(right)
  BY <1>1, StatusKeeps, UploadKeeps, UnlockKeeps
<1>2. CASE \E p \in Procs : StartApply(p) \/ ApplyFresh(p) \/ ApplyAdmin(p) \/ ApplyComplete(p)
  BY <1>2, StartApplyKeeps, ApplyKeeps
<1>3. CASE (\E p \in Procs : Gated(p) \/ RunNow(p) \/ BackupStep(p)) /\ UNCHANGED <<setup, guesses>>
  <2>1. PICK p \in Procs : Gated(p) \/ RunNow(p) \/ BackupStep(p)
    BY <1>3
  <2>2. CASE Gated(p)
    <3>1. db.users /\ BackupStart(p)
      BY <1>0, <2>2 DEF Gated, SetupOK
    <3>2. BInv' /\ UNCHANGED <<db, now>>
      BY <1>0, <3>1, StartKeeps, StartFrame DEF dataVars
    <3> QED BY <1>0, <1>3, <3>2, CountedKept DEF IInv
  <2>3. CASE RunNow(p)
    <3>1. BInv' /\ UNCHANGED <<db, now>>
      BY <1>0, <2>3, RunKeeps, RunTyped DEF RunNow, dataVars
    <3> QED BY <1>0, <1>3, <3>1, CountedKept DEF IInv
  <2>4. CASE BackupStep(p)
    BY <1>0, <1>3, <2>4, StepKeeps, StepFrame, CountedKept DEF IInv
  <2> QED BY <2>1, <2>2, <2>3, <2>4
<1>4. CASE Tick /\ UNCHANGED <<setup, guesses>>
  BY <1>4, TickCounts
<1>5. CASE Restart
  <2>1. BInv'
    BY <1>0, <1>5, RestartKeeps DEF Restart
  <2>2. SetupOK' /\ Counted'
    BY <1>5, NotSetUpOK DEF Restart, SetupOK, Counted
  <2> QED BY <2>1, <2>2 DEF IInv
<1>6. CASE UNCHANGED vars
  <2>1. /\ UNCHANGED <<db, keyFile, keystore, files, held, op, now, ids, lastName, faults, starts, fresh, torn>>
        /\ UNCHANGED <<setup, guesses>>
    BY <1>6 DEF vars, backupVars
  <2>2. Typed' /\ (db'.done => db'.users)
    BY <1>0, <2>1 DEF Typed, DataOK, ProcsOK, BInv, HasUsers
  <2>3. BInv'
    BY <1>0, <2>1, <2>2, StillKeeps
  <2> QED BY <1>0, <2>1, <2>3, CountedKept DEF IInv
<1> QED BY <1>1, <1>2, <1>3, <1>4, <1>5, <1>6 DEF Next

-----------------------------------------------------------------------------
(* Theorems *)

(* IInv holds through every call of the assistant, of the backup and of    *)
(* the scheduler, every failure and every restart.                         *)
THEOREM SetupInvariant == Spec => []IInv
<1>1. Init => IInv
  BY InitOK
<1>2. IInv /\ [Next]_vars => IInv'
  BY NextOK
<1> QED BY <1>1, <1>2, PTL DEF Spec

(* The invariant implies type correctness. *)
LEMMA TypeIsEnough ==
    ASSUME IInv
    PROVE  TypeOK
<1>1. DataOK /\ setup \in SetupType
  BY DEF IInv, BInv, Typed, SetupOK
<1>2. \A s \in Storages, n \in Names : files[s][n] \in PackageType \union {NoPkg}
  BY <1>1 DEF DataOK
<1>3. setup.attempts \in 0..(MaxAttempts - 1)
  BY <1>1 DEF SetupType
<1> QED BY <1>1, <1>2, <1>3 DEF DataOK, TypeOK, Names

(* The variables keep their shape through every call, failure and restart, *)
(* whatever is restored: a row of the archive table, a package, the number *)
(* of attempts (setup.go, backup.go, backup_schedule.go).                  *)
THEOREM SetupTypeCorrect == Spec => []TypeOK
<1>1. IInv => TypeOK
  BY TypeIsEnough
<1> QED BY <1>1, SetupInvariant, PTL

(* applyBackupSnapshot replaces database, key file and keystore one after  *)
(* the other: unless two of these calls overlap or one is cut short, they  *)
(* and every package that CreateBackupPackage made agree on the key.       *)
THEOREM KeyAlwaysFollows == Spec => []KeyFollowsDatabase
<1>1. IInv => KeyFollowsDatabase
  BY PairingIsEnough DEF IInv
<1> QED BY <1>1, SetupInvariant, PTL

(* enforceArchiveRetention never takes the newest archive of a storage,    *)
(* however long ago the rows it removes were listed.                       *)
THEOREM RetentionSparesNewest == Spec => []NewestArchiveKept
<1>1. IInv => NewestArchiveKept
  BY NewestIsEnough DEF IInv
<1> QED BY <1>1, SetupInvariant, PTL

(* At most setupMaxAttempts wrong codes per pause are tried on one code,   *)
(* however UnlockSetup and the rotation of the code are called.            *)
THEOREM GuessingIsSlow == Spec => []GuessesBounded
<1>1. IInv => GuessesBounded
  BY CountedIsEnough
<1> QED BY <1>1, SetupInvariant, PTL

(* setupInitialized is only ever set when there is a user to log in.       *)
THEOREM GateNeedsUser == Spec => GateOpensWithUser
<1>1. IInv' => (setup'.inited => db'.users)
  BY DEF IInv, SetupOK
<1>2. IInv' => [~setup.inited /\ setup'.inited => db'.users]_vars
  BY <1>1
<1> QED BY <1>2, SetupInvariant, PTL DEF GateOpensWithUser

(* Only StartRun begins a scheduled run. *)
LEMMA OnlyStartRun ==
    ASSUME IInv, Next, op[Sched] = Idle, op'[Sched].kind = "run"
    PROVE  StartRun(Sched)
<1>0. BInv /\ Typed /\ Sched \in Procs /\ op[Sched].kind = "none"
  BY IdleOK DEF IInv, BInv, Procs
<1>1. op' # op
  BY <1>0
<1>2. ASSUME NEW p \in Procs, Moved(p), op'[p].kind # "run" PROVE FALSE
  BY <1>0, <1>2 DEF Moved
<1>3. ASSUME NEW p \in Procs, BackupStep(p) PROVE FALSE
  <2>1. Moved(p) /\ op[p].kind # "none" /\ op'[p].kind \in {op[p].kind, "none"}
    BY <1>0, <1>3, StepFrame
  <2> QED BY <1>0, <2>1 DEF Moved
<1>4. ASSUME NEW p \in Procs, StartApply(p) PROVE FALSE
  BY <1>2, <1>4, ApplyStarts
<1>5. ASSUME NEW p \in Procs, ApplyFresh(p) \/ ApplyAdmin(p) \/ ApplyComplete(p) PROVE FALSE
  <2>1. Moved(p) /\ (op'[p] = Idle \/ op'[p].kind = "apply")
    BY <1>5, ApplySteps
  <2> QED BY <1>2, <2>1, IdleOK
<1>6. ASSUME NEW p \in Procs, Gated(p) PROVE FALSE
  BY <1>0, <1>2, <1>6, StartFrame DEF Gated
<1>7. ASSUME NEW p \in Procs, RunNow(p) PROVE StartRun(Sched)
  <2>1. StartRun(p) /\ Moved(p)
    BY <1>0, <1>7, RunTyped DEF RunNow
  <2>2. p = Sched
    BY <1>0, <2>1 DEF Moved
  <2> QED BY <2>1, <2>2
<1>8. ~Restart
  BY <1>0, RestartTyped, IdleOK DEF Restart
<1>9. ~(GetSetupStatus \/ UploadSetupBackup \/ Tick \/ \E right \in BOOLEAN : UnlockSetup(right))
  BY <1>1 DEF GetSetupStatus, UploadSetupBackup, Tick, UnlockSetup
<1> QED BY <1>3, <1>4, <1>5, <1>6, <1>7, <1>8, <1>9 DEF Next

(* runScheduledBackup looks at the newest archive as well as at the        *)
(* stored time of the last run: the scheduler keeps the interval even when *)
(* SetSetting failed.                                                      *)
THEOREM SchedulerKeepsInterval == Spec => RunsSpaced
<1>1. ASSUME IInv, [Next]_vars
      PROVE  [op[Sched] = Idle /\ op'[Sched].kind = "run"
                => \A s \in Storages : fresh[s] # NoArchive =>
                      now - fresh[s].at >= normalizeBackupScheduleSettings(db.sched).interval]_backupVars
  <2>1. CASE UNCHANGED vars
    BY <2>1 DEF vars
  <2>2. CASE Next
    BY <1>1, <2>2, OnlyStartRun, RunIsSpaced DEF IInv
  <2> QED BY <1>1, <2>1, <2>2
<1>2. IInv /\ [Next]_vars
        => [op[Sched] = Idle /\ op'[Sched].kind = "run"
              => \A s \in Storages : fresh[s] # NoArchive =>
                    now - fresh[s].at >= normalizeBackupScheduleSettings(db.sched).interval]_backupVars
  BY <1>1
<1> QED BY <1>2, SetupInvariant, PTL DEF RunsSpaced, Spec

-----------------------------------------------------------------------------
(* Setup implements Onboarding *)

(* The phase of the installation, case by case. *)
LEMMA PhaseCases ==
    /\ Phase = "done" <=> db.users \/ db.done
    /\ Phase = "working" <=> ~db.users /\ ~db.done /\ Applying
    /\ Phase = "open" <=> ~db.users /\ ~db.done /\ ~Applying /\ now < setup.unlock
    /\ Phase = "locked" <=> ~db.users /\ ~db.done /\ ~Applying /\ ~(now < setup.unlock)
    /\ Phase \in {"done", "working", "open", "locked"}
BY DEF Phase

(* The same of the next state. *)
LEMMA PhaseCasesNext ==
    /\ Phase' = "done" <=> db'.users \/ db'.done
    /\ Phase' = "working" <=> ~db'.users /\ ~db'.done /\ Applying'
    /\ Phase' = "open" <=> ~db'.users /\ ~db'.done /\ ~Applying' /\ now' < setup'.unlock
    /\ Phase' = "locked" <=> ~db'.users /\ ~db'.done /\ ~Applying' /\ ~(now' < setup'.unlock)
    /\ Phase' \in {"done", "working", "open", "locked"}
BY DEF Phase

(* A step of the promise, or none. *)
Kept ==
    \/ Phase' = Phase
    \/ Phase = "locked" /\ Phase' = "open"
    \/ Phase = "open" /\ Phase' \in {"locked", "working"}
    \/ Phase = "working" /\ Phase' \in {"locked", "open", "done"}

(* A database in use stays in use. *)
LEMMA UsersStay ==
    ASSUME IInv, [Next]_vars, db.users
    PROVE  db'.users
<1>0. BInv /\ Typed
  BY DEF IInv, BInv
<1>1. ASSUME Ensure, UNCHANGED <<backupRest, starts, op>> PROVE db'.users
  BY <1>0, <1>1, EnsureKeeps
<1>2. CASE GetSetupStatus \/ UploadSetupBackup \/ \E right \in BOOLEAN : UnlockSetup(right)
  BY <1>1, <1>2 DEF GetSetupStatus, UploadSetupBackup, UnlockSetup
<1>3. CASE \E p \in Procs : StartApply(p) \/ ApplyFresh(p) \/ ApplyAdmin(p) \/ ApplyComplete(p)
  BY <1>3, ApplyStarts, ApplySteps
<1>4. CASE \E p \in Procs : Gated(p) \/ RunNow(p) \/ BackupStep(p)
  BY <1>0, <1>4, StartFrame, RunTyped, StepFrame DEF Gated, RunNow, dataVars
<1>5. CASE Tick \/ Restart
  BY <1>5 DEF Tick, Restart, BackupRestart
<1>6. CASE UNCHANGED vars
  BY <1>6 DEF vars, backupVars
<1> QED BY <1>2, <1>3, <1>4, <1>5, <1>6 DEF Next

(* Every step keeps the phase or moves it the way the promise allows. *)
LEMMA PhaseStep ==
    ASSUME IInv, [Next]_vars
    PROVE  Kept
<1>0. BInv /\ Typed /\ HasUsers /\ IInv'
  BY NextOK DEF IInv, BInv
<1>1. (db.done => db.users) /\ (db'.done => db'.users)
  <2>1. HasUsers'
    BY <1>0 DEF IInv, BInv
  <2> QED BY <1>0, <2>1 DEF HasUsers
<1>2. CASE db.users
  BY <1>2, UsersStay, PhaseCases, PhaseCasesNext DEF Kept
<1>3. CASE ~db.users
  <2>0. ~db.users /\ ~db.done
    BY <1>1, <1>3
  <2>1. CASE GetSetupStatus \/ UploadSetupBackup \/ \E right \in BOOLEAN : UnlockSetup(right)
    <3>1. ~Applying /\ Ensure /\ UNCHANGED <<backupRest, starts, op>>
      BY <2>1 DEF GetSetupStatus, UploadSetupBackup, UnlockSetup
    <3>2. ~db'.users /\ ~db'.done
      BY <1>0, <2>0, <3>1, EnsureKeeps
    <3>3. ~Applying'
      BY <3>1 DEF Applying
    <3> QED BY <2>0, <3>1, <3>2, <3>3, PhaseCases, PhaseCasesNext DEF Kept
  <2>2. ASSUME NEW p \in Procs, StartApply(p) PROVE Kept
    <3>1. ~Applying /\ now < setup.unlock /\ op'[p].kind = "apply" /\ UNCHANGED db
      BY <2>2, ApplyStarts DEF StartApply
    <3>2. Applying'
      BY <3>1 DEF Applying
    <3> QED BY <2>0, <3>1, <3>2, PhaseCases, PhaseCasesNext DEF Kept
  <2>3. ASSUME NEW p \in Procs, op[p].kind = "apply" PROVE Kept
    <3>1. Applying
      BY <2>3 DEF Applying
    <3> QED BY <2>0, <3>1, PhaseCases, PhaseCasesNext DEF Kept
  <2>4. ASSUME NEW p \in Procs, ApplyFresh(p) \/ ApplyAdmin(p) \/ ApplyComplete(p) PROVE Kept
    BY <2>3, <2>4, ApplySteps
  <2>5. ASSUME NEW p \in Procs, BackupStep(p) PROVE Kept
    BY <1>0, <1>3, <2>3, <2>5, StepFrame
  <2>6. ASSUME NEW p \in Procs, Gated(p) \/ RunNow(p) PROVE FALSE
    <3>2. CASE Gated(p)
      BY <1>3, <3>2 DEF Gated, IInv, SetupOK
    <3>3. CASE RunNow(p)
      <4>1. Typed' /\ BInv' /\ op'[p].kind = "run" /\ UNCHANGED db
        BY <1>0, <3>3, RunTyped, RunKeeps DEF RunNow, dataVars
      <4> QED BY <1>3, <4>1 DEF BInv, HasUsers
    <3> QED BY <2>6, <3>2, <3>3
  <2>7. CASE Tick /\ UNCHANGED <<setup, guesses>>
    <3>1. UNCHANGED <<db, op, setup>>
      BY <2>7 DEF Tick
    <3>2. Applying' <=> Applying
      BY <3>1 DEF Applying
    <3>3. now' = now + 1 /\ now \in Nat /\ setup.unlock \in Nat
      BY <1>0, <2>7, TickTyped DEF Typed, DataOK, IInv, SetupOK, SetupType
    <3> QED BY <2>0, <3>1, <3>2, <3>3, PhaseCases, PhaseCasesNext DEF Kept
  <2>8. CASE Restart
    <3>1. UNCHANGED db /\ \A p \in Procs : op'[p] = Idle
      BY <1>0, <2>8, RestartTyped DEF Restart
    <3>2. ~Applying'
      BY <3>1, IdleOK DEF Applying
    <3> QED BY <2>0, <3>1, <3>2, PhaseCases, PhaseCasesNext DEF Kept
  <2>9. CASE UNCHANGED vars
    <3>1. UNCHANGED <<db, op, setup, now>>
      BY <2>9 DEF vars, backupVars
    <3>2. Applying' <=> Applying
      BY <3>1 DEF Applying
    <3> QED BY <2>0, <3>1, <3>2, PhaseCases, PhaseCasesNext DEF Kept
  <2> QED BY <2>1, <2>2, <2>4, <2>5, <2>6, <2>7, <2>8, <2>9 DEF Next
<1> QED BY <1>2, <1>3

(* The setup assistant, with all it shares with backup and restore,        *)
(* implements Onboarding: an apply begins only while the assistant is      *)
(* unlocked, only an apply takes the installation into use, and            *)
(* ensureSetupStateLocked never offers a database in use for setup again.  *)
THEOREM SetupKeepsPromise == Spec => SetupPromise
<1>1. Init => Promise!Init
  <2> SUFFICES ASSUME Init PROVE Promise!Init
    OBVIOUS
  <2>1. IInv
    BY InitOK
  <2>2. ~Applying
    BY IdleOK DEF Init, BackupInit, Applying
  <2>3. ~(now < setup.unlock)
    BY NotSetUpOK DEF Init, BackupInit
  <2>4. Phase \in {"locked", "done"}
    BY <2>2, <2>3, PhaseCases
  <2> QED BY <2>4 DEF Promise!Init
<1>2. IInv /\ [Next]_vars => [Promise!Next]_Phase
  <2> SUFFICES ASSUME IInv, [Next]_vars PROVE [Promise!Next]_Phase
    OBVIOUS
  <2>1. Kept
    BY PhaseStep
  <2> QED BY <2>1 DEF Kept, Promise!Next, Promise!Unlock, Promise!Relock, Promise!Begin,
                      Promise!GiveUp, Promise!Finish
<1> QED BY <1>1, <1>2, SetupInvariant, PTL DEF Spec, SetupPromise, Promise!Spec
=============================================================================
