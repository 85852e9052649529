---------------------------- MODULE BackupProofs ----------------------------
(***************************************************************************)
(* What the steps of Backup preserve, for every set of requests, keys,     *)
(* phrases and foreign packages and every bound.  SetupProofs puts these   *)
(* lemmas together with the steps of the setup assistant.                  *)
(*                                                                         *)
(* Typed is the type invariant; HasUsers says that a database with         *)
(* anything to back up has a user; Pairing follows the key through a       *)
(* restore, a backup and a secret being stored; Archives follows the       *)
(* newest archive, its name and its id through everything that still holds *)
(* an older copy of the table.                                             *)
(***************************************************************************)
EXTENDS Backup, TLAPS, FiniteSetTheorems

RestorePCs == {"restore_db", "write_key", "load_key"}

Kinds == {"none", "apply", "create", "run", "delete", "restore", "save"}

(* The steps of each kind of request. *)
PCs(kind) ==
    CASE kind = "none"    -> {"idle"}
      [] kind = "apply"   -> RestorePCs \union {"fresh", "admin", "complete"}
      [] kind = "create"  -> {"vacuum", "read_key"}
      [] kind = "run"     -> {"vacuum", "read_key", "local", "ftp", "list_local", "list_ftp",
                              "prune_local", "prune_ftp", "finish"}
      [] kind = "delete"  -> {"remove", "delete_row"}
      [] kind = "restore" -> RestorePCs
      [] kind = "save"    -> {"pass", "ftp", "store_secret", "check_pass", "check_ftp", "fields"}

(* A package that may still lack its key. *)
AnyPackage == [db: DBType, key: Keys \union {"none"}, pass: Phrases \union {"none"}]

Steps == {"idle", "fresh", "admin", "complete", "vacuum", "read_key", "local", "ftp", "list_local",
          "list_ftp", "prune_local", "prune_ftp", "finish", "remove", "delete_row", "restore_db",
          "write_key", "load_key", "pass", "store_secret", "check_pass", "check_ftp", "fields"}

OpType == [kind: Kinds, pc: Steps, pkg: AnyPackage, enc: SecretType, sched: ScheduleType,
           field: Nat, row: Nat, todo: SUBSET RowType, name: Names, again: BOOLEAN]

(* The process v has a whole package. *)
Whole(v) == v.pc \in RestorePCs \/ (v.kind = "run" /\ v.pc \in {"local", "ftp"})

(* What a process has at each of its steps. *)
Shape(v) ==
    /\ v \in OpType
    /\ v.pc \in PCs(v.kind)
    /\ v.kind = "none" => v = Idle
    /\ Whole(v) => v.pkg \in PackageType
    /\ v.pc \in {"vacuum", "read_key"} => v.pkg.pass \in Phrases
    /\ v.pc = "store_secret" => v.enc # NoSecret
    /\ v.pc = "fields" => v.field \in 1..5
    /\ v.kind = "run" => v.sched.keep >= 1
    /\ v.kind = "delete" => \A x, y \in v.todo : x = y

ProcsOK == op \in [Procs -> OpType] /\ \A p \in Procs : Shape(op[p])

DataOK ==
    /\ db \in DBType /\ keyFile \in Keys /\ keystore \in Keys
    /\ files \in [Storages -> [Names -> PackageType \union {NoPkg}]]
    /\ held \subseteq PackageType
    /\ now \in 1..MaxTime /\ ids \in Nat /\ lastName \in Names
    /\ faults \in Nat /\ starts \in Nat /\ torn \in BOOLEAN
    /\ fresh \in [Storages -> RowType \union {NoArchive}]

Typed == ProcsOK /\ DataOK

-----------------------------------------------------------------------------
(* Shapes *)

(* The default schedule, the empty secret, database and package have their types; NoPkg is no package. *)
LEMMA DefaultsOK ==
    /\ defaultSchedule \in ScheduleType /\ NoSecret \in SecretType
    /\ EmptyDB \in DBType /\ EmptyDB.rows = {} /\ EmptyDB.users = FALSE
    /\ NoPkg \in AnyPackage /\ NoPkg \notin PackageType /\ NoPkg.db = EmptyDB
<1>1. defaultSchedule \in ScheduleType /\ NoSecret \in SecretType
  BY BackupAssumption DEF defaultSchedule, ScheduleType, NoSecret, SecretType
<1>2. EmptyDB \in DBType /\ EmptyDB.rows = {} /\ EmptyDB.users = FALSE
  <2>1. 0 \in 0..MaxTime
    BY BackupAssumption
  <2> QED BY <1>1, <2>1 DEF EmptyDB, DBType
<1>3. NoPkg \in AnyPackage /\ NoPkg.db = EmptyDB
  BY <1>2 DEF NoPkg, AnyPackage
<1>4. NoPkg \notin PackageType
  BY BackupAssumption DEF NoPkg, PackageType
<1> QED BY <1>1, <1>2, <1>3, <1>4

(* An idle process has the shape of one and carries nothing. *)
LEMMA IdleOK ==
    /\ Shape(Idle) /\ Idle \in OpType
    /\ Idle.kind = "none" /\ Idle.pc = "idle" /\ Idle.pkg = NoPkg /\ Idle.enc = NoSecret
    /\ Idle.sched = defaultSchedule /\ Idle.todo = {} /\ Idle.field = 0 /\ Idle.row = 0
    /\ Idle.name = 0 /\ Idle.again = FALSE
<1>1. Idle \in OpType
  <2>1. 0 \in Names
    BY BackupAssumption DEF Names
  <2>2. "none" \in Kinds /\ "idle" \in Steps /\ {} \in SUBSET RowType /\ FALSE \in BOOLEAN
    BY DEF Kinds, Steps
  <2>3. NoPkg \in AnyPackage /\ NoSecret \in SecretType /\ defaultSchedule \in ScheduleType /\ 0 \in Nat
    BY DefaultsOK
  <2> QED BY <2>1, <2>2, <2>3 DEF Idle, OpType
<1>2. /\ Idle.kind = "none" /\ Idle.pc = "idle" /\ Idle.pkg = NoPkg /\ Idle.enc = NoSecret
      /\ Idle.sched = defaultSchedule /\ Idle.todo = {} /\ Idle.field = 0 /\ Idle.row = 0
      /\ Idle.name = 0 /\ Idle.again = FALSE
  BY DEF Idle
<1>3. Shape(Idle)
  BY <1>1, <1>2 DEF Shape, PCs, Whole, RestorePCs
<1> QED BY <1>1, <1>2, <1>3

(* Which kinds of operation can stand at which step. *)
LEMMA StepsOfKinds ==
    ASSUME NEW v, Shape(v)
    PROVE  /\ v.pc = "idle" <=> v.kind = "none"
           /\ v.kind = "run" <=> v.pc \in {"vacuum", "read_key", "local", "ftp", "list_local", "list_ftp",
                              "prune_local", "prune_ftp", "finish"} /\ v.kind \notin {"create", "save"}
           /\ v.pc \in {"vacuum", "read_key"} => v.kind \in {"create", "run"}
           /\ v.pc = "local" => v.kind = "run"
           /\ v.pc \in {"list_local", "list_ftp", "prune_local", "prune_ftp", "finish"} => v.kind = "run"
           /\ v.pc = "ftp" => v.kind \in {"run", "save"}
           /\ v.pc \in {"remove", "delete_row"} => v.kind = "delete"
           /\ v.pc \in RestorePCs => v.kind \in {"apply", "restore"}
           /\ v.pc \in {"fresh", "admin", "complete"} => v.kind = "apply"
           /\ v.pc \in {"pass", "store_secret", "check_pass", "check_ftp", "fields"} => v.kind = "save"
<1>1. v.kind \in Kinds /\ v.pc \in PCs(v.kind)
  BY DEF Shape, OpType
<1> QED BY <1>1 DEF Kinds, PCs, RestorePCs

(* A process takes its next step. *)
LEMMA ProcSet ==
    ASSUME ProcsOK, NEW p \in Procs, NEW v, Set(p, v), Shape(v)
    PROVE  ProcsOK' /\ op'[p] = v /\ \A q \in Procs \ {p} : op'[q] = op[q]
<1>1. v \in OpType
  BY DEF Shape
<1>2. op' \in [Procs -> OpType] /\ op'[p] = v /\ \A q \in Procs \ {p} : op'[q] = op[q]
  BY <1>1 DEF ProcsOK, Set
<1>3. \A q \in Procs : Shape(op'[q])
  BY <1>2 DEF ProcsOK
<1> QED BY <1>2, <1>3 DEF ProcsOK

(* Ending an operation leaves every process well formed and the others alone. *)
LEMMA ProcEnd ==
    ASSUME ProcsOK, NEW p \in Procs, End(p)
    PROVE  ProcsOK' /\ op'[p] = Idle /\ \A q \in Procs \ {p} : op'[q] = op[q]
BY IdleOK, ProcSet DEF End

(* A process at another step, with what it had. *)
LEMMA PCSet ==
    ASSUME NEW o \in OpType, NEW x \in Steps
    PROVE  LET v == [o EXCEPT !.pc = x] IN
           /\ v \in OpType /\ v.pc = x /\ v.kind = o.kind /\ v.pkg = o.pkg /\ v.enc = o.enc
           /\ v.sched = o.sched /\ v.field = o.field /\ v.row = o.row /\ v.todo = o.todo
           /\ v.name = o.name /\ v.again = o.again
BY DEF OpType

(* The type invariant, read off for one process. *)
LEMMA ProcFacts ==
    ASSUME Typed, NEW p \in Procs
    PROVE  /\ ProcsOK /\ DataOK /\ op[p] \in OpType /\ Shape(op[p])
           /\ op[p].kind \in Kinds /\ op[p].pc \in Steps /\ op[p].pkg \in AnyPackage
           /\ op[p].enc \in SecretType /\ op[p].sched \in ScheduleType /\ op[p].field \in Nat
           /\ op[p].row \in Nat /\ op[p].todo \subseteq RowType /\ op[p].name \in Names
           /\ op[p].again \in BOOLEAN
<1>1. op[p] \in OpType /\ Shape(op[p]) /\ ProcsOK /\ DataOK
  BY DEF Typed, ProcsOK
<1> QED BY <1>1 DEF OpType

Moved(p) == \A q \in Procs \ {p} : op'[q] = op[q]

(* DataOK speaks of these variables; faults and starts only count up. *)
dataVars == <<db, keyFile, keystore, files, held, now, ids, lastName, fresh, torn>>

(* The counters that bound the model stay naturals. *)
LEMMA CountersOK ==
    ASSUME DataOK
    PROVE  /\ (Works \/ Fails) => faults' \in Nat
           /\ UNCHANGED starts => starts' \in Nat
           /\ \A p, o : NewRequest(p, o) => starts' \in Nat
BY DEF DataOK, Works, Fails, NewRequest

(* A step that changes no data keeps its types. *)
LEMMA DataKept ==
    ASSUME DataOK, UNCHANGED dataVars, faults' \in Nat, starts' \in Nat
    PROVE  DataOK'
BY DEF DataOK, dataVars

(* A normalised schedule keeps at least one archive and an interval of at least one. *)
LEMMA NormalOK ==
    ASSUME NEW in \in [enabled: BOOLEAN, interval: Int, keep: Int, local: BOOLEAN, ftp: BOOLEAN]
    PROVE  LET n == normalizeBackupScheduleSettings(in) IN
           /\ n \in ScheduleType /\ n.keep >= 1 /\ n.interval >= 1 /\ n.enabled = in.enabled
           /\ n.local = in.local /\ n.ftp = in.ftp
<1> DEFINE i == IF in.interval < 1 THEN 1 ELSE IF in.interval > MaxInterval THEN MaxInterval ELSE in.interval
           k == IF in.keep < 1 THEN DefaultKeep ELSE IF in.keep > MaxKeep THEN MaxKeep ELSE in.keep
           n == normalizeBackupScheduleSettings(in)
<1>1. i \in Nat /\ k \in Nat /\ i >= 1 /\ k >= 1
  BY BackupAssumption
<1>2. n = [in EXCEPT !.interval = i, !.keep = k]
  BY DEF normalizeBackupScheduleSettings
<1> HIDE DEF i, k
<1>3. n = [enabled |-> in.enabled, interval |-> i, keep |-> k, local |-> in.local, ftp |-> in.ftp]
  BY <1>2
<1> HIDE DEF n
<1>4. n \in ScheduleType
  BY <1>1, <1>3 DEF ScheduleType
<1> QED BY <1>1, <1>3, <1>4 DEF n

(* The next lemmas give, action by action, the types after the step and what the step changed. A download starts. *)
LEMMA CreateTyped ==
    ASSUME Typed, NEW p \in Procs, StartCreate(p)
    PROVE  /\ Typed' /\ Moved(p) /\ op'[p].kind = "create" /\ op'[p].pc = "vacuum"
           /\ op'[p].pkg.db = EmptyDB /\ op'[p].todo = {} /\ op[p] = Idle
           /\ UNCHANGED dataVars
<1>1. PICK w \in Phrases : Set(p, [Idle EXCEPT !.kind = "create", !.pc = "vacuum", !.pkg.pass = w])
  BY DEF StartCreate
<1> DEFINE v == [Idle EXCEPT !.kind = "create", !.pc = "vacuum", !.pkg.pass = w]
<1>2. v \in OpType
  BY IdleOK, DefaultsOK DEF OpType, AnyPackage, NoPkg, Kinds, Steps
<1>3. v.kind = "create" /\ v.pc = "vacuum" /\ v.pkg.pass = w /\ v.pkg.db = EmptyDB /\ v.todo = {}
  BY IdleOK, DefaultsOK DEF NoPkg, Idle
<1> HIDE DEF v
<1>4. Shape(v)
  BY <1>2, <1>3 DEF Shape, PCs, Whole, RestorePCs
<1>5. ProcsOK' /\ op'[p] = v /\ Moved(p)
  BY <1>1, <1>4, ProcSet, ProcFacts DEF v, Moved
<1>6. DataOK'
  BY ProcFacts, CountersOK, DataKept DEF StartCreate, dataVars, DataOK, NewRequest
<1> QED BY <1>3, <1>5, <1>6 DEF Typed, StartCreate, NewRequest, dataVars

(* A scheduled or manual run starts. *)
LEMMA RunTyped ==
    ASSUME Typed, NEW p \in Procs, StartRun(p)
    PROVE  /\ Typed' /\ Moved(p) /\ op'[p].kind = "run" /\ op'[p].pc = "vacuum"
           /\ op'[p].pkg.db = EmptyDB /\ op'[p].todo = {} /\ op[p] = Idle
           /\ UNCHANGED dataVars
<1> DEFINE c == normalizeBackupScheduleSettings(db.sched)
           w == db.secret["pass"].val
           v == [Idle EXCEPT !.kind = "run", !.pc = "vacuum", !.pkg.pass = w, !.sched = c]
<1>0. Set(p, v)
  BY DEF StartRun
<1>1. c \in ScheduleType /\ c.keep >= 1
  <2>1. db.sched \in [enabled: BOOLEAN, interval: Int, keep: Int, local: BOOLEAN, ftp: BOOLEAN]
    BY ProcFacts DEF DataOK, DBType, ScheduleType
  <2> QED BY <2>1, NormalOK
<1>2. w \in Phrases
  <2>1. db.secret["pass"] \in SecretType /\ db.secret["pass"] # NoSecret
    BY ProcFacts DEF DataOK, DBType, StartRun, Readable
  <2> QED BY <2>1 DEF SecretType
<1> HIDE DEF c, w
<1>3. v \in OpType
  BY <1>1, <1>2, IdleOK, DefaultsOK DEF OpType, AnyPackage, NoPkg, Kinds, Steps
<1>4. v.kind = "run" /\ v.pc = "vacuum" /\ v.pkg.pass = w /\ v.pkg.db = EmptyDB /\ v.todo = {} /\ v.sched = c
  BY IdleOK, DefaultsOK DEF NoPkg, Idle
<1> HIDE DEF v
<1>5. Shape(v)
  BY <1>1, <1>2, <1>3, <1>4 DEF Shape, PCs, Whole, RestorePCs
<1>6. ProcsOK' /\ op'[p] = v /\ Moved(p)
  BY <1>0, <1>5, ProcSet, ProcFacts DEF Moved
<1>7. UNCHANGED dataVars /\ faults' \in Nat /\ op[p] = Idle
  BY ProcFacts DEF StartRun, dataVars, DataOK, NewRequest
<1>8. starts' \in Nat
  BY ProcFacts, CountersOK DEF StartRun
<1> QED BY <1>4, <1>6, <1>7, <1>8, DataKept, ProcFacts DEF Typed

(* A delete starts, holding the row it looked up. *)
LEMMA DeleteTyped ==
    ASSUME Typed, NEW p \in Procs, StartDelete(p)
    PROVE  /\ Typed' /\ Moved(p) /\ op'[p].kind = "delete" /\ op'[p].pc = "remove"
           /\ op'[p].pkg.db = EmptyDB /\ op'[p].todo \subseteq db.rows /\ op[p] = Idle
           /\ UNCHANGED dataVars
<1>1. PICK r \in db.rows : Set(p, [Idle EXCEPT !.kind = "delete", !.pc = "remove", !.todo = {r}])
  BY DEF StartDelete
<1>2. r \in RowType
  BY ProcFacts DEF DataOK, DBType
<1> DEFINE v == [Idle EXCEPT !.kind = "delete", !.pc = "remove", !.todo = {r}]
<1>3. v \in OpType
  BY <1>2, IdleOK DEF OpType, Kinds, Steps
<1>4. v.kind = "delete" /\ v.pc = "remove" /\ v.todo = {r} /\ v.pkg = NoPkg
  BY IdleOK DEF Idle
<1> HIDE DEF v
<1>5. Shape(v)
  BY <1>3, <1>4 DEF Shape, PCs, Whole, RestorePCs
<1>6. ProcsOK' /\ op'[p] = v /\ Moved(p)
  BY <1>1, <1>5, ProcSet, ProcFacts DEF v, Moved
<1>7. UNCHANGED dataVars /\ faults' \in Nat /\ op[p] = Idle /\ starts' \in Nat
  BY ProcFacts, CountersOK DEF StartDelete, dataVars, DataOK, NewRequest
<1> QED BY <1>4, <1>6, <1>7, DataKept, ProcFacts, DefaultsOK DEF Typed

(* A process that starts to restore the package g. *)
LEMMA RestoreProc ==
    ASSUME NEW k \in {"restore", "apply"}, NEW g \in PackageType
    PROVE  LET v == [Idle EXCEPT !.kind = k, !.pc = "restore_db", !.pkg = g] IN
           Shape(v) /\ v.kind = k /\ v.pc = "restore_db" /\ v.pkg = g /\ v.todo = {}
<1> DEFINE v == [Idle EXCEPT !.kind = k, !.pc = "restore_db", !.pkg = g]
<1>1. v \in OpType
  BY IdleOK DEF OpType, Kinds, Steps, AnyPackage, PackageType
<1>2. v.kind = k /\ v.pc = "restore_db" /\ v.pkg = g /\ v.todo = {}
  BY IdleOK DEF Idle
<1> HIDE DEF v
<1>3. Shape(v)
  BY <1>1, <1>2 DEF Shape, PCs, Whole, RestorePCs
<1> QED BY <1>2, <1>3 DEF v

(* A restore of an uploaded package starts. *)
LEMMA RestoreTyped ==
    ASSUME Typed, NEW p \in Procs, StartRestore(p)
    PROVE  /\ Typed' /\ Moved(p) /\ op'[p].kind = "restore" /\ op'[p].pc = "restore_db"
           /\ op'[p].pkg \in held \union Foreign /\ op'[p].todo = {} /\ op[p] = Idle
           /\ UNCHANGED dataVars
<1>1. PICK g \in held \union Foreign : Set(p, [Idle EXCEPT !.kind = "restore", !.pc = "restore_db", !.pkg = g])
  BY DEF StartRestore
<1>2. g \in PackageType
  BY ProcFacts, BackupAssumption DEF DataOK
<1> DEFINE v == [Idle EXCEPT !.kind = "restore", !.pc = "restore_db", !.pkg = g]
<1>3. Shape(v) /\ v.kind = "restore" /\ v.pc = "restore_db" /\ v.pkg = g /\ v.todo = {}
  BY <1>2, RestoreProc
<1> HIDE DEF v
<1>6. ProcsOK' /\ op'[p] = v /\ Moved(p)
  BY <1>1, <1>3, ProcSet, ProcFacts DEF v, Moved
<1>7. UNCHANGED dataVars /\ faults' \in Nat /\ op[p] = Idle /\ starts' \in Nat
  BY ProcFacts, CountersOK DEF StartRestore, dataVars, DataOK, NewRequest
<1> QED BY <1>3, <1>6, <1>7, DataKept, ProcFacts DEF Typed

(* A restore of a stored archive starts, with the file it read. *)
LEMMA RestoreArchiveTyped ==
    ASSUME Typed, NEW p \in Procs, StartRestoreArchive(p)
    PROVE  /\ Typed' /\ Moved(p) /\ op'[p].kind = "restore" /\ op'[p].pc = "restore_db"
           /\ \E s \in Storages, n \in Names : op'[p].pkg = files[s][n] /\ files[s][n] # NoPkg
           /\ op'[p].todo = {} /\ op[p] = Idle
           /\ UNCHANGED dataVars
<1>1. PICK r \in db.rows : /\ files[r.store][r.name] # NoPkg
                           /\ Set(p, [Idle EXCEPT !.kind = "restore", !.pc = "restore_db",
                                                  !.pkg = files[r.store][r.name]])
  BY DEF StartRestoreArchive
<1>2. r.store \in Storages /\ r.name \in Names
  BY ProcFacts DEF DataOK, DBType, RowType
<1> DEFINE g == files[r.store][r.name]
<1>3. g \in PackageType
  BY <1>1, <1>2, ProcFacts DEF DataOK
<1> DEFINE v == [Idle EXCEPT !.kind = "restore", !.pc = "restore_db", !.pkg = g]
<1>4. Shape(v) /\ v.kind = "restore" /\ v.pc = "restore_db" /\ v.pkg = g /\ v.todo = {}
  BY <1>3, RestoreProc
<1> HIDE DEF v
<1>6. ProcsOK' /\ op'[p] = v /\ Moved(p)
  BY <1>1, <1>4, ProcSet, ProcFacts DEF v, Moved
<1>7. UNCHANGED dataVars /\ faults' \in Nat /\ op[p] = Idle /\ starts' \in Nat
  BY ProcFacts, CountersOK DEF StartRestoreArchive, dataVars, DataOK, NewRequest
<1> QED BY <1>1, <1>2, <1>4, <1>6, <1>7, DataKept, ProcFacts DEF Typed

(* A save of the settings starts. *)
LEMMA SaveTyped ==
    ASSUME Typed, NEW p \in Procs, StartSave(p)
    PROVE  /\ Typed' /\ Moved(p) /\ op'[p].kind = "save" /\ op'[p].pc = "pass"
           /\ op'[p].pkg.db = EmptyDB /\ op'[p].todo = {} /\ op[p] = Idle
           /\ UNCHANGED dataVars
<1>1. PICK in \in Schedules :
         Set(p, [Idle EXCEPT !.kind = "save", !.pc = "pass", !.sched = normalizeBackupScheduleSettings(in)])
  BY DEF StartSave
<1> DEFINE c == normalizeBackupScheduleSettings(in)
           v == [Idle EXCEPT !.kind = "save", !.pc = "pass", !.sched = c]
<1>2. c \in ScheduleType
  BY BackupAssumption, NormalOK
<1> HIDE DEF c
<1>3. v \in OpType
  BY <1>2, IdleOK DEF OpType, Kinds, Steps
<1>4. v.kind = "save" /\ v.pc = "pass" /\ v.todo = {} /\ v.pkg = NoPkg
  BY IdleOK DEF Idle
<1> HIDE DEF v
<1>5. Shape(v)
  BY <1>3, <1>4 DEF Shape, PCs, Whole, RestorePCs
<1>6. ProcsOK' /\ op'[p] = v /\ Moved(p)
  BY <1>1, <1>5, ProcSet, ProcFacts DEF v, c, Moved
<1>7. UNCHANGED dataVars /\ faults' \in Nat /\ op[p] = Idle /\ starts' \in Nat
  BY ProcFacts, CountersOK DEF StartSave, dataVars, DataOK, NewRequest
<1> QED BY <1>4, <1>6, <1>7, DataKept, ProcFacts, DefaultsOK DEF Typed

-----------------------------------------------------------------------------
(* The steps of a request *)

(* What a step that only moves on leaves as it was. *)
Same(v, o) ==
    /\ v.kind = o.kind /\ v.pkg = o.pkg /\ v.enc = o.enc /\ v.sched = o.sched
    /\ v.todo = o.todo /\ v.name = o.name /\ v.again = o.again

(* From one step to another at which it needs no more than it had. *)
LEMMA GotoTyped ==
    ASSUME Typed, NEW p \in Procs, NEW x \in Steps, Goto(p, x), op[p].kind # "none",
           x \in PCs(op[p].kind),
           x \in RestorePCs \/ (op[p].kind = "run" /\ x \in {"local", "ftp"}) => Whole(op[p]),
           x \notin {"vacuum", "read_key", "store_secret", "fields"}
    PROVE  ProcsOK' /\ Moved(p) /\ Same(op'[p], op[p]) /\ op'[p].pc = x
<1> DEFINE v == [op[p] EXCEPT !.pc = x]
<1>1. v \in OpType /\ v.pc = x /\ Same(v, op[p])
  BY ProcFacts, PCSet DEF Same
<1> HIDE DEF v
<1>2. Shape(v)
  BY <1>1, ProcFacts DEF Shape, Whole, Same
<1> QED BY <1>1, <1>2, ProcFacts, ProcSet DEF Goto, v, Moved

(* The snapshot is the database as it is now, torn if a restore is half done. *)
LEMMA VacuumTyped ==
    ASSUME Typed, NEW p \in Procs, VacuumInto(p)
    PROVE  /\ Typed' /\ Moved(p) /\ op[p].pc = "vacuum" /\ op[p].kind \in {"create", "run"}
           /\ \/ /\ op'[p].pc = "read_key" /\ op'[p].kind = op[p].kind /\ op'[p].pkg.db = db
                 /\ op'[p].todo = op[p].todo
                 /\ torn' = (torn \/ \E q \in Procs : MidRestore(q))
              \/ op'[p] = Idle /\ UNCHANGED torn
<1>1. op[p].pc = "vacuum" /\ op[p].kind \in {"create", "run"} /\ op[p].pkg.pass \in Phrases
  BY ProcFacts, StepsOfKinds DEF VacuumInto, At, Shape
<1>2. DataOK'
  <2>1. UNCHANGED <<db, keyFile, keystore, files, held, now, ids, lastName, fresh, starts>> /\ faults' \in Nat
    BY ProcFacts, CountersOK DEF VacuumInto
  <2>2. torn' \in BOOLEAN
    <3>1. torn \in BOOLEAN
      BY ProcFacts DEF DataOK
    <3> QED BY <3>1, Zenon DEF VacuumInto
  <2> QED BY <2>1, <2>2, ProcFacts DEF DataOK
<1>3. CASE Set(p, [op[p] EXCEPT !.pc = "read_key", !.pkg.db = db])
           /\ torn' = (torn \/ \E q \in Procs : MidRestore(q))
  <2> DEFINE v == [op[p] EXCEPT !.pc = "read_key", !.pkg.db = db]
  <2>1. db \in DBType
    BY ProcFacts DEF DataOK
  <2>2. v \in OpType
    <3>1. op[p] \in OpType /\ op[p].pkg \in AnyPackage /\ "read_key" \in Steps
      BY ProcFacts DEF Steps
    <3>2. [op[p].pkg EXCEPT !.db = db] \in AnyPackage
      BY <2>1, <3>1 DEF AnyPackage
    <3>3. v = [op[p] EXCEPT !.pc = "read_key", !.pkg = [op[p].pkg EXCEPT !.db = db]]
      BY <3>1 DEF OpType
    <3> QED BY <3>1, <3>2, <3>3 DEF OpType
  <2>3. v.kind = op[p].kind /\ v.pc = "read_key" /\ v.pkg.db = db /\ v.pkg.pass = op[p].pkg.pass
        /\ v.todo = op[p].todo /\ v.sched = op[p].sched
    BY ProcFacts DEF OpType, AnyPackage
  <2> HIDE DEF v
  <2>4. Shape(v)
    BY <1>1, <2>2, <2>3, ProcFacts DEF Shape, PCs, Whole, RestorePCs
  <2>5. ProcsOK' /\ op'[p] = v /\ Moved(p)
    BY <1>3, <2>4, ProcSet, ProcFacts DEF v, Moved
  <2> QED BY <1>1, <1>2, <1>3, <2>3, <2>5 DEF Typed
<1>4. CASE End(p) /\ UNCHANGED torn
  BY <1>1, <1>2, <1>4, ProcEnd, ProcFacts DEF Typed, Moved
<1> QED BY <1>3, <1>4 DEF VacuumInto

(* The package gets the key file; a download ends with it in the hands of the administrator. *)
LEMMA ReadKeyTyped ==
    ASSUME Typed, NEW p \in Procs, ReadKey(p)
    PROVE  /\ Typed' /\ Moved(p) /\ op[p].pc = "read_key"
           /\ UNCHANGED <<db, keyFile, keystore, files, now, ids, fresh, torn>>
           /\ \/ /\ op[p].kind = "create" /\ op'[p] = Idle /\ UNCHANGED lastName
                 /\ held' = held \union {[op[p].pkg EXCEPT !.key = keyFile]}
              \/ /\ op[p].kind = "run" /\ op'[p].kind = "run" /\ op'[p].pc = "local" /\ UNCHANGED held
                 /\ op'[p].pkg = [op[p].pkg EXCEPT !.key = keyFile] /\ op'[p].todo = op[p].todo
                 /\ op'[p].name = lastName' /\ lastName' \in 1..MaxNames
                 /\ op'[p].again = (lastName' = lastName)
                 /\ lastName' = lastName \/ lastName' = lastName + 1
              \/ op'[p] = Idle /\ UNCHANGED <<held, lastName>>
<1> DEFINE g == [op[p].pkg EXCEPT !.key = keyFile]
<1>1. op[p].pc = "read_key" /\ op[p].kind \in {"create", "run"} /\ op[p].pkg.pass \in Phrases
  BY ProcFacts, StepsOfKinds DEF ReadKey, At, Shape
<1>2. g \in PackageType
  BY <1>1, ProcFacts DEF AnyPackage, PackageType, DataOK
<1>3. UNCHANGED <<db, keyFile, keystore, files, now, ids, fresh, torn, starts>> /\ faults' \in Nat
  BY ProcFacts, CountersOK DEF ReadKey
<1>4. \/ op[p].kind = "create" /\ held' = held \union {g} /\ End(p) /\ UNCHANGED lastName
      \/ /\ op[p].kind = "run" /\ UNCHANGED held
         /\ \E n \in {lastName, lastName + 1} \intersect (1..MaxNames) :
               /\ Set(p, [op[p] EXCEPT !.pc = "local", !.pkg = g, !.name = n, !.again = (n = lastName)])
               /\ lastName' = n
      \/ End(p) /\ UNCHANGED <<held, lastName>>
  BY DEF ReadKey
<1> HIDE DEF g
<1>5. ASSUME held' \subseteq PackageType, lastName' \in Names PROVE DataOK'
  BY <1>3, <1>5, ProcFacts DEF DataOK
<1>6. held \subseteq PackageType /\ lastName \in Names
  BY ProcFacts DEF DataOK
<1>7. CASE op[p].kind = "create" /\ held' = held \union {g} /\ End(p) /\ UNCHANGED lastName
  <2>1. DataOK'
    BY <1>2, <1>5, <1>6, <1>7
  <2> QED BY <1>1, <1>3, <1>7, <2>1, ProcEnd, ProcFacts DEF Typed, Moved, g
<1>8. CASE End(p) /\ UNCHANGED <<held, lastName>>
  <2>1. DataOK'
    BY <1>5, <1>6, <1>8
  <2> QED BY <1>1, <1>3, <1>8, <2>1, ProcEnd, ProcFacts DEF Typed, Moved
<1>9. CASE /\ op[p].kind = "run" /\ UNCHANGED held
           /\ \E n \in {lastName, lastName + 1} \intersect (1..MaxNames) :
                 /\ Set(p, [op[p] EXCEPT !.pc = "local", !.pkg = g, !.name = n, !.again = (n = lastName)])
                 /\ lastName' = n
  <2>1. PICK n \in {lastName, lastName + 1} \intersect (1..MaxNames) :
               /\ Set(p, [op[p] EXCEPT !.pc = "local", !.pkg = g, !.name = n, !.again = (n = lastName)])
               /\ lastName' = n
    BY <1>9
  <2>2. n \in Names
    BY BackupAssumption DEF Names
  <2> DEFINE b == (n = lastName)
             v == [op[p] EXCEPT !.pc = "local", !.pkg = g, !.name = n, !.again = b]
  <2>3. b \in BOOLEAN
    OBVIOUS
  <2> HIDE DEF b
  <2>4. v \in OpType
    <3>1. op[p] \in OpType /\ g \in AnyPackage /\ "local" \in Steps
      BY <1>2, ProcFacts DEF AnyPackage, PackageType, Steps
    <3> QED BY <2>2, <2>3, <3>1 DEF OpType
  <2>5. v.kind = op[p].kind /\ v.pc = "local" /\ v.pkg = g /\ v.name = n /\ v.again = b
        /\ v.todo = op[p].todo /\ v.sched = op[p].sched
    BY ProcFacts DEF OpType
  <2> HIDE DEF v
  <2>6. Shape(v)
    BY <1>2, <1>9, <2>4, <2>5, ProcFacts DEF Shape, PCs, Whole, RestorePCs
  <2>7. ProcsOK' /\ op'[p] = v /\ Moved(p)
    BY <2>1, <2>6, ProcSet, ProcFacts DEF v, b, Moved
  <2>8. DataOK'
    BY <1>5, <1>6, <1>9, <2>1, <2>2
  <2>9. v.again = (lastName' = lastName)
    BY <2>1, <2>5 DEF b
  <2> QED BY <1>1, <1>3, <1>9, <2>1, <2>5, <2>7, <2>8, <2>9 DEF Typed, g
<1> QED BY <1>4, <1>7, <1>8, <1>9

(* The database with other rows, another schedule, a marker, a time. *)
LEMMA RowsSet ==
    ASSUME NEW d \in DBType, NEW R \in SUBSET RowType
    PROVE  LET e == [d EXCEPT !.rows = R] IN
           /\ e \in DBType /\ e.rows = R /\ e.users = d.users /\ e.done = d.done
           /\ e.sched = d.sched /\ e.secret = d.secret
BY DEF DBType

NewRow(p, s) == [id |-> ids + 1, store |-> s, name |-> op[p].name, at |-> now]

(* The archive is written under a new name and then its row, or neither, or the file alone. *)
LEMMA StoreTyped ==
    ASSUME Typed, NEW p \in Procs, NEW s \in Storages, StoreArchive(p, s)
    PROVE  /\ Typed' /\ Moved(p) /\ op[p].kind = "run" /\ op[p].pc = s
           /\ Same(op'[p], op[p]) /\ op'[p].pc = IF s = "local" THEN "ftp" ELSE "list_local"
           /\ UNCHANGED <<keyFile, keystore, held, now, lastName, torn>>
           /\ db'.users = db.users /\ db'.done = db.done /\ db'.sched = db.sched /\ db'.secret = db.secret
           /\ \/ UNCHANGED <<db, files, ids, fresh>>
              \/ /\ files' = [files EXCEPT ![s][op[p].name] = op[p].pkg]
                 /\ \/ /\ db'.rows = db.rows \union {NewRow(p, s)} /\ ids' = ids + 1
                       /\ fresh' = [fresh EXCEPT ![s] = IF op[p].again THEN NoArchive ELSE NewRow(p, s)]
                    \/ UNCHANGED <<db, ids>> /\ fresh' = IF op[p].again THEN [fresh EXCEPT ![s] = NoArchive] ELSE fresh
<1> DEFINE x == IF s = "local" THEN "ftp" ELSE "list_local"
           row == [id |-> ids + 1, store |-> s, name |-> op[p].name, at |-> now]
           stored == [files EXCEPT ![s][op[p].name] = op[p].pkg]
<1>1. op[p].kind = "run" /\ op[p].pc = s /\ s \in {"local", "ftp"}
  BY DEF StoreArchive, At, Storages
<1>2. Goto(p, x) /\ x \in Steps /\ x \in PCs("run")
  BY <1>1 DEF StoreArchive, Steps, PCs
<1>3. Whole(op[p])
  BY <1>1 DEF Whole
<1>4. ProcsOK' /\ Moved(p) /\ Same(op'[p], op[p]) /\ op'[p].pc = x
  BY <1>1, <1>2, <1>3, GotoTyped DEF RestorePCs
<1>5. /\ UNCHANGED <<keyFile, keystore, held, now, lastName, torn, starts>> /\ faults' \in Nat
      /\ \/ UNCHANGED <<db, files, ids, fresh>>
         \/ /\ files' = stored
            /\ \/ /\ db' = [db EXCEPT !.rows = @ \union {row}] /\ ids' = ids + 1
                  /\ fresh' = IF op[p].again THEN [fresh EXCEPT ![s] = NoArchive] ELSE [fresh EXCEPT ![s] = row]
               \/ UNCHANGED <<db, ids>> /\ fresh' = IF op[p].again THEN [fresh EXCEPT ![s] = NoArchive] ELSE fresh
  <2>1. UNCHANGED <<keyFile, keystore, held, now, lastName, torn, starts>>
    BY DEF StoreArchive
  <2>2. faults' \in Nat
    BY ProcFacts, CountersOK DEF StoreArchive
  <2>3. row.id = ids + 1
    OBVIOUS
  <2>4. \/ UNCHANGED <<db, files, ids, fresh>>
        \/ /\ files' = stored
           /\ \/ /\ db' = [db EXCEPT !.rows = @ \union {row}] /\ ids' = row.id
                 /\ fresh' = IF op[p].again THEN [fresh EXCEPT ![s] = NoArchive] ELSE [fresh EXCEPT ![s] = row]
              \/ UNCHANGED <<db, ids>> /\ fresh' = IF op[p].again THEN [fresh EXCEPT ![s] = NoArchive] ELSE fresh
    BY Zenon DEF StoreArchive
  <2> QED BY <2>1, <2>2, <2>3, <2>4
<1>6. row \in RowType /\ row = NewRow(p, s)
  BY ProcFacts DEF DataOK, RowType, NewRow
<1>7. stored \in [Storages -> [Names -> PackageType \union {NoPkg}]]
  <2>1. op[p].pkg \in PackageType /\ op[p].name \in Names
    BY <1>3, ProcFacts DEF Shape
  <2>2. files \in [Storages -> [Names -> PackageType \union {NoPkg}]]
    BY ProcFacts DEF DataOK
  <2> QED BY <2>1, <2>2
<1> HIDE DEF row, stored
<1>8. db \in DBType /\ db.rows \union {row} \subseteq RowType
  BY <1>6, ProcFacts DEF DataOK, DBType
<1> DEFINE e == [db EXCEPT !.rows = db.rows \union {row}]
<1>9. /\ e \in DBType /\ e.rows = db.rows \union {row} /\ e.users = db.users /\ e.done = db.done
      /\ e.sched = db.sched /\ e.secret = db.secret
  BY <1>8, RowsSet
<1>10. db' = e \/ db' = db
  BY <1>5
<1> HIDE DEF e
<1>11. fresh' \in [Storages -> RowType \union {NoArchive}]
  <2>1. fresh \in [Storages -> RowType \union {NoArchive}]
    BY ProcFacts DEF DataOK
  <2> QED BY <1>5, <1>6, <2>1
<1>12. DataOK'
  BY <1>5, <1>7, <1>9, <1>10, <1>11, ProcFacts DEF DataOK
<1>13. db'.users = db.users /\ db'.done = db.done /\ db'.sched = db.sched /\ db'.secret = db.secret
  BY <1>9, <1>10
<1>14. \/ UNCHANGED <<db, files, ids, fresh>>
       \/ /\ files' = stored
          /\ \/ /\ db'.rows = db.rows \union {row} /\ ids' = ids + 1
                /\ fresh' = [fresh EXCEPT ![s] = IF op[p].again THEN NoArchive ELSE row]
             \/ UNCHANGED <<db, ids>> /\ fresh' = IF op[p].again THEN [fresh EXCEPT ![s] = NoArchive] ELSE fresh
  <2>1. db' = [db EXCEPT !.rows = @ \union {row}] => db'.rows = db.rows \union {row}
    BY <1>9 DEF e
  <2> QED BY <1>5, <2>1
<1> QED BY <1>1, <1>4, <1>5, <1>6, <1>12, <1>13, <1>14 DEF Typed, stored

(* The stages of retention are steps of a run. *)
LEMMA Stages ==
    ASSUME NEW s \in Storages
    PROVE  /\ {Listing(s), Pruning(s), AfterPrune(s)} \subseteq Steps
           /\ {Listing(s), Pruning(s), AfterPrune(s)} \subseteq
                 {"list_local", "list_ftp", "prune_local", "prune_ftp", "finish"}
           /\ {Listing(s), Pruning(s), AfterPrune(s)} \subseteq PCs("run")
           /\ Listing(s) \in {"list_local", "list_ftp"} /\ Pruning(s) \in {"prune_local", "prune_ftp"}
           /\ AfterPrune(s) \notin {"prune_local", "prune_ftp"}
           /\ \A t \in Storages : Pruning(s) = Pruning(t) => s = t
BY DEF Storages, Listing, Pruning, AfterPrune, Steps, PCs

(* A run with other rows to prune. *)
LEMMA TodoSet ==
    ASSUME Typed, NEW p \in Procs, NEW x \in {"list_ftp", "prune_local", "prune_ftp", "finish"},
           NEW T \in SUBSET RowType, op[p].kind = "run", Set(p, [op[p] EXCEPT !.pc = x, !.todo = T])
    PROVE  ProcsOK' /\ Moved(p) /\ op'[p].kind = "run" /\ op'[p].pc = x /\ op'[p].todo = T /\ op'[p].pkg = op[p].pkg
<1> DEFINE v == [op[p] EXCEPT !.pc = x, !.todo = T]
<1>1. v \in OpType
  BY ProcFacts DEF OpType, Steps
<1>2. v.kind = op[p].kind /\ v.pc = x /\ v.todo = T /\ v.sched = op[p].sched /\ v.pkg = op[p].pkg
  BY ProcFacts DEF OpType
<1> HIDE DEF v
<1>3. Shape(v)
  BY <1>1, <1>2, ProcFacts DEF Shape, PCs, Whole, RestorePCs
<1> QED BY <1>2, <1>3, ProcFacts, ProcSet DEF v, Moved

(* Retention picks rows beyond the kept ones of its storage. *)
LEMMA ListTyped ==
    ASSUME Typed, NEW p \in Procs, NEW s \in Storages, ListRetention(p, s)
    PROVE  /\ Typed' /\ Moved(p) /\ op[p].kind = "run" /\ op'[p].kind = "run" /\ op[p].pc = Listing(s)
           /\ UNCHANGED dataVars /\ op'[p].pkg = op[p].pkg
           /\ op'[p].pc \in {AfterPrune(s), Pruning(s)}
           /\ op'[p].todo \subseteq Oldest(s, op[p].sched.keep)
<1> DEFINE over == IF op[p].sched[s] /\ (s = "ftp" => Readable("ftp"))
                   THEN Oldest(s, op[p].sched.keep) ELSE {}
           x == IF over = {} THEN AfterPrune(s) ELSE Pruning(s)
<1>1. op[p].pc = Listing(s) /\ op[p].kind = "run"
  BY ProcFacts, StepsOfKinds, Stages DEF ListRetention, At
<1>2. Oldest(s, op[p].sched.keep) \subseteq RowType /\ over \subseteq Oldest(s, op[p].sched.keep)
  BY ProcFacts DEF Oldest, RowsOf, DataOK, DBType
<1>3. x \in {AfterPrune(s), Pruning(s)} /\ x \in {"list_ftp", "prune_local", "prune_ftp", "finish"}
  BY DEF AfterPrune, Pruning, Storages
<1>4. Set(p, [op[p] EXCEPT !.pc = x, !.todo = over])
  BY DEF ListRetention
<1> HIDE DEF over, x
<1>5. ProcsOK' /\ Moved(p) /\ op'[p].kind = "run" /\ op'[p].pc = x /\ op'[p].todo = over /\ op'[p].pkg = op[p].pkg
  BY <1>1, <1>2, <1>3, <1>4, TodoSet
<1>6. UNCHANGED dataVars /\ faults' \in Nat /\ starts' \in Nat
  BY ProcFacts DEF ListRetention, dataVars, DataOK
<1> QED BY <1>1, <1>2, <1>3, <1>5, <1>6, DataKept, ProcFacts DEF Typed

(* The table without the row r, or as it was; a file gone, or not. *)
LEMMA RowGone ==
    ASSUME DataOK, NEW r \in RowType,
           db' = db \/ db' = [db EXCEPT !.rows = {x \in @ : x.id # r.id}]
    PROVE  /\ db' \in DBType /\ db'.users = db.users /\ db'.done = db.done /\ db'.sched = db.sched
           /\ db'.secret = db.secret /\ db'.rows \subseteq db.rows
           /\ \A x \in db.rows : x.id # r.id => x \in db'.rows
<1>1. db \in DBType /\ {x \in db.rows : x.id # r.id} \subseteq RowType
  BY DEF DataOK, DBType
<1> DEFINE e == [db EXCEPT !.rows = {x \in db.rows : x.id # r.id}]
<1>2. /\ e \in DBType /\ e.rows = {x \in db.rows : x.id # r.id} /\ e.users = db.users /\ e.done = db.done
      /\ e.sched = db.sched /\ e.secret = db.secret
  BY <1>1, RowsSet
<1>3. db' = db \/ db' = e
  OBVIOUS
<1> HIDE DEF e
<1> QED BY <1>1, <1>2, <1>3

(* Removing one file touches no other. *)
LEMMA FileGone ==
    ASSUME DataOK, NEW r \in RowType,
           files' = files \/ files' = [files EXCEPT ![r.store][r.name] = NoPkg]
    PROVE  /\ files' \in [Storages -> [Names -> PackageType \union {NoPkg}]]
           /\ \A s \in Storages, n \in Names :
                 /\ files'[s][n] = files[s][n] \/ files'[s][n] = NoPkg
                 /\ s # r.store \/ n # r.name => files'[s][n] = files[s][n]
<1>1. r.store \in Storages /\ r.name \in Names
  BY DEF RowType
<1>2. files \in [Storages -> [Names -> PackageType \union {NoPkg}]]
  BY DEF DataOK
<1> QED BY <1>1, <1>2

(* Retention removes one of the rows it picked, with its file. *)
LEMMA PruneTyped ==
    ASSUME Typed, NEW p \in Procs, NEW s \in Storages, Prune(p, s), \A r \in op[p].todo : r.store = s
    PROVE  /\ Typed' /\ Moved(p) /\ op[p].kind = "run" /\ op'[p].kind = "run" /\ op[p].pc = Pruning(s)
           /\ op'[p].pc \in {AfterPrune(s), Pruning(s)} /\ op'[p].pkg = op[p].pkg
           /\ UNCHANGED <<keyFile, keystore, held, now, ids, lastName, fresh, torn>>
           /\ \E r \in op[p].todo :
                 /\ op'[p].todo = op[p].todo \ {r}
                 /\ files' = files \/ files' = [files EXCEPT ![r.store][r.name] = NoPkg]
                 /\ db' = db \/ db' = [db EXCEPT !.rows = {x \in @ : x.id # r.id}]
<1>1. op[p].pc = Pruning(s) /\ op[p].kind = "run" /\ op[p].todo \subseteq RowType
  BY ProcFacts, StepsOfKinds, Stages DEF Prune, At
<1>2. PICK r \in op[p].todo :
         /\ Set(p, [op[p] EXCEPT !.pc = IF op[p].todo \ {r} = {} THEN AfterPrune(s) ELSE @, !.todo = op[p].todo \ {r}])
         /\ files' = files \/ files' = [files EXCEPT ![s][r.name] = NoPkg]
         /\ db' = db \/ db' = [db EXCEPT !.rows = {x \in @ : x.id # r.id}]
         /\ Works \/ Fails
  BY DEF Prune
<1> DEFINE x == IF op[p].todo \ {r} = {} THEN AfterPrune(s) ELSE Pruning(s)
<1>3. r \in RowType /\ r.store = s /\ op[p].todo \ {r} \subseteq RowType
  BY <1>1
<1>4. x \in {AfterPrune(s), Pruning(s)} /\ x \in {"list_ftp", "prune_local", "prune_ftp", "finish"}
  BY DEF AfterPrune, Pruning, Storages
<1>5. Set(p, [op[p] EXCEPT !.pc = x, !.todo = op[p].todo \ {r}])
  BY <1>1, <1>2
<1> HIDE DEF x
<1>6. ProcsOK' /\ Moved(p) /\ op'[p].kind = "run" /\ op'[p].pc = x /\ op'[p].todo = op[p].todo \ {r} /\ op'[p].pkg = op[p].pkg
  BY <1>1, <1>3, <1>4, <1>5, TodoSet
<1>7. UNCHANGED <<keyFile, keystore, held, now, ids, lastName, fresh, torn, starts>> /\ faults' \in Nat
  BY <1>2, ProcFacts, CountersOK DEF Prune
<1>8. db' \in DBType /\ files' \in [Storages -> [Names -> PackageType \union {NoPkg}]]
  BY <1>2, <1>3, RowGone, FileGone, ProcFacts
<1>9. DataOK'
  BY <1>7, <1>8, ProcFacts DEF DataOK
<1> QED BY <1>1, <1>2, <1>3, <1>4, <1>6, <1>7, <1>9 DEF Typed

(* The run records its outcome and ends. *)
LEMMA FinishTyped ==
    ASSUME Typed, NEW p \in Procs, FinishRun(p)
    PROVE  /\ Typed' /\ Moved(p) /\ op[p].kind = "run" /\ op[p].pc = "finish" /\ op'[p] = Idle
           /\ UNCHANGED <<keyFile, keystore, files, held, now, ids, lastName, fresh, torn>>
           /\ db'.users = db.users /\ db'.done = db.done /\ db'.sched = db.sched
           /\ db'.secret = db.secret /\ db'.rows = db.rows
<1>1. op[p].pc = "finish" /\ op[p].kind = "run"
  BY ProcFacts, StepsOfKinds DEF FinishRun, At
<1>2. ProcsOK' /\ op'[p] = Idle /\ Moved(p)
  BY ProcFacts, ProcEnd DEF FinishRun, Moved
<1>3. /\ UNCHANGED <<keyFile, keystore, files, held, now, ids, lastName, fresh, torn, starts>> /\ faults' \in Nat
      /\ db' = [db EXCEPT !.last = now] \/ db' = db
  BY ProcFacts, CountersOK DEF FinishRun
<1>4. /\ db' \in DBType /\ db'.users = db.users /\ db'.done = db.done /\ db'.sched = db.sched
      /\ db'.secret = db.secret /\ db'.rows = db.rows
  <2>1. now \in 0..MaxTime /\ db \in DBType
    BY ProcFacts DEF DataOK
  <2> QED BY <1>3, <2>1 DEF DBType
<1>5. DataOK'
  BY <1>3, <1>4, ProcFacts DEF DataOK
<1> QED BY <1>1, <1>2, <1>3, <1>4, <1>5 DEF Typed

(* A delete removes the file. *)
LEMMA RemoveTyped ==
    ASSUME Typed, NEW p \in Procs, RemoveArchive(p)
    PROVE  /\ Typed' /\ Moved(p) /\ op[p].kind = "delete" /\ op[p].pc = "remove"
           /\ op'[p].pc = "delete_row" /\ Same(op'[p], op[p])
           /\ UNCHANGED <<db, keyFile, keystore, held, now, ids, lastName, torn>>
           /\ \E r \in op[p].todo :
                 /\ files' = files \/ files' = [files EXCEPT ![r.store][r.name] = NoPkg]
                 /\ fresh' = [fresh EXCEPT ![r.store] = IF @.id = r.id THEN NoArchive ELSE @]
<1>1. op[p].pc = "remove" /\ op[p].kind = "delete" /\ op[p].todo \subseteq RowType
  BY ProcFacts, StepsOfKinds DEF RemoveArchive, At
<1>2. PICK r \in op[p].todo :
         /\ files' = files \/ files' = [files EXCEPT ![r.store][r.name] = NoPkg]
         /\ fresh' = [fresh EXCEPT ![r.store] = IF @.id = r.id THEN NoArchive ELSE @]
         /\ Works \/ Fails
  BY DEF RemoveArchive
<1>3. ProcsOK' /\ Moved(p) /\ Same(op'[p], op[p]) /\ op'[p].pc = "delete_row"
  <2>1. Goto(p, "delete_row")
    BY DEF RemoveArchive
  <2>2. "delete_row" \in Steps /\ "delete_row" \in PCs("delete")
    BY DEF Steps, PCs
  <2> QED BY <1>1, <2>1, <2>2, GotoTyped DEF RestorePCs
<1>4. UNCHANGED <<db, keyFile, keystore, held, now, ids, lastName, torn, starts>> /\ faults' \in Nat
  BY <1>2, ProcFacts, CountersOK DEF RemoveArchive
<1>5. files' \in [Storages -> [Names -> PackageType \union {NoPkg}]]
  BY <1>1, <1>2, FileGone, ProcFacts
<1>6. fresh' \in [Storages -> RowType \union {NoArchive}]
  <2>1. fresh \in [Storages -> RowType \union {NoArchive}]
    BY ProcFacts DEF DataOK
  <2> QED BY <1>2, <2>1
<1>7. DataOK'
  BY <1>4, <1>5, <1>6, ProcFacts DEF DataOK
<1> QED BY <1>1, <1>2, <1>3, <1>4, <1>7 DEF Typed

(* A delete removes the row. *)
LEMMA DeleteRowTyped ==
    ASSUME Typed, NEW p \in Procs, DeleteRow(p)
    PROVE  /\ Typed' /\ Moved(p) /\ op[p].kind = "delete" /\ op[p].pc = "delete_row" /\ op'[p] = Idle
           /\ UNCHANGED <<keyFile, keystore, files, held, now, ids, lastName, fresh, torn>>
           /\ \/ UNCHANGED db
              \/ \E r \in op[p].todo : db' = [db EXCEPT !.rows = {x \in @ : x.id # r.id}]
<1>1. op[p].pc = "delete_row" /\ op[p].kind = "delete" /\ op[p].todo \subseteq RowType
  BY ProcFacts, StepsOfKinds DEF DeleteRow, At
<1>2. ProcsOK' /\ op'[p] = Idle /\ Moved(p)
  BY ProcFacts, ProcEnd DEF DeleteRow, Moved
<1>3. /\ UNCHANGED <<keyFile, keystore, files, held, now, ids, lastName, fresh, torn, starts>> /\ faults' \in Nat
      /\ \/ UNCHANGED db
         \/ \E r \in op[p].todo : db' = [db EXCEPT !.rows = {x \in @ : x.id # r.id}]
  BY ProcFacts, CountersOK DEF DeleteRow
<1>4. db' \in DBType
  <2>1. CASE UNCHANGED db
    BY <2>1, ProcFacts DEF DataOK
  <2>2. CASE \E r \in op[p].todo : db' = [db EXCEPT !.rows = {x \in @ : x.id # r.id}]
    BY <1>1, <2>2, RowGone, ProcFacts
  <2> QED BY <1>3, <2>1, <2>2
<1>5. DataOK'
  BY <1>3, <1>4, ProcFacts DEF DataOK
<1> QED BY <1>1, <1>2, <1>3, <1>5 DEF Typed

(* A restore replaces the database by that of the package. *)
LEMMA SnapshotTyped ==
    ASSUME Typed, NEW p \in Procs, RestoreFromSnapshot(p)
    PROVE  /\ Typed' /\ Moved(p) /\ op[p].pc = "restore_db" /\ op[p].kind \in {"restore", "apply"}
           /\ UNCHANGED <<keyFile, keystore, files, held, now, lastName>>
           /\ \/ /\ op'[p].pc = "write_key" /\ Same(op'[p], op[p])
                 /\ db' = op[p].pkg.db
                 /\ ids <= ids' /\ \A r \in db'.rows : r.id <= ids'
                 /\ fresh' = [s \in Storages |-> NoArchive]
                 /\ torn' = (torn \/ \E q \in Procs \ {p} : MidRestore(q) \/ MidCreate(q) \/ MidSave(q))
              \/ op'[p] = Idle /\ UNCHANGED <<db, ids, fresh, torn>>
<1>1. /\ op[p].pc = "restore_db" /\ op[p].kind \in {"restore", "apply"} /\ op[p].pkg \in PackageType
      /\ Whole(op[p])
  BY ProcFacts, StepsOfKinds DEF RestoreFromSnapshot, At, Shape, Whole, RestorePCs
<1>2. UNCHANGED <<keyFile, keystore, files, held, now, lastName, starts>> /\ faults' \in Nat
  BY ProcFacts, CountersOK DEF RestoreFromSnapshot
<1>3. CASE End(p) /\ UNCHANGED <<db, ids, fresh, torn>>
  <2>1. DataOK'
    BY <1>2, <1>3, ProcFacts, DataKept DEF dataVars, DataOK
  <2> QED BY <1>1, <1>2, <1>3, <2>1, ProcFacts, ProcEnd DEF Typed, Moved
<1>4. CASE /\ Goto(p, "write_key")
           /\ db' = op[p].pkg.db
           /\ ids' \in {n \in {ids} \union {r.id : r \in db'.rows} : ids <= n /\ \A r \in db'.rows : r.id <= n}
           /\ fresh' = [s \in Storages |-> NoArchive]
           /\ torn' = (torn \/ \E q \in Procs \ {p} : MidRestore(q) \/ MidCreate(q) \/ MidSave(q))
  <2>1. ProcsOK' /\ Moved(p) /\ Same(op'[p], op[p]) /\ op'[p].pc = "write_key"
    <3>1. "write_key" \in Steps /\ "write_key" \in PCs(op[p].kind)
      BY <1>1 DEF Steps, PCs, RestorePCs
    <3> QED BY <1>1, <1>4, <3>1, GotoTyped
  <2>2. db' \in DBType
    BY <1>1, <1>4 DEF PackageType
  <2>3. ids' \in Nat /\ ids <= ids' /\ \A r \in db'.rows : r.id <= ids'
    <3>1. ids \in Nat /\ \A r \in db'.rows : r.id \in Nat
      BY <2>2, ProcFacts DEF DataOK, DBType, RowType
    <3> QED BY <1>4, <3>1
  <2>4. fresh' \in [Storages -> RowType \union {NoArchive}]
    BY <1>4
  <2>5. torn' \in BOOLEAN
    <3>1. torn \in BOOLEAN
      BY ProcFacts DEF DataOK
    <3> QED BY <1>4, <3>1, Zenon
  <2>6. DataOK'
    BY <1>2, <2>2, <2>3, <2>4, <2>5, ProcFacts DEF DataOK
  <2> QED BY <1>1, <1>2, <1>4, <2>1, <2>3, <2>6 DEF Typed
<1> QED BY <1>3, <1>4 DEF RestoreFromSnapshot

(* A restore writes the key file, or stops half way. *)
LEMMA WriteKeyTyped ==
    ASSUME Typed, NEW p \in Procs, WriteKeyFile(p)
    PROVE  /\ Typed' /\ Moved(p) /\ op[p].pc = "write_key" /\ op[p].kind \in {"restore", "apply"}
           /\ UNCHANGED <<db, keystore, files, held, now, ids, lastName, fresh>>
           /\ \/ op'[p].pc = "load_key" /\ Same(op'[p], op[p]) /\ keyFile' = op[p].pkg.key /\ UNCHANGED torn
              \/ op'[p] = Idle /\ torn' = TRUE /\ UNCHANGED keyFile
<1>1. /\ op[p].pc = "write_key" /\ op[p].kind \in {"restore", "apply"} /\ op[p].pkg \in PackageType
      /\ Whole(op[p])
  BY ProcFacts, StepsOfKinds DEF WriteKeyFile, At, Shape, Whole, RestorePCs
<1>2. UNCHANGED <<db, keystore, files, held, now, ids, lastName, fresh, starts>> /\ faults' \in Nat
  BY ProcFacts, CountersOK DEF WriteKeyFile
<1>3. CASE End(p) /\ torn' = TRUE /\ UNCHANGED keyFile
  <2>1. DataOK'
    BY <1>2, <1>3, ProcFacts DEF DataOK
  <2> QED BY <1>1, <1>2, <1>3, <2>1, ProcFacts, ProcEnd DEF Typed, Moved
<1>4. CASE Goto(p, "load_key") /\ keyFile' = op[p].pkg.key /\ UNCHANGED torn
  <2>1. ProcsOK' /\ Moved(p) /\ Same(op'[p], op[p]) /\ op'[p].pc = "load_key"
    <3>1. "load_key" \in Steps /\ "load_key" \in PCs(op[p].kind)
      BY <1>1 DEF Steps, PCs, RestorePCs
    <3> QED BY <1>1, <1>4, <3>1, GotoTyped
  <2>2. keyFile' \in Keys
    BY <1>1, <1>4 DEF PackageType
  <2>3. DataOK'
    BY <1>2, <1>4, <2>2, ProcFacts DEF DataOK
  <2> QED BY <1>1, <1>2, <1>4, <2>1, <2>3 DEF Typed
<1> QED BY <1>3, <1>4 DEF WriteKeyFile

(* A restore loads the key file into the process, or stops half way. *)
LEMMA LoadKeyTyped ==
    ASSUME Typed, NEW p \in Procs, LoadKey(p)
    PROVE  /\ Typed' /\ Moved(p) /\ op[p].pc = "load_key" /\ op[p].kind \in {"restore", "apply"}
           /\ UNCHANGED <<db, keyFile, files, held, now, ids, lastName, fresh>>
           /\ \/ /\ keystore' = keyFile /\ UNCHANGED torn
                 /\ op'[p] = Idle \/ (op'[p].pc = "admin" /\ op[p].kind = "apply" /\ Same(op'[p], op[p]))
              \/ op'[p] = Idle /\ torn' = TRUE /\ UNCHANGED keystore
<1>1. /\ op[p].pc = "load_key" /\ op[p].kind \in {"restore", "apply"} /\ op[p].pkg \in PackageType
  BY ProcFacts, StepsOfKinds DEF LoadKey, At, Shape, Whole, RestorePCs
<1>2. UNCHANGED <<db, keyFile, files, held, now, ids, lastName, fresh, starts>> /\ faults' \in Nat
  BY ProcFacts, CountersOK DEF LoadKey
<1>3. keyFile \in Keys /\ keystore \in Keys /\ torn \in BOOLEAN
  BY ProcFacts DEF DataOK
<1>4. CASE End(p) /\ torn' = TRUE /\ UNCHANGED keystore
  <2>1. DataOK'
    BY <1>2, <1>4, ProcFacts DEF DataOK
  <2> QED BY <1>1, <1>2, <1>4, <2>1, ProcFacts, ProcEnd DEF Typed, Moved
<1>5. CASE End(p) /\ keystore' = keyFile /\ UNCHANGED torn
  <2>1. DataOK'
    BY <1>2, <1>3, <1>5, ProcFacts DEF DataOK
  <2> QED BY <1>1, <1>2, <1>5, <2>1, ProcFacts, ProcEnd DEF Typed, Moved
<1>6. CASE op[p].kind = "apply" /\ Goto(p, "admin") /\ keystore' = keyFile /\ UNCHANGED torn
  <2>1. ProcsOK' /\ Moved(p) /\ Same(op'[p], op[p]) /\ op'[p].pc = "admin"
    <3>1. "admin" \in Steps /\ "admin" \in PCs(op[p].kind) /\ "admin" \notin RestorePCs
      BY <1>6 DEF Steps, PCs, RestorePCs
    <3> QED BY <1>1, <1>6, <3>1, GotoTyped
  <2>2. DataOK'
    BY <1>2, <1>3, <1>6, ProcFacts DEF DataOK
  <2> QED BY <1>1, <1>2, <1>6, <2>1, <2>2 DEF Typed
<1> QED BY <1>4, <1>5, <1>6 DEF LoadKey, LoadOrCreateKey

(* A save encrypts a secret with the loaded key. *)
LEMMA EncryptTyped ==
    ASSUME Typed, NEW p \in Procs, NEW s \in {"pass", "ftp"}, EncryptSecret(p, s)
    PROVE  /\ Typed' /\ Moved(p) /\ op[p].kind = "save" /\ op[p].pc \in {"pass", "ftp"}
           /\ op'[p].kind = "save" /\ op'[p].pc = "store_secret" /\ op'[p].todo = op[p].todo
           /\ op'[p].pkg = op[p].pkg /\ op'[p].enc.key = keystore
           /\ UNCHANGED <<db, keyFile, keystore, files, held, now, ids, lastName, fresh>>
           /\ torn' = (torn \/ \E q \in Procs : MidRestore(q))
<1>1. op[p].kind = "save" /\ op[p].pc \in {"pass", "ftp"}
  BY DEF EncryptSecret, At
<1>2. PICK w \in Phrases :
          Set(p, [op[p] EXCEPT !.pc = "store_secret", !.enc = [val |-> w, key |-> keystore],
                              !.row = IF s = "pass" THEN 0 ELSE 1])
  BY DEF EncryptSecret
<1> DEFINE n == IF s = "pass" THEN 0 ELSE 1
           c == [val |-> w, key |-> keystore]
           v == [op[p] EXCEPT !.pc = "store_secret", !.enc = c, !.row = n]
<1>3. n \in Nat
  OBVIOUS
<1>4. c \in SecretType /\ c.key = keystore /\ c # NoSecret
  <2>1. keystore \in Keys /\ "none" \notin Phrases
    BY ProcFacts, BackupAssumption DEF DataOK
  <2> QED BY <2>1 DEF SecretType, NoSecret
<1> HIDE DEF n, c
<1>5. v \in OpType
  BY <1>3, <1>4, ProcFacts DEF OpType, Steps
<1>6. v.kind = op[p].kind /\ v.pc = "store_secret" /\ v.enc = c /\ v.pkg = op[p].pkg /\ v.todo = op[p].todo
  BY ProcFacts DEF OpType
<1> HIDE DEF v
<1>7. Shape(v)
  BY <1>1, <1>4, <1>5, <1>6 DEF Shape, PCs, Whole, RestorePCs
<1>8. ProcsOK' /\ op'[p] = v /\ Moved(p)
  BY <1>2, <1>7, ProcSet, ProcFacts DEF v, c, n, Moved
<1>9. /\ UNCHANGED <<db, keyFile, keystore, files, held, now, ids, lastName, fresh, faults, starts>>
      /\ torn' = (torn \/ \E q \in Procs : MidRestore(q))
  BY DEF EncryptSecret
<1>10. torn' \in BOOLEAN
  <2>1. torn \in BOOLEAN
    BY ProcFacts DEF DataOK
  <2> QED BY <1>9, <2>1, Zenon
<1>11. DataOK'
  BY <1>9, <1>10, ProcFacts DEF DataOK
<1> QED BY <1>1, <1>4, <1>6, <1>8, <1>9, <1>11 DEF Typed

(* A save stores the ciphertext. *)
LEMMA StoreSecretTyped ==
    ASSUME Typed, NEW p \in Procs, StoreSecret(p)
    PROVE  /\ Typed' /\ Moved(p) /\ op[p].kind = "save" /\ op[p].pc = "store_secret"
           /\ UNCHANGED <<keyFile, keystore, files, held, now, ids, lastName, fresh, torn>>
           /\ db'.users = db.users /\ db'.done = db.done /\ db'.sched = db.sched /\ db'.rows = db.rows
           /\ \/ /\ op'[p].kind = "save" /\ op'[p].pc \in {"check_pass", "check_ftp"}
                 /\ op'[p].todo = op[p].todo /\ op'[p].pkg = op[p].pkg
                 /\ \A s \in {"pass", "ftp"} : db'.secret[s] = op[p].enc \/ db'.secret[s] = db.secret[s]
              \/ op'[p] = Idle /\ UNCHANGED db
<1>1. op[p].pc = "store_secret" /\ op[p].kind = "save" /\ op[p].enc \in SecretType
  BY ProcFacts, StepsOfKinds DEF StoreSecret, At
<1>2. UNCHANGED <<keyFile, keystore, files, held, now, ids, lastName, fresh, torn, starts>> /\ faults' \in Nat
  BY ProcFacts, CountersOK DEF StoreSecret
<1> DEFINE s == IF op[p].row = 0 THEN "pass" ELSE "ftp"
           x == IF s = "pass" THEN "check_pass" ELSE "check_ftp"
           v == [op[p] EXCEPT !.pc = x, !.enc = NoSecret]
<1>3. CASE End(p) /\ UNCHANGED db
  <2>1. DataOK'
    BY <1>2, <1>3, ProcFacts DEF DataOK
  <2> QED BY <1>1, <1>2, <1>3, <2>1, ProcFacts, ProcEnd DEF Typed, Moved
<1>4. CASE db' = [db EXCEPT !.secret[s] = op[p].enc] /\ Set(p, v)
  <2>1. s \in {"pass", "ftp"} /\ x \in {"check_pass", "check_ftp"}
    OBVIOUS
  <2> HIDE DEF s, x
  <2>2. v \in OpType
    BY <2>1, ProcFacts, DefaultsOK DEF OpType, Steps
  <2>3. v.kind = op[p].kind /\ v.pc = x /\ v.todo = op[p].todo /\ v.pkg = op[p].pkg
    BY ProcFacts DEF OpType
  <2> HIDE DEF v
  <2>4. Shape(v)
    BY <1>1, <2>1, <2>2, <2>3 DEF Shape, PCs, Whole, RestorePCs
  <2>5. ProcsOK' /\ op'[p] = v /\ Moved(p)
    BY <1>4, <2>4, ProcSet, ProcFacts DEF Moved
  <2>6. db \in DBType
    BY ProcFacts DEF DataOK
  <2>7. db' \in DBType
    BY <1>1, <1>4, <2>1, <2>6 DEF DBType
  <2>8. /\ db'.users = db.users /\ db'.done = db.done /\ db'.sched = db.sched /\ db'.rows = db.rows
        /\ \A t \in {"pass", "ftp"} : db'.secret[t] = op[p].enc \/ db'.secret[t] = db.secret[t]
    BY <1>4, <2>1, <2>6 DEF DBType
  <2>9. DataOK'
    BY <1>2, <2>7, ProcFacts DEF DataOK
  <2> QED BY <1>1, <1>2, <2>1, <2>3, <2>5, <2>8, <2>9 DEF Typed
<1> QED BY <1>3, <1>4 DEF StoreSecret

(* A save checks a secret and goes on or ends. *)
LEMMA CheckTyped ==
    ASSUME Typed, NEW p \in Procs, NEW s \in {"pass", "ftp"}, CheckSecret(p, s)
    PROVE  /\ Typed' /\ Moved(p) /\ op[p].kind = "save" /\ op[p].pc \notin {"store_secret", "fields"}
           /\ UNCHANGED dataVars
           /\ \/ op'[p] = Idle
              \/ /\ op'[p].kind = "save" /\ op'[p].pc \in {"ftp", "fields"}
                 /\ op'[p].todo = op[p].todo /\ op'[p].pkg = op[p].pkg
<1>1. op[p].kind = "save" /\ op[p].pc \in {"pass", "check_pass", "ftp", "check_ftp"}
  BY DEF CheckSecret
<1>2. UNCHANGED dataVars /\ faults' \in Nat /\ starts' \in Nat
  BY ProcFacts DEF CheckSecret, dataVars, DataOK
<1>3. DataOK'
  BY <1>2, ProcFacts, DataKept
<1> DEFINE x == IF s = "pass" THEN "ftp" ELSE "fields"
           v == [op[p] EXCEPT !.pc = x, !.field = 1]
<1>4. CASE End(p)
  BY <1>1, <1>2, <1>3, <1>4, ProcFacts, ProcEnd DEF Typed, Moved
<1>5. CASE Set(p, v)
  <2>1. x \in {"ftp", "fields"}
    OBVIOUS
  <2> HIDE DEF x
  <2>2. v \in OpType
    BY <2>1, ProcFacts DEF OpType, Steps
  <2>3. v.kind = op[p].kind /\ v.pc = x /\ v.todo = op[p].todo /\ v.pkg = op[p].pkg /\ v.field = 1
    BY ProcFacts DEF OpType
  <2> HIDE DEF v
  <2>4. Shape(v)
    BY <1>1, <2>1, <2>2, <2>3 DEF Shape, PCs, Whole, RestorePCs
  <2>5. ProcsOK' /\ op'[p] = v /\ Moved(p)
    BY <1>5, <2>4, ProcSet, ProcFacts DEF Moved
  <2> QED BY <1>1, <1>2, <1>3, <2>1, <2>3, <2>5 DEF Typed
<1> QED BY <1>4, <1>5 DEF CheckSecret

(* A save stores one field of the schedule. *)
LEMMA SaveFieldTyped ==
    ASSUME Typed, NEW p \in Procs, SaveField(p)
    PROVE  /\ Typed' /\ Moved(p) /\ op[p].kind = "save" /\ op[p].pc = "fields"
           /\ UNCHANGED <<keyFile, keystore, files, held, now, ids, lastName, fresh, torn>>
           /\ db'.users = db.users /\ db'.done = db.done /\ db'.secret = db.secret /\ db'.rows = db.rows
           /\ \/ op'[p] = Idle
              \/ /\ op'[p].kind = "save" /\ op'[p].pc = "fields"
                 /\ op'[p].todo = op[p].todo /\ op'[p].pkg = op[p].pkg
<1>1. op[p].pc = "fields" /\ op[p].kind = "save" /\ op[p].field \in 1..5 /\ op[p].sched \in ScheduleType
  BY ProcFacts, StepsOfKinds DEF SaveField, At, Shape
<1>2. UNCHANGED <<keyFile, keystore, files, held, now, ids, lastName, fresh, torn, starts>> /\ faults' \in Nat
  BY ProcFacts, CountersOK DEF SaveField
<1> DEFINE f == Fields[op[p].field]
<1>3. f \in {"enabled", "interval", "keep", "local", "ftp"}
  BY <1>1 DEF Fields
<1>4. db' = db \/ db' = [db EXCEPT !.sched[f] = op[p].sched[f]]
  BY DEF SaveField
<1> HIDE DEF f
<1>5. /\ db' \in DBType
      /\ db'.users = db.users /\ db'.done = db.done /\ db'.secret = db.secret /\ db'.rows = db.rows
  <2>1. db \in DBType
    BY ProcFacts DEF DataOK
  <2>2. [db.sched EXCEPT ![f] = op[p].sched[f]] \in ScheduleType
    BY <1>1, <1>3, <2>1 DEF DBType, ScheduleType
  <2>3. db' = db \/ db' = [db EXCEPT !.sched = [db.sched EXCEPT ![f] = op[p].sched[f]]]
    BY <1>4
  <2> DEFINE t == [db.sched EXCEPT ![f] = op[p].sched[f]]
  <2>4. t \in ScheduleType /\ (db' = db \/ db' = [db EXCEPT !.sched = t])
    BY <2>2, <2>3
  <2> HIDE DEF t
  <2> QED BY <2>1, <2>4 DEF DBType
<1>6. DataOK'
  BY <1>2, <1>5, ProcFacts DEF DataOK
<1>7. CASE End(p)
  BY <1>1, <1>2, <1>5, <1>6, <1>7, ProcFacts, ProcEnd DEF Typed, Moved
<1>8. CASE op[p].field # Len(Fields) /\ Set(p, [op[p] EXCEPT !.field = @ + 1])
  <2> DEFINE v == [op[p] EXCEPT !.field = @ + 1]
  <2>1. op[p].field + 1 \in 1..5
    BY <1>1, <1>8 DEF Fields
  <2>2. v \in OpType
    BY <2>1, ProcFacts DEF OpType
  <2>3. v.kind = op[p].kind /\ v.pc = op[p].pc /\ v.todo = op[p].todo /\ v.pkg = op[p].pkg
        /\ v.field = op[p].field + 1
    BY ProcFacts DEF OpType
  <2> HIDE DEF v
  <2>4. Shape(v)
    BY <1>1, <2>1, <2>2, <2>3 DEF Shape, PCs, Whole, RestorePCs
  <2>5. ProcsOK' /\ op'[p] = v /\ Moved(p)
    BY <1>8, <2>4, ProcSet, ProcFacts DEF v, Moved
  <2> QED BY <1>1, <1>2, <1>5, <1>6, <2>3, <2>5 DEF Typed
<1> QED BY <1>7, <1>8 DEF SaveField

(* Time passes. *)
LEMMA TickTyped ==
    ASSUME Typed, Tick
    PROVE  Typed' /\ UNCHANGED <<db, keyFile, keystore, files, held, op, ids, lastName, fresh, torn>> /\ now' = now + 1
<1>1. UNCHANGED <<db, keyFile, keystore, files, held, op, ids, lastName, faults, fresh, torn, starts>>
  BY DEF Tick
<1>2. now' = now + 1 /\ now' \in 1..MaxTime
  BY BackupAssumption DEF Tick, Typed, DataOK
<1> QED BY <1>1, <1>2 DEF Typed, DataOK, ProcsOK

(* A restart ends every operation and loads the key file. *)
LEMMA RestartTyped ==
    ASSUME Typed, BackupRestart
    PROVE  /\ Typed' /\ \A p \in Procs : op'[p] = Idle
           /\ keystore' = keyFile /\ torn' = (torn \/ \E p \in Procs : MidRestore(p))
           /\ UNCHANGED <<db, keyFile, files, held, now, ids, lastName, fresh>>
<1>1. op' \in [Procs -> OpType] /\ \A p \in Procs : op'[p] = Idle
  BY IdleOK DEF BackupRestart
<1>2. ProcsOK'
  <2>1. \A p \in Procs : Shape(op'[p])
    BY <1>1, IdleOK
  <2> QED BY <1>1, <2>1 DEF ProcsOK
<1>3. /\ UNCHANGED <<db, keyFile, files, held, now, ids, lastName, fresh, starts>>
      /\ keystore' = keyFile /\ torn' = (torn \/ \E p \in Procs : MidRestore(p))
  BY DEF BackupRestart, LoadOrCreateKey
<1>4. torn' \in BOOLEAN
  <2>1. torn \in BOOLEAN
    BY DEF Typed, DataOK
  <2> QED BY <1>3, <2>1, Zenon
<1>5. faults' \in Nat
  BY CountersOK DEF BackupRestart, Typed
<1>6. DataOK'
  BY <1>3, <1>4, <1>5 DEF Typed, DataOK
<1> QED BY <1>1, <1>2, <1>3, <1>6 DEF Typed

-----------------------------------------------------------------------------
(* Invariants *)

(* Every whole package there is: downloaded, brought from elsewhere,       *)
(* archived, or in the hands of a process.                                 *)
Stored == {files[s][n] : s \in Storages, n \in Names} \ {NoPkg}
Carried == {op[p].pkg : p \in {q \in Procs : Whole(op[q])}}
Packages == held \union Foreign \union Stored \union Carried

(* Scheduled backups are serialised by backupRunMu. *)
OneRun == \A p, q \in Procs : op[p].kind = "run" /\ op[q].kind = "run" => p = q

(* What has been set up, scheduled or packed has a user; a request behind  *)
(* the gate, and a restore under way, is about a database with users.      *)
HasUsers ==
    /\ db.done => db.users
    /\ db.sched.enabled => db.users
    /\ \A g \in Packages : g.db.users
    /\ \A p \in Procs :
          /\ op[p].kind \notin {"none", "apply"} => db.users
          /\ op[p].pc \in {"complete", "write_key", "load_key"} => db.users
          /\ op[p].pc = "read_key" => op[p].pkg.db.users

(* While the three copies of the key disagree one process is in the middle *)
(* of a restore, alone; a snapshot whose key is not read yet, and a secret *)
(* that is not stored yet, belong to the key file and the key in memory.   *)
Alone(p) == \A q \in Procs \ {p} : ~MidRestore(q) /\ ~MidCreate(q) /\ ~MidSave(q)
Calm == \A p \in Procs : ~MidRestore(p)
Pairing ==
    ~torn =>
        /\ \A g \in Packages : Paired(g.key, g.db)
        /\ Calm => keyFile = keystore /\ Paired(keystore, db)
        /\ \A p \in Procs : MidRestore(p) =>
              /\ Paired(op[p].pkg.key, db)
              /\ op[p].pc = "load_key" => keyFile = op[p].pkg.key
              /\ Alone(p)
        /\ \A p \in Procs : MidCreate(p) => Paired(keyFile, op[p].pkg.db)
        /\ \A p \in Procs : MidSave(p) => op[p].enc.key = keystore

(* Every archive row somebody holds a copy of. *)
RowsAnywhere ==
    {r \in RowType :
        \/ r \in db.rows
        \/ \E g \in Packages : r \in g.db.rows
        \/ \E p \in Procs : r \in op[p].pkg.db.rows \/ r \in op[p].todo}

RowsOK ==
    /\ \A r \in RowsAnywhere : r.name <= lastName
    /\ \A r \in db.rows : r.id <= ids
    /\ \A p \in Procs : \A r \in op[p].todo : r.id <= ids

(* The archive a run is about to store has a name that no row has, unless  *)
(* an earlier run used it (again).                                         *)
NameNew == \A p \in Procs :
    op[p].kind = "run" /\ op[p].pc \in {"local", "ftp"} =>
        /\ op[p].name = lastName
        /\ ~op[p].again => \A r \in RowsAnywhere :
              r.name = lastName => op[p].pc = "ftp" /\ r.store = "local"

(* The row r is not another one with a's id or file. *)
Apart(a, r) == r.id = a.id \/ (r.store = a.store /\ r.name = a.name) => r = a

(* The newest archive of s is listed and there, is the last of its         *)
(* storage, and nobody is about to remove its file or row by another row.  *)
Newest == \A s \in Storages : fresh[s] # NoArchive =>
    /\ fresh[s] \in db.rows /\ fresh[s].store = s /\ files[s][fresh[s].name] # NoPkg
    /\ \A r \in db.rows : Apart(fresh[s], r) /\ (r.store = s => r.id <= fresh[s].id)
    /\ \A p \in Procs : \A r \in op[p].todo : Apart(fresh[s], r)

(* Nor by its own. *)
Spared == \A p \in Procs :
    /\ \A s \in Storages : op[p].pc = Pruning(s) =>
          \A r \in op[p].todo : r.store = s /\ r # fresh[s]
    /\ op[p].pc = "delete_row" => \A r \in op[p].todo : r # fresh[r.store]

Archives == RowsOK /\ NameNew /\ Newest /\ Spared

(* The part of the inductive invariant that is about Backup. *)
BInv == Typed /\ OneRun /\ HasUsers /\ Pairing /\ Archives

-----------------------------------------------------------------------------
(* Frames *)

(* A step of one process makes only the packages it adds. *)
LEMMA PackagesStep ==
    ASSUME Typed, Typed', NEW p \in Procs, Moved(p), NEW X,
           held' \subseteq held \union X,
           \A s \in Storages, n \in Names : files'[s][n] \in Packages \union {NoPkg},
           Whole(op'[p]) => op'[p].pkg \in Packages \union X
    PROVE  Packages' \subseteq Packages \union X
<1>1. ASSUME NEW g, g \in Stored' PROVE g \in Packages
  <2>1. PICK s \in Storages, n \in Names : g = files'[s][n] /\ g # NoPkg
    BY <1>1 DEF Stored
  <2> QED BY <2>1
<1>2. ASSUME NEW g, g \in Carried' PROVE g \in Packages \union X
  <2>1. PICK q \in Procs : Whole(op'[q]) /\ g = op'[q].pkg
    BY <1>2 DEF Carried, Whole
  <2>2. CASE q = p
    BY <2>1, <2>2
  <2>3. CASE q # p
    <3>1. op'[q] = op[q]
      BY <2>3 DEF Moved
    <3>2. g \in Carried
      BY <2>1, <3>1 DEF Carried
    <3> QED BY <3>2 DEF Packages
  <2> QED BY <2>2, <2>3
<1> QED BY <1>1, <1>2 DEF Packages

(* A stored file is a package. *)
LEMMA FilesArePackages ==
    ASSUME Typed, NEW s \in Storages, NEW n \in Names
    PROVE  files[s][n] \in Packages \union {NoPkg}
BY DEF Packages, Stored

(* A package complete in the hands of a process is one. *)
LEMMA CarriedIsPackage ==
    ASSUME NEW p \in Procs, Whole(op[p]) PROVE op[p].pkg \in Packages
BY DEF Packages, Carried

(* The files stay, or some go. *)
LEMMA PackagesKept ==
    ASSUME Typed, Typed', NEW p \in Procs, Moved(p), UNCHANGED held,
           \A s \in Storages, n \in Names : files'[s][n] = files[s][n] \/ files'[s][n] = NoPkg,
           Whole(op'[p]) => op'[p].pkg \in Packages
    PROVE  Packages' \subseteq Packages
<1>1. \A s \in Storages, n \in Names : files'[s][n] \in Packages \union {NoPkg}
  BY FilesArePackages
<1> QED BY <1>1, PackagesStep

(* A step that starts no second run keeps to one. *)
LEMMA OneRunStep ==
    ASSUME OneRun, NEW p \in Procs, Moved(p),
           op'[p].kind = "run" => op[p].kind = "run" \/ \A q \in Procs : op[q].kind # "run"
    PROVE  OneRun'
BY DEF OneRun, Moved

(* A step that loses no account keeps every database, package and request one with accounts. *)
LEMMA UsersStep ==
    ASSUME HasUsers, NEW p \in Procs, Moved(p),
           db.users => db'.users, db'.done => db'.users, db'.sched.enabled => db'.users,
           \A g \in Packages' : g \in Packages \/ g.db.users,
           op'[p].kind \notin {"none", "apply"} => db'.users,
           op'[p].pc \in {"complete", "write_key", "load_key"} => db'.users,
           op'[p].pc = "read_key" => op'[p].pkg.db.users
    PROVE  HasUsers'
<1>1. \A g \in Packages' : g.db.users
  BY DEF HasUsers
<1>2. ASSUME NEW q \in Procs
      PROVE  /\ op'[q].kind \notin {"none", "apply"} => db'.users
             /\ op'[q].pc \in {"complete", "write_key", "load_key"} => db'.users
             /\ op'[q].pc = "read_key" => op'[q].pkg.db.users
  <2>1. CASE q = p
    BY <2>1
  <2>2. CASE q # p
    BY <2>2 DEF HasUsers, Moved
  <2> QED BY <2>1, <2>2
<1> QED BY <1>1, <1>2 DEF HasUsers

(* Keys and secrets stay, and p neither ends a restore nor gets half way   *)
(* through anything.                                                       *)
LEMMA PairingQuiet ==
    ASSUME Pairing, Typed, NEW p \in Procs, Moved(p), UNCHANGED <<keyFile, keystore, torn>>,
           db'.secret = db.secret,
           \A g \in Packages' : g \in Packages \/ (~torn => Paired(g.key, g.db)),
           op[p].pc \notin {"write_key", "load_key"},
           op'[p].pc \notin {"write_key", "load_key", "read_key", "store_secret"}
    PROVE  Pairing'
<1> SUFFICES ASSUME ~torn' PROVE Pairing'
  BY DEF Pairing
<1>0. ~torn
  OBVIOUS
<1>1. \A q \in Procs : /\ MidRestore(q)' <=> MidRestore(q)
                       /\ MidCreate(q)' => MidCreate(q) /\ q # p
                       /\ MidSave(q)' => MidSave(q) /\ q # p
                       /\ MidRestore(q) => q # p
  BY DEF MidRestore, MidCreate, MidSave, Moved
<1>2. \A k : Paired(k, db') <=> Paired(k, db)
  BY DEF Paired
<1>3. \A g \in Packages' : Paired(g.key, g.db)
  BY <1>0 DEF Pairing
<1>4. Calm' => keyFile' = keystore' /\ Paired(keystore', db')
  BY <1>0, <1>1, <1>2 DEF Pairing, Calm
<1>5. ASSUME NEW q \in Procs, MidRestore(q)'
      PROVE  /\ Paired(op'[q].pkg.key, db')
             /\ op'[q].pc = "load_key" => keyFile' = op'[q].pkg.key
             /\ Alone(q)'
  <2>1. MidRestore(q) /\ q # p /\ op'[q] = op[q]
    BY <1>1, <1>5 DEF Moved
  <2> QED BY <1>0, <1>1, <1>2, <2>1 DEF Pairing, Alone
<1>6. \A q \in Procs : MidCreate(q)' => Paired(keyFile', op'[q].pkg.db)
  BY <1>0, <1>1 DEF Pairing, Moved
<1>7. \A q \in Procs : MidSave(q)' => op'[q].enc.key = keystore'
  BY <1>0, <1>1 DEF Pairing, Moved
<1> QED BY <1>3, <1>4, <1>5, <1>6, <1>7 DEF Pairing, Paired

(* A step that takes rows only from known places and Y makes no other rows. *)
LEMMA RowsStep ==
    ASSUME NEW p \in Procs, Moved(p), NEW X, NEW Y, Packages' \subseteq Packages \union X,
           \A g \in X : g.db.rows \subseteq RowsAnywhere \union Y,
           db'.rows \subseteq RowsAnywhere \union Y,
           op'[p].pkg.db.rows \subseteq RowsAnywhere \union Y,
           op'[p].todo \subseteq RowsAnywhere \union Y
    PROVE  RowsAnywhere' \subseteq RowsAnywhere \union Y
<1> SUFFICES ASSUME NEW r \in RowsAnywhere' PROVE r \in RowsAnywhere \union Y
  OBVIOUS
<1>0. r \in RowType
  BY DEF RowsAnywhere
<1>1. \/ r \in db'.rows
      \/ \E g \in Packages' : r \in g.db.rows
      \/ \E q \in Procs : r \in op'[q].pkg.db.rows \union op'[q].todo
  <2>1. \/ r \in db'.rows
        \/ \E g \in Packages' : r \in g.db.rows
        \/ \E q \in Procs : r \in op'[q].pkg.db.rows \/ r \in op'[q].todo
    BY DEF RowsAnywhere
  <2> QED BY <2>1
<1>2. CASE r \in db'.rows
  BY <1>2
<1>3. CASE \E g \in Packages' : r \in g.db.rows
  BY <1>0, <1>3 DEF RowsAnywhere
<1>4. CASE \E q \in Procs : r \in op'[q].pkg.db.rows \union op'[q].todo
  <2>1. PICK q \in Procs : r \in op'[q].pkg.db.rows \union op'[q].todo
    BY <1>4
  <2>2. CASE q = p
    BY <2>1, <2>2
  <2>3. CASE q # p
    BY <1>0, <2>1, <2>3 DEF Moved, RowsAnywhere
  <2> QED BY <2>2, <2>3
<1> QED BY <1>1, <1>2, <1>3, <1>4

(* The same for a step that completes one package. *)
LEMMA RowsPacked ==
    ASSUME NEW p \in Procs, Moved(p), NEW g, Packages' \subseteq Packages \union {g},
           g.db.rows \subseteq RowsAnywhere,
           db'.rows \subseteq RowsAnywhere, op'[p].pkg.db.rows \subseteq RowsAnywhere,
           op'[p].todo \subseteq RowsAnywhere
    PROVE  RowsAnywhere' \subseteq RowsAnywhere
<1> DEFINE X == {g}
           E == {}
<1>1. /\ Packages' \subseteq Packages \union X /\ \A h \in X : h.db.rows \subseteq RowsAnywhere \union E
      /\ db'.rows \subseteq RowsAnywhere \union E /\ op'[p].pkg.db.rows \subseteq RowsAnywhere \union E
      /\ op'[p].todo \subseteq RowsAnywhere \union E
  OBVIOUS
<1>2. RowsAnywhere \union E = RowsAnywhere
  OBVIOUS
<1> HIDE DEF X, E
<1>3. RowsAnywhere' \subseteq RowsAnywhere \union E
  BY <1>1, RowsStep
<1> QED BY <1>2, <1>3

(* The same for a step that completes none. *)
LEMMA RowsKept ==
    ASSUME NEW p \in Procs, Moved(p), Packages' \subseteq Packages,
           db'.rows \subseteq RowsAnywhere, op'[p].pkg.db.rows \subseteq RowsAnywhere,
           op'[p].todo \subseteq RowsAnywhere
    PROVE  RowsAnywhere' \subseteq RowsAnywhere
<1> DEFINE E == {}
<1>1. /\ Packages' \subseteq Packages \union E /\ \A g \in E : g.db.rows \subseteq RowsAnywhere \union E
      /\ db'.rows \subseteq RowsAnywhere \union E /\ op'[p].pkg.db.rows \subseteq RowsAnywhere \union E
      /\ op'[p].todo \subseteq RowsAnywhere \union E
  OBVIOUS
<1>2. RowsAnywhere \union E = RowsAnywhere
  OBVIOUS
<1> HIDE DEF E
<1>3. RowsAnywhere' \subseteq RowsAnywhere \union E
  BY <1>1, RowsStep
<1> QED BY <1>2, <1>3

(* Every package has its type. *)
LEMMA PackagesTyped == ASSUME Typed PROVE \A g \in Packages : g \in PackageType
<1>1. held \subseteq PackageType /\ Foreign \subseteq PackageType
  BY BackupAssumption DEF Typed, DataOK
<1>2. Stored \subseteq PackageType
  BY DEF Typed, DataOK, Stored
<1>3. Carried \subseteq PackageType
  BY DEF Carried, Typed, ProcsOK, Shape
<1> QED BY <1>1, <1>2, <1>3 DEF Packages

(* The rows of the database, of a process and of a package are among all rows. *)
LEMMA RowsIn ==
    ASSUME Typed, NEW p \in Procs
    PROVE  /\ db.rows \subseteq RowsAnywhere /\ op[p].pkg.db.rows \subseteq RowsAnywhere
           /\ op[p].todo \subseteq RowsAnywhere
           /\ \A g \in Packages : g.db.rows \subseteq RowsAnywhere
<1>1. db.rows \subseteq RowType /\ op[p].pkg.db.rows \subseteq RowType /\ op[p].todo \subseteq RowType
  BY ProcFacts DEF DataOK, DBType, AnyPackage
<1>2. \A g \in Packages : g.db.rows \subseteq RowType
  BY PackagesTyped DEF PackageType, DBType
<1> QED BY <1>1, <1>2 DEF RowsAnywhere

(* Neither the table nor the files change. *)
LEMMA ArchivesQuiet ==
    ASSUME Archives, NEW p \in Procs, Moved(p), UNCHANGED <<files, ids, lastName, fresh>>, db'.rows = db.rows,
           RowsAnywhere' \subseteq RowsAnywhere,
           op'[p].todo \subseteq db.rows \union op[p].todo,
           ~(op'[p].kind = "run" /\ op'[p].pc \in {"local", "ftp"}),
           op'[p].pc \notin {"prune_local", "prune_ftp", "delete_row"}
    PROVE  Archives'
<1>1. RowsOK'
  <2>1. \A r \in RowsAnywhere' : r.name <= lastName'
    BY DEF Archives, RowsOK
  <2>2. \A q \in Procs : \A r \in op'[q].todo : r.id <= ids'
    BY DEF Archives, RowsOK, Moved
  <2> QED BY <2>1, <2>2 DEF Archives, RowsOK
<1>2. NameNew'
  BY DEF Archives, NameNew, Moved
<1>3. Newest'
  <2> SUFFICES ASSUME NEW s \in Storages, fresh'[s] # NoArchive
               PROVE  /\ fresh'[s] \in db'.rows /\ fresh'[s].store = s /\ files'[s][fresh'[s].name] # NoPkg
                      /\ \A r \in db'.rows : Apart(fresh'[s], r) /\ (r.store = s => r.id <= fresh'[s].id)
                      /\ \A q \in Procs : \A r \in op'[q].todo : Apart(fresh'[s], r)
    BY DEF Newest, Apart
  <2>1. /\ fresh[s] \in db.rows /\ fresh[s].store = s /\ files[s][fresh[s].name] # NoPkg
        /\ \A r \in db.rows : Apart(fresh[s], r) /\ (r.store = s => r.id <= fresh[s].id)
        /\ \A q \in Procs : \A r \in op[q].todo : Apart(fresh[s], r)
    BY DEF Archives, Newest
  <2>2. \A q \in Procs : \A r \in op'[q].todo : Apart(fresh'[s], r)
    BY <2>1 DEF Moved
  <2> QED BY <2>1, <2>2
<1>4. Spared'
  <2>1. \A s \in Storages : Pruning(s) \in {"prune_local", "prune_ftp"}
    BY Stages
  <2> QED BY <2>1 DEF Archives, Spared, Moved, Pruning
<1> QED BY <1>1, <1>2, <1>3, <1>4 DEF Archives

-----------------------------------------------------------------------------
(* The steps *)

(* What p may have after a quiet step. *)
QuietProc(p) ==
    /\ Moved(p)
    /\ Whole(op'[p]) => op'[p].pkg \in Packages
    /\ op'[p].pkg.db.rows \subseteq RowsAnywhere
    /\ op'[p].todo \subseteq db.rows \union op[p].todo
    /\ ~(op'[p].kind = "run" /\ op'[p].pc \in {"local", "ftp"})
    /\ op'[p].pc \notin {"write_key", "load_key", "read_key", "store_secret",
                         "prune_local", "prune_ftp", "delete_row"}
    /\ op[p].pc \notin {"write_key", "load_key"}
    /\ op'[p].kind = "run" => op[p].kind = "run" \/ \A q \in Procs : op[q].kind # "run"
    /\ op'[p].kind \notin {"none", "apply"} \/ op'[p].pc = "complete" => db'.users

(* What it may do to the database. *)
QuietData ==
    /\ UNCHANGED <<keyFile, keystore, files, held, ids, lastName, fresh, torn>>
    /\ db'.secret = db.secret /\ db'.rows = db.rows
    /\ db.users => db'.users
    /\ db'.done => db'.users
    /\ db'.sched.enabled => db'.users

(* A step that changes nothing the invariant speaks of preserves it. *)
LEMMA QuietStep ==
    ASSUME BInv, Typed', NEW p \in Procs, QuietProc(p), QuietData
    PROVE  BInv'
<1>0. Typed /\ OneRun /\ HasUsers /\ Pairing /\ Archives /\ Moved(p)
  BY DEF BInv, QuietProc
<1>1. Packages' \subseteq Packages
  <2>1. UNCHANGED <<held, files>> /\ (Whole(op'[p]) => op'[p].pkg \in Packages)
    BY DEF QuietProc, QuietData
  <2> QED BY <1>0, <2>1, PackagesKept
<1>2. OneRun'
  BY <1>0, OneRunStep DEF QuietProc
<1>3. HasUsers'
  <2>1. \A g \in Packages' : g \in Packages \/ g.db.users
    BY <1>1
  <2>2. op'[p].pc \notin {"write_key", "load_key", "read_key"}
    BY DEF QuietProc
  <2> QED BY <1>0, <2>1, <2>2, UsersStep DEF QuietProc, QuietData
<1>4. Pairing'
  <2>1. \A g \in Packages' : g \in Packages \/ (~torn => Paired(g.key, g.db))
    BY <1>1
  <2> QED BY <1>0, <2>1, PairingQuiet DEF QuietProc, QuietData
<1>5. RowsAnywhere' \subseteq RowsAnywhere
  <2>1. /\ db'.rows \subseteq RowsAnywhere /\ op'[p].pkg.db.rows \subseteq RowsAnywhere
        /\ op'[p].todo \subseteq RowsAnywhere
    BY <1>0, RowsIn DEF QuietProc, QuietData
  <2> QED BY <1>0, <1>1, <2>1, RowsKept
<1>6. Archives'
  BY <1>0, <1>5, ArchivesQuiet DEF QuietProc, QuietData
<1> QED BY <1>2, <1>3, <1>4, <1>6 DEF BInv

(* What an idle process shows. *)
LEMMA NoPCs ==
    ASSUME NEW p \in Procs, op[p] = Idle
    PROVE  op[p].pc = "idle" /\ op[p].kind = "none" /\ op[p].todo = {}
BY IdleOK

(* The process ends, or was never there. *)
LEMMA IdleQuiet ==
    ASSUME NEW p \in Procs, Moved(p), op'[p] = Idle, op[p].pc \notin {"write_key", "load_key"}
    PROVE  QuietProc(p)
<1>1. ~Whole(Idle)
  BY IdleOK DEF Whole, RestorePCs
<1> QED BY <1>1, IdleOK, DefaultsOK DEF QuietProc

(* Leaving the data alone is quiet. *)
LEMMA UnchangedQuiet ==
    ASSUME HasUsers, UNCHANGED <<db, keyFile, keystore, files, held, ids, lastName, fresh, torn>>
    PROVE  QuietData
BY DEF HasUsers, QuietData

(* The next lemmas preserve the invariant, action by action. The start of a request does. *)
LEMMA StartKeeps ==
    ASSUME BInv, NEW p \in Procs, db.users, BackupStart(p)
    PROVE  BInv'
<1>0. Typed /\ HasUsers
  BY DEF BInv
<1> SUFFICES Typed' /\ QuietProc(p) /\ QuietData
  BY QuietStep
<1>1. ASSUME Moved(p), op[p] = Idle, UNCHANGED dataVars, op'[p].kind \in {"create", "delete", "save"},
             op'[p].pc \in {"vacuum", "remove", "pass"},
             op'[p].pkg.db = EmptyDB, op'[p].todo \subseteq db.rows
      PROVE  QuietProc(p) /\ QuietData
  <2>1. ~Whole(op'[p])
    BY <1>1 DEF Whole, RestorePCs
  <2> QED BY <1>0, <1>1, <2>1, NoPCs, DefaultsOK, UnchangedQuiet DEF QuietProc, dataVars
<1>2. ASSUME Moved(p), op[p] = Idle, UNCHANGED dataVars, op'[p].kind = "restore",
             op'[p].pc = "restore_db", op'[p].pkg \in Packages, op'[p].todo = {}
      PROVE  QuietProc(p) /\ QuietData
  <2>1. op'[p].pkg.db.rows \subseteq RowsAnywhere
    BY <1>0, <1>2, RowsIn
  <2> QED BY <1>0, <1>2, <2>1, NoPCs, UnchangedQuiet DEF QuietProc, dataVars
<1>3. CASE StartCreate(p)
  BY <1>0, <1>1, <1>3, CreateTyped
<1>4. CASE StartDelete(p)
  BY <1>0, <1>1, <1>4, DeleteTyped
<1>5. CASE StartRestore(p)
  BY <1>0, <1>2, <1>5, RestoreTyped DEF Packages
<1>6. CASE StartRestoreArchive(p)
  BY <1>0, <1>2, <1>6, RestoreArchiveTyped DEF Packages, Stored
<1>7. CASE StartSave(p)
  BY <1>0, <1>1, <1>7, SaveTyped
<1> QED BY <1>3, <1>4, <1>5, <1>6, <1>7 DEF BackupStart

(* The start of a run: the mutex leaves it the only one. *)
LEMMA RunKeeps ==
    ASSUME BInv, NEW p \in Procs, StartRun(p)
    PROVE  BInv'
<1>0. Typed /\ HasUsers
  BY DEF BInv
<1>1. /\ Typed' /\ Moved(p) /\ op'[p].kind = "run" /\ op'[p].pc = "vacuum"
      /\ op'[p].pkg.db = EmptyDB /\ op'[p].todo = {} /\ op[p] = Idle
      /\ UNCHANGED dataVars
  BY <1>0, RunTyped
<1>2. ~Whole(op'[p])
  BY <1>1 DEF Whole, RestorePCs
<1>3. db.users /\ \A q \in Procs : op[q].kind # "run"
  <2>1. db.sched \in [enabled: BOOLEAN, interval: Int, keep: Int, local: BOOLEAN, ftp: BOOLEAN]
    BY <1>0 DEF Typed, DataOK, DBType, ScheduleType
  <2>2. normalizeBackupScheduleSettings(db.sched).enabled = db.sched.enabled
    BY <2>1, NormalOK
  <2> QED BY <1>0, <2>2 DEF StartRun, HasUsers
<1>4. QuietData
  BY <1>0, <1>1, UnchangedQuiet DEF dataVars
<1>5. QuietProc(p)
  BY <1>0, <1>1, <1>2, <1>3, <1>4, NoPCs, DefaultsOK DEF QuietProc, QuietData
<1> QED BY <1>1, <1>4, <1>5, QuietStep

(* The snapshot: what it takes is torn only if that is recorded. *)
LEMMA VacuumKeeps ==
    ASSUME BInv, NEW p \in Procs, VacuumInto(p)
    PROVE  BInv'
<1>0. Typed /\ OneRun /\ HasUsers /\ Pairing /\ Archives
  BY DEF BInv
<1>1. /\ Typed' /\ Moved(p) /\ op[p].pc = "vacuum" /\ op[p].kind \in {"create", "run"}
      /\ UNCHANGED <<db, keyFile, keystore, files, held, ids, lastName, fresh>>
  BY <1>0, VacuumTyped DEF VacuumInto
<1>2. CASE op'[p] = Idle /\ UNCHANGED torn
  BY <1>0, <1>1, <1>2, IdleQuiet, UnchangedQuiet, QuietStep
<1>3. CASE /\ op'[p].pc = "read_key" /\ op'[p].kind = op[p].kind /\ op'[p].pkg.db = db
           /\ op'[p].todo = op[p].todo
           /\ torn' = (torn \/ \E q \in Procs : MidRestore(q))
  <2>1. ~Whole(op'[p])
    BY <1>3 DEF Whole, RestorePCs
  <2>2. Packages' \subseteq Packages
    BY <1>0, <1>1, <2>1, PackagesKept
  <2>3. OneRun'
    BY <1>0, <1>1, <1>3, OneRunStep
  <2>4. HasUsers'
    <3>2. \A g \in Packages' : g \in Packages \/ g.db.users
      BY <2>2
    <3>3. db.users
      BY <1>0, <1>1 DEF HasUsers
    <3> QED BY <1>0, <1>1, <1>3, <3>2, <3>3, UsersStep
  <2>5. Pairing'
    <3> SUFFICES ASSUME ~torn' PROVE Pairing'
      BY DEF Pairing
    <3>1. ~torn /\ Calm
      BY <1>3 DEF Calm
    <3>2. \A q \in Procs : ~MidRestore(q)'
      BY <1>1, <1>3, <3>1 DEF Calm, MidRestore, Moved
    <3>3. keyFile = keystore /\ Paired(keystore, db) /\ (\A g \in Packages : Paired(g.key, g.db))
      BY <1>0, <3>1 DEF Pairing
    <3>4. \A q \in Procs : MidCreate(q)' => Paired(keyFile', op'[q].pkg.db)
      BY <1>0, <1>1, <1>3, <3>1, <3>3 DEF Pairing, MidCreate, Moved
    <3>5. \A q \in Procs : MidSave(q)' => op'[q].enc.key = keystore'
      BY <1>0, <1>1, <1>3, <3>1 DEF Pairing, MidSave, Moved
    <3>6. \A g \in Packages' : Paired(g.key, g.db)
      BY <2>2, <3>3
    <3>7. keyFile' = keystore' /\ Paired(keystore', db')
      BY <1>1, <3>3
    <3> QED BY <3>2, <3>4, <3>5, <3>6, <3>7 DEF Pairing, Paired
  <2>6. Archives'
    <3>1. RowsAnywhere' \subseteq RowsAnywhere
      BY <1>0, <1>1, <1>3, <2>2, RowsIn, RowsKept
    <3> QED BY <1>0, <1>1, <1>3, <3>1, ArchivesQuiet
  <2> QED BY <1>1, <2>3, <2>4, <2>5, <2>6 DEF BInv
<1> QED BY <1>0, <1>2, <1>3, VacuumTyped

(* The key file: the package pairs its database with that key. *)
LEMMA ReadKeyKeeps ==
    ASSUME BInv, NEW p \in Procs, ReadKey(p)
    PROVE  BInv'
<1> DEFINE g == [op[p].pkg EXCEPT !.key = keyFile]
<1>0. Typed /\ OneRun /\ HasUsers /\ Pairing /\ Archives
  BY DEF BInv
<1>1. /\ Typed' /\ Moved(p) /\ op[p].pc = "read_key"
      /\ UNCHANGED <<db, keyFile, keystore, files, now, ids, fresh, torn>>
  BY <1>0, ReadKeyTyped
<1>2. g.db = op[p].pkg.db /\ g.key = keyFile
  BY <1>0, ProcFacts DEF AnyPackage
<1>3. CASE op'[p] = Idle /\ UNCHANGED <<held, lastName>>
  BY <1>0, <1>1, <1>3, IdleQuiet, UnchangedQuiet, QuietStep
<1> HIDE DEF g
<1>4. /\ g.db.users /\ g.db.rows \subseteq RowsAnywhere
      /\ ~torn => Paired(g.key, g.db)
  <2>1. ~torn => Paired(keyFile, op[p].pkg.db)
    BY <1>0, <1>1 DEF Pairing, MidCreate
  <2>2. op[p].pkg.db.users
    BY <1>0, <1>1 DEF HasUsers
  <2> QED BY <1>0, <1>2, <2>1, <2>2, RowsIn
<1>5. ASSUME Packages' \subseteq Packages \union {g}, op'[p].kind \in {"none", op[p].kind},
             op'[p].pc \in {"idle", "local"}
      PROVE  OneRun' /\ HasUsers' /\ Pairing'
  <2>1. OneRun'
    BY <1>0, <1>1, <1>5, OneRunStep
  <2>2. HasUsers'
    <3>1. \A h \in Packages' : h \in Packages \/ h.db.users
      BY <1>4, <1>5
    <3>2. op'[p].kind \notin {"none", "apply"} => db'.users
      BY <1>0, <1>1, <1>5 DEF HasUsers
    <3> QED BY <1>0, <1>1, <1>5, <3>1, <3>2, UsersStep DEF HasUsers
  <2>3. Pairing'
    <3>1. \A h \in Packages' : h \in Packages \/ (~torn => Paired(h.key, h.db))
      BY <1>4, <1>5
    <3> QED BY <1>0, <1>1, <1>5, <3>1, PairingQuiet
  <2> QED BY <2>1, <2>2, <2>3
<1>6. CASE op'[p] = Idle /\ UNCHANGED lastName /\ held' = held \union {g}
  <2>1. ~Whole(op'[p]) /\ op'[p].kind = "none" /\ op'[p].pc = "idle" /\ op'[p].todo = {} /\ op'[p].pkg.db.rows = {}
    BY <1>6, IdleOK, DefaultsOK DEF Whole, RestorePCs
  <2>2. Packages' \subseteq Packages \union {g}
    BY <1>0, <1>1, <1>6, <2>1, FilesArePackages, PackagesStep
  <2>3. RowsAnywhere' \subseteq RowsAnywhere
    <3>1. /\ db'.rows \subseteq RowsAnywhere /\ op'[p].pkg.db.rows \subseteq RowsAnywhere
          /\ op'[p].todo \subseteq RowsAnywhere
      BY <1>0, <1>1, <1>4, <2>1, RowsIn
    <3> QED BY <1>1, <1>4, <2>2, <3>1, RowsPacked
  <2>4. Archives'
    BY <1>0, <1>1, <1>6, <2>1, <2>3, ArchivesQuiet
  <2> QED BY <1>1, <1>5, <2>1, <2>2, <2>4 DEF BInv
<1>7. CASE /\ op[p].kind = "run" /\ op'[p].kind = "run" /\ op'[p].pc = "local" /\ UNCHANGED held
           /\ op'[p].pkg = g /\ op'[p].todo = op[p].todo
           /\ op'[p].name = lastName' /\ lastName' \in 1..MaxNames
           /\ op'[p].again = (lastName' = lastName)
           /\ lastName' = lastName \/ lastName' = lastName + 1
  <2>2. Packages' \subseteq Packages \union {g}
    BY <1>0, <1>1, <1>7, FilesArePackages, PackagesStep
  <2>3. RowsAnywhere' \subseteq RowsAnywhere
    <3>1. /\ db'.rows \subseteq RowsAnywhere /\ op'[p].pkg.db.rows \subseteq RowsAnywhere
          /\ op'[p].todo \subseteq RowsAnywhere
      BY <1>0, <1>1, <1>4, <1>7, RowsIn
    <3> QED BY <1>1, <1>4, <2>2, <3>1, RowsPacked
  <2>4. lastName \in Nat /\ (\A r \in RowsAnywhere' : r.name \in Nat /\ r.name <= lastName)
    <3>1. lastName \in Nat
      BY <1>0, BackupAssumption DEF Typed, DataOK, Names
    <3>2. \A r \in RowsAnywhere' : r \in RowType
      BY DEF RowsAnywhere
    <3> QED BY <1>0, <2>3, <3>1, <3>2, BackupAssumption DEF Archives, RowsOK, RowType, Names
  <2>5. \A q \in Procs : op'[q].todo = op[q].todo
    BY <1>1, <1>7 DEF Moved
  <2>6. RowsOK'
    <3>1. \A r \in RowsAnywhere' : r.name <= lastName'
      BY <1>7, <2>4
    <3> QED BY <1>0, <1>1, <2>5, <3>1 DEF Archives, RowsOK
  <2>7. NameNew'
    <3> SUFFICES ASSUME NEW q \in Procs, op'[q].kind = "run", op'[q].pc \in {"local", "ftp"}
                 PROVE  /\ op'[q].name = lastName'
                        /\ ~op'[q].again => \A r \in RowsAnywhere' :
                              r.name = lastName' => op'[q].pc = "ftp" /\ r.store = "local"
      BY DEF NameNew
    <3>1. q = p
      BY <1>0, <1>1, <1>7 DEF OneRun, Moved
    <3>2. ~op'[q].again => lastName' = lastName + 1
      BY <1>7, <3>1
    <3> QED BY <1>7, <2>4, <3>1, <3>2
  <2>8. Newest'
    BY <1>0, <1>1, <2>5 DEF Archives, Newest, Apart
  <2>9. Spared'
    <3>1. \A s \in Storages : Pruning(s) # "local"
      BY Stages
    <3> QED BY <1>0, <1>1, <1>7, <3>1 DEF Archives, Spared, Moved, Pruning
  <2> QED BY <1>1, <1>5, <1>7, <2>2, <2>6, <2>7, <2>8, <2>9 DEF BInv, Archives
<1> QED BY <1>0, <1>3, <1>6, <1>7, ReadKeyTyped DEF g

(* Rows, names and identifiers are numbers. *)
LEMMA RowNumbers ==
    ASSUME Typed
    PROVE  /\ lastName \in Nat /\ ids \in Nat /\ NoArchive \notin RowType
           /\ \A r \in RowType : r.id \in Nat /\ r.id # 0 /\ r.name \in Nat /\ r.name \in Names /\ r.store \in Storages
           /\ db.rows \subseteq RowType /\ RowsAnywhere \subseteq RowType
           /\ \A p \in Procs : op[p].todo \subseteq RowType
           /\ \A s \in Storages : fresh[s] = NoArchive \/ fresh[s] \in RowType
<1>1. lastName \in Nat /\ ids \in Nat
  BY BackupAssumption DEF Typed, DataOK, Names
<1>2. \A r \in RowType : r.id \in Nat /\ r.id # 0 /\ r.name \in Nat /\ r.name \in Names /\ r.store \in Storages
  BY BackupAssumption DEF RowType, Names
<1>3. NoArchive \notin RowType
  BY <1>2 DEF NoArchive
<1>4. db.rows \subseteq RowType /\ \A s \in Storages : fresh[s] = NoArchive \/ fresh[s] \in RowType
  BY DEF Typed, DataOK, DBType
<1>5. RowsAnywhere \subseteq RowType
  BY DEF RowsAnywhere
<1>6. \A p \in Procs : op[p].todo \subseteq RowType
  BY DEF Typed, ProcsOK, OpType
<1> QED BY <1>1, <1>2, <1>3, <1>4, <1>5, <1>6

(* The new archive: its name and row number are above all others. *)
LEMMA StoreKeeps ==
    ASSUME BInv, NEW p \in Procs, NEW s \in Storages, StoreArchive(p, s)
    PROVE  BInv'
<1> DEFINE row == NewRow(p, s)
<1>0. Typed /\ OneRun /\ HasUsers /\ Pairing /\ Archives
  BY DEF BInv
<1>1. /\ Typed' /\ Moved(p) /\ op[p].kind = "run" /\ op[p].pc = s
      /\ Same(op'[p], op[p]) /\ op'[p].pc = IF s = "local" THEN "ftp" ELSE "list_local"
      /\ UNCHANGED <<keyFile, keystore, held, now, lastName, torn>>
      /\ db'.users = db.users /\ db'.done = db.done /\ db'.sched = db.sched /\ db'.secret = db.secret
  BY <1>0, StoreTyped
<1>2. \/ UNCHANGED <<db, files, ids, fresh>>
      \/ /\ files' = [files EXCEPT ![s][op[p].name] = op[p].pkg]
         /\ \/ /\ db'.rows = db.rows \union {row} /\ ids' = ids + 1
               /\ fresh' = [fresh EXCEPT ![s] = IF op[p].again THEN NoArchive ELSE row]
            \/ UNCHANGED <<db, ids>> /\ fresh' = IF op[p].again THEN [fresh EXCEPT ![s] = NoArchive] ELSE fresh
  BY <1>0, StoreTyped
<1>3. s \in {"local", "ftp"} /\ op'[p].pc \in {"ftp", "list_local"} /\ op'[p].kind = "run"
      /\ op'[p].pkg = op[p].pkg /\ op'[p].todo = op[p].todo /\ op'[p].name = op[p].name /\ op'[p].again = op[p].again
  BY <1>1 DEF Storages, Same
<1>4. Whole(op[p]) /\ op[p].pkg \in Packages /\ op[p].pkg \in PackageType /\ op[p].pkg # NoPkg
  <2>1. Whole(op[p])
    BY <1>1, <1>3 DEF Whole
  <2>2. op[p].pkg \in PackageType
    BY <1>0, <2>1, ProcFacts DEF Shape
  <2> QED BY <2>1, <2>2, DefaultsOK, CarriedIsPackage
<1>5. /\ \A t \in Storages, n \in Names : files'[t][n] = files[t][n] \/ files'[t][n] = op[p].pkg
      /\ files' # files => files'[s][op[p].name] = op[p].pkg
  <2>1. files \in [Storages -> [Names -> PackageType \union {NoPkg}]] /\ op[p].name \in Names
    BY <1>0, ProcFacts DEF DataOK
  <2> QED BY <1>2, <2>1
<1>6. Packages' \subseteq Packages
  <2> DEFINE E == {}
  <2>1. \A t \in Storages, n \in Names : files'[t][n] \in Packages \union {NoPkg}
    BY <1>0, <1>4, <1>5, FilesArePackages
  <2>2. Packages \union E = Packages /\ held' \subseteq held \union E /\ (Whole(op'[p]) => op'[p].pkg \in Packages \union E)
    BY <1>1, <1>3, <1>4
  <2> HIDE DEF E
  <2> QED BY <1>0, <1>1, <2>1, <2>2, PackagesStep
<1>7. OneRun'
  BY <1>0, <1>1, OneRunStep
<1>8. HasUsers'
  <2>1. \A g \in Packages' : g \in Packages \/ g.db.users
    BY <1>6
  <2>2. db.users
    BY <1>0, <1>1 DEF HasUsers
  <2> QED BY <1>0, <1>1, <1>3, <2>1, <2>2, UsersStep
<1>9. Pairing'
  <2>1. \A g \in Packages' : g \in Packages \/ (~torn => Paired(g.key, g.db))
    BY <1>6
  <2> QED BY <1>0, <1>1, <1>3, <2>1, PairingQuiet
<1>10. row.id = ids + 1 /\ row.store = s /\ row.name = op[p].name /\ op[p].name = lastName /\ row \in RowType
  <2>1. row \in RowType
    BY <1>0, ProcFacts DEF NewRow, RowType, DataOK
  <2>2. op[p].name = lastName
    BY <1>0, <1>1, <1>3 DEF Archives, NameNew
  <2> QED BY <2>1, <2>2 DEF NewRow
<1>11. \/ db'.rows = db.rows /\ ids' = ids
       \/ db'.rows = db.rows \union {row} /\ ids' = ids + 1
  BY <1>2
<1>12. /\ \A t \in Storages \ {s} : fresh'[t] = fresh[t]
       /\ \/ fresh'[s] = fresh[s] /\ db'.rows = db.rows
          \/ fresh'[s] = NoArchive
          \/ fresh'[s] = row /\ db'.rows = db.rows \union {row} /\ ~op[p].again /\ files'[s][lastName] = op[p].pkg
  <2>1. fresh \in [Storages -> RowType \union {NoArchive}]
    BY <1>0 DEF Typed, DataOK
  <2>2. files \in [Storages -> [Names -> PackageType \union {NoPkg}]] /\ op[p].name \in Names
    BY <1>0, ProcFacts DEF DataOK
  <2>3. files' = [files EXCEPT ![s][op[p].name] = op[p].pkg] => files'[s][lastName] = op[p].pkg
    BY <1>10, <2>2
  <2> QED BY <1>2, <2>1, <2>3
<1>13. RowsAnywhere' \subseteq RowsAnywhere \union {row} /\ (db'.rows = db.rows => RowsAnywhere' \subseteq RowsAnywhere)
  <2> DEFINE Y == {row}
             E == {}
  <2>1. /\ Packages' \subseteq Packages \union E /\ \A g \in E : g.db.rows \subseteq RowsAnywhere \union Y
        /\ db'.rows \subseteq RowsAnywhere \union Y /\ op'[p].pkg.db.rows \subseteq RowsAnywhere \union Y
        /\ op'[p].todo \subseteq RowsAnywhere \union Y
    BY <1>0, <1>3, <1>6, <1>11, RowsIn
  <2>2. db'.rows = db.rows => RowsAnywhere' \subseteq RowsAnywhere
    BY <1>0, <1>1, <1>3, <1>6, RowsIn, RowsKept
  <2> HIDE DEF E
  <2>3. Y = {row}
    OBVIOUS
  <2> HIDE DEF Y
  <2>4. RowsAnywhere' \subseteq RowsAnywhere \union Y
    BY <1>1, <2>1, RowsStep
  <2> QED BY <2>2, <2>3, <2>4
<1> HIDE DEF row
<1>14. \A q \in Procs : op'[q].todo = op[q].todo
  BY <1>1, <1>3 DEF Moved
<1>15. /\ ids \in Nat /\ lastName \in Nat /\ (\A r \in db.rows : r.id \in Nat /\ r.id <= ids /\ r # row)
       /\ \A q \in Procs : \A r \in op[q].todo : r.id \in Nat /\ r.id <= ids /\ r # row /\ r # NoArchive /\ r \in RowsAnywhere
  <2>1. ids \in Nat /\ lastName \in Nat /\ (\A r \in db.rows : r.id \in Nat /\ r.id <= ids)
    BY <1>0, RowNumbers DEF Archives, RowsOK
  <2>2. ASSUME NEW q \in Procs, NEW r \in op[q].todo PROVE r.id \in Nat /\ r.id <= ids /\ r # NoArchive /\ r \in RowsAnywhere
    BY <1>0, RowNumbers, RowsIn DEF Archives, RowsOK
  <2> QED BY <1>10, <2>1, <2>2
<1>16. RowsOK'
  <2>1. \A r \in RowsAnywhere' : r.name <= lastName'
    <3>1. \A r \in RowsAnywhere : r.name <= lastName
      BY <1>0 DEF Archives, RowsOK
    <3> QED BY <1>1, <1>10, <1>13, <1>15, <3>1
  <2>2. \A r \in db'.rows : r.id <= ids'
    BY <1>10, <1>11, <1>15
  <2>3. \A q \in Procs : \A r \in op'[q].todo : r.id <= ids'
    BY <1>11, <1>14, <1>15
  <2> QED BY <2>1, <2>2, <2>3 DEF RowsOK
<1>17. ~op[p].again => \A r \in RowsAnywhere : r.name = lastName => s = "ftp" /\ r.store = "local"
  BY <1>0, <1>1, <1>3 DEF Archives, NameNew
<1>18. NameNew'
  <2> SUFFICES ASSUME NEW q \in Procs, op'[q].kind = "run", op'[q].pc \in {"local", "ftp"}
               PROVE  /\ op'[q].name = lastName'
                      /\ ~op'[q].again => \A r \in RowsAnywhere' :
                            r.name = lastName' => op'[q].pc = "ftp" /\ r.store = "local"
    BY DEF NameNew
  <2>1. q = p
    BY <1>0, <1>1 DEF OneRun, Moved
  <2>2. s = "local" /\ op'[p].pc = "ftp"
    BY <1>1, <1>3, <2>1
  <2> QED BY <1>1, <1>3, <1>10, <1>13, <1>17, <2>1, <2>2
<1>19. Newest'
  <2> SUFFICES ASSUME NEW t \in Storages, fresh'[t] # NoArchive
               PROVE  /\ fresh'[t] \in db'.rows /\ fresh'[t].store = t /\ files'[t][fresh'[t].name] # NoPkg
                      /\ \A r \in db'.rows : Apart(fresh'[t], r) /\ (r.store = t => r.id <= fresh'[t].id)
                      /\ \A q \in Procs : \A r \in op'[q].todo : Apart(fresh'[t], r)
    BY DEF Newest, Apart
  <2>1. CASE fresh'[t] = fresh[t] /\ (t # s \/ db'.rows = db.rows)
    <3>1. /\ fresh[t] \in db.rows /\ fresh[t].store = t /\ files[t][fresh[t].name] # NoPkg
          /\ \A r \in db.rows : Apart(fresh[t], r) /\ (r.store = t => r.id <= fresh[t].id)
          /\ \A q \in Procs : \A r \in op[q].todo : Apart(fresh[t], r)
      BY <1>0, <2>1 DEF Archives, Newest
    <3>2. fresh[t].name \in Names
      BY <1>0, <2>1, RowNumbers
    <3>3. files'[t][fresh[t].name] # NoPkg
      BY <1>4, <1>5, <3>1, <3>2
    <3>4. ASSUME row \in db'.rows, t # s PROVE Apart(fresh[t], row) /\ row.store # t
      BY <1>10, <1>15, <3>1, <3>4 DEF Apart
    <3> QED BY <1>11, <1>14, <2>1, <3>1, <3>3, <3>4
  <2>2. CASE t = s /\ fresh'[t] = row /\ db'.rows = db.rows \union {row} /\ ~op[p].again /\ files'[s][lastName] = op[p].pkg
    <3>1. \A r \in RowsAnywhere : ~(r.store = s /\ r.name = lastName)
      BY <1>17, <2>2, <1>3
    <3>2. \A r \in db.rows : Apart(row, r) /\ r.id <= row.id
      BY <1>0, <1>10, <1>15, <3>1, RowsIn DEF Apart
    <3>3. \A q \in Procs : \A r \in op[q].todo : Apart(row, r)
      BY <1>10, <1>15, <3>1 DEF Apart
    <3>4. Apart(row, row) /\ row.id <= row.id
      BY <1>10, <1>15 DEF Apart
    <3> QED BY <1>4, <1>10, <1>14, <2>2, <3>2, <3>3, <3>4
  <2> QED BY <1>12, <2>1, <2>2
<1>20. Spared'
  <2>1. ASSUME NEW q \in Procs, NEW r \in op[q].todo, NEW t \in Storages, r # fresh[t] PROVE r # fresh'[t]
    BY <1>12, <1>15, <2>1
  <2>2. \A t \in Storages : Pruning(t) \notin {"ftp", "list_local"}
    BY Stages
  <2>3. \A q \in Procs : \A r \in op[q].todo : r.store \in Storages
    BY <1>0, RowNumbers
  <2>4. \A q \in Procs : \A t \in Storages : op'[q].pc = Pruning(t) => op[q].pc = Pruning(t)
    BY <1>1, <1>3, <2>2 DEF Moved
  <2>5. \A q \in Procs : op'[q].pc = "delete_row" => op[q].pc = "delete_row"
    BY <1>1, <1>3 DEF Moved
  <2>6. \A q \in Procs : \A t \in Storages : op'[q].pc = Pruning(t) => \A r \in op'[q].todo : r.store = t /\ r # fresh'[t]
    BY <1>0, <1>14, <2>1, <2>4 DEF Archives, Spared
  <2>7. \A q \in Procs : op'[q].pc = "delete_row" => \A r \in op'[q].todo : r # fresh'[r.store]
    BY <1>0, <1>14, <2>1, <2>3, <2>5 DEF Archives, Spared
  <2> QED BY <2>6, <2>7 DEF Spared, Pruning
<1> QED BY <1>1, <1>7, <1>8, <1>9, <1>16, <1>18, <1>19, <1>20 DEF BInv, Archives

(* Rows and files only go, never those of the newest archives. *)
LEMMA ArchivesShrink ==
    ASSUME Archives, Typed, Typed', NEW p \in Procs, Moved(p), UNCHANGED <<ids, lastName>>,
           db'.rows \subseteq db.rows, RowsAnywhere' \subseteq RowsAnywhere,
           op'[p].todo \subseteq db.rows \union op[p].todo,
           ~(op'[p].kind = "run" /\ op'[p].pc \in {"local", "ftp"}),
           \A t \in Storages : fresh'[t] # NoArchive =>
               fresh'[t] = fresh[t] /\ fresh[t] \in db'.rows /\ files'[t][fresh[t].name] # NoPkg,
           \A s \in Storages : op'[p].pc = Pruning(s) => \A r \in op'[p].todo : r.store = s /\ r # fresh'[s],
           op'[p].pc = "delete_row" => \A r \in op'[p].todo : r # fresh'[r.store]
    PROVE  Archives'
<1>1. RowsOK'
  <2>1. \A r \in RowsAnywhere' : r.name <= lastName'
    BY DEF Archives, RowsOK
  <2>2. \A q \in Procs : \A r \in op'[q].todo : r.id <= ids'
    BY DEF Archives, RowsOK, Moved
  <2>3. \A r \in db'.rows : r.id <= ids'
    BY DEF Archives, RowsOK
  <2> QED BY <2>1, <2>2, <2>3 DEF RowsOK
<1>2. NameNew'
  BY DEF Archives, NameNew, Moved
<1>3. Newest'
  <2> SUFFICES ASSUME NEW s \in Storages, fresh'[s] # NoArchive
               PROVE  /\ fresh'[s] \in db'.rows /\ fresh'[s].store = s /\ files'[s][fresh'[s].name] # NoPkg
                      /\ \A r \in db'.rows : Apart(fresh'[s], r) /\ (r.store = s => r.id <= fresh'[s].id)
                      /\ \A q \in Procs : \A r \in op'[q].todo : Apart(fresh'[s], r)
    BY DEF Newest, Apart
  <2>1. /\ fresh'[s] = fresh[s]
        /\ fresh[s] \in db.rows /\ fresh[s].store = s
        /\ \A r \in db.rows : Apart(fresh[s], r) /\ (r.store = s => r.id <= fresh[s].id)
        /\ \A q \in Procs : \A r \in op[q].todo : Apart(fresh[s], r)
    BY DEF Archives, Newest
  <2>2. \A q \in Procs : \A r \in op'[q].todo : Apart(fresh'[s], r)
    BY <2>1 DEF Moved
  <2> QED BY <2>1, <2>2
<1>4. Spared'
  <2>1. \A q \in Procs : \A r \in op[q].todo : r # NoArchive /\ r.store \in Storages
    BY RowNumbers
  <2>2. ASSUME NEW q \in Procs, q # p
        PROVE  /\ \A s \in Storages : op'[q].pc = Pruning(s) => \A r \in op'[q].todo : r.store = s /\ r # fresh'[s]
               /\ op'[q].pc = "delete_row" => \A r \in op'[q].todo : r # fresh'[r.store]
    <3>1. op'[q] = op[q]
      BY <2>2 DEF Moved
    <3> QED BY <2>1, <3>1 DEF Archives, Spared
  <2> QED BY <2>2 DEF Spared, Pruning
<1> QED BY <1>1, <1>2, <1>3, <1>4 DEF Archives

(* The run keeps the newest: nothing is listed after it. *)
LEMMA NewestNotOldest ==
    ASSUME Typed, Newest, NEW s \in Storages, NEW keep \in Nat, keep >= 1, fresh[s] # NoArchive
    PROVE  fresh[s] \notin Oldest(s, keep)
<1> DEFINE later == {x \in RowsOf(s) : x.id >= fresh[s].id}
<1>1. later = {fresh[s]}
  <2>1. /\ fresh[s] \in db.rows /\ fresh[s].store = s
        /\ \A r \in db.rows : Apart(fresh[s], r) /\ (r.store = s => r.id <= fresh[s].id)
    BY DEF Newest
  <2>2. \A r \in db.rows : r.id \in Nat
    BY RowNumbers
  <2>3. \A r \in later : r = fresh[s]
    BY <2>1, <2>2 DEF RowsOf, Apart
  <2>4. fresh[s] \in later
    BY <2>1, <2>2 DEF RowsOf
  <2> QED BY <2>3, <2>4
<1>2. fresh[s] \in Oldest(s, keep) => Cardinality(later) > keep
  BY Zenon DEF Oldest
<1> HIDE DEF later
<1>3. Cardinality(later) = 1
  BY <1>1, FS_Singleton
<1> QED BY <1>2, <1>3

(* Retention keeps at least one archive, so never lists the newest. *)
LEMMA ListKeeps ==
    ASSUME BInv, NEW p \in Procs, NEW s \in Storages, ListRetention(p, s)
    PROVE  BInv'
<1>0. Typed /\ OneRun /\ HasUsers /\ Pairing /\ Archives
  BY DEF BInv
<1>1. /\ Typed' /\ Moved(p) /\ op[p].kind = "run" /\ op'[p].kind = "run" /\ op[p].pc = Listing(s)
      /\ UNCHANGED <<db, keyFile, keystore, files, held, ids, lastName, fresh, torn>> /\ op'[p].pkg = op[p].pkg
      /\ op'[p].pc \in {AfterPrune(s), Pruning(s)}
      /\ op'[p].todo \subseteq Oldest(s, op[p].sched.keep)
  BY <1>0, ListTyped DEF dataVars
<1>2. /\ op[p].pc \in {"list_local", "list_ftp"}
      /\ op'[p].pc \in {"list_local", "list_ftp", "prune_local", "prune_ftp", "finish"}
  BY <1>1, Stages
<1>3. ~Whole(op'[p])
  BY <1>2 DEF Whole, RestorePCs
<1>4. Packages' \subseteq Packages
  BY <1>0, <1>1, <1>3, PackagesKept
<1>5. OneRun'
  BY <1>0, <1>1, OneRunStep
<1>6. HasUsers'
  <2>1. \A g \in Packages' : g \in Packages \/ g.db.users
    BY <1>4
  <2>2. db.users
    BY <1>0, <1>1 DEF HasUsers
  <2> QED BY <1>0, <1>1, <1>2, <2>1, <2>2, UsersStep
<1>7. Pairing'
  <2>1. \A g \in Packages' : g \in Packages \/ (~torn => Paired(g.key, g.db))
    BY <1>4
  <2> QED BY <1>0, <1>1, <1>2, <2>1, PairingQuiet
<1>8. op'[p].todo \subseteq db.rows /\ \A r \in op'[p].todo : r.store = s
  BY <1>1 DEF Oldest, RowsOf
<1>9. RowsAnywhere' \subseteq RowsAnywhere
  BY <1>0, <1>1, <1>4, <1>8, RowsIn, RowsKept
<1>10. \A r \in op'[p].todo : r # fresh[s]
  <2>1. op[p].sched.keep \in Nat /\ op[p].sched.keep >= 1
    BY <1>0, <1>1, ProcFacts DEF Shape, ScheduleType
  <2>2. Newest
    BY <1>0 DEF Archives
  <2>3. \A r \in op'[p].todo : r # NoArchive
    BY <1>0, <1>8, RowNumbers
  <2> QED BY <1>0, <1>1, <2>1, <2>2, <2>3, NewestNotOldest
<1>11. Archives'
  <2>1. \A t \in Storages : fresh'[t] # NoArchive =>
            fresh'[t] = fresh[t] /\ fresh[t] \in db'.rows /\ files'[t][fresh[t].name] # NoPkg
    BY <1>0, <1>1 DEF Archives, Newest
  <2>2. \A t \in Storages : op'[p].pc = Pruning(t) => \A r \in op'[p].todo : r.store = t /\ r # fresh'[t]
    <3>1. \A t \in Storages : op'[p].pc = Pruning(t) => t = s
      BY <1>1, Stages
    <3> QED BY <1>1, <1>8, <1>10, <3>1
  <2> QED BY <1>0, <1>1, <1>2, <1>8, <1>9, <2>1, <2>2, ArchivesShrink
<1> QED BY <1>1, <1>5, <1>6, <1>7, <1>11 DEF BInv

(* One row's file, row or both are gone; the row is not the newest one. *)
LEMMA NewestSurvives ==
    ASSUME Typed, Newest, NEW r \in RowType, NEW t \in Storages, fresh[t] # NoArchive,
           Apart(fresh[t], r), r # fresh[t],
           files' = files \/ files' = [files EXCEPT ![r.store][r.name] = NoPkg],
           db' = db \/ db' = [db EXCEPT !.rows = {x \in @ : x.id # r.id}]
    PROVE  fresh[t] \in db'.rows /\ files'[t][fresh[t].name] # NoPkg
<1>1. fresh[t] \in db.rows /\ fresh[t].store = t /\ files[t][fresh[t].name] # NoPkg
  BY DEF Newest
<1>2. r.id # fresh[t].id /\ (r.store # t \/ r.name # fresh[t].name)
  BY <1>1 DEF Apart
<1>3. fresh[t].name \in Names
  BY RowNumbers
<1>4. \A x \in db.rows : x.id # r.id => x \in db'.rows
  BY RowGone DEF Typed
<1>5. r.store # t \/ r.name # fresh[t].name => files'[t][fresh[t].name] = files[t][fresh[t].name]
  BY <1>3, FileGone DEF Typed
<1> QED BY <1>1, <1>2, <1>4, <1>5

(* The parts of BInv that a step of p which only removes does not touch. *)
LEMMA ShrinkOthers ==
    ASSUME BInv, Typed', NEW p \in Procs, Moved(p), UNCHANGED <<keyFile, keystore, held, torn>>,
           \A s \in Storages, n \in Names : files'[s][n] = files[s][n] \/ files'[s][n] = NoPkg,
           db'.users = db.users, db'.done = db.done, db'.sched = db.sched, db'.secret = db.secret,
           db'.rows \subseteq db.rows, ~Whole(op'[p]), op'[p].kind \in {"none", op[p].kind},
           op'[p].pkg.db.rows \subseteq RowsAnywhere, op'[p].todo \subseteq RowsAnywhere,
           op[p].pc \notin {"write_key", "load_key"}, op[p].kind # "apply",
           op'[p].pc \notin {"write_key", "load_key", "read_key", "store_secret", "complete"}
    PROVE  OneRun' /\ HasUsers' /\ Pairing' /\ RowsAnywhere' \subseteq RowsAnywhere
<1>0. Typed /\ OneRun /\ HasUsers /\ Pairing
  BY DEF BInv
<1>1. Packages' \subseteq Packages
  BY <1>0, PackagesKept
<1>2. OneRun'
  BY <1>0, OneRunStep
<1>3. HasUsers'
  <2>1. \A g \in Packages' : g \in Packages \/ g.db.users
    BY <1>1
  <2>2. op'[p].kind \notin {"none", "apply"} => db'.users
    BY <1>0 DEF HasUsers
  <2> QED BY <1>0, <2>1, <2>2, UsersStep DEF HasUsers
<1>4. Pairing'
  <2>1. \A g \in Packages' : g \in Packages \/ (~torn => Paired(g.key, g.db))
    BY <1>1
  <2> QED BY <1>0, <2>1, PairingQuiet
<1>5. RowsAnywhere' \subseteq RowsAnywhere
  BY <1>0, <1>1, RowsIn, RowsKept
<1> QED BY <1>2, <1>3, <1>4, <1>5

(* Pruning removes what was listed. *)
LEMMA PruneKeeps ==
    ASSUME BInv, NEW p \in Procs, NEW s \in Storages, Prune(p, s)
    PROVE  BInv'
<1>0. Typed /\ OneRun /\ HasUsers /\ Pairing /\ Archives
  BY DEF BInv
<1>1. \A r \in op[p].todo : r.store = s /\ r # fresh[s]
  BY <1>0 DEF Archives, Spared, Prune, At
<1>2. /\ Typed' /\ Moved(p) /\ op[p].kind = "run" /\ op'[p].kind = "run" /\ op[p].pc = Pruning(s)
      /\ op'[p].pc \in {AfterPrune(s), Pruning(s)} /\ op'[p].pkg = op[p].pkg
      /\ UNCHANGED <<keyFile, keystore, held, now, ids, lastName, fresh, torn>>
  BY <1>0, <1>1, PruneTyped
<1>3. PICK r \in op[p].todo :
         /\ op'[p].todo = op[p].todo \ {r}
         /\ files' = files \/ files' = [files EXCEPT ![r.store][r.name] = NoPkg]
         /\ db' = db \/ db' = [db EXCEPT !.rows = {x \in @ : x.id # r.id}]
  BY <1>0, <1>1, PruneTyped
<1>4. r \in RowType /\ r.store = s /\ r # fresh[s]
  BY <1>0, <1>1, RowNumbers
<1>5. /\ op[p].pc \in {"prune_local", "prune_ftp"}
      /\ op'[p].pc \in {"list_local", "list_ftp", "prune_local", "prune_ftp", "finish"}
  BY <1>2, Stages
<1>6. ~Whole(op'[p])
  BY <1>5 DEF Whole, RestorePCs
<1>7. /\ db'.users = db.users /\ db'.done = db.done /\ db'.sched = db.sched
      /\ db'.secret = db.secret /\ db'.rows \subseteq db.rows
      /\ \A t \in Storages, n \in Names : files'[t][n] = files[t][n] \/ files'[t][n] = NoPkg
  BY <1>0, <1>3, <1>4, RowGone, FileGone DEF Typed
<1>8. OneRun' /\ HasUsers' /\ Pairing' /\ RowsAnywhere' \subseteq RowsAnywhere
  <2>1. op'[p].pkg.db.rows \subseteq RowsAnywhere /\ op'[p].todo \subseteq RowsAnywhere
    BY <1>0, <1>2, <1>3, RowsIn
  <2> QED BY <1>2, <1>5, <1>6, <1>7, <2>1, ShrinkOthers
<1>9. ASSUME NEW t \in Storages, fresh'[t] # NoArchive
      PROVE  fresh'[t] = fresh[t] /\ fresh[t] \in db'.rows /\ files'[t][fresh[t].name] # NoPkg
  <2>1. Newest /\ fresh[t] # NoArchive /\ Apart(fresh[t], r)
    BY <1>0, <1>2, <1>9 DEF Archives, Newest
  <2>2. r # fresh[t]
    <3>1. fresh[t].store = t
      BY <2>1 DEF Newest
    <3> QED BY <1>4, <3>1
  <2> QED BY <1>0, <1>2, <1>3, <1>4, <2>1, <2>2, NewestSurvives
<1>10. Archives'
  <2>1. \A t \in Storages : op'[p].pc = Pruning(t) => \A x \in op'[p].todo : x.store = t /\ x # fresh'[t]
    <3>1. \A t \in Storages : op'[p].pc = Pruning(t) => t = s
      BY <1>2, Stages
    <3> QED BY <1>1, <1>2, <1>3, <3>1
  <2> QED BY <1>0, <1>2, <1>3, <1>5, <1>7, <1>8, <1>9, <2>1, ArchivesShrink
<1> QED BY <1>2, <1>8, <1>10 DEF BInv

(* Removing a file for a delete, which takes it off the record of the newest. *)
LEMMA RemoveKeeps ==
    ASSUME BInv, NEW p \in Procs, RemoveArchive(p)
    PROVE  BInv'
<1>0. Typed /\ OneRun /\ HasUsers /\ Pairing /\ Archives
  BY DEF BInv
<1>1. /\ Typed' /\ Moved(p) /\ op[p].kind = "delete" /\ op[p].pc = "remove"
      /\ op'[p].pc = "delete_row" /\ Same(op'[p], op[p])
      /\ UNCHANGED <<db, keyFile, keystore, held, now, ids, lastName, torn>>
  BY <1>0, RemoveTyped
<1>2. PICK r \in op[p].todo :
         /\ files' = files \/ files' = [files EXCEPT ![r.store][r.name] = NoPkg]
         /\ fresh' = [fresh EXCEPT ![r.store] = IF @.id = r.id THEN NoArchive ELSE @]
  BY <1>0, RemoveTyped
<1>3. r \in RowType /\ r.store \in Storages
  BY <1>0, RowNumbers
<1>4. op'[p].kind = "delete" /\ op'[p].pkg = op[p].pkg /\ op'[p].todo = op[p].todo /\ ~Whole(op'[p])
  BY <1>1 DEF Same, Whole, RestorePCs
<1>5. \A t \in Storages, n \in Names : files'[t][n] = files[t][n] \/ files'[t][n] = NoPkg
  BY <1>0, <1>2, <1>3, FileGone DEF Typed
<1>6. OneRun' /\ HasUsers' /\ Pairing' /\ RowsAnywhere' \subseteq RowsAnywhere
  <2>1. op'[p].pkg.db.rows \subseteq RowsAnywhere /\ op'[p].todo \subseteq RowsAnywhere
    BY <1>0, <1>4, RowsIn
  <2> QED BY <1>1, <1>4, <1>5, <2>1, ShrinkOthers
<1>7. /\ \A t \in Storages : fresh'[t] = fresh[t] \/ fresh'[t] = NoArchive
      /\ fresh[r.store].id = r.id => fresh'[r.store] = NoArchive
  <2>1. fresh \in [Storages -> RowType \union {NoArchive}]
    BY <1>0 DEF Typed, DataOK
  <2> QED BY <1>2, <1>3, <2>1
<1>8. ASSUME NEW t \in Storages, fresh'[t] # NoArchive
      PROVE  fresh'[t] = fresh[t] /\ fresh[t] \in db'.rows /\ files'[t][fresh[t].name] # NoPkg
  <2>1. Newest /\ fresh[t] # NoArchive /\ Apart(fresh[t], r) /\ fresh[t].store = t
    BY <1>0, <1>7, <1>8 DEF Archives, Newest
  <2>2. r # fresh[t]
    BY <1>7, <1>8, <2>1
  <2> QED BY <1>0, <1>1, <1>2, <1>3, <1>7, <1>8, <2>1, <2>2, NewestSurvives
<1>9. \A x \in op[p].todo : x # fresh'[x.store]
  <2>1. \A x \in op[p].todo : x = r
    BY <1>0, <1>1, ProcFacts DEF Shape
  <2>2. r # fresh'[r.store]
    BY <1>0, <1>3, <1>7, RowNumbers
  <2> QED BY <2>1, <2>2
<1>10. Archives'
  <2>1. \A t \in Storages : Pruning(t) # "delete_row"
    BY Stages
  <2> QED BY <1>0, <1>1, <1>4, <1>6, <1>8, <1>9, <2>1, ArchivesShrink
<1> QED BY <1>1, <1>6, <1>10 DEF BInv

(* Removing a row for a delete. *)
LEMMA DeleteRowKeeps ==
    ASSUME BInv, NEW p \in Procs, DeleteRow(p)
    PROVE  BInv'
<1>0. Typed /\ OneRun /\ HasUsers /\ Pairing /\ Archives
  BY DEF BInv
<1>1. /\ Typed' /\ Moved(p) /\ op[p].kind = "delete" /\ op[p].pc = "delete_row" /\ op'[p] = Idle
      /\ UNCHANGED <<keyFile, keystore, files, held, now, ids, lastName, fresh, torn>>
  BY <1>0, DeleteRowTyped
<1>2. CASE UNCHANGED db
  BY <1>0, <1>1, <1>2, IdleQuiet, UnchangedQuiet, QuietStep
<1>3. CASE \E r \in op[p].todo : db' = [db EXCEPT !.rows = {x \in @ : x.id # r.id}]
  <2>1. PICK r \in op[p].todo : db' = [db EXCEPT !.rows = {x \in @ : x.id # r.id}]
    BY <1>3
  <2>2. r \in RowType /\ r.store \in Storages /\ r # fresh[r.store]
    BY <1>0, <1>1, RowNumbers DEF Archives, Spared
  <2>3. /\ db'.users = db.users /\ db'.done = db.done /\ db'.sched = db.sched
        /\ db'.secret = db.secret /\ db'.rows \subseteq db.rows
    BY <1>0, <2>1, <2>2, RowGone DEF Typed
  <2>4. op'[p].kind = "none" /\ op'[p].pc = "idle" /\ op'[p].todo = {} /\ op'[p].pkg.db.rows = {} /\ ~Whole(op'[p])
    BY <1>1, IdleOK, DefaultsOK DEF Whole, RestorePCs
  <2>5. OneRun' /\ HasUsers' /\ Pairing' /\ RowsAnywhere' \subseteq RowsAnywhere
    BY <1>1, <2>3, <2>4, ShrinkOthers
  <2>6. ASSUME NEW t \in Storages, fresh'[t] # NoArchive
        PROVE  fresh'[t] = fresh[t] /\ fresh[t] \in db'.rows /\ files'[t][fresh[t].name] # NoPkg
    <3>1. Newest /\ fresh[t] # NoArchive /\ Apart(fresh[t], r) /\ fresh[t].store = t
      BY <1>0, <1>1, <2>6 DEF Archives, Newest
    <3>2. r # fresh[t]
      BY <2>2, <3>1
    <3> QED BY <1>0, <1>1, <2>1, <2>2, <3>1, <3>2, NewestSurvives
  <2>7. Archives'
    <3>1. \A t \in Storages : Pruning(t) # "idle"
      BY Stages
    <3> QED BY <1>0, <1>1, <2>3, <2>4, <2>5, <2>6, <3>1, ArchivesShrink
  <2> QED BY <1>1, <2>5, <2>7 DEF BInv
<1> QED BY <1>0, <1>2, <1>3, DeleteRowTyped

(* The end of a run. *)
LEMMA FinishKeeps ==
    ASSUME BInv, NEW p \in Procs, FinishRun(p)
    PROVE  BInv'
<1>0. Typed /\ HasUsers
  BY DEF BInv
<1>1. /\ Typed' /\ Moved(p) /\ op[p].kind = "run" /\ op[p].pc = "finish" /\ op'[p] = Idle
      /\ UNCHANGED <<keyFile, keystore, files, held, now, ids, lastName, fresh, torn>>
      /\ db'.users = db.users /\ db'.done = db.done /\ db'.sched = db.sched
      /\ db'.secret = db.secret /\ db'.rows = db.rows
  BY <1>0, FinishTyped
<1>2. QuietData
  BY <1>0, <1>1 DEF QuietData, HasUsers
<1> QED BY <1>1, <1>2, IdleQuiet, QuietStep

(* The restore of the database. *)
LEMMA SnapshotKeeps ==
    ASSUME BInv, NEW p \in Procs, RestoreFromSnapshot(p)
    PROVE  BInv'
<1>0. Typed /\ OneRun /\ HasUsers /\ Pairing /\ Archives
  BY DEF BInv
<1>1. /\ Typed' /\ Moved(p) /\ op[p].pc = "restore_db" /\ op[p].kind \in {"restore", "apply"}
      /\ UNCHANGED <<keyFile, keystore, files, held, now, lastName>>
  BY <1>0, SnapshotTyped
<1>2. CASE op'[p] = Idle /\ UNCHANGED <<db, ids, fresh, torn>>
  BY <1>0, <1>1, <1>2, IdleQuiet, UnchangedQuiet, QuietStep
<1>3. CASE /\ op'[p].pc = "write_key" /\ Same(op'[p], op[p])
           /\ db' = op[p].pkg.db
           /\ ids <= ids' /\ \A r \in db'.rows : r.id <= ids'
           /\ fresh' = [s \in Storages |-> NoArchive]
           /\ torn' = (torn \/ \E q \in Procs \ {p} : MidRestore(q) \/ MidCreate(q) \/ MidSave(q))
  <2>1. op'[p].kind = op[p].kind /\ op'[p].pkg = op[p].pkg /\ op'[p].todo = op[p].todo
    BY <1>3 DEF Same
  <2>2. op[p].pkg \in Packages
    BY <1>1, CarriedIsPackage DEF Whole, RestorePCs
  <2>3. Packages' \subseteq Packages
    BY <1>0, <1>1, <2>1, <2>2, PackagesKept
  <2>4. OneRun'
    BY <1>0, <1>1, <2>1, OneRunStep
  <2>5. HasUsers'
    <3>1. \A g \in Packages' : g \in Packages \/ g.db.users
      BY <2>3
    <3>2. db'.users
      BY <1>0, <1>3, <2>2 DEF HasUsers
    <3> QED BY <1>0, <1>1, <1>3, <3>1, <3>2, UsersStep
  <2>6. Pairing'
    <3> SUFFICES ASSUME ~torn' PROVE Pairing'
      BY DEF Pairing
    <3>1. ~torn /\ Alone(p)
      BY <1>3 DEF Alone
    <3>2. \A g \in Packages : Paired(g.key, g.db)
      BY <1>0, <3>1 DEF Pairing
    <3>3. \A q \in Procs \ {p} : ~MidRestore(q)' /\ ~MidCreate(q)' /\ ~MidSave(q)'
      BY <1>1, <3>1 DEF Alone, MidRestore, MidCreate, MidSave, Moved
    <3>4. MidRestore(p)' /\ ~MidCreate(p)' /\ ~MidSave(p)'
      BY <1>3 DEF MidRestore, MidCreate, MidSave
    <3>5. Paired(op'[p].pkg.key, db')
      BY <1>3, <2>1, <2>2, <3>2
    <3>6. Alone(p)'
      BY <3>3 DEF Alone
    <3>7. \A g \in Packages' : Paired(g.key, g.db)
      BY <2>3, <3>2
    <3>8. ~Calm'
      BY <3>4 DEF Calm
    <3>9. \A q \in Procs : MidRestore(q)' =>
              /\ Paired(op'[q].pkg.key, db')
              /\ op'[q].pc = "load_key" => keyFile' = op'[q].pkg.key
              /\ Alone(q)'
      BY <1>3, <3>3, <3>5, <3>6
    <3> QED BY <3>3, <3>4, <3>7, <3>8, <3>9 DEF Pairing, Paired
  <2>7. RowsAnywhere' \subseteq RowsAnywhere
    BY <1>0, <1>1, <1>3, <2>1, <2>2, <2>3, RowsIn, RowsKept
  <2>8. \A q \in Procs : op'[q].todo = op[q].todo
    BY <1>1, <2>1 DEF Moved
  <2>9. RowsOK'
    <3>1. \A r \in RowsAnywhere' : r.name <= lastName'
      BY <1>0, <1>1, <2>7 DEF Archives, RowsOK
    <3>2. ids \in Nat /\ ids' \in Nat
      BY <1>0, <1>1 DEF Typed, DataOK
    <3>3. \A q \in Procs : \A r \in op[q].todo : r.id \in Nat /\ r.id <= ids
      BY <1>0, RowNumbers DEF Archives, RowsOK
    <3> QED BY <1>3, <2>8, <3>1, <3>2, <3>3 DEF RowsOK
  <2>10. NameNew'
    BY <1>0, <1>1, <1>3, <2>7 DEF Archives, NameNew, Moved
  <2>11. Newest'
    BY <1>3 DEF Newest
  <2>12. Spared'
    <3>1. \A q \in Procs : \A r \in op[q].todo : r.store \in Storages /\ r # NoArchive
      BY <1>0, RowNumbers
    <3>2. \A q \in Procs : \A r \in op'[q].todo : r.store \in Storages /\ r # fresh'[r.store] /\ \A t \in Storages : r # fresh'[t]
      BY <1>3, <2>8, <3>1
    <3>3. \A t \in Storages : Pruning(t) # "write_key"
      BY Stages
    <3> QED BY <1>0, <1>1, <1>3, <3>2, <3>3 DEF Archives, Spared, Moved, Pruning
  <2> QED BY <1>1, <2>4, <2>5, <2>6, <2>9, <2>10, <2>11, <2>12 DEF BInv, Archives
<1> QED BY <1>0, <1>2, <1>3, SnapshotTyped

(* Writing and loading the key concern Pairing only. *)
LEMMA KeyStep ==
    ASSUME BInv, Typed', NEW p \in Procs, Moved(p), UNCHANGED <<db, files, held, ids, lastName, fresh>>,
           op[p].kind \in {"restore", "apply"}, op[p].pc \in {"write_key", "load_key"},
           op'[p] = Idle \/ (Same(op'[p], op[p]) /\ op'[p].pc \in {"load_key", "admin"})
    PROVE  OneRun' /\ HasUsers' /\ Archives' /\ Packages' \subseteq Packages
<1>0. Typed /\ OneRun /\ HasUsers /\ Archives
  BY DEF BInv
<1>1. /\ op'[p].kind \in {"none", op[p].kind} /\ op'[p].pc \in {"idle", "load_key", "admin"}
      /\ op'[p].todo \subseteq op[p].todo
      /\ op'[p].pkg = op[p].pkg \/ (op'[p].pkg.db.rows = {} /\ op'[p].pc = "idle" /\ op'[p].kind = "none")
  BY IdleOK, DefaultsOK DEF Same
<1>2. op[p].pkg \in Packages
  BY CarriedIsPackage DEF Whole, RestorePCs
<1>3. Packages' \subseteq Packages
  <2>1. Whole(op'[p]) => op'[p].pkg \in Packages
    BY <1>1, <1>2 DEF Whole, RestorePCs
  <2> QED BY <1>0, <2>1, PackagesKept
<1>4. OneRun'
  BY <1>0, <1>1, OneRunStep
<1>5. HasUsers'
  <2>1. \A g \in Packages' : g \in Packages \/ g.db.users
    BY <1>3
  <2>2. db.users
    BY <1>0 DEF HasUsers
  <2> QED BY <1>0, <1>1, <2>1, <2>2, UsersStep
<1>6. Archives'
  <2>1. RowsAnywhere' \subseteq RowsAnywhere
    BY <1>0, <1>1, <1>3, RowsIn, RowsKept
  <2> QED BY <1>0, <1>1, <2>1, ArchivesQuiet
<1> QED BY <1>3, <1>4, <1>5, <1>6

(* The restore of the key file. *)
LEMMA WriteKeyKeeps ==
    ASSUME BInv, NEW p \in Procs, WriteKeyFile(p)
    PROVE  BInv'
<1>0. Typed /\ Pairing
  BY DEF BInv
<1>1. /\ Typed' /\ Moved(p) /\ op[p].pc = "write_key" /\ op[p].kind \in {"restore", "apply"}
      /\ UNCHANGED <<db, keystore, files, held, now, ids, lastName, fresh>>
      /\ \/ op'[p].pc = "load_key" /\ Same(op'[p], op[p]) /\ keyFile' = op[p].pkg.key /\ UNCHANGED torn
         \/ op'[p] = Idle /\ torn' = TRUE /\ UNCHANGED keyFile
  BY <1>0, WriteKeyTyped
<1>2. OneRun' /\ HasUsers' /\ Archives' /\ Packages' \subseteq Packages
  BY <1>1, KeyStep
<1>3. Pairing'
  <2> SUFFICES ASSUME ~torn' PROVE Pairing'
    BY DEF Pairing
  <2>1. op'[p].pc = "load_key" /\ op'[p].pkg = op[p].pkg /\ keyFile' = op[p].pkg.key /\ ~torn
    BY <1>1 DEF Same
  <2>2. Paired(op[p].pkg.key, db) /\ Alone(p) /\ \A g \in Packages : Paired(g.key, g.db)
    BY <1>0, <1>1, <2>1 DEF Pairing, MidRestore
  <2>3. \A q \in Procs \ {p} : ~MidRestore(q)' /\ ~MidCreate(q)' /\ ~MidSave(q)'
    BY <1>1, <2>2 DEF Alone, MidRestore, MidCreate, MidSave, Moved
  <2>4. MidRestore(p)' /\ ~MidCreate(p)' /\ ~MidSave(p)' /\ ~Calm'
    BY <2>1 DEF MidRestore, MidCreate, MidSave, Calm
  <2>5. Alone(p)'
    BY <2>3 DEF Alone
  <2>6. \A g \in Packages' : Paired(g.key, g.db)
    BY <1>2, <2>2
  <2>7. \A q \in Procs : MidRestore(q)' =>
            /\ Paired(op'[q].pkg.key, db')
            /\ op'[q].pc = "load_key" => keyFile' = op'[q].pkg.key
            /\ Alone(q)'
    BY <1>1, <2>1, <2>2, <2>3, <2>5
  <2> QED BY <2>3, <2>4, <2>6, <2>7 DEF Pairing, Paired
<1> QED BY <1>1, <1>2, <1>3 DEF BInv

(* Loading the restored key, which completes the pair. *)
LEMMA LoadKeyKeeps ==
    ASSUME BInv, NEW p \in Procs, LoadKey(p)
    PROVE  BInv'
<1>0. Typed /\ Pairing
  BY DEF BInv
<1>1. /\ Typed' /\ Moved(p) /\ op[p].pc = "load_key" /\ op[p].kind \in {"restore", "apply"}
      /\ UNCHANGED <<db, keyFile, files, held, now, ids, lastName, fresh>>
      /\ \/ /\ keystore' = keyFile /\ UNCHANGED torn
            /\ op'[p] = Idle \/ (op'[p].pc = "admin" /\ op[p].kind = "apply" /\ Same(op'[p], op[p]))
         \/ op'[p] = Idle /\ torn' = TRUE /\ UNCHANGED keystore
  BY <1>0, LoadKeyTyped
<1>2. OneRun' /\ HasUsers' /\ Archives' /\ Packages' \subseteq Packages
  BY <1>1, KeyStep
<1>3. Pairing'
  <2> SUFFICES ASSUME ~torn' PROVE Pairing'
    BY DEF Pairing
  <2>1. op'[p].pc \in {"idle", "admin"} /\ keystore' = keyFile /\ ~torn
    BY <1>1, IdleOK
  <2>2. /\ Paired(op[p].pkg.key, db) /\ keyFile = op[p].pkg.key /\ Alone(p)
        /\ \A g \in Packages : Paired(g.key, g.db)
    BY <1>0, <1>1, <2>1 DEF Pairing, MidRestore
  <2>3. \A q \in Procs : ~MidRestore(q)' /\ ~MidCreate(q)' /\ ~MidSave(q)'
    BY <1>1, <2>1, <2>2 DEF Alone, MidRestore, MidCreate, MidSave, Moved
  <2>4. \A g \in Packages' : Paired(g.key, g.db)
    BY <1>2, <2>2
  <2>5. keyFile' = keystore' /\ Paired(keystore', db')
    BY <1>1, <2>1, <2>2
  <2> QED BY <2>3, <2>4, <2>5 DEF Pairing, Paired
<1> QED BY <1>1, <1>2, <1>3 DEF BInv

(* Requests that save a schedule: no package, no rows. *)
LEMMA SaveStep ==
    ASSUME BInv, Typed', NEW p \in Procs, Moved(p), UNCHANGED <<files, held, ids, lastName, fresh>>,
           db'.users = db.users, db'.done = db.done, db'.rows = db.rows, op[p].kind = "save",
           op'[p].kind = "save", op'[p].pc \in {"store_secret", "check_pass", "check_ftp", "ftp", "fields"},
           op'[p].todo = op[p].todo, op'[p].pkg = op[p].pkg
    PROVE  OneRun' /\ HasUsers' /\ Archives' /\ Packages' \subseteq Packages
<1>0. Typed /\ OneRun /\ HasUsers /\ Archives
  BY DEF BInv
<1>1. ~Whole(op'[p])
  BY DEF Whole, RestorePCs
<1>2. Packages' \subseteq Packages
  BY <1>0, <1>1, PackagesKept
<1>3. OneRun'
  BY <1>0, OneRunStep
<1>4. HasUsers'
  <2>1. \A g \in Packages' : g \in Packages \/ g.db.users
    BY <1>2
  <2>2. db.users
    BY <1>0 DEF HasUsers
  <2> QED BY <1>0, <2>1, <2>2, UsersStep
<1>5. Archives'
  <2>1. RowsAnywhere' \subseteq RowsAnywhere
    BY <1>0, <1>2, RowsIn, RowsKept
  <2> QED BY <1>0, <2>1, ArchivesQuiet
<1> QED BY <1>2, <1>3, <1>4, <1>5

(* Encrypting a secret. *)
LEMMA EncryptKeeps ==
    ASSUME BInv, NEW p \in Procs, NEW s \in {"pass", "ftp"}, EncryptSecret(p, s)
    PROVE  BInv'
<1>0. Typed /\ Pairing
  BY DEF BInv
<1>1. /\ Typed' /\ Moved(p) /\ op[p].kind = "save" /\ op[p].pc \in {"pass", "ftp"}
      /\ op'[p].kind = "save" /\ op'[p].pc = "store_secret" /\ op'[p].todo = op[p].todo
      /\ op'[p].pkg = op[p].pkg /\ op'[p].enc.key = keystore
      /\ UNCHANGED <<db, keyFile, keystore, files, held, now, ids, lastName, fresh>>
      /\ torn' = (torn \/ \E q \in Procs : MidRestore(q))
  BY <1>0, EncryptTyped
<1>2. OneRun' /\ HasUsers' /\ Archives' /\ Packages' \subseteq Packages
  BY <1>1, SaveStep
<1>3. Pairing'
  <2> SUFFICES ASSUME ~torn' PROVE Pairing'
    BY DEF Pairing
  <2>1. ~torn /\ Calm
    BY <1>1 DEF Calm
  <2>2. \A q \in Procs : ~MidRestore(q)'
    BY <1>1, <2>1 DEF Calm, MidRestore, Moved
  <2>3. keyFile = keystore /\ Paired(keystore, db) /\ (\A g \in Packages : Paired(g.key, g.db))
    BY <1>0, <2>1 DEF Pairing
  <2>4. \A q \in Procs : MidCreate(q)' => Paired(keyFile', op'[q].pkg.db)
    BY <1>0, <1>1, <2>1 DEF Pairing, MidCreate, Moved
  <2>5. \A q \in Procs : MidSave(q)' => op'[q].enc.key = keystore'
    BY <1>0, <1>1, <2>1 DEF Pairing, MidSave, Moved
  <2>6. \A g \in Packages' : Paired(g.key, g.db)
    BY <1>2, <2>3
  <2>7. keyFile' = keystore' /\ Paired(keystore', db')
    BY <1>1, <2>3
  <2> QED BY <2>2, <2>4, <2>5, <2>6, <2>7 DEF Pairing, Paired
<1> QED BY <1>1, <1>2, <1>3 DEF BInv

(* Storing a secret. *)
LEMMA StoreSecretKeeps ==
    ASSUME BInv, NEW p \in Procs, StoreSecret(p)
    PROVE  BInv'
<1>0. Typed /\ Pairing /\ HasUsers
  BY DEF BInv
<1>1. /\ Typed' /\ Moved(p) /\ op[p].kind = "save" /\ op[p].pc = "store_secret"
      /\ UNCHANGED <<keyFile, keystore, files, held, now, ids, lastName, fresh, torn>>
      /\ db'.users = db.users /\ db'.done = db.done /\ db'.sched = db.sched /\ db'.rows = db.rows
  BY <1>0, StoreSecretTyped
<1>2. CASE op'[p] = Idle /\ UNCHANGED db
  BY <1>0, <1>1, <1>2, IdleQuiet, UnchangedQuiet, QuietStep
<1>3. CASE /\ op'[p].kind = "save" /\ op'[p].pc \in {"check_pass", "check_ftp"}
           /\ op'[p].todo = op[p].todo /\ op'[p].pkg = op[p].pkg
           /\ \A s \in {"pass", "ftp"} : db'.secret[s] = op[p].enc \/ db'.secret[s] = db.secret[s]
  <2>1. OneRun' /\ HasUsers' /\ Archives' /\ Packages' \subseteq Packages
    BY <1>1, <1>3, SaveStep
  <2>2. Pairing'
    <3> SUFFICES ASSUME ~torn' PROVE Pairing'
      BY DEF Pairing
    <3>1. ~torn /\ op[p].enc.key = keystore
      BY <1>0, <1>1 DEF Pairing, MidSave
    <3>2. Calm
      <4>1. \A q \in Procs : MidRestore(q) => q = p
        BY <1>0, <1>1, <3>1 DEF Pairing, Alone, MidSave
      <4> QED BY <1>1, <4>1 DEF Calm, MidRestore
    <3>3. keyFile = keystore /\ Paired(keystore, db) /\ (\A g \in Packages : Paired(g.key, g.db))
      BY <1>0, <3>1, <3>2 DEF Pairing
    <3>4. \A q \in Procs : ~MidRestore(q)'
      BY <1>1, <1>3, <3>2 DEF Calm, MidRestore, Moved
    <3>5. Paired(keystore', db')
      BY <1>1, <1>3, <3>1, <3>3 DEF Paired
    <3>6. \A q \in Procs : MidCreate(q)' => Paired(keyFile', op'[q].pkg.db)
      BY <1>0, <1>1, <1>3, <3>1 DEF Pairing, MidCreate, Moved
    <3>7. \A q \in Procs : MidSave(q)' => op'[q].enc.key = keystore'
      BY <1>0, <1>1, <1>3, <3>1 DEF Pairing, MidSave, Moved
    <3>8. \A g \in Packages' : Paired(g.key, g.db)
      BY <2>1, <3>3
    <3>9. keyFile' = keystore'
      BY <1>1, <3>3
    <3> QED BY <3>4, <3>5, <3>6, <3>7, <3>8, <3>9 DEF Pairing, Paired
  <2> QED BY <1>1, <2>1, <2>2 DEF BInv
<1> QED BY <1>0, <1>2, <1>3, StoreSecretTyped

(* Checking a secret. *)
LEMMA CheckKeeps ==
    ASSUME BInv, NEW p \in Procs, NEW s \in {"pass", "ftp"}, CheckSecret(p, s)
    PROVE  BInv'
<1>0. Typed /\ Pairing /\ HasUsers
  BY DEF BInv
<1>1. /\ Typed' /\ Moved(p) /\ op[p].kind = "save" /\ op[p].pc \notin {"store_secret", "fields"}
      /\ UNCHANGED dataVars
  BY <1>0, CheckTyped
<1>2. op[p].pc \notin {"write_key", "load_key"}
  BY <1>0, <1>1, ProcFacts, StepsOfKinds DEF RestorePCs
<1>3. CASE op'[p] = Idle
  BY <1>0, <1>1, <1>2, <1>3, IdleQuiet, UnchangedQuiet, QuietStep DEF dataVars
<1>4. CASE /\ op'[p].kind = "save" /\ op'[p].pc \in {"ftp", "fields"}
           /\ op'[p].todo = op[p].todo /\ op'[p].pkg = op[p].pkg
  <2>1. OneRun' /\ HasUsers' /\ Archives' /\ Packages' \subseteq Packages
    BY <1>1, <1>4, SaveStep DEF dataVars
  <2>2. \A g \in Packages' : g \in Packages \/ (~torn => Paired(g.key, g.db))
    BY <2>1
  <2>3. Pairing'
    BY <1>0, <1>1, <1>2, <1>4, <2>2, PairingQuiet DEF dataVars
  <2> QED BY <1>1, <2>1, <2>3 DEF BInv
<1> QED BY <1>0, <1>3, <1>4, CheckTyped

(* Storing one field of the schedule. *)
LEMMA SaveFieldKeeps ==
    ASSUME BInv, NEW p \in Procs, SaveField(p)
    PROVE  BInv'
<1>0. Typed /\ Pairing /\ HasUsers
  BY DEF BInv
<1>1. /\ Typed' /\ Moved(p) /\ op[p].kind = "save" /\ op[p].pc = "fields"
      /\ UNCHANGED <<keyFile, keystore, files, held, now, ids, lastName, fresh, torn>>
      /\ db'.users = db.users /\ db'.done = db.done /\ db'.secret = db.secret /\ db'.rows = db.rows
  BY <1>0, SaveFieldTyped
<1>2. db.users
  BY <1>0, <1>1 DEF HasUsers
<1>3. CASE op'[p] = Idle
  BY <1>1, <1>2, <1>3, IdleQuiet, QuietStep DEF QuietData
<1>4. CASE /\ op'[p].kind = "save" /\ op'[p].pc = "fields"
           /\ op'[p].todo = op[p].todo /\ op'[p].pkg = op[p].pkg
  <2>1. OneRun' /\ HasUsers' /\ Archives' /\ Packages' \subseteq Packages
    BY <1>1, <1>4, SaveStep
  <2>2. \A g \in Packages' : g \in Packages \/ (~torn => Paired(g.key, g.db))
    BY <2>1
  <2>3. Pairing'
    BY <1>0, <1>1, <1>4, <2>2, PairingQuiet
  <2> QED BY <1>1, <2>1, <2>3 DEF BInv
<1> QED BY <1>0, <1>3, <1>4, SaveFieldTyped

(* Nothing of Backup changes but the clock, the counters and the marker.   *)
LEMMA StillKeeps ==
    ASSUME BInv, Typed', UNCHANGED <<keyFile, keystore, files, held, op, ids, lastName, fresh, torn>>,
           db'.users = db.users, db'.sched = db.sched, db'.secret = db.secret, db'.rows = db.rows,
           db'.done => db'.users
    PROVE  BInv'
<1>1. Packages' = Packages
  BY DEF Packages, Stored, Carried, Whole
<1>2. RowsAnywhere' = RowsAnywhere
  BY <1>1 DEF RowsAnywhere
<1>3. OneRun' /\ HasUsers'
  BY <1>1 DEF BInv, OneRun, HasUsers
<1>4. Pairing'
  BY <1>1 DEF BInv, Pairing, Paired, Calm, Alone, MidRestore, MidCreate, MidSave
<1>5. RowsOK' /\ NameNew'
  BY <1>2 DEF BInv, Archives, RowsOK, NameNew
<1>6. Newest' /\ Spared'
  BY DEF BInv, Archives, Newest, Apart, Spared, Pruning
<1> QED BY <1>3, <1>4, <1>5, <1>6 DEF BInv, Archives

(* Time passing. *)
LEMMA TickKeeps ==
    ASSUME BInv, Tick
    PROVE  BInv'
<1>1. Typed' /\ UNCHANGED <<db, keyFile, keystore, files, held, op, ids, lastName, fresh, torn>>
  BY TickTyped DEF BInv
<1>2. db'.done => db'.users
  BY <1>1 DEF BInv, HasUsers
<1> QED BY <1>1, <1>2, StillKeeps

(* A restart. *)
LEMMA RestartKeeps ==
    ASSUME BInv, BackupRestart
    PROVE  BInv'
<1>0. Typed /\ HasUsers /\ Pairing /\ Archives
  BY DEF BInv
<1>1. /\ Typed' /\ \A p \in Procs : op'[p] = Idle
      /\ keystore' = keyFile /\ torn' = (torn \/ \E p \in Procs : MidRestore(p))
      /\ UNCHANGED <<db, keyFile, files, held, now, ids, lastName, fresh>>
  BY <1>0, RestartTyped
<1>2. \A p \in Procs : /\ op'[p].kind = "none" /\ op'[p].pc = "idle" /\ op'[p].todo = {}
                       /\ op'[p].pkg.db.rows = {} /\ ~Whole(op'[p])
  BY <1>1, IdleOK, DefaultsOK DEF Whole, RestorePCs
<1>3. Packages' \subseteq Packages
  <2>1. Carried' = {}
    BY <1>2 DEF Carried, Whole
  <2>2. Stored' = Stored
    BY <1>1 DEF Stored
  <2> QED BY <1>1, <2>1, <2>2 DEF Packages
<1>4. OneRun' /\ HasUsers'
  BY <1>0, <1>1, <1>2, <1>3 DEF OneRun, HasUsers
<1>5. Pairing'
  <2> SUFFICES ASSUME ~torn' PROVE Pairing'
    BY DEF Pairing
  <2>1. ~torn /\ Calm
    BY <1>1 DEF Calm
  <2>2. Paired(keystore, db) /\ keyFile = keystore /\ (\A g \in Packages : Paired(g.key, g.db))
    BY <1>0, <2>1 DEF Pairing
  <2>3. \A q \in Procs : ~MidRestore(q)' /\ ~MidCreate(q)' /\ ~MidSave(q)'
    BY <1>2 DEF MidRestore, MidCreate, MidSave
  <2>4. keyFile' = keystore' /\ Paired(keystore', db')
    BY <1>1, <2>2
  <2>5. \A g \in Packages' : Paired(g.key, g.db)
    BY <1>3, <2>2
  <2> QED BY <2>3, <2>4, <2>5 DEF Pairing, Paired
<1>6. RowsAnywhere' \subseteq RowsAnywhere
  <2> SUFFICES ASSUME NEW r \in RowsAnywhere' PROVE r \in RowsAnywhere
    OBVIOUS
  <2>1. r \in RowType /\ (r \in db.rows \/ \E g \in Packages : r \in g.db.rows)
    BY <1>1, <1>2, <1>3 DEF RowsAnywhere
  <2> QED BY <2>1 DEF RowsAnywhere
<1>7. RowsOK' /\ NameNew' /\ Newest' /\ Spared'
  <2>1. RowsOK'
    BY <1>0, <1>1, <1>2, <1>6 DEF Archives, RowsOK
  <2>2. NameNew'
    BY <1>2 DEF NameNew
  <2>3. Newest'
    BY <1>0, <1>1, <1>2 DEF Archives, Newest, Apart
  <2>4. Spared'
    BY <1>2 DEF Spared, Pruning
  <2> QED BY <2>1, <2>2, <2>3, <2>4
<1> QED BY <1>1, <1>4, <1>5, <1>7 DEF BInv, Archives

(* Every step of a process. *)
LEMMA StepKeeps ==
    ASSUME BInv, NEW p \in Procs, BackupStep(p)
    PROVE  BInv'
<1>1. CASE VacuumInto(p) \/ ReadKey(p) \/ FinishRun(p) \/ RemoveArchive(p) \/ DeleteRow(p)
  BY <1>1, VacuumKeeps, ReadKeyKeeps, FinishKeeps, RemoveKeeps, DeleteRowKeeps
<1>2. CASE \E s \in Storages : StoreArchive(p, s) \/ ListRetention(p, s) \/ Prune(p, s)
  BY <1>2, StoreKeeps, ListKeeps, PruneKeeps
<1>3. CASE RestoreFromSnapshot(p) \/ WriteKeyFile(p) \/ LoadKey(p)
  BY <1>3, SnapshotKeeps, WriteKeyKeeps, LoadKeyKeeps
<1>4. CASE \E s \in {"pass", "ftp"} : EncryptSecret(p, s) \/ CheckSecret(p, s)
  BY <1>4, EncryptKeeps, CheckKeeps
<1>5. CASE StoreSecret(p) \/ SaveField(p)
  BY <1>5, StoreSecretKeeps, SaveFieldKeeps
<1> QED BY <1>1, <1>2, <1>3, <1>4, <1>5 DEF BackupStep

(* A step is of the process that takes it: it goes on or ends, and the     *)
(* database keeps its users.                                               *)
LEMMA StepFrame ==
    ASSUME BInv, NEW p \in Procs, BackupStep(p)
    PROVE  /\ Moved(p) /\ UNCHANGED now /\ op[p].kind # "none"
           /\ op'[p].kind \in {op[p].kind, "none"}
           /\ db.users => db'.users
           /\ ~db.users => op[p].kind = "apply"
<1>0. Typed /\ HasUsers /\ Archives
  BY DEF BInv
<1>1. ~db.users => op[p].kind \in {"none", "apply"}
  BY <1>0 DEF HasUsers
<1> SUFFICES /\ Moved(p) /\ UNCHANGED now /\ op[p].kind # "none"
             /\ op'[p].kind \in {op[p].kind, "none"} /\ (db.users => db'.users)
  BY <1>1
<1>2. CASE VacuumInto(p)
  <2>1. UNCHANGED <<db, now>>
    BY <1>2 DEF VacuumInto
  <2> QED BY <1>0, <1>2, <2>1, VacuumTyped, IdleOK
<1>3. CASE ReadKey(p)
  <2>1. op[p].kind # "none"
    BY <1>0, <1>3, ReadKeyTyped, ProcFacts, StepsOfKinds
  <2> QED BY <1>0, <1>3, <2>1, ReadKeyTyped, IdleOK
<1>4. CASE FinishRun(p)
  BY <1>0, <1>4, FinishTyped, IdleOK
<1>5. ASSUME NEW s \in Storages, StoreArchive(p, s)
      PROVE  /\ Moved(p) /\ UNCHANGED now /\ op[p].kind # "none"
             /\ op'[p].kind \in {op[p].kind, "none"} /\ (db.users => db'.users)
  BY <1>0, <1>5, StoreTyped DEF Same
<1>6. ASSUME NEW s \in Storages, ListRetention(p, s)
      PROVE  /\ Moved(p) /\ UNCHANGED now /\ op[p].kind # "none"
             /\ op'[p].kind \in {op[p].kind, "none"} /\ (db.users => db'.users)
  BY <1>0, <1>6, ListTyped DEF dataVars
<1>7. ASSUME NEW s \in Storages, Prune(p, s)
      PROVE  /\ Moved(p) /\ UNCHANGED now /\ op[p].kind # "none"
             /\ op'[p].kind \in {op[p].kind, "none"} /\ (db.users => db'.users)
  <2>1. \A r \in op[p].todo : r.store = s
    BY <1>0, <1>7 DEF Archives, Spared, Prune, At
  <2>2. db' = db \/ \E r \in op[p].todo : db' = [db EXCEPT !.rows = {x \in @ : x.id # r.id}]
    BY <1>7 DEF Prune
  <2>3. db'.users = db.users
    BY <1>0, <2>2 DEF Typed, DataOK, DBType
  <2> QED BY <1>0, <1>7, <2>1, <2>3, PruneTyped
<1>8. CASE RemoveArchive(p)
  BY <1>0, <1>8, RemoveTyped DEF Same
<1>9. CASE DeleteRow(p)
  <2>1. db' = db \/ \E r \in op[p].todo : db' = [db EXCEPT !.rows = {x \in @ : x.id # r.id}]
    BY <1>9 DEF DeleteRow
  <2>2. db'.users = db.users
    BY <1>0, <2>1 DEF Typed, DataOK, DBType
  <2> QED BY <1>0, <1>9, <2>2, DeleteRowTyped, IdleOK
<1>10. CASE RestoreFromSnapshot(p)
  <2>1. db' = op[p].pkg.db \/ UNCHANGED db
    BY <1>10 DEF RestoreFromSnapshot
  <2>2. op[p].pkg.db.users
    <3>1. Whole(op[p])
      BY <1>0, <1>10, SnapshotTyped DEF Whole, RestorePCs
    <3> QED BY <1>0, <3>1, CarriedIsPackage DEF HasUsers
  <2> QED BY <1>0, <1>10, <2>1, <2>2, SnapshotTyped, IdleOK DEF Same
<1>11. CASE WriteKeyFile(p)
  BY <1>0, <1>11, WriteKeyTyped, IdleOK DEF Same
<1>12. CASE LoadKey(p)
  BY <1>0, <1>12, LoadKeyTyped, IdleOK DEF Same
<1>13. ASSUME NEW s \in {"pass", "ftp"}, EncryptSecret(p, s)
       PROVE  /\ Moved(p) /\ UNCHANGED now /\ op[p].kind # "none"
              /\ op'[p].kind \in {op[p].kind, "none"} /\ (db.users => db'.users)
  BY <1>0, <1>13, EncryptTyped
<1>14. ASSUME NEW s \in {"pass", "ftp"}, CheckSecret(p, s)
       PROVE  /\ Moved(p) /\ UNCHANGED now /\ op[p].kind # "none"
              /\ op'[p].kind \in {op[p].kind, "none"} /\ (db.users => db'.users)
  BY <1>0, <1>14, CheckTyped, IdleOK DEF dataVars
<1>15. CASE StoreSecret(p)
  BY <1>0, <1>15, StoreSecretTyped, IdleOK
<1>16. CASE SaveField(p)
  BY <1>0, <1>16, SaveFieldTyped, IdleOK
<1> QED BY <1>2, <1>3, <1>4, <1>5, <1>6, <1>7, <1>8, <1>9, <1>10, <1>11, <1>12, <1>13, <1>14, <1>15, <1>16
        DEF BackupStep

(* A request that starts behind the gate. *)
LEMMA StartFrame ==
    ASSUME Typed, NEW p \in Procs, BackupStart(p)
    PROVE  /\ Moved(p) /\ UNCHANGED dataVars /\ op'[p].kind \notin {"none", "run", "apply"}
           /\ op[p] = Idle
BY CreateTyped, DeleteTyped, RestoreTyped, RestoreArchiveTyped, SaveTyped DEF BackupStart

-----------------------------------------------------------------------------
(* The start, and the properties *)

(* The invariant holds at the start. *)
LEMMA BackupStarts ==
    ASSUME BackupInit
    PROVE  BInv
<1> USE DEF BackupInit
<1>1. PICK u \in BOOLEAN, t \in FirstSecrets : db = [EmptyDB EXCEPT !.users = u, !.secret = t]
  OBVIOUS
<1>2. /\ db \in DBType /\ db.users = u /\ db.secret = t /\ db.rows = {}
      /\ db.done = FALSE /\ db.sched.enabled = FALSE
  <2>1. t \in [{"pass", "ftp"} -> SecretType]
    BY BackupAssumption
  <2>2. EmptyDB.done = FALSE /\ EmptyDB.sched.enabled = FALSE
    BY DEF EmptyDB, defaultSchedule
  <2> QED BY <1>1, <2>1, <2>2, DefaultsOK DEF DBType
<1>3. \A p \in Procs : op[p] = Idle
  OBVIOUS
<1>4. \A p \in Procs : /\ op[p].kind = "none" /\ op[p].pc = "idle" /\ op[p].todo = {}
                       /\ op[p].pkg.db.rows = {} /\ ~Whole(op[p])
  BY <1>3, IdleOK, DefaultsOK DEF Whole, RestorePCs
<1>5. ProcsOK
  BY <1>3, IdleOK DEF ProcsOK
<1>6. files \in [Storages -> [Names -> PackageType \union {NoPkg}]] /\ \A s \in Storages, n \in Names : files[s][n] = NoPkg
  OBVIOUS
<1>7. DataOK
  <2>1. now \in 1..MaxTime /\ 0 \in Names
    BY BackupAssumption DEF Names
  <2>2. fresh \in [Storages -> RowType \union {NoArchive}]
    OBVIOUS
  <2>3. keyFile \in Keys /\ keystore \in Keys
    BY BackupAssumption
  <2> QED BY <1>2, <1>6, <2>1, <2>2, <2>3 DEF DataOK
<1>8. Packages = Foreign
  <2>1. Stored = {}
    BY <1>6 DEF Stored
  <2>2. Carried = {}
    BY <1>4 DEF Carried
  <2> QED BY <2>1, <2>2 DEF Packages
<1>9. OneRun /\ HasUsers
  BY <1>2, <1>4, <1>8, BackupAssumption DEF OneRun, HasUsers
<1>10. Pairing
  <2>1. Paired(keystore, db)
    BY <1>2, BackupAssumption DEF Paired
  <2>2. \A g \in Packages : Paired(g.key, g.db)
    BY <1>8, BackupAssumption
  <2>3. \A q \in Procs : ~MidRestore(q) /\ ~MidCreate(q) /\ ~MidSave(q)
    BY <1>4 DEF MidRestore, MidCreate, MidSave
  <2> QED BY <2>1, <2>2, <2>3 DEF Pairing
<1>11. Archives
  <2>1. \A r \in RowsAnywhere : r.name <= lastName
    BY <1>2, <1>4, <1>8, BackupAssumption DEF RowsAnywhere
  <2>2. RowsOK
    BY <1>2, <1>4, <2>1 DEF RowsOK
  <2>3. NameNew /\ Newest /\ Spared
    BY <1>4 DEF NameNew, Newest, Spared, Pruning
  <2> QED BY <2>2, <2>3 DEF Archives
<1> QED BY <1>5, <1>7, <1>9, <1>10, <1>11 DEF BInv, Typed

(* The invariant implies that the key follows the database. *)
LEMMA PairingIsEnough ==
    ASSUME BInv
    PROVE  KeyFollowsDatabase
<1> SUFFICES ASSUME ~torn PROVE KeyFollowsDatabase
  BY DEF KeyFollowsDatabase
<1>1. \A g \in Packages : Paired(g.key, g.db)
  BY DEF BInv, Pairing
<1>2. \A g \in held : Paired(g.key, g.db)
  BY <1>1 DEF Packages
<1>3. \A s \in Storages, n \in Names : files[s][n] # NoPkg => Paired(files[s][n].key, files[s][n].db)
  BY <1>1 DEF Packages, Stored
<1>4. (\A p \in Procs : ~MidRestore(p)) => keyFile = keystore /\ Paired(keystore, db)
  BY DEF BInv, Pairing, Calm
<1> QED BY <1>2, <1>3, <1>4 DEF KeyFollowsDatabase

(* The invariant implies that the newest archive is kept. *)
LEMMA NewestIsEnough ==
    ASSUME BInv
    PROVE  NewestArchiveKept
BY DEF BInv, Archives, Newest, NewestArchiveKept

(* The newest archive of a storage is in the table, so the scheduler looks *)
(* at its time.                                                            *)
LEMMA RunIsSpaced ==
    ASSUME BInv, StartRun(Sched), NEW s \in Storages, fresh[s] # NoArchive
    PROVE  now - fresh[s].at >= normalizeBackupScheduleSettings(db.sched).interval
<1>1. fresh[s] \in db.rows /\ fresh[s].at # 0
  BY BackupAssumption DEF BInv, Archives, Newest, Typed, DataOK, RowType, DBType
<1>2. fresh[s].at \in LastRuns
  BY <1>1 DEF LastRuns
<1> QED BY <1>2 DEF StartRun
=============================================================================
