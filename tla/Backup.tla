------------------------------- MODULE Backup -------------------------------
(***************************************************************************)
(* Backup packages, their schedule and archives, and restore               *)
(* (internal/app/backup.go, backup_schedule.go, the archive and snapshot   *)
(* calls of internal/store/store.go, the handlers of internal/api).        *)
(*                                                                         *)
(* A package holds a copy of the database and the key file that decrypts   *)
(* the secrets in it.  A step is one store call, one access to the key     *)
(* file or to an archive, or one assignment of Service.keystore; nothing   *)
(* but backupRunMu, which serialises scheduled runs, keeps two requests    *)
(* apart.  The database is reduced to what these operations read: whether  *)
(* it has users, the setup marker, the schedule, two secrets, the archive  *)
(* rows and the time of the last run.                                      *)
(***************************************************************************)
EXTENDS Integers, FiniteSets, Sequences

CONSTANTS
    Reqs,         \* handlers in flight
    Sched,        \* the goroutine of StartBackupScheduler
    Keys,         \* contents of the key file
    FirstKey,
    Phrases,      \* backup passphrases
    Foreign,      \* packages brought from elsewhere
    Schedules,    \* schedules an administrator asks for
    FirstSecrets, \* secrets stored at the start
    Ops,          \* what the handlers do
    MaxInterval,  \* 168 hours
    DefaultKeep, MaxKeep,  \* 10 and 1000 archives
    MaxTime, MaxIds, MaxNames, MaxHeld,  \* bounds
    MaxStarts,    \* bound: requests that start
    MaxFaults     \* bound: calls that fail and restarts

Procs == Reqs \union {Sched}
Storages == {"local", "ftp"}

(* The name of an archive is the second it was made in; 0 stands for the   *)
(* seconds before this installation's first run.                           *)
Names == 0..MaxNames

VARIABLES
    db,        \* the database
    keyFile,   \* the file at SecretKeyPath
    keystore,  \* Service.keystore
    files,     \* archives, by storage and name (external)
    held,      \* packages an administrator has downloaded
    op,        \* handlers and the scheduler
    now,
    ids,       \* AUTOINCREMENT of backup_archives
    lastName,  \* the last archive name used
    faults, starts,
    fresh,     \* history: the newest archive of a storage
    torn       \* history: a restore was cut short or overlapped

backupVars == <<db, keyFile, keystore, files, held, op, now, ids, lastName, faults, starts, fresh, torn>>

(* backup.local and backup.ftp, in the order they are written. *)
Fields == <<"enabled", "interval", "keep", "local", "ftp">>
ScheduleType ==
    [enabled: BOOLEAN, interval: Nat, keep: Nat, local: BOOLEAN, ftp: BOOLEAN]

NoSecret == [val |-> "none", key |-> "none"]
SecretType == [val: Phrases, key: Keys] \union {NoSecret}
RowType == [id: Nat \ {0}, store: Storages, name: Names, at: 1..MaxTime]
DBType ==
    [users: BOOLEAN, done: BOOLEAN, sched: ScheduleType, last: 0..MaxTime,
     secret: [{"pass", "ftp"} -> SecretType], rows: SUBSET RowType]

defaultSchedule ==
    [enabled |-> FALSE, interval |-> 1, keep |-> DefaultKeep, local |-> TRUE, ftp |-> FALSE]

EmptyDB == [users |-> FALSE, done |-> FALSE, sched |-> defaultSchedule, last |-> 0,
            secret |-> [s \in {"pass", "ftp"} |-> NoSecret], rows |-> {}]

NoPkg == [db |-> EmptyDB, key |-> "none", pass |-> "none"]
PackageType == [db: DBType, key: Keys, pass: Phrases]

(* The package decrypts its own secrets. *)
Paired(k, d) == \A s \in {"pass", "ftp"} : d.secret[s] # NoSecret => d.secret[s].key = k

ASSUME BackupAssumption ==
    /\ Sched \notin Reqs /\ FirstKey \in Keys
    /\ "none" \notin Keys \union Phrases
    /\ Foreign \subseteq PackageType
    /\ \A g \in Foreign :
          /\ g.db.users /\ Paired(g.key, g.db)
          /\ \A r \in g.db.rows : r.name = 0 /\ r.at = 1
    /\ Schedules \subseteq [enabled: BOOLEAN, interval: Int, keep: Int, local: BOOLEAN, ftp: BOOLEAN]
    /\ FirstSecrets \subseteq [{"pass", "ftp"} -> SecretType]
    /\ \A s \in FirstSecrets : \A n \in {"pass", "ftp"} : s[n] # NoSecret => s[n].key = FirstKey
    /\ MaxInterval \in Nat \ {0} /\ DefaultKeep \in Nat \ {0} /\ MaxKeep \in Nat \ {0}
    /\ DefaultKeep <= MaxKeep
    /\ MaxTime \in Nat \ {0} /\ MaxIds \in Nat /\ MaxNames \in Nat
    /\ MaxHeld \in Nat /\ MaxStarts \in Nat /\ MaxFaults \in Nat

(* A process: what it does, the next call, the package it makes or         *)
(* restores, the secret it has encrypted, the schedule it writes or read,  *)
(* the next field of it, the archive row, the rows left to prune, and the  *)
(* name of the archive (and whether an earlier run already used it).       *)
Idle == [kind |-> "none", pc |-> "idle", pkg |-> NoPkg, enc |-> NoSecret,
         sched |-> defaultSchedule, field |-> 0, row |-> 0, todo |-> {},
         name |-> 0, again |-> FALSE]

NoArchive == [id |-> 0, store |-> "none", name |-> 0, at |-> 0]

BackupInit ==
    /\ \E u \in BOOLEAN, s \in FirstSecrets :
          db = [EmptyDB EXCEPT !.users = u, !.secret = s]
    /\ keyFile = FirstKey /\ keystore = FirstKey
    /\ files = [s \in Storages |-> [n \in Names |-> NoPkg]]
    /\ held = {} /\ op = [p \in Procs |-> Idle]
    /\ now = 1 /\ ids = 0 /\ lastName = 0 /\ faults = 0 /\ starts = 0
    /\ fresh = [s \in Storages |-> NoArchive] /\ torn = FALSE

----------------------------------------------------------------------------
(* Helpers *)

At(p, pc) == op[p].pc = pc
Set(p, me) == op' = [op EXCEPT ![p] = me]
Goto(p, pc) == Set(p, [op[p] EXCEPT !.pc = pc])
End(p) == Set(p, Idle)

(* A call that fails uses up one fault. *)
Works == UNCHANGED faults
Fails == faults < MaxFaults /\ faults' = faults + 1

NewRequest(p, o) ==
    /\ p \in Reqs /\ o \in Ops /\ op[p] = Idle
    /\ starts < MaxStarts /\ starts' = starts + 1

(* Half done: the database is replaced and the key is not; a snapshot is   *)
(* taken and its key not read; a secret is encrypted and not stored.       *)
MidRestore(p) == op[p].pc \in {"write_key", "load_key"}
MidCreate(p) == op[p].pc = "read_key"
MidSave(p) == op[p].pc = "store_secret"

Readable(s) == db.secret[s] # NoSecret /\ db.secret[s].key = keystore

RowsOf(s) == {r \in db.rows : r.store = s}

(* Mutated form: newest first. *)
OldestReversed(s, keep) ==
    {r \in RowsOf(s) : Cardinality({x \in RowsOf(s) : x.id <= r.id}) > keep}

(* ListBackupArchivesByStorageOldestFirst, and items[:len(items)-keep]. *)
Oldest(s, keep) ==
    {r \in RowsOf(s) : Cardinality({x \in RowsOf(s) : x.id >= r.id}) > keep}

normalizeBackupScheduleSettings(in) ==
    [in EXCEPT !.interval = IF @ < 1 THEN 1 ELSE IF @ > MaxInterval THEN MaxInterval ELSE @,
               !.keep = IF @ < 1 THEN DefaultKeep ELSE IF @ > MaxKeep THEN MaxKeep ELSE @]

ValidSchedule(in) == in.local \/ in.ftp

(* Mutated form: the setting alone. *)
LastRunsSetting == {db.last} \ {0}

(* The last run is the latest of these: the setting and the time of the    *)
(* newest archive.                                                         *)
LastRuns == ({db.last} \union {r.at : r \in db.rows}) \ {0}

----------------------------------------------------------------------------
(* Making a package: CreateBackupPackage *)

(* handleBackupCreate: the administrator names a passphrase. *)
StartCreate(p) ==
    /\ NewRequest(p, "create") /\ Cardinality(held) < MaxHeld
    /\ \E w \in Phrases :
          Set(p, [Idle EXCEPT !.kind = "create", !.pc = "vacuum", !.pkg.pass = w])
    /\ UNCHANGED <<db, keyFile, keystore, files, held, now, ids, lastName, faults, fresh, torn>>

(* runScheduledBackup up to CreateBackupPackage, by the scheduler (which   *)
(* keeps the interval) or by RunScheduledBackupNow; backupRunMu is free.   *)
StartRun(p) ==
    LET cfg == normalizeBackupScheduleSettings(db.sched) IN
    /\ IF p = Sched THEN op[p] = Idle /\ UNCHANGED starts ELSE NewRequest(p, "now")
    /\ \A q \in Procs : op[q].kind # "run"
    /\ lastName < MaxNames /\ ids + 2 <= MaxIds
    /\ ValidSchedule(cfg) /\ cfg.enabled
    /\ p = Sched => \A t \in LastRuns : now - t >= cfg.interval
    /\ Readable("pass")
    /\ Set(p, [Idle EXCEPT !.kind = "run", !.pc = "vacuum", !.pkg.pass = db.secret["pass"].val,
                           !.sched = cfg])
    /\ UNCHANGED <<db, keyFile, keystore, files, held, now, ids, lastName, faults, fresh, torn>>

VacuumInto(p) ==
    /\ At(p, "vacuum")
    /\ \/ /\ Works
          /\ Set(p, [op[p] EXCEPT !.pc = "read_key", !.pkg.db = db])
          /\ torn' = (torn \/ \E q \in Procs : MidRestore(q))
       \/ Fails /\ End(p) /\ UNCHANGED torn
    /\ UNCHANGED <<db, keyFile, keystore, files, held, now, ids, lastName, fresh, starts>>

(* The key file is read, the package sealed.  An archive gets the second   *)
(* it is made in as its name.                                              *)
ReadKey(p) ==
    /\ At(p, "read_key")
    /\ LET pkg == [op[p].pkg EXCEPT !.key = keyFile] IN
       \/ /\ Works /\ op[p].kind = "create"
          /\ held' = held \union {pkg} /\ End(p) /\ UNCHANGED lastName
       \/ /\ Works /\ op[p].kind = "run" /\ UNCHANGED held
          /\ \E n \in {lastName, lastName + 1} \intersect (1..MaxNames) :
                /\ Set(p, [op[p] EXCEPT !.pc = "local", !.pkg = pkg, !.name = n, !.again = (n = lastName)])
                /\ lastName' = n
       \/ Fails /\ End(p) /\ UNCHANGED <<held, lastName>>
    /\ UNCHANGED <<db, keyFile, keystore, files, now, ids, fresh, torn, starts>>

----------------------------------------------------------------------------
(* Archives of a run, retention, last run *)

(* persistLocalBackup or uploadBackupViaFTP, then InsertBackupArchive,     *)
(* whose error is ignored.                                                 *)
StoreArchive(p, s) ==
    LET me == op[p]
        row == [id |-> ids + 1, store |-> s, name |-> me.name, at |-> now]
        stored == [files EXCEPT ![s][me.name] = me.pkg]
        known == [fresh EXCEPT ![s] = NoArchive]
    IN
    /\ At(p, s) /\ op[p].kind = "run"
    /\ Goto(p, IF s = "local" THEN "ftp" ELSE "list_local")
    /\ \/ ~me.sched[s] /\ Works /\ UNCHANGED <<db, files, ids, fresh>>
       \/ s = "ftp" /\ ~Readable("ftp") /\ Works /\ UNCHANGED <<db, files, ids, fresh>>
       \/ me.sched[s] /\ Fails /\ UNCHANGED <<db, files, ids, fresh>>
       \/ /\ me.sched[s] /\ (s = "ftp" => Readable("ftp"))
          /\ files' = stored
          /\ \/ /\ Works
                /\ db' = [db EXCEPT !.rows = @ \union {row}]
                /\ ids' = row.id
                /\ fresh' = IF me.again THEN known ELSE [fresh EXCEPT ![s] = row]
             \/ Fails /\ UNCHANGED <<db, ids>> /\ fresh' = IF me.again THEN known ELSE fresh
    /\ UNCHANGED <<keyFile, keystore, held, now, lastName, torn, starts>>

(* The stages of enforceArchiveRetention. *)
Listing(s) == IF s = "local" THEN "list_local" ELSE "list_ftp"
Pruning(s) == IF s = "local" THEN "prune_local" ELSE "prune_ftp"
AfterPrune(s) == IF s = "local" THEN "list_ftp" ELSE "finish"

(* It lists what a storage has too many of ... *)
ListRetention(p, s) ==
    LET over == IF op[p].sched[s] /\ (s = "ftp" => Readable("ftp"))
                THEN Oldest(s, op[p].sched.keep) ELSE {}
    IN
    /\ At(p, Listing(s))
    /\ Set(p, [op[p] EXCEPT !.pc = IF over = {} THEN AfterPrune(s) ELSE Pruning(s), !.todo = over])
    /\ UNCHANGED <<db, keyFile, keystore, files, held, now, ids, lastName, faults, fresh, torn, starts>>

(* ... and removes file and row of each; neither error is looked at. *)
Prune(p, s) ==
    /\ At(p, Pruning(s))
    /\ \E r \in op[p].todo :
       LET left == op[p].todo \ {r}
           gone == [files EXCEPT ![s][r.name] = NoPkg]
           unlisted == [db EXCEPT !.rows = {x \in @ : x.id # r.id}]
       IN
       /\ \A y \in left : r.id <= y.id
       /\ Set(p, [op[p] EXCEPT !.pc = IF left = {} THEN AfterPrune(s) ELSE @, !.todo = left])
       /\ \/ Works /\ files' = gone /\ db' = unlisted
          \/ Fails /\ UNCHANGED files /\ db' = unlisted
          \/ Fails /\ files' = gone /\ UNCHANGED db
    /\ UNCHANGED <<keyFile, keystore, held, now, ids, lastName, fresh, torn, starts>>

(* runtime.backup.last_run is written whether or not a target worked. *)
FinishRun(p) ==
    /\ At(p, "finish") /\ End(p)
    /\ \/ Works /\ db' = [db EXCEPT !.last = now]
       \/ Fails /\ UNCHANGED db
    /\ UNCHANGED <<keyFile, keystore, files, held, now, ids, lastName, fresh, torn, starts>>

(* DeleteBackupArchive: the row is read, then the archive is removed (an   *)
(* FTP archive only if the password is readable), then the row.            *)
StartDelete(p) ==
    /\ NewRequest(p, "delete")
    /\ \E r \in db.rows : Set(p, [Idle EXCEPT !.kind = "delete", !.pc = "remove", !.todo = {r}])
    /\ UNCHANGED <<db, keyFile, keystore, files, held, now, ids, lastName, faults, fresh, torn>>

RemoveArchive(p) ==
    /\ At(p, "remove")
    /\ \E r \in op[p].todo :
          /\ \/ /\ Works
                /\ files' = IF r.store = "ftp" /\ ~Readable("ftp") THEN files
                            ELSE [files EXCEPT ![r.store][r.name] = NoPkg]
             \/ Fails /\ UNCHANGED files
          /\ fresh' = [fresh EXCEPT ![r.store] = IF @.id = r.id THEN NoArchive ELSE @]
    /\ Goto(p, "delete_row")
    /\ UNCHANGED <<db, keyFile, keystore, held, now, ids, lastName, torn, starts>>

DeleteRow(p) ==
    /\ At(p, "delete_row") /\ End(p)
    /\ \/ Works /\ \E r \in op[p].todo : db' = [db EXCEPT !.rows = {x \in @ : x.id # r.id}]
       \/ Fails /\ UNCHANGED db
    /\ UNCHANGED <<keyFile, keystore, files, held, now, ids, lastName, fresh, torn, starts>>

----------------------------------------------------------------------------
(* Restore *)

(* RestoreFromBackupPackage with the package and passphrase of the upload. *)
StartRestore(p) ==
    /\ NewRequest(p, "restore")
    /\ \E g \in held \union Foreign :
          Set(p, [Idle EXCEPT !.kind = "restore", !.pc = "restore_db", !.pkg = g])
    /\ UNCHANGED <<db, keyFile, keystore, files, held, now, ids, lastName, faults, fresh, torn>>

(* RestoreBackupArchive: the archive is opened with the passphrase that is *)
(* stored now, not with the one it was made with.                          *)
StartRestoreArchive(p) ==
    /\ NewRequest(p, "restore") /\ Readable("pass")
    /\ \E r \in db.rows :
          /\ r.store = "ftp" => ValidSchedule(db.sched) /\ Readable("ftp")
          /\ files[r.store][r.name] # NoPkg
          /\ files[r.store][r.name].pass = db.secret["pass"].val
          /\ Set(p, [Idle EXCEPT !.kind = "restore", !.pc = "restore_db",
                                 !.pkg = files[r.store][r.name]])
    /\ UNCHANGED <<db, keyFile, keystore, files, held, now, ids, lastName, faults, fresh, torn>>

(* RestoreFromSnapshot: one transaction replaces every table.  Rows that   *)
(* come with their ids move the AUTOINCREMENT on, never back.              *)
RestoreFromSnapshot(p) ==
    /\ At(p, "restore_db")
    /\ \/ /\ Works
          /\ db' = op[p].pkg.db
          /\ ids' \in {n \in {ids} \union {r.id : r \in db'.rows} :
                          ids <= n /\ \A r \in db'.rows : r.id <= n}
          /\ Goto(p, "write_key")
          /\ fresh' = [s \in Storages |-> NoArchive]
          /\ torn' = (torn \/ \E q \in Procs \ {p} : MidRestore(q) \/ MidCreate(q) \/ MidSave(q))
       \/ Fails /\ End(p) /\ UNCHANGED <<db, ids, fresh, torn>>
    /\ UNCHANGED <<keyFile, keystore, files, held, now, lastName, starts>>

WriteKeyFile(p) ==
    /\ At(p, "write_key")
    /\ \/ Works /\ keyFile' = op[p].pkg.key /\ Goto(p, "load_key") /\ UNCHANGED torn
       \/ Fails /\ End(p) /\ torn' = TRUE /\ UNCHANGED keyFile
    /\ UNCHANGED <<db, keystore, files, held, now, ids, lastName, fresh, starts>>

(* Mutated form: the service goes on with the key it started with. *)
KeepKeystore == keystore

(* LoadOrCreateKey reads the file that is there. *)
LoadOrCreateKey == keyFile

LoadKey(p) ==
    /\ At(p, "load_key")
    /\ \/ /\ Works /\ keystore' = LoadOrCreateKey /\ UNCHANGED torn
          /\ IF op[p].kind = "apply" THEN Goto(p, "admin") ELSE End(p)
       \/ Fails /\ End(p) /\ torn' = TRUE /\ UNCHANGED keystore
    /\ UNCHANGED <<db, keyFile, files, held, now, ids, lastName, fresh, starts>>

----------------------------------------------------------------------------
(* SetBackupScheduleSettings: a passphrase or an FTP password is encrypted *)
(* and stored first, then the schedule, setting by setting                 *)

StartSave(p) ==
    /\ NewRequest(p, "save")
    /\ \E in \in Schedules : ValidSchedule(in) /\
          Set(p, [Idle EXCEPT !.kind = "save", !.pc = "pass",
                             !.sched = normalizeBackupScheduleSettings(in)])
    /\ UNCHANGED <<db, keyFile, keystore, files, held, now, ids, lastName, faults, fresh, torn>>

EncryptSecret(p, s) ==
    /\ At(p, s) /\ op[p].kind = "save"
    /\ \E w \in Phrases :
          Set(p, [op[p] EXCEPT !.pc = "store_secret", !.enc = [val |-> w, key |-> keystore],
                              !.row = IF s = "pass" THEN 0 ELSE 1])
    /\ torn' = (torn \/ \E q \in Procs : MidRestore(q))
    /\ UNCHANGED <<db, keyFile, keystore, files, held, now, ids, lastName, faults, fresh, starts>>

StoreSecret(p) ==
    LET s == IF op[p].row = 0 THEN "pass" ELSE "ftp" IN
    /\ At(p, "store_secret")
    /\ \/ Works /\ db' = [db EXCEPT !.secret[s] = op[p].enc]
          /\ Set(p, [op[p] EXCEPT !.pc = IF s = "pass" THEN "check_pass" ELSE "check_ftp", !.enc = NoSecret])
       \/ Fails /\ End(p) /\ UNCHANGED db
    /\ UNCHANGED <<keyFile, keystore, files, held, now, ids, lastName, fresh, torn, starts>>

(* An enabled schedule needs a readable passphrase, FTP a readable         *)
(* password, whether stored now (or just before) or long ago.              *)
CheckSecret(p, s) ==
    LET needed == IF s = "pass" THEN op[p].sched.enabled ELSE op[p].sched.ftp IN
    /\ op[p].kind = "save"
    /\ op[p].pc \in (IF s = "pass" THEN {"pass", "check_pass"} ELSE {"ftp", "check_ftp"})
    /\ IF needed /\ ~Readable(s) THEN End(p)
       ELSE Set(p, [op[p] EXCEPT !.pc = IF s = "pass" THEN "ftp" ELSE "fields", !.field = 1])
    /\ UNCHANGED <<db, keyFile, keystore, files, held, now, ids, lastName, faults, fresh, torn, starts>>

SaveField(p) ==
    LET f == Fields[op[p].field] IN
    /\ At(p, "fields")
    /\ \/ /\ Works /\ db' = [db EXCEPT !.sched[f] = op[p].sched[f]]
          /\ IF op[p].field = Len(Fields) THEN End(p) ELSE Set(p, [op[p] EXCEPT !.field = @ + 1])
       \/ Fails /\ End(p) /\ UNCHANGED db
    /\ UNCHANGED <<keyFile, keystore, files, held, now, ids, lastName, fresh, torn, starts>>

----------------------------------------------------------------------------

(* The calls of a request that has passed the setup gate, or of the        *)
(* scheduler.                                                              *)
BackupStart(p) ==
    \/ StartCreate(p) \/ StartDelete(p) \/ StartRestore(p) \/ StartRestoreArchive(p) \/ StartSave(p)

BackupStep(p) ==
    \/ VacuumInto(p) \/ ReadKey(p) \/ FinishRun(p)
    \/ \E s \in Storages : StoreArchive(p, s) \/ ListRetention(p, s) \/ Prune(p, s)
    \/ RemoveArchive(p) \/ DeleteRow(p)
    \/ RestoreFromSnapshot(p) \/ WriteKeyFile(p) \/ LoadKey(p)
    \/ \E s \in {"pass", "ftp"} : EncryptSecret(p, s) \/ CheckSecret(p, s)
    \/ StoreSecret(p) \/ SaveField(p)

(* The process ends and is started again: memory is lost. *)
BackupRestart ==
    /\ Fails
    /\ op' = [p \in Procs |-> Idle] /\ keystore' = LoadOrCreateKey
    /\ torn' = (torn \/ \E p \in Procs : MidRestore(p))
    /\ UNCHANGED <<db, keyFile, files, held, now, ids, lastName, fresh, starts>>

Tick ==
    /\ now < MaxTime /\ now' = now + 1
    /\ UNCHANGED <<db, keyFile, keystore, files, held, op, ids, lastName, faults, fresh, torn, starts>>

----------------------------------------------------------------------------
(* Properties *)

(* As long as no restore overlapped another restore, a running backup or   *)
(* a secret being stored, and none was cut short: once no restore is under *)
(* way the database's secrets decrypt under the key file and under the key *)
(* in memory, and every package, listed or downloaded, decrypts its own.   *)
(* applyBackupSnapshot changes the three one after the other, and          *)
(* CreateBackupPackage reads two of them one after the other.              *)
KeyFollowsDatabase ==
    ~torn =>
        /\ (\A p \in Procs : ~MidRestore(p)) => keyFile = keystore /\ Paired(keystore, db)
        /\ \A g \in held : Paired(g.key, g.db)
        /\ \A s \in Storages, n \in Names :
              files[s][n] # NoPkg => Paired(files[s][n].key, files[s][n].db)

(* Retention (enforceArchiveRetention) never takes the newest archive:     *)
(* until an administrator deletes it or a restore replaces the table, it   *)
(* is listed and its file is there, unless a second run in the same second *)
(* wrote over it.                                                          *)
NewestArchiveKept ==
    \A s \in Storages : fresh[s] # NoArchive =>
        fresh[s] \in db.rows /\ files[s][fresh[s].name] # NoPkg

(* "interval enforcement still works and prevents minute-spam backups"     *)
(* (backup_schedule.go:435): the scheduler starts a run only an interval   *)
(* after the newest archive, even if the time of the last run could not be *)
(* stored.                                                                 *)
RunsSpaced ==
    [][op[Sched] = Idle /\ op'[Sched].kind = "run"
          => \A s \in Storages : fresh[s] # NoArchive =>
                now - fresh[s].at >= normalizeBackupScheduleSettings(db.sched).interval]_backupVars
=============================================================================
