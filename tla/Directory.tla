----------------------------- MODULE Directory -----------------------------
(***************************************************************************)
(* Accounts that come from outside (internal/auth/auth.go and ldap.go,     *)
(* internal/app/ldap_sync.go, the account calls of app/service.go and      *)
(* store/store.go): what a login flow leads to for local, directory (LDAP) *)
(* and OpenID Connect users, the shadow rows of directory users, the queue *)
(* of deletions to carry out in the directory, and the synchronisation     *)
(* pass that runs every 30 minutes.                                        *)
(*                                                                         *)
(* A store call is one step, and so is one exchange with the directory.    *)
(* Whether a password is right is chosen when it is checked; the lockout,  *)
(* the second factor and the source policy, modelled in Auth, are a        *)
(* refusal that may come at any time.                                      *)
(***************************************************************************)
EXTENDS LoginFlow

CONSTANTS
    Roles,       \* the roles in play
    GroupSets,   \* the sets of mapped groups a person may be in
    Posix,       \* names the groups list by memberUid, the others by DN
    MaxIds,      \* bounds: users rows created,
    MaxEvents    \* deletions, changes in the directory, faults

ASSUME DirectoryAssumption ==
    /\ Roles \subseteq {"admin", "domain-admin", "read-only"}
    /\ GroupSets \subseteq SUBSET Roles /\ Posix \subseteq Names
    /\ MaxIds \in Nat /\ MaxEvents \in Nat

VARIABLES
    users,     \* by name: id (0 for none), provider, role
    ids,       \* AUTOINCREMENT of users
    sessions,  \* with the provider that vouched for each
    dir,       \* the directory (external): is there an entry, in which groups
    queue,     \* ldap_delete_queue
    sync,      \* the goroutine of StartLDAPUserSync
    events     \* administrators' deletions, changes in the directory, faults

vars == <<flowVars, users, ids, sessions, dir, queue, sync, events>>
flowsOnly == <<login, oidc, drawn>>

NoUser == [id |-> 0, prov |-> "none", role |-> "none"]
Providers == {"local", "ldap", "oidc"}

(* remote: the names the pass was given; shadows: the rows it removes;     *)
(* names: the queue it works through, cur the one in hand.                 *)
Asleep == [pc |-> "idle", remote |-> {}, shadows |-> {}, names |-> {}, cur |-> "none"]

Init ==
    /\ LoginFlowInit
    /\ users = [n \in Names |-> NoUser] /\ ids = 0
    /\ sessions = {} /\ queue = {}
    /\ dir \in [Names -> [entry: BOOLEAN, groups: GroupSets]]
    /\ sync = Asleep
    /\ events = 0

Happens == events < MaxEvents /\ events' = events + 1

(* A call that returns, and one that fails. *)
Works == UNCHANGED events
Fails == Happens

(* The highest role of a set of groups: ldapAuthenticate, ResolveOIDCRole. *)
roleOf(groups) ==
    CASE "admin" \in groups -> "admin"
      [] "domain-admin" \in groups -> "domain-admin"
      [] "read-only" \in groups -> "read-only"
      [] OTHER -> "none"

----------------------------------------------------------------------------
(* AuthenticatePassword and AuthenticateExternal *)

LoginExchange(r) ==
    /\ \E n \in Names, g \in GroupSets : ExchangeCode(r, n, roleOf(g))
    /\ UNCHANGED <<users, ids, sessions, dir, queue, sync, events>>

(* The lock, the second factor, the source policy, or a wrong password. *)
LoginRefused(r) ==
    /\ req[r].pc \in {"find", "bind", "upsert", "session"} /\ End(r)
    /\ UNCHANGED <<flowsOnly, users, ids, sessions, dir, queue, sync, events>>

(* From here on only the name is left of the flow. *)
Checked(r, pc, id, via) ==
    req' = [req EXCEPT ![r] = [Idle EXCEPT !.pc = pc, !.name = req[r].name, !.user = id, !.via = via]]

(* The row decides who is asked; one of OpenID Connect has no password. *)
LoginFindUser(r) ==
    LET u == users[req[r].name] IN
    /\ At(r, "find")
    /\ CASE u.prov = "oidc" -> End(r)
         [] u.prov = "local" -> Checked(r, "session", u.id, "local")
         [] OTHER -> Checked(r, "bind", u.id, "ldap")
    /\ UNCHANGED <<flowsOnly, users, ids, sessions, dir, queue, sync, events>>

(* ldapAuthenticate with the right password. *)
LoginBind(r) ==
    LET e == dir[req[r].name] IN
    /\ At(r, "bind")
    /\ IF e.entry /\ roleOf(e.groups) # "none"
       THEN req' = [req EXCEPT ![r].pc = "upsert", ![r].role = roleOf(e.groups)]
       ELSE End(r)
    /\ UNCHANGED <<flowsOnly, users, ids, sessions, dir, queue, sync, events>>

(* Mutated form: the row is taken over whoever it belongs to. *)
mayUpdateAny(u, prov) == u # NoUser

mayUpdate(u, prov) == u.prov = prov

(* UpsertExternalUser: one transaction.  A directory user without a row    *)
(* gets one here, but AuthenticatePassword then returns the error of its   *)
(* first lookup: the login succeeds only the next time.                    *)
LoginUpsert(r) ==
    LET n == req[r].name
        u == users[n]
        first == req[r].via = "ldap" /\ req[r].user = 0 IN
    /\ At(r, "upsert")
    /\ \/ /\ u = NoUser /\ ids < MaxIds
          /\ ids' = ids + 1
          /\ users' = [users EXCEPT ![n] = [id |-> ids + 1, prov |-> req[r].via, role |-> req[r].role]]
          /\ IF first THEN End(r) ELSE Checked(r, "session", ids + 1, req[r].via)
       \/ /\ u # NoUser /\ mayUpdate(u, req[r].via)
          /\ users' = [users EXCEPT ![n].role = req[r].role]
          /\ IF first THEN End(r) ELSE Checked(r, "session", u.id, req[r].via)
          /\ UNCHANGED ids
       \/ u # NoUser /\ ~mayUpdate(u, req[r].via) /\ End(r) /\ UNCHANGED <<users, ids>>
    /\ UNCHANGED <<flowsOnly, sessions, dir, queue, sync, events>>

(* CreateSession; the foreign key refuses a user that is gone. *)
LoginCreateSession(r) ==
    LET q == req[r] IN
    /\ At(r, "session") /\ End(r)
    /\ sessions' = IF users[q.name].id = q.user
                   THEN sessions \union {[user |-> q.user, name |-> q.name, via |-> q.via]}
                   ELSE sessions
    /\ UNCHANGED <<flowsOnly, users, ids, dir, queue, sync, events>>

----------------------------------------------------------------------------
(* Administrators *)

(* CreateManagedUser: a local account; the name must be free. *)
CreateUser(n, role) ==
    /\ users[n] = NoUser /\ ids < MaxIds
    /\ ids' = ids + 1
    /\ users' = [users EXCEPT ![n] = [id |-> ids + 1, prov |-> "local", role |-> role]]
    /\ UNCHANGED <<flowVars, sessions, dir, queue, sync, events>>

(* DELETE FROM users WHERE id; its sessions go with it. *)
DeleteRow(id) ==
    /\ users' = [n \in Names |-> IF users[n].id = id THEN NoUser ELSE users[n]]
    /\ sessions' = {s \in sessions : s.user # id}

(* DeleteManagedUser: a directory user is queued, then the row goes. *)
DeleteReadUser(r, n) ==
    /\ At(r, "idle") /\ users[n] # NoUser /\ Happens
    /\ req' = [req EXCEPT ![r] = [Idle EXCEPT !.name = n, !.user = users[n].id,
                 !.pc = IF users[n].prov = "ldap" THEN "enqueue" ELSE "delete"]]
    /\ UNCHANGED <<flowsOnly, users, ids, sessions, dir, queue, sync>>

EnqueueLDAPDelete(r) ==
    /\ At(r, "enqueue")
    /\ \/ Works /\ queue' = queue \union {req[r].name} /\ Goto(r, "delete")
       \/ Fails /\ End(r) /\ UNCHANGED queue
    /\ UNCHANGED <<flowsOnly, users, ids, sessions, dir, sync>>

DeleteUser(r) ==
    /\ At(r, "delete") /\ End(r)
    /\ \/ Works /\ DeleteRow(req[r].user)
       \/ Fails /\ UNCHANGED <<users, sessions>>
    /\ UNCHANGED <<flowsOnly, ids, dir, queue, sync>>

(* The directory's own administrators (external). *)
ChangeDirectory(n) ==
    /\ Happens
    /\ \E e \in [entry: BOOLEAN, groups: GroupSets] :
          e # dir[n] /\ dir' = [dir EXCEPT ![n] = e]
    /\ UNCHANGED <<flowVars, users, ids, sessions, queue, sync>>

----------------------------------------------------------------------------
(* syncLDAPUsersOnce *)

syncOnly == <<flowVars, ids>>

(* What listLDAPMappedUsers finds: a memberUid as it stands, a DN only if  *)
(* it can be looked up.                                                    *)
Listed(n) == dir[n].groups # {} /\ (n \in Posix \/ dir[n].entry)

(* A search that fails ends the pass; a lookup that fails is an absence. *)
SyncList ==
    /\ sync.pc = "idle"
    /\ \/ Works /\ sync' = [Asleep EXCEPT !.pc = "users", !.remote = {n \in Names : Listed(n)}]
       \/ /\ Fails
          /\ \E lost \in SUBSET (Names \ Posix) :
                sync' = [Asleep EXCEPT !.pc = "users", !.remote = {n \in Names : Listed(n)} \ lost]
       \/ Fails /\ UNCHANGED sync
    /\ UNCHANGED <<syncOnly, users, sessions, dir, queue>>

(* ListUsers: the shadow rows that the directory no longer lists. *)
SyncListUsers ==
    /\ sync.pc = "users"
    /\ \/ /\ Works
          /\ sync' = [sync EXCEPT !.pc = "shadows", !.remote = {},
                        !.shadows = {[id |-> users[n].id, name |-> n] :
                            n \in {m \in Names : users[m].prov = "ldap" /\ m \notin sync.remote}}]
       \/ Fails /\ sync' = Asleep
    /\ UNCHANGED <<syncOnly, users, sessions, dir, queue>>

(* Mutated form: the user is signed out and keeps the row. *)
RemoveSessionsOnly(u) == sessions' = {s \in sessions : s.user # u.id} /\ UNCHANGED users

(* Mutated form: the row is found again by its name. *)
RemoveByName(u) == DeleteRow(users[u.name].id)

RemoveShadow(u) == DeleteRow(u.id)

SyncRemoveShadow(u) ==
    /\ sync.pc = "shadows" /\ u \in sync.shadows
    /\ \/ Works /\ RemoveShadow(u)
       \/ Fails /\ UNCHANGED <<users, sessions>>
    /\ sync' = [sync EXCEPT !.shadows = @ \ {u}]
    /\ UNCHANGED <<syncOnly, dir, queue>>

SyncListQueue ==
    /\ sync.pc = "shadows" /\ sync.shadows = {}
    /\ \/ Works /\ sync' = [sync EXCEPT !.pc = "queue", !.names = queue]
       \/ Fails /\ sync' = Asleep
    /\ UNCHANGED <<syncOnly, users, sessions, dir, queue>>

(* Mutated form: a name that is not found waits for the next pass. *)
afterSearchKeep(n) == IF dir[n].entry THEN "del" ELSE "queue"

afterSearch(n) == IF dir[n].entry THEN "del" ELSE "drop"

(* findLDAPUserDN; an error is noted in the row, which stays. *)
SyncFind(n) ==
    /\ sync.pc = "queue" /\ n \in sync.names
    /\ \/ Works /\ sync' = [sync EXCEPT !.pc = afterSearch(n), !.cur = n, !.names = @ \ {n}]
       \/ Fails /\ sync' = [sync EXCEPT !.names = @ \ {n}]
    /\ UNCHANGED <<syncOnly, users, sessions, dir, queue>>

(* A deletion of an entry that has gone meanwhile is an error too. *)
SyncDelEntry ==
    /\ sync.pc = "del"
    /\ \/ /\ Works /\ dir[sync.cur].entry
          /\ dir' = [dir EXCEPT ![sync.cur].entry = FALSE] /\ sync' = [sync EXCEPT !.pc = "drop"]
       \/ /\ ~dir[sync.cur].entry /\ Works
          /\ sync' = [sync EXCEPT !.pc = "queue", !.cur = "none"] /\ UNCHANGED dir
       \/ Fails /\ sync' = [sync EXCEPT !.pc = "queue", !.cur = "none"] /\ UNCHANGED dir
    /\ UNCHANGED <<syncOnly, users, sessions, queue>>

(* RemoveLDAPDeleteQueue; its error is ignored. *)
SyncDequeue ==
    /\ sync.pc = "drop"
    /\ \/ Works /\ queue' = queue \ {sync.cur}
       \/ Fails /\ UNCHANGED queue
    /\ sync' = [sync EXCEPT !.pc = "queue", !.cur = "none"]
    /\ UNCHANGED <<syncOnly, users, sessions, dir>>

SyncEnd ==
    /\ sync.pc = "queue" /\ sync.names = {}
    /\ sync' = Asleep
    /\ UNCHANGED <<syncOnly, users, sessions, dir, queue, events>>

SyncStep ==
    \/ SyncList \/ SyncListUsers \/ SyncListQueue \/ SyncDelEntry \/ SyncDequeue \/ SyncEnd
    \/ \E u \in sync.shadows : SyncRemoveShadow(u)
    \/ \E n \in sync.names : SyncFind(n)

----------------------------------------------------------------------------

Restart ==
    /\ LoginFlowRestart /\ sync' = Asleep /\ Fails
    /\ UNCHANGED <<users, ids, sessions, dir, queue>>

AccountStep ==
    \/ \E r \in Reqs : \/ LoginExchange(r) \/ LoginRefused(r) \/ LoginFindUser(r) \/ LoginBind(r)
                       \/ LoginUpsert(r) \/ LoginCreateSession(r)
                       \/ EnqueueLDAPDelete(r) \/ DeleteUser(r)
    \/ \E r \in Reqs, n \in Names : DeleteReadUser(r, n)
    \/ \E n \in Names, role \in Roles : CreateUser(n, role)

Next ==
    \/ LoginFlowStep /\ UNCHANGED <<users, ids, sessions, dir, queue, sync, events>>
    \/ AccountStep \/ SyncStep \/ Restart
    \/ \E n \in Names : ChangeDirectory(n)

(* The pass runs on a ticker for as long as the process does. *)
Spec == Init /\ [][Next]_vars /\ WF_vars(SyncStep)

----------------------------------------------------------------------------
(* Properties *)

(* The shape of the variables. *)
TypeOK ==
    /\ \A t \in Tokens : login[t].stage \in {"none", "password", "otp"} /\ oidc[t].stage \in {"none", "oidc"}
    /\ \A n \in Names : users[n] = NoUser \/ users[n] \in [id: 1..ids, prov: Providers, role: Roles]
    /\ \A m, n \in Names : users[m].id = users[n].id => m = n \/ users[m] = NoUser
    /\ queue \subseteq Names /\ sync.remote \subseteq Names /\ sync.names \subseteq queue \union {sync.cur}
    /\ ids \in 0..MaxIds

(* An authorization code signs in one request at most, however callbacks   *)
(* with it are repeated, overlap or name another state: who gets past the  *)
(* check of the identity token has spent the state the code belongs to.    *)
OIDCCodeOnce ==
    \A c \in Tokens :
        Cardinality({r \in Reqs : req[r].pc = "upsert" /\ req[r].code = c})
            <= IF oidc[c] = NoFlow THEN 1 ELSE 0

(* The provider that vouched for a session is the one its account belongs  *)
(* to, whatever happened to the name between the lookup and the session.   *)
SessionOfItsProvider ==
    \A s \in sessions : users[s.name].id = s.user /\ users[s.name].prov = s.via

(* Local and OpenID Connect accounts go only when an administrator deletes *)
(* that very account: the pass works from a list of directory users that   *)
(* may be out of date when it deletes.                                     *)
SyncSparesOthers ==
    [][\A n \in Names :
          users[n].prov \in {"local", "oidc"} /\ users'[n].id # users[n].id =>
             \E r \in Reqs : req[r].pc = "delete" /\ req[r].user = users[n].id]_vars

(* A queued deletion is carried out or dropped, despite failing calls.     *)
QueueDrains == \A n \in Names : n \in queue ~> n \notin queue

(* Once the directory is left alone, a shadow row stays only for a name    *)
(* the directory lists, logins in flight notwithstanding.                  *)
ShadowsFollow == <>[](\A n \in Names : users[n].prov = "ldap" => Listed(n))
=============================================================================
