-------------------------------- MODULE Hosts --------------------------------
(***************************************************************************)
(* The hosts of one domain and their DNS records: host states              *)
(* (store.SetHostState), the handlers that move them, and the              *)
(* reconciliation of the provider's A records with the public IPv4         *)
(* address by UpdatePublicIP, the sync loop and the maintenance loop       *)
(* (internal/app/service.go, internal/dns/cloudflare.go).                  *)
(*                                                                         *)
(* A step is one store call, one request to the provider or one access to  *)
(* Service.publicIP, which no lock protects.  Audit events, transition     *)
(* rows and resolver lookups change nothing here and are left out; so is   *)
(* the verification at the end of a maintenance pass, which only logs.     *)
(***************************************************************************)
EXTENDS Integers, Sequences, FiniteSets

CONSTANTS
    Reqs,        \* handlers in flight
    Sync,        \* the goroutine of StartPublicIPSync
    Maint,       \* the goroutine of StartDNSMaintenance
    Labels,      \* subdomains a host may have
    Standing,    \* names every domain has: apex, wildcard, admin
    IPs, NoIP,   \* addresses; none
    FirstIP,     \* the address at the start, and what is stored of it then
    FirstStored,
    TornIPs,     \* what a read of publicIP that races a write may yield
    Modes,       \* dns modes a domain may be given
    Ops,         \* what the handlers do, and which loops run
    MaxIDs,      \* bound: rows ever inserted
    MaxStarts,   \* bound: handlers started that write publicIP
    MaxEnv       \* bound: address changes and restarts

Loops == {Sync, Maint}
Procs == Reqs \union Loops
Names == Standing \union Labels

ASSUME HostsAssumption ==
    /\ Sync # Maint /\ Loops \intersect Reqs = {}
    /\ Standing \subseteq {"apex", "wildcard", "admin"} /\ "apex" \in Standing
    /\ IsFiniteSet(Labels)
    /\ NoIP \notin IPs /\ FirstIP \in IPs /\ FirstStored \subseteq {NoIP, FirstIP}
    /\ TornIPs \subseteq IPs \union {NoIP}
    /\ Modes \subseteq {"cloudflare", "manual"}
    /\ MaxIDs \in Nat \ {0} /\ MaxStarts \in Nat /\ MaxEnv \in Nat

VARIABLES
    domain,    \* the row of the domain
    host,      \* rows of hosts
    ids,       \* AUTOINCREMENT: rows inserted so far
    backoff,   \* Service.backoff: hosts whose retry delay is running
    records,   \* contents of the A records of a name, oldest first (external)
    publicIP,  \* Service.publicIP
    setting,   \* network.public_ipv4
    wan, up,   \* the real address; whether provider and echo service answer
    proc,      \* handlers and loops
    starts, env,
    cut        \* history: hosts whose creation or retry was cut short

rows == <<domain, host, ids, backoff>>
address == <<publicIP, setting>>
world == <<wan, up, env>>
vars == <<rows, records, address, world, proc, starts, cut>>

Pending == {"created", "dns_pending", "cert_pending"}
States == Pending \union {"active", "maintenance", "disabled", "error"}

(* The states a host may go to. *)
Targets ==
    [created      |-> {"dns_pending", "cert_pending", "error", "disabled"},
     dns_pending  |-> {"cert_pending", "error", "disabled"},
     cert_pending |-> {"active", "error", "disabled"},
     active       |-> {"error", "cert_pending", "disabled", "maintenance"},
     maintenance  |-> {"active", "error", "disabled"},
     disabled     |-> {"active", "error"},
     error        |-> {"dns_pending", "cert_pending", "disabled", "maintenance"}]

(* Mutated form: a host that waits for DNS cannot fail. *)
transitionWithoutError(from, to) == to \in Targets[from] /\ <<from, to>> # <<"dns_pending", "error">>

validTransition(from, to) == to \in Targets[from]

NoDomain == [id |-> 0, mode |-> "manual", status |-> "none"]
NoHost == [id |-> 0, dom |-> 0, state |-> "error"]

(* A process: what it does, the next call, the host (label and id), the    *)
(* states it still has to set, the domain and names it works through, the  *)
(* names it found wrong, what is left to disable or to delete, the         *)
(* addresses it carries and what it knows of the first record.             *)
Idle == [op |-> "none", pc |-> "idle", l |-> "apex", id |-> 0, goal |-> <<>>,
         dom |-> 0, part |-> "none", todo |-> <<>>, bad |-> <<>>, left |-> <<>>,
         ip |-> NoIP, val |-> NoIP, rec |-> "none"]

Init ==
    /\ domain \in {[id |-> 1, mode |-> m, status |-> "active"] : m \in Modes}
    /\ host = [l \in Labels |-> NoHost] /\ ids = 1 /\ backoff = {}
    /\ records = [n \in Names |-> <<>>]
    /\ wan = FirstIP /\ up = TRUE
    /\ setting \in FirstStored /\ publicIP = setting
    /\ proc = [p \in Procs |-> Idle]
    /\ starts = 0 /\ env = 0 /\ cut = {}

----------------------------------------------------------------------------
(* Helpers *)

Set(p, me) == proc' = [proc EXCEPT ![p] = me]
At(p, pc) == proc[p].pc = pc

Stored(i) == \E l \in Labels : host[l].id = i
LabelOf(i) == CHOOSE l \in Labels : host[l].id = i

Contents(n) == {records[n][k] : k \in DOMAIN records[n]}

InOrder(S) == CHOOSE s \in [1..Cardinality(S) -> S] : \A i, j \in DOMAIN s : i # j => s[i] # s[j]
IfStanding(n) == IF n \in Standing THEN <<n>> ELSE <<>>
OwnNames == <<"apex">> \o IfStanding("wildcard")
StandingNames == OwnNames \o IfStanding("admin")

ListHostsByDomainID(d) == {l \in Labels : host[l].id # 0 /\ host[l].dom = d}

(* What a read of publicIP by p may return.  The field is a plain string: *)
(* a read during another process's write may see a mixture of both.       *)
ReadPublicIP(p) ==
    {publicIP} \union
    (IF \E q \in Procs \ {p} : At(q, "assign") /\ proc[q].ip # publicIP THEN TornIPs ELSE {})

(* A process that has set all its states but the head of goal: "dns" is    *)
(* the DNS work of CreateHost.                                             *)
Onwards(me) ==
    IF me.op = "deactivate" THEN [me EXCEPT !.pc = "pick"]
    ELSE IF me.goal = <<>> THEN Idle
    ELSE [me EXCEPT !.pc = IF Head(me.goal) = "dns" THEN "current" ELSE "set"]

(* UpdatePublicIP returns to its caller. *)
Returned(me) ==
    CASE me.op = "create" -> [me EXCEPT !.pc = "upsert", !.part = "own", !.todo = <<"apex", me.l>>]
      [] me.op = "upsert_domain" ->
           [me EXCEPT !.pc = "upsert", !.part = "own", !.todo = OwnNames]
      [] OTHER -> Idle

(* The names of the current list are done. *)
ListDone(me) ==
    CASE me.part = "standing" -> [me EXCEPT !.pc = "hosts"]
      [] me.part = "hosts" -> Returned(me)
      [] me.part = "own" /\ me.op = "upsert_domain" -> [me EXCEPT !.pc = "hosts"]
      [] me.part = "own" /\ me.op = "create" -> Onwards([me EXCEPT !.goal = Tail(@)])
      [] OTHER -> Idle

Working(me, names) ==
    LET next == [me EXCEPT !.todo = names, !.pc = "upsert", !.rec = "none", !.val = NoIP]
    IN  IF names = <<>> THEN ListDone(next) ELSE next

NextName(me) == Working(me, Tail(me.todo))

(* CreateHost stores the error, UpsertDomain returns it, and the passes    *)
(* log it and go on.                                                       *)
Failed(me) ==
    CASE me.op = "create" /\ me.part \in {"none", "own"} -> [me EXCEPT !.pc = "set", !.goal = <<"error">>]
      [] me.op = "upsert_domain" /\ me.part \in {"none", "own", "ownhosts"} -> Idle
      [] OTHER -> NextName(me)

----------------------------------------------------------------------------
(* Handlers arrive *)

(* The handlers that write publicIP. *)
AddressOps == {"create", "upsert_domain", "dyndns", "settings", "view"}

Start(r, op, me) ==
    /\ At(r, "idle") /\ op \in Ops
    /\ Set(r, [me EXCEPT !.op = op])
    /\ IF op \in AddressOps THEN starts < MaxStarts /\ starts' = starts + 1 ELSE UNCHANGED starts

StartCreate(r) ==
    /\ domain.id # 0
    /\ \E l \in Labels : Start(r, "create", [Idle EXCEPT !.pc = "insert", !.l = l, !.dom = domain.id,
            !.goal = IF domain.mode = "cloudflare" THEN <<"dns_pending", "dns", "cert_pending", "active">>
                     ELSE <<"dns_pending", "cert_pending", "active">>])
    /\ UNCHANGED <<rows, records, address, world, cut>>

(* SetHostDisabled and SetHostMaintenance decide on the row they read. *)
StartToggle(r) ==
    /\ \E l \in Labels, s \in {"disabled", "maintenance"}, on \in BOOLEAN :
         /\ host[l].id # 0 /\ (on <=> host[l].state # s)
         /\ Start(r, "toggle", [Idle EXCEPT !.pc = "set", !.id = host[l].id,
                                            !.goal = <<IF on THEN s ELSE "active">>])
    /\ UNCHANGED <<rows, records, address, world, cut>>

StartRetry(r) ==
    /\ \E l \in Labels :
         /\ host[l].id # 0 /\ host[l].id \notin backoff
         /\ Start(r, "retry", [Idle EXCEPT !.pc = "retry", !.id = host[l].id])
    /\ UNCHANGED <<rows, records, address, world, cut>>

StartRemoveHost(r) ==
    /\ \E l \in Labels :
         /\ host[l].id # 0
         /\ Start(r, "remove", [Idle EXCEPT !.l = l, !.id = host[l].id,
                !.pc = IF domain.mode = "cloudflare" THEN "find" ELSE "delete"])
    /\ UNCHANGED <<rows, records, address, world, cut>>

StartRemoveDomain(r) ==
    /\ domain.id # 0 /\ \A l \in ListHostsByDomainID(domain.id) : host[l].state # "active"
    /\ Start(r, "remove_domain", [Idle EXCEPT !.pc = "drop", !.dom = domain.id])
    /\ UNCHANGED <<rows, records, address, world, cut>>

(* The hosts to disable are chosen from one listing. *)
StartDeactivate(r) ==
    /\ domain.id # 0
    /\ LET live == {host[l].id : l \in {k \in ListHostsByDomainID(domain.id) : host[k].state # "disabled"}}
       IN  Start(r, "deactivate", [Idle EXCEPT !.pc = "pick", !.dom = domain.id, !.left = InOrder(live)])
    /\ UNCHANGED <<rows, records, address, world, cut>>

StartUpsertDomain(r) ==
    /\ \E m \in Modes :
         LET new == domain.id = 0
             i == IF new THEN ids + 1 ELSE domain.id
         IN  /\ i <= MaxIDs
             /\ domain' = [id |-> i, mode |-> m, status |-> "active"]
             /\ ids' = IF new THEN i ELSE ids
             /\ Start(r, "upsert_domain", IF m = "cloudflare" THEN [Idle EXCEPT !.pc = "current", !.id = i]
                                          ELSE Idle)
    /\ UNCHANGED <<host, backoff, records, address, world, cut>>

(* handleDynDNSUpdate, SetRuntimeSettings with an address, and the read of *)
(* the settings page, which loads the stored address into publicIP.        *)
StartAddress(r) ==
    /\ \E ip \in IPs :
         \/ Start(r, "dyndns", [Idle EXCEPT !.pc = "assign", !.ip = ip])
         \/ Start(r, "settings", [Idle EXCEPT !.pc = "save", !.ip = ip])
         \/ setting = ip /\ Start(r, "view", [Idle EXCEPT !.pc = "assign", !.ip = ip])
    /\ UNCHANGED <<rows, records, address, world, cut>>

----------------------------------------------------------------------------
(* Host rows *)

(* Mutated form: the row is inserted whether or not the domain still exists. *)
InsertUnchecked(r) ==
    LET me == proc[r] IN
    /\ At(r, "insert") /\ ids < MaxIDs
    /\ IF host[me.l].id = 0
       THEN /\ host' = [host EXCEPT ![me.l] = [id |-> ids + 1, dom |-> me.dom, state |-> "created"]]
            /\ ids' = ids + 1
            /\ Set(r, [me EXCEPT !.pc = "set", !.id = ids + 1])
       ELSE Set(r, Idle) /\ UNCHANGED <<host, ids>>
    /\ UNCHANGED <<domain, backoff, records, address, world, starts, cut>>

(* A foreign key ties the row to the domain that CreateHost read; names    *)
(* are unique.                                                             *)
CreateHost(r) ==
    LET me == proc[r] IN
    /\ At(r, "insert") /\ ids < MaxIDs
    /\ IF domain.id = me.dom /\ host[me.l].id = 0
       THEN /\ host' = [host EXCEPT ![me.l] = [id |-> ids + 1, dom |-> me.dom, state |-> "created"]]
            /\ ids' = ids + 1
            /\ Set(r, [me EXCEPT !.pc = "set", !.id = ids + 1])
       ELSE Set(r, Idle) /\ UNCHANGED <<host, ids>>
    /\ UNCHANGED <<domain, backoff, records, address, world, starts, cut>>

(* SetHostState reads and checks, then updates by id alone. *)
CheckState(r) ==
    LET me == proc[r] IN
    /\ At(r, "set")
    /\ Set(r, IF Stored(me.id) /\ validTransition(host[LabelOf(me.id)].state, Head(me.goal))
              THEN [me EXCEPT !.pc = "write"] ELSE Idle)
    /\ UNCHANGED <<rows, records, address, world, starts, cut>>

(* Mutated form: state and reason are passed in the wrong order. *)
WriteSwapsArguments(r) ==
    LET me == proc[r] IN
    /\ At(r, "write") /\ Stored(me.id)
    /\ host' = [host EXCEPT ![LabelOf(me.id)].state = "reason"]
    /\ Set(r, Onwards([me EXCEPT !.goal = Tail(@)]))
    /\ UNCHANGED <<domain, ids, backoff, records, address, world, starts, cut>>

WriteState(r) ==
    LET me == proc[r] IN
    /\ At(r, "write")
    /\ IF Stored(me.id)
       THEN /\ host' = [host EXCEPT ![LabelOf(me.id)].state = Head(me.goal)]
            /\ Set(r, Onwards([me EXCEPT !.goal = Tail(@)]))
       ELSE Set(r, Idle) /\ UNCHANGED host
    /\ UNCHANGED <<domain, ids, backoff, records, address, world, starts, cut>>

(* RetryHost after the backoff check: it does no DNS work. *)
RetryHost(r) ==
    LET me == proc[r] IN
    /\ At(r, "retry")
    /\ IF Stored(me.id) /\ host[LabelOf(me.id)].state = "error"
       THEN /\ backoff' = backoff \union {me.id}
            /\ Set(r, [me EXCEPT !.pc = "set", !.goal = <<"dns_pending", "cert_pending", "active">>])
       ELSE Set(r, Idle) /\ UNCHANGED backoff
    /\ UNCHANGED <<domain, host, ids, records, address, world, starts, cut>>

BackoffOver ==
    /\ \E i \in backoff : backoff' = backoff \ {i}
    /\ UNCHANGED <<domain, host, ids, records, address, world, proc, starts, cut>>

(* RemoveHost: every A record of the name, then the row. *)
FindRecords(r) ==
    LET me == proc[r] IN
    /\ At(r, "find")
    /\ Set(r, IF ~up THEN Idle
              ELSE IF records[me.l] = <<>> THEN [me EXCEPT !.pc = "delete"]
              ELSE [me EXCEPT !.pc = "erase", !.left = InOrder(DOMAIN records[me.l])])
    /\ UNCHANGED <<rows, records, address, world, starts, cut>>

DeleteARecord(r) ==
    LET me == proc[r]
        n == me.l
        left == Tail(me.left)
    IN
    /\ At(r, "erase")
    /\ IF up /\ records[n] # <<>>
       THEN /\ records' = [records EXCEPT ![n] = Tail(@)]
            \* the id that others found for the first record is no longer valid
            /\ proc' = [p \in Procs |->
                 IF p = r THEN [me EXCEPT !.left = left, !.pc = IF left = <<>> THEN "delete" ELSE "erase"]
                 ELSE IF proc[p].pc = "send" /\ Head(proc[p].todo) = n /\ proc[p].rec = "first"
                 THEN [proc[p] EXCEPT !.rec = "gone"] ELSE proc[p]]
       ELSE Set(r, Idle) /\ UNCHANGED records
    /\ UNCHANGED <<rows, address, world, starts, cut>>

DeleteHostRow(r) ==
    LET me == proc[r] IN
    /\ At(r, "delete")
    /\ host' = [l \in Labels |-> IF host[l].id = me.id THEN NoHost ELSE host[l]]
    /\ Set(r, Idle)
    /\ UNCHANGED <<domain, ids, backoff, records, address, world, starts, cut>>

(* store.RemoveDomain after its count; the hosts cascade. *)
DropDomain(r) ==
    LET me == proc[r] IN
    /\ At(r, "drop")
    /\ IF domain.id = me.dom
       THEN /\ domain' = NoDomain
            /\ host' = [l \in Labels |-> IF host[l].dom = me.dom THEN NoHost ELSE host[l]]
       ELSE UNCHANGED <<domain, host>>
    /\ Set(r, Idle)
    /\ UNCHANGED <<ids, backoff, records, address, world, starts, cut>>

(* DeactivateDomain: the next listed host, or the domain itself. *)
DeactivateNext(r) ==
    LET me == proc[r] IN
    /\ At(r, "pick")
    /\ IF me.left # <<>>
       THEN /\ Set(r, [me EXCEPT !.pc = "set", !.id = Head(me.left), !.goal = <<"disabled">>, !.left = Tail(@)])
            /\ UNCHANGED domain
       ELSE /\ domain' = IF domain.id = me.dom THEN [domain EXCEPT !.status = "inactive"] ELSE domain
            /\ Set(r, Idle)
    /\ UNCHANGED <<host, ids, backoff, records, address, world, starts, cut>>

----------------------------------------------------------------------------
(* The public address *)

(* The sync loop asks the echo service first; without an answer the pass   *)
(* ends.  The maintenance loop has nothing to ask.                         *)
StartPass(p) ==
    /\ At(p, "idle")
    /\ \/ p = Sync /\ "sync" \in Ops /\ up /\ Set(p, [Idle EXCEPT !.op = "sync", !.pc = "current", !.val = wan])
       \/ p = Maint /\ "maint" \in Ops /\ Set(p, [Idle EXCEPT !.op = "maint", !.pc = "current"])
    /\ UNCHANGED <<rows, records, address, world, starts, cut>>

(* What the caller of currentPublicIPv4 does with the address. *)
WithIP(me, ip) ==
    CASE me.op = "sync" -> [me EXCEPT !.ip = me.val, !.val = NoIP, !.pc = IF ip = me.val THEN "assign" ELSE "save"]
      [] me.op = "maint" -> [me EXCEPT !.ip = ip, !.pc = "domains"]
      [] OTHER -> [me EXCEPT !.ip = ip, !.pc = "assign"]

WithoutIP(me) ==
    CASE me.op = "sync" -> [me EXCEPT !.ip = me.val, !.val = NoIP, !.pc = "save"]
      [] me.op = "maint" -> Idle
      [] OTHER -> Failed(me)

(* The field, else the setting, else the echo service. *)
currentPublicIPv4(p) ==
    LET me == proc[p] IN
    /\ At(p, "current")
    /\ \/ \E ip \in ReadPublicIP(p) \ {NoIP} : Set(p, WithIP(me, ip)) /\ UNCHANGED address
       \/ /\ NoIP \in ReadPublicIP(p) /\ setting # NoIP
          /\ publicIP' = setting /\ UNCHANGED setting /\ Set(p, WithIP(me, setting))
       \/ /\ NoIP \in ReadPublicIP(p) /\ setting = NoIP /\ up
          /\ publicIP' = wan /\ setting' = wan /\ Set(p, WithIP(me, wan))
       \/ /\ NoIP \in ReadPublicIP(p) /\ setting = NoIP /\ ~up
          /\ Set(p, WithoutIP(me)) /\ UNCHANGED address
    /\ UNCHANGED <<rows, records, world, starts, cut>>

(* Mutated form: the new address is stored and the field is left alone. *)
SaveKeepsField(p) ==
    /\ At(p, "save")
    /\ setting' = proc[p].ip /\ Set(p, [proc[p] EXCEPT !.pc = "domains"])
    /\ UNCHANGED <<rows, records, publicIP, world, starts, cut>>

SaveSetting(p) ==
    /\ At(p, "save")
    /\ setting' = proc[p].ip /\ Set(p, [proc[p] EXCEPT !.pc = "assign"])
    /\ UNCHANGED <<rows, records, publicIP, world, starts, cut>>

(* UpdatePublicIP: the field, then the domains, their standing names and   *)
(* their hosts.                                                            *)
AssignPublicIP(p) ==
    LET me == proc[p] IN
    /\ At(p, "assign")
    /\ publicIP' = me.ip
    /\ Set(p, CASE me.op = "view" -> Idle
               [] me.op \in {"create", "upsert_domain"} -> [me EXCEPT !.pc = "domains"]
               [] OTHER -> [me EXCEPT !.pc = "domains", !.ip = NoIP])  \* not used again
    /\ UNCHANGED <<rows, records, setting, world, starts, cut>>

ListDomains(p) ==
    LET me == proc[p]
        here == [me EXCEPT !.dom = domain.id]
    IN
    /\ At(p, "domains")
    /\ Set(p, IF domain.id = 0 \/ domain.mode # "cloudflare" THEN Returned(me)
              ELSE IF me.op = "maint" THEN [here EXCEPT !.pc = "hosts"]
              ELSE Working([here EXCEPT !.part = "standing"], StandingNames))
    /\ UNCHANGED <<rows, records, address, world, starts, cut>>

ListHosts(p) ==
    LET me == proc[p]
        own == me.part = "own"
        found == ListHostsByDomainID(IF own THEN me.id ELSE me.dom)
    IN
    /\ At(p, "hosts")
    /\ Set(p, IF me.op = "maint"
              THEN [me EXCEPT !.pc = "compare", !.todo = StandingNames \o InOrder(found \ Standing)]
              ELSE Working([me EXCEPT !.part = IF own THEN "ownhosts" ELSE "hosts"], InOrder(found)))
    /\ UNCHANGED <<rows, records, address, world, starts, cut>>

(* The maintenance pass looks every name up and repairs the wrong ones; a  *)
(* name whose lookup fails is reported and not repaired.                   *)
CompareRecord(p) ==
    LET me == proc[p]
        n == Head(me.todo)
        bad == IF up /\ me.ip \notin Contents(n) THEN Append(me.bad, n) ELSE me.bad
    IN
    /\ At(p, "compare")
    /\ Set(p, IF Len(me.todo) > 1 THEN [me EXCEPT !.todo = Tail(@), !.bad = bad]
              ELSE Working([me EXCEPT !.part = "wrong", !.bad = <<>>], bad))
    /\ UNCHANGED <<rows, records, address, world, starts, cut>>

(* UpsertARecord: look at the first record, then create or change it.      *)
(* UpdatePublicIP passes the field as it is at each call.                  *)
LookupARecord(p) ==
    LET me == proc[p]
        n == Head(me.todo)
    IN
    /\ At(p, "upsert")
    /\ \E ip \in IF me.part \in {"standing", "hosts"} THEN ReadPublicIP(p) ELSE {me.ip} :
         Set(p, IF ~up THEN Failed(me)
                ELSE IF records[n] # <<>> /\ Head(records[n]) = ip THEN NextName(me)
                ELSE [me EXCEPT !.pc = "send", !.val = ip,
                                !.rec = IF records[n] = <<>> THEN "none" ELSE "first"])
    /\ UNCHANGED <<rows, records, address, world, starts, cut>>

(* The provider refuses what is no address, a record equal to another one  *)
(* and a record that is gone.                                              *)
Accepted(me) ==
    LET n == Head(me.todo) IN
    /\ up /\ me.val # NoIP /\ me.val \notin Contents(n) /\ me.rec # "gone"

SendARecord(p) ==
    LET me == proc[p]
        n == Head(me.todo)
    IN
    /\ At(p, "send")
    /\ IF Accepted(me)
       THEN /\ records' = [records EXCEPT ![n] = IF me.rec = "first" THEN [@ EXCEPT ![1] = me.val]
                                                 ELSE Append(@, me.val)]
            /\ Set(p, NextName(me))
       ELSE Set(p, Failed(me)) /\ UNCHANGED records
    /\ UNCHANGED <<rows, address, world, starts, cut>>

----------------------------------------------------------------------------
(* The environment *)

(* Hosts that the process is taking through their states. *)
Driven(p) == IF proc[p].op \in {"create", "retry"} THEN {proc[p].id} ELSE {}

(* The client goes away: the next call of the handler fails, the one that  *)
(* would store the error included.  Reads and writes of publicIP need no   *)
(* context and still happen.                                               *)
Abort(r) ==
    /\ ~At(r, "idle") /\ ~At(r, "assign") /\ (At(r, "current") => publicIP = NoIP)
    /\ Set(r, Idle) /\ cut' = cut \union Driven(r)
    /\ UNCHANGED <<rows, records, address, world, starts>>

WanChange ==
    /\ env < MaxEnv /\ env' = env + 1
    /\ wan' \in IPs \ {wan}
    /\ UNCHANGED <<rows, records, address, up, proc, starts, cut>>

LinkDown ==
    /\ up /\ up' = FALSE
    /\ UNCHANGED <<rows, records, address, wan, env, proc, starts, cut>>

LinkUp ==
    /\ ~up /\ up' = TRUE
    /\ UNCHANGED <<rows, records, address, wan, env, proc, starts, cut>>

(* InitializePublicIPv4 at start. *)
Restart ==
    /\ env < MaxEnv /\ env' = env + 1
    /\ proc' = [p \in Procs |-> Idle]
    /\ cut' = cut \union UNION {Driven(p) : p \in Procs}
    /\ backoff' = {}
    /\ setting' = IF setting = NoIP /\ up THEN wan ELSE setting
    /\ publicIP' = setting'
    /\ UNCHANGED <<domain, host, ids, records, wan, up, starts>>

Begin(r) ==
    \/ StartCreate(r) \/ StartToggle(r) \/ StartRetry(r) \/ StartRemoveHost(r) \/ StartRemoveDomain(r)
    \/ StartDeactivate(r) \/ StartUpsertDomain(r) \/ StartAddress(r)

(* One call of a handler or a loop. *)
Step(p) ==
    \/ CreateHost(p) \/ CheckState(p) \/ WriteState(p) \/ RetryHost(p)
    \/ FindRecords(p) \/ DeleteARecord(p) \/ DeleteHostRow(p) \/ DropDomain(p) \/ DeactivateNext(p)
    \/ currentPublicIPv4(p) \/ SaveSetting(p) \/ AssignPublicIP(p) \/ ListDomains(p) \/ ListHosts(p)
    \/ CompareRecord(p) \/ LookupARecord(p) \/ SendARecord(p)

Next ==
    \/ \E r \in Reqs : Begin(r) \/ Abort(r)
    \/ \E p \in Loops : StartPass(p)
    \/ \E p \in Procs : Step(p)
    \/ BackoffOver \/ WanChange \/ LinkDown \/ LinkUp \/ Restart

(* Handlers whose client stays run to their end, and the two tickers keep  *)
(* firing; arrivals, the clock and the network owe nothing.                *)
Fairness ==
    /\ \A p \in Procs : WF_vars(Step(p))
    /\ \A p \in Loops : WF_vars(StartPass(p))

Spec == Init /\ [][Next]_vars /\ Fairness

----------------------------------------------------------------------------
(* Properties *)

Proc == [rec: {"none", "first", "gone"},
         op: {"none", "create", "toggle", "retry", "remove", "remove_domain", "deactivate",
              "upsert_domain", "dyndns", "settings", "view", "sync", "maint"},
         pc: {"idle", "insert", "set", "write", "retry", "find", "erase", "delete", "drop", "pick",
              "current", "save", "assign", "domains", "hosts", "compare", "upsert", "send"},
         l: Names, id: 0..MaxIDs, goal: Seq(States \union {"dns"}), dom: 0..MaxIDs,
         part: {"none", "standing", "hosts", "own", "ownhosts", "wrong"},
         todo: Seq(Names), bad: Seq(Names), left: Seq(Nat),
         ip: IPs \union {NoIP}, val: IPs \union {NoIP}]

(* Rows, records, addresses and processes have their shape. *)
TypeOK ==
    /\ domain \in [id: 0..MaxIDs, mode: {"cloudflare", "manual"}, status: {"none", "active", "inactive"}]
    /\ host \in [Labels -> [id: 0..MaxIDs, dom: 0..MaxIDs, state: States]]
    /\ ids \in 1..MaxIDs /\ backoff \subseteq 1..MaxIDs /\ cut \subseteq 0..MaxIDs
    /\ records \in [Names -> Seq(IPs)]
    /\ {publicIP, setting} \subseteq IPs \union {NoIP} /\ wan \in IPs /\ up \in BOOLEAN
    /\ proc \in [Procs -> Proc] /\ starts \in 0..MaxStarts /\ env \in 0..MaxEnv

(* A host belongs to the domain that is stored now: one whose creation was *)
(* under way when its domain was removed does not come back under a new    *)
(* domain of the same name (foreign key of hosts, CreateHost).             *)
NoOrphanHosts == \A l \in Labels : host[l].id # 0 => host[l].dom = domain.id /\ domain.id # 0

(* The passes are responsible for the records of n, and nobody is          *)
(* removing it.                                                            *)
Managed(n) ==
    /\ domain.id # 0 /\ domain.mode = "cloudflare"
    /\ n \in Standing \/ (n \in Labels /\ host[n].id # 0)
    /\ \A r \in Reqs : proc[r].op = "remove" => proc[r].l # n

(* README: "automatic public-IP reconciliation and Cloudflare DNS          *)
(* self-heal".  Once the address and the link stay as they are, every      *)
(* managed name gets a record with the address and keeps it, whatever the  *)
(* handlers and the two loops, with their stale copies of the address,     *)
(* wrote before and whatever failed.                                       *)
RecordsFollowAddress ==
    \A n \in Names, w \in IPs :
        <>[](up /\ wan = w /\ Managed(n)) => <>[](w \in Contents(n))

(* A host does not stay in created, dns_pending or cert_pending unless     *)
(* the request that was taking it through them was cut short: however      *)
(* creations, retries and toggles overwrite each other's states,           *)
(* somebody brings it on to a state that RetryHost or an administrator     *)
(* can act on.                                                             *)
PendingResolves ==
    \A l \in Labels, i \in 1..MaxIDs :
        []<>~(host[l].id = i /\ host[l].state \in Pending /\ i \notin cut)
=============================================================================
