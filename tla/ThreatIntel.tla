----------------------------- MODULE ThreatIntel -----------------------------
(***************************************************************************)
(* The threat-intel engine as a concurrent system: edge requests and SSH   *)
(* denials score a source (ApplyThreatIntelEvent), an administrator blocks *)
(* and allows sources, the decay worker promotes, rehabilitates and        *)
(* releases them (ReconcileThreatIntelDecay), the retention worker purges. *)
(*                                                                         *)
(* The database has one connection (store.Open: SetMaxOpenConns(1)), so a  *)
(* store call is atomic and everything between two of them interleaves:    *)
(* one action per store call that the tables below can tell apart.  The    *)
(* nftables set that follows blocked_ips is the subject of Firewall.       *)
(***************************************************************************)
EXTENDS ThreatScore, FiniteSets

CONSTANTS
    IPs,             \* sources
    Reqs,            \* slots for concurrent requests and SSH attempts
    Signals,         \* what a request may show: XP (calcThreatBaseXP, applyThreatMultipliers)
                     \* and whether a feed or a signature is among it (hasKnownThreatBoostSignal)
    Configs,         \* the configurations an administrator may store
    Retention,       \* BlockedDays
    StateRetention,  \* ThreatDays
    Instants,        \* the instants the clock may show
    Entries,         \* where events come from: edge, auth (SSH keys), forward (SSH)
    AdminOps,        \* what administrators do: block, unblock, allow, unallow, config
    Restarts,        \* whether the process may die and start again
    NoIP

ASSUME ConfigAssumption ==
    Configs \subseteq {c \in Config : 1 <= c.soft /\ c.soft < c.hard}
ASSUME TimeAssumption ==
    /\ Instants \subseteq Nat \ {0} /\ 1 \in Instants
    /\ Retention \in Nat /\ StateRetention \in Nat
ASSUME EnvironmentAssumption ==
    /\ Signals \subseteq [delta: Nat \ {0}, boost: BOOLEAN]
    /\ Entries \subseteq {"edge", "auth", "forward"}
    /\ AdminOps \subseteq {"block", "unblock", "allow", "unallow", "config"}
    /\ Restarts \in BOOLEAN
ASSUME NoIPAssumption == NoIP \notin IPs

VARIABLES
    now,       \* the wall clock
    cfg,       \* settings threatintel.*: auto = enabled in auto_mode
    tiState,   \* threat_intel_ip_state
    blocked,   \* blocked_ips: created_at of the source's row, 0 for none
    allow,     \* threat_intel_allowlist
    openHard,  \* sources with an open hard row in threat_intel_ban_history
    openSoft,  \* ... with an open soft row
    snap,      \* EdgeProxy.tiSnap: allowlist and mode, as of the last Refresh
    req,       \* requests in flight
    adm,       \* the administrator's operation in flight
    dw         \* the decay worker

vars == <<now, cfg, tiState, blocked, allow, openHard, openSoft, snap, req, adm, dw>>
tables == <<tiState, blocked, allow, openHard, openSoft>>

Event == [sig: Signals, auto: BOOLEAN]

ReqIdle == [pc |-> "idle"]
AdmIdle == [pc |-> "idle"]
DwIdle == [pc |-> "idle"]

Init ==
    /\ now = 1
    /\ cfg \in Configs
    /\ tiState = [ip \in IPs |-> FreshState]
    /\ blocked = [ip \in IPs |-> 0]
    /\ allow = {} /\ openHard = {} /\ openSoft = {}
    /\ snap = [allow |-> {}, auto |-> cfg.auto]
    /\ req = [r \in Reqs |-> ReqIdle]
    /\ adm = AdmIdle
    /\ dw = DwIdle

-----------------------------------------------------------------------------
(* Store calls.                                                            *)

HasRow(ip) == tiState[ip].lastSeen # 0
IsIPBlocked(ip) == blocked[ip] # 0

(* Mutated form: the row is stamped with the end of its retention. *)
UpsertStampsExpiry(ip) == blocked' = [blocked EXCEPT ![ip] = now + Retention]

(* An existing row keeps its created_at. *)
UpsertBlockedIP(ip) ==
    blocked' = [blocked EXCEPT ![ip] = IF @ = 0 THEN now ELSE @]
RemoveBlockedIP(ip) == blocked' = [blocked EXCEPT ![ip] = 0]

(* Ensure inserts when no row of the kind is open, Close closes the newest: *)
(* at most one row per source and kind is ever open.                        *)
EnsureHistory(open, ip) == open \union {ip}
CloseHistory(open, ip) == open \ {ip}

(* SELECT ... WHERE created_at < now - BlockedDays *)
ListBlockedIPsBefore(t) == {ip \in IPs : IsIPBlocked(ip) /\ blocked[ip] < t - Retention}

-----------------------------------------------------------------------------
(* Requests.  ApplyThreatIntelEvent runs under the request's context: when *)
(* the client goes away every later store call fails, and the handler ends *)
(* where it stands (EdgeAbort).  The bastion uses context.Background().    *)

Goto(r, pc) == req' = [req EXCEPT ![r].pc = pc]
Done(r) == req' = [req EXCEPT ![r] = ReqIdle]

Start(r, entry, pc, ip, ev) ==
    /\ entry \in Entries
    /\ req[r].pc = "idle"
    /\ req' = [req EXCEPT ![r] = [pc |-> pc, ip |-> ip, ev |-> ev, edge |-> entry = "edge"]]
    /\ UNCHANGED <<now, cfg, tables, snap, adm, dw>>

(* The handler copies the snapshot; an allowlisted source has no signals,  *)
(* so a request that gets no further than the blocked list is left out.    *)
EdgeArrive(r, ip, sig) ==
    /\ ip \notin snap.allow
    /\ Start(r, "edge", "check", ip, [sig |-> sig, auto |-> snap.auto])

EdgeCheckBlocked(r) ==
    /\ req[r].pc = "check"
    /\ IF IsIPBlocked(req[r].ip) THEN Done(r) ELSE Goto(r, "config")
    /\ UNCHANGED <<now, cfg, tables, snap, adm, dw>>

(* The bastion: IsSourceBlocked is two reads; a denied key or a denied     *)
(* forward is an event in auto mode whatever the configuration says.       *)
SshAuthenticate(r, ip, sig) ==
    /\ ~sig.boost
    /\ Start(r, "auth", "sshRow", ip, [sig |-> sig, auto |-> TRUE])

SshForwardDenied(r, ip, sig) ==
    /\ ~sig.boost
    /\ Start(r, "forward", "config", ip, [sig |-> sig, auto |-> TRUE])

SshCheckRow(r) ==
    /\ req[r].pc = "sshRow"
    /\ IF IsIPBlocked(req[r].ip) THEN Done(r) ELSE Goto(r, "sshState")
    /\ UNCHANGED <<now, cfg, tables, snap, adm, dw>>

SshCheckState(r) ==
    /\ req[r].pc = "sshState"
    /\ LET st == tiState[req[r].ip] IN
       IF st.perm \/ SoftBanned(st, now) THEN Done(r) ELSE Goto(r, "config")
    /\ UNCHANGED <<now, cfg, tables, snap, adm, dw>>

(* ApplyThreatIntelEvent: configuration, row, then the writes.             *)
ApplyReadConfig(r) ==
    /\ req[r].pc = "config"
    /\ req' = [req EXCEPT ![r] = [pc |-> "read", ip |-> @.ip, ev |-> @.ev,
                                  edge |-> @.edge, cfg |-> cfg]]
    /\ UNCHANGED <<now, cfg, tables, snap, adm, dw>>

ApplyReadState(r) ==
    /\ req[r].pc = "read"
    /\ \E st \in {decayThreatState(tiState[req[r].ip], now)} :
       \E up \in {escalate(st, req[r].ev.sig, req[r].cfg.hard)} :
       LET out == decide(st, up, req[r].ev, req[r].cfg, now)
           next == CASE out.decision = "hard_block_permanent" -> "row"
                     [] out.decision = "soft_block_set" -> "soft"
                     [] OTHER -> "save"
       IN req' = [req EXCEPT ![r] = [pc |-> next, ip |-> @.ip, edge |-> @.edge, st |-> out.st]]
    /\ UNCHANGED <<now, cfg, tables, snap, adm, dw>>

ApplyBlockRow(r) ==
    /\ req[r].pc = "row"
    /\ UpsertBlockedIP(req[r].ip)
    /\ Goto(r, "hard")
    /\ UNCHANGED <<now, cfg, tiState, allow, openHard, openSoft, snap, adm, dw>>

ApplyOpenHistory(r) ==
    /\ \/ /\ req[r].pc = "hard"
          /\ openHard' = EnsureHistory(openHard, req[r].ip)
          /\ UNCHANGED openSoft
       \/ /\ req[r].pc = "soft"
          /\ openSoft' = EnsureHistory(openSoft, req[r].ip)
          /\ UNCHANGED openHard
    /\ Goto(r, "save")
    /\ UNCHANGED <<now, cfg, tiState, blocked, allow, snap, adm, dw>>

(* The whole row is written back, whatever happened to it since the read.  *)
ApplySave(r) ==
    /\ req[r].pc = "save"
    /\ tiState' = [tiState EXCEPT ![req[r].ip] = req[r].st]
    /\ Done(r)
    /\ UNCHANGED <<now, cfg, blocked, allow, openHard, openSoft, snap, adm, dw>>

EdgeAbort(r) ==
    /\ req[r].pc # "idle" /\ req[r].edge
    /\ Done(r)
    /\ UNCHANGED <<now, cfg, tables, snap, adm, dw>>

-----------------------------------------------------------------------------
(* The administrator (API handlers, one operation at a time).              *)

AdmGoto(pc, ip) == adm' = [pc |-> pc, ip |-> ip]
AdmStart(op) == op \in AdminOps /\ adm.pc = "idle"

AdminBlock(ip) ==
    /\ AdmStart("block")
    /\ UpsertBlockedIP(ip)
    /\ AdmGoto("open", ip)
    /\ UNCHANGED <<now, cfg, tiState, allow, openHard, openSoft, snap, req, dw>>

(* The unblock handlers, and the allow handler that starts the same way.   *)
AdminUnblock(ip, op) ==
    /\ AdmStart(op)
    /\ RemoveBlockedIP(ip)
    /\ AdmGoto(IF op = "allow" THEN "closeAllow" ELSE "close", ip)
    /\ UNCHANGED <<now, cfg, tiState, allow, openHard, openSoft, snap, req, dw>>

AdminOpenHistory ==
    /\ adm.pc = "open"
    /\ openHard' = EnsureHistory(openHard, adm.ip)
    /\ adm' = AdmIdle
    /\ UNCHANGED <<now, cfg, tiState, blocked, allow, openSoft, snap, req, dw>>

AdminCloseHistory ==
    /\ adm.pc \in {"close", "closeAllow"}
    /\ openHard' = CloseHistory(openHard, adm.ip)
    /\ IF adm.pc = "closeAllow" THEN AdmGoto("allow", adm.ip) ELSE adm' = AdmIdle
    /\ UNCHANGED <<now, cfg, tiState, blocked, allow, openSoft, snap, req, dw>>

AdminAddAllow ==
    /\ adm.pc = "allow"
    /\ allow' = allow \union {adm.ip}
    /\ adm' = AdmIdle
    /\ UNCHANGED <<now, cfg, tiState, blocked, openHard, openSoft, snap, req, dw>>

AdminRemoveAllow(ip) ==
    /\ AdmStart("unallow")
    /\ ip \in allow
    /\ allow' = allow \ {ip}
    /\ UNCHANGED <<now, cfg, tiState, blocked, openHard, openSoft, snap, req, adm, dw>>

AdminAbort ==
    /\ adm.pc # "idle"
    /\ adm' = AdmIdle
    /\ UNCHANGED <<now, cfg, tables, snap, req, dw>>

SetThreatIntelConfig ==
    /\ AdmStart("config")
    /\ cfg' \in Configs \ {cfg}
    /\ UNCHANGED <<now, tables, snap, req, adm, dw>>

(* The proxy's Refresh, every 10 seconds. *)
SnapshotRefresh ==
    /\ snap' = [allow |-> allow, auto |-> cfg.auto]
    /\ UNCHANGED <<now, cfg, tables, req, adm, dw>>

-----------------------------------------------------------------------------
(* The decay worker: one pass of ReconcileThreatIntelDecay every 5 minutes. *)

DwStart ==
    /\ dw.pc = "idle"
    /\ dw' = [pc |-> "promote", cfg |-> cfg]
    /\ UNCHANGED <<now, cfg, tables, snap, req, adm>>

(* Mutated forms: no safety net; a net that forgets ban_until. *)
PromoteNothing ==
    /\ dw.pc = "promote"
    /\ dw' = [dw EXCEPT !.pc = "sync"]
    /\ UNCHANGED <<now, cfg, tables, snap, req, adm>>

PromoteKeepsBan ==
    /\ dw.pc = "promote"
    /\ tiState' = [ip \in IPs |-> [tiState[ip] EXCEPT
            !.perm = @ \/ (ip \notin allow /\ HasRow(ip) /\ tiState[ip].level >= dw.cfg.hard)]]
    /\ dw' = [dw EXCEPT !.pc = "sync"]
    /\ UNCHANGED <<now, cfg, blocked, allow, openHard, openSoft, snap, req, adm>>

(* Safety net, one transaction: a source at the hard level is blocked      *)
(* unless it is allowlisted.  The mode is not consulted.                   *)
PromoteThreatIntelHardBlocks ==
    /\ dw.pc = "promote"
    /\ LET hit == {ip \in IPs \ allow : HasRow(ip) /\ tiState[ip].level >= dw.cfg.hard} IN
       /\ blocked' = [ip \in IPs |-> IF ip \in hit /\ ~IsIPBlocked(ip) THEN now ELSE blocked[ip]]
       /\ tiState' = [ip \in IPs |->
             IF ip \in hit THEN hardBlockedState(tiState[ip]) ELSE tiState[ip]]
    /\ dw' = [dw EXCEPT !.pc = "sync"]
    /\ UNCHANGED <<now, cfg, allow, openHard, openSoft, snap, req, adm>>

(* Mutated form: history is not repaired. *)
SyncNothing ==
    /\ dw.pc = "sync"
    /\ dw' = [dw EXCEPT !.pc = "list"]
    /\ UNCHANGED <<now, cfg, tables, snap, req, adm>>

SyncThreatIntelBanHistoryOpen ==
    /\ dw.pc = "sync"
    /\ openHard' = openHard \union {ip \in IPs : IsIPBlocked(ip)}
    /\ dw' = [dw EXCEPT !.pc = "list"]
    /\ UNCHANGED <<now, cfg, tiState, blocked, allow, openSoft, snap, req, adm>>

DwListStates ==
    /\ dw.pc = "list"
    /\ dw' = [pc |-> "listAllow", cfg |-> dw.cfg, list |-> tiState,
              todo |-> {ip \in IPs : HasRow(ip)}]
    /\ UNCHANGED <<now, cfg, tables, snap, req, adm>>

DwListAllow ==
    /\ dw.pc = "listAllow"
    /\ dw' = [pc |-> "listExpired", cfg |-> dw.cfg, list |-> dw.list, todo |-> dw.todo,
              allow |-> allow, t |-> now]
    /\ UNCHANGED <<now, cfg, tables, snap, req, adm>>

(* orphans: expired rows of sources the pass found no state for. *)
DwListExpired ==
    /\ dw.pc = "listExpired"
    /\ LET expired == ListBlockedIPsBefore(dw.t) IN
       dw' = [pc |-> "rows", cfg |-> dw.cfg, list |-> dw.list, todo |-> dw.todo,
              allow |-> dw.allow, t |-> dw.t, cur |-> NoIP, expired |-> expired,
              orphans |-> (expired \ dw.allow) \ dw.todo]
    /\ UNCHANGED <<now, cfg, tables, snap, req, adm>>

(* Mutated form: only rows that are not hard blocks are released. *)
ReleaseSoftOnly(ip) == ip \in dw.expired /\ ~dw.list[ip].perm

(* The row being worked on, from the copies listed above. *)
Working(ip) == dw.pc = "rows" /\ ip \in dw.todo /\ dw.cur \in {ip, NoIP}
ToRelease(ip) == ip \in dw.expired /\ dw.list[ip].perm

(* removeBlockedIPTrackedOnly: the row first, then its history. *)
DwRelease(ip) ==
    /\ \/ /\ Working(ip) /\ ToRelease(ip)
          /\ dw' = [dw EXCEPT !.pc = "close", !.cur = ip,
                              !.list[ip] = releasedState(dw.t)]
       \/ /\ dw.pc = "rows" /\ dw.todo = {} /\ ip \in dw.orphans
          /\ dw' = [dw EXCEPT !.pc = "close", !.cur = ip, !.orphans = @ \ {ip}]
    /\ RemoveBlockedIP(ip)
    /\ UNCHANGED <<now, cfg, tiState, allow, openHard, openSoft, snap, req, adm>>

DwCloseHard ==
    /\ dw.pc = "close"
    /\ openHard' = CloseHistory(openHard, dw.cur)
    /\ dw' = [dw EXCEPT !.pc = "rows", !.cur = IF @ \in dw.todo THEN @ ELSE NoIP]
    /\ UNCHANGED <<now, cfg, tiState, blocked, allow, openSoft, snap, req, adm>>

DwCloseSoft(ip) ==
    /\ Working(ip) /\ ~ToRelease(ip)
    /\ banLapsed(dw.list[ip], dw.t)
    /\ openSoft' = CloseHistory(openSoft, ip)
    /\ dw' = [dw EXCEPT !.cur = ip, !.list[ip].banUntil = 0]
    /\ UNCHANGED <<now, cfg, tiState, blocked, allow, openHard, snap, req, adm>>

DwSave(ip) ==
    /\ Working(ip) /\ ~ToRelease(ip)
    /\ ~banLapsed(dw.list[ip], dw.t)
    /\ LET st == reconcileState(dw.list[ip], dw.cfg, dw.t) IN
       tiState' = [tiState EXCEPT ![ip] =
           IF cooledDown(st, dw.t) /\ ip \notin dw.allow THEN FreshState ELSE st]
    /\ dw' = [dw EXCEPT !.todo = @ \ {ip}, !.cur = NoIP]
    /\ UNCHANGED <<now, cfg, blocked, allow, openHard, openSoft, snap, req, adm>>

DwEnd ==
    /\ dw.pc = "rows" /\ dw.todo = {} /\ dw.orphans = {}
    /\ dw' = DwIdle
    /\ UNCHANGED <<now, cfg, tables, snap, req, adm>>

(* RunRetentionPurge, the part that touches these tables. *)
PurgeThreatIntelStateBefore ==
    /\ LET cutoff == now - StateRetention
           old(st) == st.lastSeen # 0 /\ st.lastSeen < cutoff /\ ~st.perm
                        /\ (st.banUntil = 0 \/ st.banUntil < cutoff)
       IN /\ \E ip \in IPs : old(tiState[ip])
          /\ tiState' = [ip \in IPs |-> IF old(tiState[ip]) THEN FreshState ELSE tiState[ip]]
    /\ UNCHANGED <<now, cfg, blocked, allow, openHard, openSoft, snap, req, adm, dw>>

-----------------------------------------------------------------------------
(* Store calls take milliseconds, the clock's instants are minutes apart:  *)
(* time passes between operations.                                         *)
Quiescent == adm.pc = "idle" /\ dw.pc = "idle" /\ \A r \in Reqs : req[r].pc = "idle"

Tick(t) ==
    /\ Quiescent
    /\ t > now
    /\ now' = t
    /\ UNCHANGED <<cfg, tables, snap, req, adm, dw>>

(* The process dies and starts again: what was in flight is gone, the      *)
(* tables stay, the proxy takes a new snapshot before it serves.           *)
Restart ==
    /\ Restarts
    /\ ~Quiescent
    /\ req' = [r \in Reqs |-> ReqIdle] /\ adm' = AdmIdle /\ dw' = DwIdle
    /\ snap' = [allow |-> allow, auto |-> cfg.auto]
    /\ UNCHANGED <<now, cfg, tables>>

RequestArrives ==
    \E r \in Reqs, ip \in IPs, sig \in Signals :
        \/ EdgeArrive(r, ip, sig)
        \/ SshAuthenticate(r, ip, sig)
        \/ SshForwardDenied(r, ip, sig)

RequestStep(r) ==
    \/ EdgeCheckBlocked(r) \/ SshCheckRow(r) \/ SshCheckState(r)
    \/ ApplyReadConfig(r) \/ ApplyReadState(r)
    \/ ApplyBlockRow(r) \/ ApplyOpenHistory(r) \/ ApplySave(r)

AdminArrives ==
    \/ \E ip \in IPs : AdminBlock(ip) \/ AdminRemoveAllow(ip)
    \/ \E ip \in IPs, op \in {"unblock", "allow"} : AdminUnblock(ip, op)
    \/ SetThreatIntelConfig

AdminStep == AdminOpenHistory \/ AdminCloseHistory \/ AdminAddAllow

WorkerStep ==
    \/ DwStart \/ PromoteThreatIntelHardBlocks \/ SyncThreatIntelBanHistoryOpen
    \/ DwListStates \/ DwListAllow \/ DwListExpired
    \/ \E ip \in IPs : DwRelease(ip) \/ DwCloseSoft(ip) \/ DwSave(ip)
    \/ DwCloseHard \/ DwEnd

Next ==
    \/ RequestArrives
    \/ \E r \in Reqs : RequestStep(r) \/ EdgeAbort(r)
    \/ AdminArrives \/ AdminStep \/ AdminAbort
    \/ SnapshotRefresh
    \/ WorkerStep
    \/ PurgeThreatIntelStateBefore
    \/ \E t \in Instants : Tick(t)
    \/ Restart

Spec == Init /\ [][Next]_vars

(* The worker's ticker and a started handler make progress; users, aborts, *)
(* restarts and the clock are not obliged to.                              *)
Fairness ==
    /\ WF_vars(WorkerStep)
    /\ \A r \in Reqs : WF_vars(RequestStep(r))
    /\ WF_vars(AdminStep)

FairSpec == Spec /\ Fairness

-----------------------------------------------------------------------------
(* Properties. *)

ReqStates ==
    {ReqIdle}
    \union [pc: {"check", "sshRow", "sshState", "config"}, ip: IPs, ev: Event, edge: BOOLEAN]
    \union [pc: {"read"}, ip: IPs, ev: Event, edge: BOOLEAN, cfg: Configs]
    \union [pc: {"row", "hard", "soft", "save"}, ip: IPs, edge: BOOLEAN, st: IPState]

AdmStates == {AdmIdle} \union [pc: {"open", "close", "closeAllow", "allow"}, ip: IPs]

DwStates ==
    {DwIdle}
    \union [pc: {"promote", "sync", "list"}, cfg: Configs]
    \union [pc: {"listAllow"}, cfg: Configs, list: [IPs -> IPState], todo: SUBSET IPs]
    \union [pc: {"listExpired"}, cfg: Configs, list: [IPs -> IPState], todo: SUBSET IPs,
            allow: SUBSET IPs, t: Instants]
    \union [pc: {"rows", "close"}, cfg: Configs, list: [IPs -> IPState], todo: SUBSET IPs,
            allow: SUBSET IPs, t: Instants, cur: IPs \union {NoIP},
            expired: SUBSET IPs, orphans: SUBSET IPs]

(* Every table, snapshot and operation in flight has the shape the code gives it. *)
TypeOK ==
    /\ now \in Instants
    /\ cfg \in Configs
    /\ tiState \in [IPs -> IPState]
    /\ blocked \in [IPs -> Instants \union {0}]
    /\ allow \subseteq IPs /\ openHard \subseteq IPs /\ openSoft \subseteq IPs
    /\ snap \in [allow: SUBSET IPs, auto: BOOLEAN]
    /\ req \in [Reqs -> ReqStates]
    /\ adm \in AdmStates
    /\ dw \in DwStates

(* Every copy of a source's row: stored, computed by a request that has    *)
(* yet to save it, and listed by the worker.                               *)
Copies ==
    {tiState[ip] : ip \in IPs}
    \union {req[r].st : r \in {q \in Reqs : req[q].pc \in {"row", "hard", "soft", "save"}}}
    \union (IF dw.pc \in {"listAllow", "listExpired", "rows", "close"}
            THEN {dw.list[ip] : ip \in IPs} ELSE {})

(* "Keep XP bounded ... so UI/analytics scales remain stable": no          *)
(* interleaving of events, decay, release and configuration changes leaves *)
(* a row with more XP than its level's threshold.                          *)
XPBounded == \A st \in Copies : st.xp <= threatLevelThreshold(st.level)

(* A source is banned for a while or for good, never both: every writer    *)
(* that sets perm_block also clears ban_until.                             *)
OneBanAtATime == \A st \in Copies : st.perm => st.banUntil = 0

(* The safety net of the decay worker: a source at the hard level does not *)
(* stay unblocked, however events, aborts and unblocks raced.              *)
HardLevelIsBlocked ==
    \A ip \in IPs :
        (HasRow(ip) /\ tiState[ip].level >= cfg.hard)
            ~> (IsIPBlocked(ip) \/ ip \in allow \/ tiState[ip].level < cfg.hard)

(* SyncThreatIntelBanHistoryOpen repairs what an abort between the row and *)
(* its history left: a block does not stay without an open history row.    *)
HistoryRepaired ==
    \A ip \in IPs :
        IsIPBlocked(ip) ~> (ip \in openHard \/ ~IsIPBlocked(ip))

Bothered(ip) == adm.pc # "idle" \/ \E r \in Reqs : req[r].pc # "idle" /\ req[r].ip = ip

(* A block past its retention is lifted once its source has been idle for  *)
(* the level decay, unless the source shows up again or is allowlisted.    *)
BlockEventuallyLifted ==
    \A ip \in IPs :
        (/\ IsIPBlocked(ip) /\ blocked[ip] < now - Retention
         /\ now - tiState[ip].lastSeen >= LevelDecayIdle)
            ~> (~IsIPBlocked(ip) \/ ip \in allow \/ Bothered(ip))
=============================================================================
