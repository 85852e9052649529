------------------------------ MODULE Firewall ------------------------------
(***************************************************************************)
(* Host-level enforcement: reconcileOSFirewall (internal/app/service.go)   *)
(* copies blocked_ips into the nftables sets through NftEnforcer           *)
(* (internal/firewall/nft.go), one nft command per step.                   *)
(*                                                                         *)
(* Nothing serialises the callers: the loop of StartThreatIntelSync (the   *)
(* minute ticker and the decay pass, one goroutine) and every handler that *)
(* changes blocked_ips call it, the handlers under a request context whose *)
(* cancellation makes the next store call or nft command fail.             *)
(***************************************************************************)
EXTENDS Integers, FiniteSets

CONSTANTS
    V4, V6,      \* public IPv4 and IPv6 sources (isPublicIPv4, isPublicIPv6)
    Private,     \* other sources: never handed to nftables
    Reqs,        \* concurrent handlers
    Loop,        \* the goroutine of StartThreatIntelSync
    Chunk,       \* elements per nft command (200)
    Handlers,    \* what the handlers do: event, block, unblock, config
    NoIP

IPs == V4 \union V6 \union Private
Callers == Reqs \union {Loop}

ASSUME FirewallAssumption ==
    /\ V4 \intersect V6 = {} /\ (V4 \union V6) \intersect Private = {}
    /\ Loop \notin Reqs /\ NoIP \notin IPs
    /\ Chunk \in Nat \ {0}
    /\ Handlers \subseteq {"event", "block", "unblock", "config"}

Modes == {"off", "hard_only", "all_blocked"}
Reasons == {"none", "plain", "hard"}

VARIABLES
    mode,    \* threatintel.os_firewall and os_firewall_mode
    rows,    \* blocked_ips: no row, or whether the reason contains "hard"
    hardBy,  \* sources whose threat state is hard (perm, risk or level)
    chain,   \* domnex_input: absent, at an old priority, at priority -300
    rule,    \* the drop rules on the two sets are in the chain
    fw,      \* elements of the two nftables sets
    run      \* callers

vars == <<mode, rows, hardBy, chain, rule, fw, run>>
kernel == <<chain, rule, fw>>
tables == <<mode, rows, hardBy>>

(* A caller at rest, and a caller in reconcileOSFirewall: ip and then say  *)
(* what its handler does afterwards.                                       *)
IdleRun == [pc |-> "idle"]
Reconcile(ip, then) == [pc |-> "config", ip |-> ip, then |-> then]

Init ==
    /\ mode \in Modes
    /\ rows = [ip \in IPs |-> "none"]
    /\ hardBy = {}
    /\ chain \in {"none", "legacy", "raw"}
    /\ rule = (chain # "none")
    /\ fw = {}
    /\ run = [c \in Callers |-> IdleRun]

Goto(c, pc) == run' = [run EXCEPT ![c].pc = pc]

-----------------------------------------------------------------------------
(* The callers. *)

(* ApplyThreatIntelEvent on a hard block: row, firewall, and only then the *)
(* state that makes the source hard.                                       *)
Event(c, ip) ==
    /\ "event" \in Handlers /\ run[c].pc = "idle"
    /\ rows' = [rows EXCEPT ![ip] = "plain"]
    /\ run' = [run EXCEPT ![c] = Reconcile(ip, "save")]
    /\ UNCHANGED <<mode, hardBy, kernel>>

EventSave(c) ==
    /\ run[c].pc = "save"
    /\ hardBy' = hardBy \union {run[c].ip}
    /\ run' = [run EXCEPT ![c] = IdleRun]
    /\ UNCHANGED <<mode, rows, kernel>>

AdminBlock(c, ip, reason) ==
    /\ "block" \in Handlers /\ run[c].pc = "idle"
    /\ rows' = [rows EXCEPT ![ip] = reason]
    /\ run' = [run EXCEPT ![c] = Reconcile(ip, "idle")]
    /\ UNCHANGED <<mode, hardBy, kernel>>

AdminUnblock(c, ip) ==
    /\ "unblock" \in Handlers /\ run[c].pc = "idle"
    /\ rows' = [rows EXCEPT ![ip] = "none"]
    /\ run' = [run EXCEPT ![c] = Reconcile(ip, "idle")]
    /\ UNCHANGED <<mode, hardBy, kernel>>

SetConfig(c) ==
    /\ "config" \in Handlers /\ run[c].pc = "idle"
    /\ mode' \in Modes \ {mode}
    /\ run' = [run EXCEPT ![c] = Reconcile(NoIP, "idle")]
    /\ UNCHANGED <<rows, hardBy, kernel>>

FirewallTick ==
    /\ run[Loop].pc = "idle"
    /\ run' = [run EXCEPT ![Loop] = Reconcile(NoIP, "idle")]
    /\ UNCHANGED <<tables, kernel>>

(* The decay pass, as far as the firewall can tell: promotion gives a hard *)
(* source its row and does not call the firewall; a release deletes the    *)
(* row, saves a state that is no longer hard, then calls it.               *)
Promote ==
    /\ run[Loop].pc = "idle"
    /\ \E ip \in hardBy : rows[ip] = "none"
    /\ rows' = [ip \in IPs |-> IF ip \in hardBy /\ rows[ip] = "none" THEN "hard" ELSE rows[ip]]
    /\ UNCHANGED <<mode, hardBy, kernel, run>>

Release(ip) ==
    /\ run[Loop].pc = "idle"
    /\ rows[ip] # "none"
    /\ rows' = [rows EXCEPT ![ip] = "none"]
    /\ run' = [run EXCEPT ![Loop] = [pc |-> "release", ip |-> ip]]
    /\ UNCHANGED <<mode, hardBy, kernel>>

ReleaseSave ==
    /\ run[Loop].pc = "release"
    /\ hardBy' = hardBy \ {run[Loop].ip}
    /\ run' = [run EXCEPT ![Loop] = Reconcile(NoIP, "idle")]
    /\ UNCHANGED <<mode, rows, kernel>>

-----------------------------------------------------------------------------
(* reconcileOSFirewall.                                                    *)

(* Mutated form: sources with private addresses are handed over too. *)
WantedAnySource(m, hard, table) == {ip \in IPs : m # "off" /\ table[ip] # "none"}

(* The sources the sets should hold, given which are hard. *)
Wanted(m, hard, table) ==
    {ip \in V4 \union V6 :
        /\ table[ip] # "none"
        /\ \/ m = "all_blocked"
           \/ m = "hard_only" /\ (ip \in hard \/ table[ip] = "hard")}

Target == Wanted(mode, hardBy, rows)

(* Return to the handler: an error ends reconcileOSFirewall the same way,  *)
(* the callers log or ignore it.                                           *)
Return(c) ==
    run' = [run EXCEPT ![c] = IF @.then = "save" THEN [pc |-> "save", ip |-> @.ip] ELSE IdleRun]

ReadConfig(c) ==
    /\ run[c].pc = "config"
    /\ run' = [run EXCEPT ![c] =
          [pc |-> IF mode = "off" THEN "disable4"
                  ELSE IF mode = "hard_only" THEN "states" ELSE "list",
           ip |-> @.ip, then |-> @.then, mode |-> mode, hard |-> {}]]
    /\ UNCHANGED <<tables, kernel>>

ListStates(c) ==
    /\ run[c].pc = "states"
    /\ run' = [run EXCEPT ![c].hard = hardBy, ![c].pc = "list"]
    /\ UNCHANGED <<tables, kernel>>

ListBlocked(c) ==
    /\ run[c].pc = "list"
    /\ run' = [run EXCEPT ![c] =
          [pc |-> "chain", ip |-> @.ip, then |-> @.then,
           todo |-> Wanted(@.mode, @.hard, rows)]]
    /\ UNCHANGED <<tables, kernel>>

(* Disable: flush both sets. *)
Disable(c) ==
    /\ \/ run[c].pc = "disable4" /\ fw' = fw \ V4 /\ Goto(c, "disable6")
       \/ run[c].pc = "disable6" /\ fw' = fw \ V6 /\ Return(c)
    /\ UNCHANGED <<tables, chain, rule>>

(* Mutated form: a chain of any priority will do. *)
CheckChainNoUpgrade(c) ==
    /\ run[c].pc = "chain"
    /\ Goto(c, IF chain = "none" THEN "addChain" ELSE "rules")
    /\ UNCHANGED <<tables, kernel>>

(* Ensure: the chain at its priority, then its rules.  The checks and the  *)
(* commands are separate: another caller may be between them.              *)
CheckChain(c) ==
    /\ run[c].pc = "chain"
    /\ Goto(c, CASE chain = "none" -> "addChain"
                 [] chain = "legacy" -> "flushChain"
                 [] chain = "raw" -> "rules")
    /\ UNCHANGED <<tables, kernel>>

FlushChain(c) ==
    /\ run[c].pc = "flushChain"
    /\ rule' = FALSE
    /\ Goto(c, "deleteChain")
    /\ UNCHANGED <<tables, chain, fw>>

(* A chain that has rules again cannot be deleted; the error is ignored.   *)
DeleteChain(c) ==
    /\ run[c].pc = "deleteChain"
    /\ chain' = IF rule THEN chain ELSE "none"
    /\ Goto(c, "addChain")
    /\ UNCHANGED <<tables, rule, fw>>

(* Adding over a chain of another priority is an error. *)
AddChain(c) ==
    /\ run[c].pc = "addChain"
    /\ IF chain = "legacy"
       THEN Return(c) /\ UNCHANGED chain
       ELSE chain' = "raw" /\ Goto(c, "rules")
    /\ UNCHANGED <<tables, rule, fw>>

(* Mutated form: a chain that exists is taken to have its rules. *)
CheckRulesAssumed(c) ==
    /\ run[c].pc = "rules"
    /\ Goto(c, "flush4")
    /\ UNCHANGED <<tables, kernel>>

CheckRules(c) ==
    /\ run[c].pc = "rules"
    /\ IF chain = "none" THEN Return(c) ELSE Goto(c, IF rule THEN "flush4" ELSE "addRules")
    /\ UNCHANGED <<tables, kernel>>

AddRules(c) ==
    /\ run[c].pc = "addRules"
    /\ IF chain = "none"
       THEN Return(c) /\ UNCHANGED rule
       ELSE rule' = TRUE /\ Goto(c, "flush4")
    /\ UNCHANGED <<tables, chain, fw>>

(* Mutated form: elements are only ever added. *)
FlushSkipped(c) ==
    /\ run[c].pc \in {"flush4", "flush6"}
    /\ Goto(c, IF run[c].pc = "flush4" THEN "flush6" ELSE "add")
    /\ UNCHANGED <<tables, kernel>>

(* Replace: flush both sets, then add the elements chunk by chunk.         *)
Flush(c) ==
    /\ \/ run[c].pc = "flush4" /\ fw' = fw \ V4 /\ Goto(c, "flush6")
       \/ run[c].pc = "flush6" /\ fw' = fw \ V6 /\ Goto(c, "add")
    /\ UNCHANGED <<tables, chain, rule>>

NextFamily(todo) == IF todo \intersect V4 # {} THEN todo \intersect V4 ELSE todo

AddElements(c) ==
    /\ run[c].pc = "add" /\ run[c].todo # {}
    /\ LET family == NextFamily(run[c].todo) IN
       \E part \in SUBSET family :
          /\ Cardinality(part) = (IF Cardinality(family) > Chunk THEN Chunk ELSE Cardinality(family))
          /\ fw' = fw \union part
          /\ run' = [run EXCEPT ![c].todo = @ \ part]
    /\ UNCHANGED <<tables, chain, rule>>

ReconcileEnd(c) ==
    /\ run[c].pc = "add" /\ run[c].todo = {}
    /\ Return(c)
    /\ UNCHANGED <<tables, kernel>>

(* The client of a handler goes away: the rest of the handler fails.       *)
Cancel(c) ==
    /\ c \in Reqs /\ run[c].pc # "idle"
    /\ run' = [run EXCEPT ![c] = IdleRun]
    /\ UNCHANGED <<tables, kernel>>

-----------------------------------------------------------------------------
HandlerStarts ==
    \E c \in Reqs :
        \/ \E ip \in IPs : Event(c, ip) \/ AdminUnblock(c, ip)
        \/ \E ip \in IPs, reason \in {"plain", "hard"} : AdminBlock(c, ip, reason)
        \/ SetConfig(c)

Step(c) ==
    \/ ReadConfig(c) \/ ListStates(c) \/ ListBlocked(c) \/ Disable(c)
    \/ CheckChain(c) \/ FlushChain(c) \/ DeleteChain(c) \/ AddChain(c)
    \/ CheckRules(c) \/ AddRules(c)
    \/ Flush(c) \/ AddElements(c) \/ ReconcileEnd(c)
    \/ EventSave(c)

Next ==
    \/ HandlerStarts
    \/ FirewallTick \/ Promote \/ ReleaseSave
    \/ \E ip \in IPs : Release(ip)
    \/ \E c \in Callers : Step(c) \/ Cancel(c)

Spec == Init /\ [][Next]_vars

(* The minute ticker keeps coming and the loop runs what it started; the   *)
(* handlers are under no obligation (a cancelled one may stop anywhere).   *)
(* The loop's select is not starved of firewall ticks by decay passes,     *)
(* which are five times rarer: strong fairness.                            *)
Fairness ==
    /\ WF_vars(Step(Loop)) /\ WF_vars(ReleaseSave)
    /\ SF_vars(FirewallTick)

FairSpec == Spec /\ Fairness

-----------------------------------------------------------------------------
(* Properties. *)

Thens == {"idle", "save"}
Targets == IPs \union {NoIP}
ApplyPCs == {"chain", "flushChain", "deleteChain", "addChain", "rules", "addRules",
             "flush4", "flush6", "add"}
ReadPCs == {"disable4", "disable6", "states", "list"}

Entering == [pc: {"config"}, ip: Targets, then: Thens]
Saving == [pc: {"save", "release"}, ip: IPs]
Reading == [pc: ReadPCs, ip: Targets, then: Thens, mode: Modes, hard: SUBSET IPs]
Applying == [pc: ApplyPCs, ip: Targets, then: Thens, todo: SUBSET (V4 \union V6)]
CallerStates == {IdleRun} \union Entering \union Saving \union Reading \union Applying

(* The shape of the tables, of the kernel's objects and of the callers; no *)
(* source with a private address is in a list for nftables or in its sets. *)
TypeOK ==
    /\ mode \in Modes
    /\ rows \in [IPs -> Reasons]
    /\ hardBy \subseteq IPs
    /\ chain \in {"none", "legacy", "raw"} /\ rule \in BOOLEAN
    /\ fw \subseteq V4 \union V6
    /\ run \in [Callers -> CallerStates]

Dropped == IF rule THEN fw ELSE {}

(* Once the mode has settled, a source that is to be dropped is dropped    *)
(* again and again, however concurrent reconciliations, cancellations and  *)
(* chain upgrades race: the ticker repairs a set that was left flushed or  *)
(* a chain without rules.                                                  *)
BlockReachesKernel ==
    \A m \in Modes, ip \in V4 \union V6 :
        <>[](mode = m /\ ip \in Target) => []<>(ip \in Dropped)

(* A source without a row does not stay in the sets: an element written    *)
(* from a list read before the unblock is flushed again.                   *)
UnblockReachesKernel ==
    \A ip \in V4 \union V6 : (rows[ip] = "none") ~> (ip \notin fw \/ rows[ip] # "none")

(* The chain never loses its rules for good once it has its priority.      *)
ChainEventuallyDrops == (mode # "off") ~> (mode = "off" \/ (chain = "raw" /\ rule))
=============================================================================
