--------------------------- MODULE FirewallProofs ---------------------------
(***************************************************************************)
(* Proof of Firewall's type invariant, which includes that no source with  *)
(* a private address is handed to nftables.  TypeOK alone is not inductive: *)
(* a caller that returns to a handler with a row to save must carry the    *)
(* source of that row (Carries).                                           *)
(***************************************************************************)
EXTENDS Firewall, TLAPS

Running == Entering \union Reading \union Applying

(* A reconciliation started by an event knows the event's source. *)
Carries(q) == q \in Running /\ q.then = "save" => q.ip \in IPs

(* The inductive invariant. *)
FwInv == TypeOK /\ \A c \in Callers : Carries(run[c])

(* A step that replaces one caller by a well-formed one and leaves tables  *)
(* and kernel well-formed keeps the invariant.                             *)
LEMMA CallerUpdate ==
    ASSUME FwInv, NEW c \in Callers, NEW v \in CallerStates, Carries(v),
           run' = [run EXCEPT ![c] = v],
           mode' \in Modes, rows' \in [IPs -> Reasons], hardBy' \subseteq IPs,
           chain' \in {"none", "legacy", "raw"}, rule' \in BOOLEAN, fw' \subseteq V4 \union V6
    PROVE  FwInv'
<1>1. run' \in [Callers -> CallerStates]
  BY DEF FwInv, TypeOK
<1>2. ASSUME NEW d \in Callers PROVE Carries(run'[d])
  BY <1>2 DEF FwInv, TypeOK
<1>3. \A d \in Callers : Carries(run[d])'
  BY <1>2 DEF Carries
<1> QED BY <1>1, <1>3 DEF FwInv, TypeOK

(* The disjoint shapes a caller may have, told apart by its pc. *)
LEMMA ByPC ==
    ASSUME NEW q \in CallerStates
    PROVE  /\ q.pc = "config" => q \in Entering
           /\ q.pc \in {"save", "release"} => q \in Saving
           /\ q.pc \in ReadPCs => q \in Reading
           /\ q.pc \in ApplyPCs => q \in Applying
           /\ q = IdleRun \/ q \in Saving \/ q \in Running
BY DEF CallerStates, Running, IdleRun, Entering, Saving, Reading, Applying, ReadPCs, ApplyPCs

(* Moving on within the commands, or within the reads, keeps the shape. *)
LEMMA GotoShape ==
    ASSUME NEW q \in CallerStates, Carries(q), NEW pc,
           \/ q \in Reading /\ pc \in ReadPCs
           \/ q \in Applying /\ pc \in ApplyPCs
    PROVE  [q EXCEPT !.pc = pc] \in CallerStates /\ Carries([q EXCEPT !.pc = pc])
<1>1. CASE q \in Reading /\ pc \in ReadPCs
  <2>1. [q EXCEPT !.pc = pc] \in Reading
    BY <1>1 DEF Reading
  <2> QED BY <1>1, <2>1 DEF Carries, CallerStates, Running, Reading
<1>2. CASE q \in Applying /\ pc \in ApplyPCs
  <2>1. [q EXCEPT !.pc = pc] \in Applying
    BY <1>2 DEF Applying
  <2> QED BY <1>2, <2>1 DEF Carries, CallerStates, Running, Applying
<1> QED BY <1>1, <1>2

(* Returning to the handler. *)
LEMMA ReturnShape ==
    ASSUME NEW q \in Running, Carries(q)
    PROVE  LET v == IF q.then = "save" THEN [pc |-> "save", ip |-> q.ip] ELSE IdleRun
           IN  v \in CallerStates /\ Carries(v)
<1>1. CASE q.then = "save"
  <2> DEFINE v == [pc |-> "save", ip |-> q.ip]
  <2>1. v \in Saving
    BY <1>1 DEF Carries, Saving
  <2>2. v.pc = "save"
    OBVIOUS
  <2> HIDE DEF v
  <2>3. v \notin Running
    BY <2>2 DEF Running, Entering, Reading, Applying, ReadPCs, ApplyPCs
  <2>4. v \in CallerStates /\ Carries(v)
    BY <2>1, <2>3 DEF Carries, CallerStates
  <2> QED BY <1>1, <2>4 DEF v
<1>2. CASE q.then # "save"
  <2>1. IdleRun \in CallerStates
    BY DEF CallerStates
  <2>2. IdleRun \notin Running
    <3>1. IdleRun.pc = "idle"
      BY DEF IdleRun
    <3> QED BY <3>1 DEF Running, Entering, Reading, Applying, ReadPCs, ApplyPCs
  <2> QED BY <1>2, <2>1, <2>2 DEF Carries
<1> QED BY <1>1, <1>2

(* A caller at rest. *)
LEMMA IdleShape == IdleRun \in CallerStates /\ Carries(IdleRun)
<1>1. IdleRun.pc = "idle" /\ IdleRun \in CallerStates
  BY DEF IdleRun, CallerStates
<1>2. IdleRun \notin Running
  BY <1>1 DEF Running, Entering, Reading, Applying, ReadPCs, ApplyPCs
<1> QED BY <1>1, <1>2 DEF Carries

(* A caller that has a row to save or to release. *)
LEMMA SavingShape ==
    ASSUME NEW ip \in IPs, NEW pc \in {"save", "release"}
    PROVE  [pc |-> pc, ip |-> ip] \in CallerStates /\ Carries([pc |-> pc, ip |-> ip])
<1> DEFINE v == [pc |-> pc, ip |-> ip]
<1>1. v \in Saving /\ v.pc \in {"save", "release"}
  BY DEF Saving
<1> HIDE DEF v
<1>2. v \notin Running
  BY <1>1 DEF Running, Entering, Reading, Applying, ReadPCs, ApplyPCs
<1>3. v \in CallerStates /\ Carries(v)
  BY <1>1, <1>2 DEF CallerStates, Carries
<1> QED BY <1>3 DEF v

(* A caller that enters reconcileOSFirewall. *)
LEMMA EnterShape ==
    ASSUME NEW ip \in Targets, NEW then \in Thens, then = "save" => ip \in IPs
    PROVE  Reconcile(ip, then) \in CallerStates /\ Carries(Reconcile(ip, then))
<1>1. /\ Reconcile(ip, then) \in Entering
      /\ Reconcile(ip, then).then = then /\ Reconcile(ip, then).ip = ip
  BY DEF Reconcile, Entering
<1> QED BY <1>1 DEF CallerStates, Carries

-----------------------------------------------------------------------------
(* The callers. *)

(* A handler changes a table and enters reconcileOSFirewall. *)
LEMMA HandlerSteps ==
    ASSUME FwInv, HandlerStarts PROVE FwInv'
<1> PICK c \in Reqs :
        \/ \E ip \in IPs : Event(c, ip) \/ AdminUnblock(c, ip)
        \/ \E ip \in IPs, reason \in {"plain", "hard"} : AdminBlock(c, ip, reason)
        \/ SetConfig(c)
  BY DEF HandlerStarts
<1> USE DEF Callers
<1>1. ASSUME NEW ip \in IPs, Event(c, ip) PROVE FwInv'
  BY <1>1, EnterShape, CallerUpdate
     DEF Event, FwInv, TypeOK, Reasons, Targets, Thens, kernel
<1>2. ASSUME NEW ip \in IPs, AdminUnblock(c, ip) PROVE FwInv'
  BY <1>2, EnterShape, CallerUpdate
     DEF AdminUnblock, FwInv, TypeOK, Reasons, Targets, Thens, kernel
<1>3. ASSUME NEW ip \in IPs, NEW reason \in {"plain", "hard"}, AdminBlock(c, ip, reason)
      PROVE  FwInv'
  BY <1>3, EnterShape, CallerUpdate
     DEF AdminBlock, FwInv, TypeOK, Reasons, Targets, Thens, kernel
<1>4. CASE SetConfig(c)
  BY <1>4, EnterShape, CallerUpdate DEF SetConfig, FwInv, TypeOK, Targets, Thens, kernel
<1> QED BY <1>1, <1>2, <1>3, <1>4

(* The ticker and the decay pass. *)
LEMMA LoopSteps ==
    ASSUME FwInv, FirewallTick \/ Promote \/ ReleaseSave \/ \E ip \in IPs : Release(ip)
    PROVE  FwInv'
<1> USE DEF Callers
<1>1. CASE FirewallTick
  BY <1>1, EnterShape, CallerUpdate
     DEF FirewallTick, FwInv, TypeOK, Targets, Thens, tables, kernel
<1>2. CASE Promote
  <2>1. rows' \in [IPs -> Reasons]
    BY <1>2 DEF Promote, FwInv, TypeOK, Reasons
  <2>2. TypeOK'
    BY <1>2, <2>1 DEF Promote, FwInv, TypeOK, kernel
  <2> QED BY <1>2, <2>2 DEF Promote, FwInv, Carries
<1>3. CASE ReleaseSave
  <2>1. hardBy' \subseteq IPs
    BY <1>3 DEF ReleaseSave, FwInv, TypeOK
  <2> QED BY <1>3, <2>1, EnterShape, CallerUpdate
      DEF ReleaseSave, FwInv, TypeOK, Targets, Thens, kernel
<1>4. ASSUME NEW ip \in IPs, Release(ip) PROVE FwInv'
  BY <1>4, SavingShape, CallerUpdate DEF Release, FwInv, TypeOK, Reasons, kernel
<1> QED BY <1>1, <1>2, <1>3, <1>4

-----------------------------------------------------------------------------
(* reconcileOSFirewall. *)

(* A caller that moves on within its reads or its commands. *)
LEMMA GotoCaller ==
    ASSUME FwInv, NEW c \in Callers, NEW pc, Goto(c, pc),
           \/ run[c].pc \in ReadPCs /\ pc \in ReadPCs
           \/ run[c].pc \in ApplyPCs /\ pc \in ApplyPCs,
           tables' = tables,
           chain' \in {"none", "legacy", "raw"}, rule' \in BOOLEAN, fw' \subseteq V4 \union V6
    PROVE  FwInv'
<1> DEFINE v == [run[c] EXCEPT !.pc = pc]
<1>1. run[c] \in CallerStates /\ Carries(run[c])
  BY DEF FwInv, TypeOK
<1>2. /\ run[c].pc \in ReadPCs => run[c] \in Reading
      /\ run[c].pc \in ApplyPCs => run[c] \in Applying
  BY <1>1, ByPC
<1>3. v \in CallerStates /\ Carries(v)
  BY <1>1, <1>2, GotoShape
<1>4. run' = [run EXCEPT ![c] = v]
  BY DEF Goto
<1> HIDE DEF v
<1> QED BY <1>3, <1>4, CallerUpdate DEF FwInv, TypeOK, tables

(* A caller that returns to its handler. *)
LEMMA ReturnCaller ==
    ASSUME FwInv, NEW c \in Callers, Return(c), run[c].pc \in ReadPCs \union ApplyPCs,
           tables' = tables,
           chain' \in {"none", "legacy", "raw"}, rule' \in BOOLEAN, fw' \subseteq V4 \union V6
    PROVE  FwInv'
<1> DEFINE v == IF run[c].then = "save" THEN [pc |-> "save", ip |-> run[c].ip] ELSE IdleRun
<1>1. run[c] \in CallerStates /\ Carries(run[c])
  BY DEF FwInv, TypeOK
<1>2. run[c] \in Running
  BY <1>1, ByPC DEF Running
<1>3. v \in CallerStates /\ Carries(v)
  BY <1>1, <1>2, ReturnShape
<1>4. run' = [run EXCEPT ![c] = v]
  BY DEF Return
<1> HIDE DEF v
<1> QED BY <1>3, <1>4, CallerUpdate DEF FwInv, TypeOK, tables

(* The configuration is read. *)
LEMMA ReadConfigStep ==
    ASSUME FwInv, NEW c \in Callers, ReadConfig(c) PROVE FwInv'
<1> DEFINE pc == IF mode = "off" THEN "disable4"
                 ELSE IF mode = "hard_only" THEN "states" ELSE "list"
           v == [pc |-> pc, ip |-> run[c].ip, then |-> run[c].then, mode |-> mode, hard |-> {}]
<1>1. run[c] \in Entering /\ Carries(run[c])
  BY ByPC DEF ReadConfig, FwInv, TypeOK
<1>2. v \in Reading /\ v.then = run[c].then /\ v.ip = run[c].ip
  BY <1>1 DEF Entering, Reading, ReadPCs, FwInv, TypeOK
<1>3. run' = [run EXCEPT ![c] = v]
  BY DEF ReadConfig
<1> HIDE DEF v
<1>4. v \in CallerStates /\ Carries(v)
  BY <1>1, <1>2 DEF CallerStates, Carries, Running
<1> QED BY <1>3, <1>4, CallerUpdate DEF ReadConfig, FwInv, TypeOK, tables, kernel

(* The threat states are listed. *)
LEMMA ListStatesStep ==
    ASSUME FwInv, NEW c \in Callers, ListStates(c) PROVE FwInv'
<1> DEFINE q == run[c]
           v == [pc |-> "list", ip |-> q.ip, then |-> q.then, mode |-> q.mode, hard |-> hardBy]
<1>1. q \in Reading /\ Carries(q)
  BY ByPC DEF ListStates, FwInv, TypeOK, ReadPCs
<1>2. v \in Reading /\ v.then = q.then /\ v.ip = q.ip
  BY <1>1 DEF Reading, ReadPCs, FwInv, TypeOK
<1>3. run' = [run EXCEPT ![c] = v]
  BY <1>1 DEF ListStates, Reading, FwInv, TypeOK
<1> HIDE DEF v
<1>4. v \in CallerStates /\ Carries(v)
  BY <1>1, <1>2 DEF CallerStates, Carries, Running
<1> QED BY <1>3, <1>4, CallerUpdate DEF ListStates, FwInv, TypeOK, tables, kernel

(* The list handed to nftables holds public sources only. *)
LEMMA ListBlockedStep ==
    ASSUME FwInv, NEW c \in Callers, ListBlocked(c) PROVE FwInv'
<1> DEFINE q == run[c]
           todo == Wanted(q.mode, q.hard, rows)
           v == [pc |-> "chain", ip |-> q.ip, then |-> q.then, todo |-> todo]
<1>1. q \in Reading /\ Carries(q)
  BY ByPC DEF ListBlocked, FwInv, TypeOK, ReadPCs
<1>2. todo \subseteq V4 \union V6
  BY DEF Wanted
<1>3. run' = [run EXCEPT ![c] = v]
  BY DEF ListBlocked
<1> HIDE DEF todo
<1>4. v \in Applying /\ v.then = q.then /\ v.ip = q.ip
  BY <1>1, <1>2 DEF Reading, Applying, ApplyPCs
<1> HIDE DEF v
<1>5. v \in CallerStates /\ Carries(v)
  BY <1>1, <1>4 DEF CallerStates, Carries, Running
<1> QED BY <1>3, <1>5, CallerUpdate DEF ListBlocked, FwInv, TypeOK, tables, kernel

(* A chunk of the list is added to the sets. *)
LEMMA AddElementsStep ==
    ASSUME FwInv, NEW c \in Callers, AddElements(c) PROVE FwInv'
<1>1. run[c] \in Applying /\ Carries(run[c])
  BY ByPC DEF AddElements, FwInv, TypeOK, ApplyPCs
<1>2. PICK part \in SUBSET NextFamily(run[c].todo) :
        fw' = fw \union part /\ run' = [run EXCEPT ![c].todo = @ \ part]
  BY DEF AddElements
<1>3. part \subseteq V4 \union V6
  BY <1>1 DEF NextFamily, Applying
<1> DEFINE v == [run[c] EXCEPT !.todo = @ \ part]
<1>4. v \in Applying /\ v.then = run[c].then /\ v.ip = run[c].ip
  BY <1>1 DEF Applying
<1>5. run' = [run EXCEPT ![c] = v]
  BY <1>2
<1> HIDE DEF v
<1>6. v \in CallerStates /\ Carries(v)
  BY <1>1, <1>4 DEF CallerStates, Carries, Running
<1>7. fw' \subseteq V4 \union V6
  BY <1>2, <1>3 DEF FwInv, TypeOK
<1> QED BY <1>5, <1>6, <1>7, CallerUpdate DEF AddElements, FwInv, TypeOK, tables

(* The event saves its state. *)
LEMMA EventSaveStep ==
    ASSUME FwInv, NEW c \in Callers, EventSave(c) PROVE FwInv'
<1>1. run[c].ip \in IPs
  BY ByPC DEF EventSave, FwInv, TypeOK, Saving
<1> QED BY <1>1, IdleShape, CallerUpdate DEF EventSave, FwInv, TypeOK, kernel

(* A client goes away. *)
LEMMA CancelStep ==
    ASSUME FwInv, NEW c \in Callers, Cancel(c) PROVE FwInv'
BY IdleShape, CallerUpdate DEF Cancel, FwInv, TypeOK, tables, kernel

(* The nft commands. *)
LEMMA CommandSteps ==
    ASSUME FwInv, NEW c \in Callers,
           \/ Disable(c) \/ CheckChain(c) \/ FlushChain(c) \/ DeleteChain(c) \/ AddChain(c)
           \/ CheckRules(c) \/ AddRules(c) \/ Flush(c) \/ ReconcileEnd(c)
    PROVE  FwInv'
<1> DEFINE typed == /\ chain \in {"none", "legacy", "raw"} /\ rule \in BOOLEAN
                    /\ fw \subseteq V4 \union V6
<1>0. typed
  BY DEF FwInv, TypeOK
<1>1. CASE Disable(c)
  BY <1>0, <1>1, GotoCaller, ReturnCaller DEF Disable, ReadPCs, tables
<1>2. CASE CheckChain(c)
  <2>1. PICK pc \in {"addChain", "flushChain", "rules"} : Goto(c, pc)
    BY <1>0, <1>2 DEF CheckChain
  <2> QED BY <1>0, <1>2, <2>1, GotoCaller DEF CheckChain, ApplyPCs, tables, kernel
<1>3. CASE FlushChain(c)
  BY <1>0, <1>3, GotoCaller DEF FlushChain, ApplyPCs, tables
<1>4. CASE DeleteChain(c)
  BY <1>0, <1>4, GotoCaller DEF DeleteChain, ApplyPCs, tables
<1>5. CASE AddChain(c)
  BY <1>0, <1>5, GotoCaller, ReturnCaller DEF AddChain, ApplyPCs, tables
<1>6. CASE CheckRules(c)
  BY <1>0, <1>6, GotoCaller, ReturnCaller DEF CheckRules, ApplyPCs, tables, kernel
<1>7. CASE AddRules(c)
  BY <1>0, <1>7, GotoCaller, ReturnCaller DEF AddRules, ApplyPCs, tables
<1>8. CASE Flush(c)
  BY <1>0, <1>8, GotoCaller DEF Flush, ApplyPCs, tables
<1>9. CASE ReconcileEnd(c)
  BY <1>0, <1>9, ReturnCaller DEF ReconcileEnd, ApplyPCs, tables, kernel
<1> QED BY <1>1, <1>2, <1>3, <1>4, <1>5, <1>6, <1>7, <1>8, <1>9

-----------------------------------------------------------------------------
(* FwInv holds at the start. *)
LEMMA FwInitially == Init => FwInv
<1> SUFFICES ASSUME Init PROVE FwInv
  OBVIOUS
<1>1. TypeOK
  BY IdleShape DEF Init, TypeOK, Reasons
<1>2. ASSUME NEW c \in Callers PROVE Carries(run[c])
  BY <1>2, IdleShape DEF Init
<1> QED BY <1>1, <1>2 DEF FwInv

(* Every step keeps FwInv. *)
LEMMA FwInductive == FwInv /\ [Next]_vars => FwInv'
<1> SUFFICES ASSUME FwInv, [Next]_vars PROVE FwInv'
  OBVIOUS
<1>1. CASE HandlerStarts
  BY <1>1, HandlerSteps
<1>2. CASE FirewallTick \/ Promote \/ ReleaseSave \/ \E ip \in IPs : Release(ip)
  BY <1>2, LoopSteps
<1>3. ASSUME NEW c \in Callers, Step(c) \/ Cancel(c) PROVE FwInv'
  BY <1>3, ReadConfigStep, ListStatesStep, ListBlockedStep, AddElementsStep, EventSaveStep,
     CancelStep, CommandSteps DEF Step
<1>4. CASE UNCHANGED vars
  BY <1>4 DEF vars, FwInv, TypeOK, Carries
<1> QED BY <1>1, <1>2, <1>3, <1>4 DEF Next

(* For every set of sources, handlers and chunk size, however the          *)
(* reconciliations of reconcileOSFirewall interleave and are cancelled:    *)
(* tables, kernel objects and callers keep their shape, and no private     *)
(* address is in the nftables sets or in a list on its way to them.        *)
THEOREM FirewallTypes == Spec => []TypeOK
<1>1. FwInv => TypeOK
  BY DEF FwInv
<1> QED BY <1>1, FwInitially, FwInductive, PTL DEF Spec
=============================================================================
