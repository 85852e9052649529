----------------------------- MODULE HostsProofs -----------------------------
(***************************************************************************)
(* Proofs about Hosts: the type invariant and NoOrphanHosts, for every set *)
(* of handlers, labels and addresses and every bound.  Neither is          *)
(* inductive alone: what a process may still read from its lists depends   *)
(* on the call it is at (Shape), and a host is inserted under a domain     *)
(* that CreateHost read earlier.                                           *)
(***************************************************************************)
EXTENDS Hosts, TLAPS, FiniteSetTheorems, SequenceTheorems

(* The states a handler has yet to set, where the next one is a state. *)
PlainGoals ==
    {<<"dns_pending", "cert_pending", "active">>, <<"cert_pending", "active">>, <<"active">>,
     <<"error">>, <<"disabled">>, <<"maintenance">>}
WithDNS == <<"dns_pending", "dns", "cert_pending", "active">>
AtDNS == <<"dns", "cert_pending", "active">>

(* The calls about addresses and records, and who makes them. *)
DNSCalls == {"current", "save", "assign", "domains", "hosts", "compare", "upsert", "send"}
DNSOps == AddressOps \union {"sync", "maint"}

(* What a process holds at each of its calls. *)
Shape(q) ==
    /\ q.pc \in {"insert", "set", "write"} =>
         \/ q.goal \in PlainGoals
         \/ q.goal = WithDNS /\ q.op = "create" /\ q.part = "none"
    /\ q.pc = "insert" => q.op = "create" /\ q.l \in Labels /\ q.dom # 0
    /\ q.pc \in DNSCalls => q.op \in DNSOps /\ (q.op = "create" => q.goal = AtDNS)
    /\ q.pc = "current" => q.op \in {"create", "upsert_domain", "sync", "maint"} /\ q.part = "none"
    /\ q.pc \in {"compare", "upsert", "send"} => q.todo # <<>>
    /\ q.pc = "retry" => q.id # 0
    /\ q.pc = "pick" => q.op = "deactivate"
    /\ q.pc = "erase" => q.left # <<>>
    /\ q.pc \in {"find", "erase"} => q.l \in Names /\ q.op = "remove"
    /\ q.op = "deactivate" => q.left \in Seq(1..MaxIDs)

Good(q) == q \in Proc /\ Shape(q)

(* The tables, the records and the address have their types. *)
RowsOK ==
    /\ domain \in [id: 0..MaxIDs, mode: {"cloudflare", "manual"}, status: {"none", "active", "inactive"}]
    /\ host \in [Labels -> [id: 0..MaxIDs, dom: 0..MaxIDs, state: States]]
    /\ ids \in 1..MaxIDs /\ backoff \subseteq 1..MaxIDs
    /\ NoOrphanHosts

WorldOK ==
    /\ records \in [Names -> Seq(IPs)]
    /\ {publicIP, setting} \subseteq IPs \union {NoIP} /\ wan \in IPs /\ up \in BOOLEAN
    /\ starts \in 0..MaxStarts /\ env \in 0..MaxEnv /\ cut \subseteq 0..MaxIDs

(* The inductive invariant. *)
HInv ==
    /\ RowsOK /\ WorldOK
    /\ proc \in [Procs -> Proc] /\ \A p \in Procs : Shape(proc[p])

-----------------------------------------------------------------------------
(* Sequences and names. *)

(* A listing of a finite set is a sequence of its elements, as long as the *)
(* set is large.                                                           *)
LEMMA InOrderListing ==
    ASSUME NEW S, IsFiniteSet(S)
    PROVE  InOrder(S) \in Seq(S) /\ (S # {} => InOrder(S) # <<>>)
<1> DEFINE n == Cardinality(S)
<1>1. n \in Nat /\ ExistsBijection(1..n, S)
  BY FS_CardinalityType
<1>2. PICK f : f \in Bijection(1..n, S)
  BY <1>1 DEF ExistsBijection
<1>3. f \in [1..n -> S] /\ \A i, j \in DOMAIN f : i # j => f[i] # f[j]
  BY <1>2 DEF Bijection, Injection, IsInjective
<1>4. InOrder(S) \in [1..n -> S]
  BY <1>3 DEF InOrder
<1>5. InOrder(S) \in Seq(S) /\ Len(InOrder(S)) = n
  BY <1>1, <1>4
<1>6. S # {} => n # 0
  BY FS_EmptySet
<1> QED BY <1>5, <1>6

(* Every standing name is listed, the apex first. *)
LEMMA NamesListed ==
    /\ OwnNames \in Seq(Names) /\ OwnNames # <<>>
    /\ StandingNames \in Seq(Names) /\ StandingNames # <<>>
<1> USE HostsAssumption DEF Names
<1>1. ASSUME NEW n PROVE IfStanding(n) \in Seq(Names)
  <2>1. CASE n \in Standing
    <3>1. n \in Names
      BY <2>1
    <3>2. <<n>> \in Seq(Names)
      BY <3>1
    <3> QED BY <2>1, <3>2 DEF IfStanding
  <2>2. CASE n \notin Standing
    BY <2>2 DEF IfStanding
  <2> QED BY <2>1, <2>2
<1>2. <<"apex">> \in Seq(Names) /\ Len(<<"apex">>) = 1
  OBVIOUS
<1>3. OwnNames \in Seq(Names) /\ Len(OwnNames) > 0
  <2>1. IfStanding("wildcard") \in Seq(Names)
    BY <1>1
  <2> QED BY <1>2, <2>1, ConcatProperties DEF OwnNames
<1>4. StandingNames \in Seq(Names) /\ Len(StandingNames) > 0
  <2>1. IfStanding("admin") \in Seq(Names)
    BY <1>1
  <2> QED BY <1>3, <2>1, ConcatProperties DEF StandingNames
<1> QED BY <1>3, <1>4

(* What is left of the goals of a handler. *)
LEMMA GoalTails ==
    /\ \A g \in PlainGoals : Head(g) \in States /\ Head(g) # "dns" /\ (Tail(g) = <<>> \/ Tail(g) \in PlainGoals)
    /\ Head(WithDNS) = "dns_pending" /\ Tail(WithDNS) = AtDNS
    /\ Head(AtDNS) = "dns" /\ Tail(AtDNS) \in PlainGoals /\ AtDNS # <<>>
    /\ \A g \in PlainGoals : g # <<>> /\ g \in Seq(States \union {"dns"})
    /\ WithDNS \in Seq(States \union {"dns"}) /\ AtDNS \in Seq(States \union {"dns"})
<1> USE DEF States, Pending
<1>1. ASSUME NEW g \in PlainGoals
      PROVE  /\ Head(g) \in States /\ Head(g) # "dns" /\ (Tail(g) = <<>> \/ Tail(g) \in PlainGoals)
             /\ g # <<>> /\ g \in Seq(States \union {"dns"})
  <2>1. CASE g = <<"dns_pending", "cert_pending", "active">>
    BY <2>1 DEF PlainGoals
  <2>2. CASE g = <<"cert_pending", "active">>
    BY <2>2 DEF PlainGoals
  <2>3. CASE \E x \in {"active", "error", "disabled", "maintenance"} : g = <<x>>
    BY <2>3
  <2> QED BY <2>1, <2>2, <2>3 DEF PlainGoals
<1>2. /\ Head(WithDNS) = "dns_pending" /\ Tail(WithDNS) = AtDNS
      /\ Head(AtDNS) = "dns" /\ Tail(AtDNS) \in PlainGoals /\ AtDNS # <<>>
      /\ WithDNS \in Seq(States \union {"dns"}) /\ AtDNS \in Seq(States \union {"dns"})
  BY DEF WithDNS, AtDNS, PlainGoals
<1> QED BY <1>1, <1>2
-----------------------------------------------------------------------------
(* What a process becomes. *)

(* A process that works on addresses and records. *)
Serving(q) == q \in Proc /\ q.op \in DNSOps /\ (q.op = "create" => q.goal = AtDNS)

(* A process at rest. *)
LEMMA IdleGood == Good(Idle)
<1>1. Idle \in Proc
  BY HostsAssumption DEF Idle, Proc, Names, States, Pending
<1>2. Idle.pc = "idle" /\ Idle.op = "none"
  BY DEF Idle
<1>3. Shape(Idle)
  BY <1>2 DEF Shape, DNSCalls
<1> QED BY <1>1, <1>3 DEF Good

(* A handler that has set one of its states goes on to the next, to the    *)
(* DNS work of CreateHost or to its end.                                   *)
LEMMA OnwardsGood ==
    ASSUME NEW q \in Proc,
           q.op = "deactivate" => q.left \in Seq(1..MaxIDs),
           q.goal = <<>> \/ q.goal \in PlainGoals \/ (q.goal = AtDNS /\ q.op = "create" /\ q.part = "none")
    PROVE  Good(Onwards(q))
<1>1. CASE q.op = "deactivate"
  <2> DEFINE v == [q EXCEPT !.pc = "pick"]
  <2>1. v \in Proc /\ v.pc = "pick" /\ v.left = q.left /\ v.op = q.op
    BY DEF Proc
  <2> HIDE DEF v
  <2>2. Shape(v)
    BY <1>1, <2>1 DEF Shape, DNSCalls
  <2>3. Onwards(q) = v
    BY <1>1 DEF Onwards, v
  <2> QED BY <2>1, <2>2, <2>3 DEF Good
<1>2. CASE q.op # "deactivate" /\ q.goal = <<>>
  <2>1. Onwards(q) = Idle
    BY <1>2 DEF Onwards
  <2> QED BY <2>1, IdleGood
<1>3. CASE q.op # "deactivate" /\ q.goal \in PlainGoals
  <2> DEFINE v == [q EXCEPT !.pc = "set"]
  <2>1. v \in Proc /\ v.pc = "set" /\ v.goal = q.goal /\ v.op = q.op
    BY DEF Proc
  <2> HIDE DEF v
  <2>2. Shape(v)
    BY <1>3, <2>1 DEF Shape, DNSCalls
  <2>3. Head(q.goal) # "dns" /\ q.goal # <<>>
    BY <1>3, GoalTails
  <2>4. Onwards(q) = v
    BY <1>3, <2>3 DEF Onwards, v
  <2> QED BY <2>1, <2>2, <2>4 DEF Good
<1>4. CASE q.goal = AtDNS /\ q.op = "create" /\ q.part = "none"
  <2> DEFINE v == [q EXCEPT !.pc = "current"]
  <2>1. v \in Proc /\ v.pc = "current" /\ v.goal = AtDNS /\ v.op = "create" /\ v.part = "none"
    BY <1>4 DEF Proc
  <2> HIDE DEF v
  <2>2. Shape(v)
    BY <2>1 DEF Shape, DNSCalls, DNSOps, AddressOps
  <2>3. Head(q.goal) = "dns" /\ q.goal # <<>>
    BY <1>4, GoalTails
  <2>4. Onwards(q) = v
    BY <1>4, <2>3 DEF Onwards, v
  <2> QED BY <2>1, <2>2, <2>4 DEF Good
<1> QED BY <1>1, <1>2, <1>3, <1>4

(* UpdatePublicIP returns. *)
LEMMA ReturnedGood ==
    ASSUME NEW q, Serving(q) PROVE Good(Returned(q))
<1>1. CASE q.op \in {"create", "upsert_domain"}
  <2> DEFINE names == IF q.op = "create" THEN <<"apex", q.l>> ELSE OwnNames
             v == [q EXCEPT !.pc = "upsert", !.part = "own", !.todo = names]
  <2>1. "apex" \in Names /\ q.l \in Names
    BY HostsAssumption DEF Serving, Proc, Names
  <2>2. names \in Seq(Names) /\ names # <<>>
    BY <2>1, NamesListed
  <2>3. Returned(q) = v
    BY <1>1 DEF Returned
  <2> HIDE DEF names
  <2>4. v \in Proc /\ v.pc = "upsert" /\ v.todo = names /\ v.op = q.op /\ v.goal = q.goal
    BY <2>2 DEF Proc, Serving
  <2> HIDE DEF v
  <2>5. Shape(v)
    BY <1>1, <2>2, <2>4 DEF Shape, DNSCalls, DNSOps, AddressOps, Serving
  <2> QED BY <2>3, <2>4, <2>5 DEF Good
<1>2. CASE q.op \notin {"create", "upsert_domain"}
  <2>1. Returned(q) = Idle
    BY <1>2 DEF Returned
  <2> QED BY <2>1, IdleGood
<1> QED BY <1>1, <1>2

(* The end of a list. *)
LEMMA ListDoneGood ==
    ASSUME NEW q, Serving(q) PROVE Good(ListDone(q))
<1>1. CASE q.part = "standing" \/ (q.part = "own" /\ q.op = "upsert_domain")
  <2> DEFINE v == [q EXCEPT !.pc = "hosts"]
  <2>1. v \in Proc /\ v.pc = "hosts" /\ v.op = q.op /\ v.goal = q.goal
    BY DEF Proc, Serving
  <2>2. ListDone(q) = v
    BY <1>1 DEF ListDone
  <2> HIDE DEF v
  <2>3. Shape(v)
    BY <2>1 DEF Shape, DNSCalls, DNSOps, AddressOps, Serving
  <2> QED BY <2>1, <2>2, <2>3 DEF Good
<1>2. CASE q.part = "hosts"
  <2>1. ListDone(q) = Returned(q)
    BY <1>2 DEF ListDone
  <2> QED BY <2>1, ReturnedGood
<1>3. CASE q.part = "own" /\ q.op = "create"
  <2> DEFINE v == [q EXCEPT !.goal = Tail(@)]
  <2>1. Tail(q.goal) \in PlainGoals /\ Tail(q.goal) \in Seq(States \union {"dns"})
    BY <1>3, GoalTails DEF Serving
  <2>2. v \in Proc /\ v.goal \in PlainGoals /\ v.op = "create"
    BY <1>3, <2>1 DEF Serving, Proc
  <2>3. ListDone(q) = Onwards(v)
    BY <1>3 DEF ListDone
  <2> HIDE DEF v
  <2> QED BY <2>2, <2>3, OnwardsGood
<1>4. CASE ListDone(q) = Idle
  BY <1>4, IdleGood
<1> QED BY <1>1, <1>2, <1>3, <1>4 DEF ListDone

(* A list to work through. *)
LEMMA WorkingGood ==
    ASSUME NEW q, Serving(q), NEW names \in Seq(Names) PROVE Good(Working(q, names))
<1> DEFINE v == [q EXCEPT !.todo = names, !.pc = "upsert", !.rec = "none", !.val = NoIP]
<1>1. v \in Proc /\ v.op = q.op /\ v.goal = q.goal /\ v.pc = "upsert" /\ v.todo = names
  BY DEF Proc, Serving
<1>2. Working(q, names) = IF names = <<>> THEN ListDone(v) ELSE v
  BY DEF Working
<1> HIDE DEF v
<1>3. Serving(v)
  BY <1>1 DEF Serving
<1>4. CASE names = <<>>
  BY <1>2, <1>3, <1>4, ListDoneGood
<1>5. CASE names # <<>>
  <2>1. Shape(v)
    BY <1>1, <1>3, <1>5 DEF Shape, Serving, DNSCalls, DNSOps, AddressOps
  <2> QED BY <1>1, <1>2, <1>5, <2>1 DEF Good
<1> QED BY <1>4, <1>5

(* The next name of the list, or what an error leads to. *)
LEMMA NextNameGood ==
    ASSUME NEW q, Serving(q), q.todo # <<>> PROVE Good(NextName(q))
<1>1. q.todo \in Seq(Names)
  BY DEF Serving, Proc
<1>2. Tail(q.todo) \in Seq(Names)
  BY <1>1
<1> QED BY <1>2, WorkingGood DEF NextName

(* An operation that fails at a step that can fail is left in good order. *)
LEMMA FailedGood ==
    ASSUME NEW q, Serving(q),
           q.todo # <<>> \/ (q.part = "none" /\ q.op \in {"create", "upsert_domain"})
    PROVE  Good(Failed(q))
<1>1. CASE q.op = "create" /\ q.part \in {"none", "own"}
  <2> DEFINE v == [q EXCEPT !.pc = "set", !.goal = <<"error">>]
  <2>1. <<"error">> \in PlainGoals /\ <<"error">> \in Seq(States \union {"dns"})
    BY GoalTails DEF PlainGoals
  <2>2. v \in Proc /\ v.goal \in PlainGoals /\ v.pc = "set" /\ v.op = "create"
    BY <1>1, <2>1 DEF Serving, Proc
  <2>3. Failed(q) = v
    BY <1>1 DEF Failed
  <2> HIDE DEF v
  <2>4. Shape(v)
    BY <2>2 DEF Shape, DNSCalls
  <2> QED BY <2>2, <2>3, <2>4 DEF Good
<1>2. CASE q.op = "upsert_domain" /\ q.part \in {"none", "own", "ownhosts"}
  <2>1. Failed(q) = Idle
    BY <1>2 DEF Failed
  <2> QED BY <2>1, IdleGood
<1>3. CASE /\ ~(q.op = "create" /\ q.part \in {"none", "own"})
           /\ ~(q.op = "upsert_domain" /\ q.part \in {"none", "own", "ownhosts"})
  <2>1. Failed(q) = NextName(q)
    BY <1>3 DEF Failed
  <2> QED BY <1>3, <2>1, NextNameGood
<1> QED BY <1>1, <1>2, <1>3

-----------------------------------------------------------------------------
(* Frames. *)

(* Leaving the rows alone keeps what is said of them. *)
LEMMA RowsKept == ASSUME RowsOK, UNCHANGED rows PROVE RowsOK'
BY DEF RowsOK, rows, NoOrphanHosts

(* Leaving the records and the address alone keeps what is said of them. *)
LEMMA WorldKept == ASSUME WorldOK, UNCHANGED <<records, address, world, starts, cut>> PROVE WorldOK'
BY DEF WorldOK, address, world

(* A step that replaces one process by a good one. *)
LEMMA ProcUpdate ==
    ASSUME HInv, NEW p \in Procs, NEW v, Good(v), Set(p, v), RowsOK', WorldOK'
    PROVE  HInv'
<1>1. proc' \in [Procs -> Proc]
  BY DEF HInv, Good, Set
<1>2. ASSUME NEW q \in Procs PROVE Shape(proc'[q])
  BY DEF HInv, Good, Set
<1>3. \A q \in Procs : Shape(proc[q])'
  BY <1>2 DEF Shape
<1> QED BY <1>1, <1>3 DEF HInv

(* A step that changes nothing but one process. *)
LEMMA ProcOnly ==
    ASSUME HInv, NEW p \in Procs, NEW v, Good(v), Set(p, v),
           UNCHANGED <<rows, records, address, world, starts, cut>>
    PROVE  HInv'
<1>1. RowsOK'
  BY RowsKept DEF HInv
<1>2. WorldOK'
  BY WorldKept DEF HInv
<1> QED BY <1>1, <1>2, ProcUpdate

(* A handler arrives. *)
LEMMA StartUpdate ==
    ASSUME HInv, NEW r \in Reqs, NEW op, NEW me, Start(r, op, me), Good([me EXCEPT !.op = op]), RowsOK',
           UNCHANGED <<records, address, world, cut>>
    PROVE  HInv'
<1>1. WorldOK'
  BY HostsAssumption DEF HInv, WorldOK, address, world, Start
<1>2. r \in Procs /\ Set(r, [me EXCEPT !.op = op])
  BY DEF Start, Procs
<1> QED BY <1>1, <1>2, ProcUpdate

-----------------------------------------------------------------------------
(* The handlers arrive. *)

(* The record of a handler that arrives. *)
LEMMA StartShapes ==
    /\ \A l \in Labels, d \in (0..MaxIDs) \ {0}, g \in PlainGoals \union {WithDNS} :
         Good([[Idle EXCEPT !.pc = "insert", !.l = l, !.dom = d, !.goal = g] EXCEPT !.op = "create"])
    /\ \A i \in 0..MaxIDs, g \in PlainGoals :
         Good([[Idle EXCEPT !.pc = "set", !.id = i, !.goal = g] EXCEPT !.op = "toggle"])
    /\ \A i \in (0..MaxIDs) \ {0} : Good([[Idle EXCEPT !.pc = "retry", !.id = i] EXCEPT !.op = "retry"])
    /\ \A l \in Labels, i \in 0..MaxIDs, pc \in {"find", "delete"} :
         Good([[Idle EXCEPT !.l = l, !.id = i, !.pc = pc] EXCEPT !.op = "remove"])
    /\ \A d \in 0..MaxIDs : Good([[Idle EXCEPT !.pc = "drop", !.dom = d] EXCEPT !.op = "remove_domain"])
    /\ \A d \in 0..MaxIDs, s \in Seq(1..MaxIDs) :
         Good([[Idle EXCEPT !.pc = "pick", !.dom = d, !.left = s] EXCEPT !.op = "deactivate"])
    /\ \A i \in 0..MaxIDs : Good([[Idle EXCEPT !.pc = "current", !.id = i] EXCEPT !.op = "upsert_domain"])
    /\ Good([Idle EXCEPT !.op = "upsert_domain"])
    /\ \A ip \in IPs, pc \in {"assign", "save"}, op \in {"dyndns", "settings", "view"} :
         Good([[Idle EXCEPT !.pc = pc, !.ip = ip] EXCEPT !.op = op])
<1>0. Idle \in Proc /\ Idle.part = "none"
  BY IdleGood DEF Good, Idle
<1> USE DEF Shape, DNSCalls, DNSOps, AddressOps
<1>1. ASSUME NEW l \in Labels, NEW d \in (0..MaxIDs) \ {0}, NEW g \in PlainGoals \union {WithDNS}
      PROVE Good([[Idle EXCEPT !.pc = "insert", !.l = l, !.dom = d, !.goal = g] EXCEPT !.op = "create"])
  <2> DEFINE v == [[Idle EXCEPT !.pc = "insert", !.l = l, !.dom = d, !.goal = g] EXCEPT !.op = "create"]
  <2>1. l \in Names /\ d \in 0..MaxIDs /\ g \in Seq(States \union {"dns"})
    BY GoalTails DEF Names
  <2>2. v \in Proc
    BY <1>0, <2>1 DEF Proc
  <2>3. v.pc = "insert" /\ v.l = l /\ v.dom = d /\ v.goal = g /\ v.op = "create" /\ v.part = "none"
    BY <1>0 DEF Proc
  <2> HIDE DEF v
  <2>4. Shape(v)
    BY <2>3
  <2> QED BY <2>2, <2>4 DEF Good, v
<1>2. ASSUME NEW i \in 0..MaxIDs, NEW g \in PlainGoals
      PROVE Good([[Idle EXCEPT !.pc = "set", !.id = i, !.goal = g] EXCEPT !.op = "toggle"])
  <2> DEFINE v == [[Idle EXCEPT !.pc = "set", !.id = i, !.goal = g] EXCEPT !.op = "toggle"]
  <2>1. g \in Seq(States \union {"dns"})
    BY GoalTails
  <2>2. v \in Proc
    BY <1>0, <2>1 DEF Proc
  <2>3. v.pc = "set" /\ v.goal = g /\ v.op = "toggle"
    BY <1>0 DEF Proc
  <2> HIDE DEF v
  <2>4. Shape(v)
    BY <2>3
  <2> QED BY <2>2, <2>4 DEF Good, v
<1>3. ASSUME NEW i \in (0..MaxIDs) \ {0}
      PROVE Good([[Idle EXCEPT !.pc = "retry", !.id = i] EXCEPT !.op = "retry"])
  <2> DEFINE v == [[Idle EXCEPT !.pc = "retry", !.id = i] EXCEPT !.op = "retry"]
  <2>1. v \in Proc /\ v.pc = "retry" /\ v.op = "retry" /\ v.id = i
    BY <1>0 DEF Proc
  <2> HIDE DEF v
  <2>2. Shape(v)
    BY <2>1
  <2> QED BY <2>1, <2>2 DEF Good, v
<1>4. ASSUME NEW l \in Labels, NEW i \in 0..MaxIDs, NEW pc \in {"find", "delete"}
      PROVE Good([[Idle EXCEPT !.l = l, !.id = i, !.pc = pc] EXCEPT !.op = "remove"])
  <2> DEFINE v == [[Idle EXCEPT !.l = l, !.id = i, !.pc = pc] EXCEPT !.op = "remove"]
  <2>1. l \in Names
    BY DEF Names
  <2>2. v \in Proc /\ v.pc = pc /\ v.op = "remove" /\ v.l = l
    BY <1>0, <2>1 DEF Proc
  <2> HIDE DEF v
  <2>3. Shape(v)
    BY <2>1, <2>2
  <2> QED BY <2>2, <2>3 DEF Good, v
<1>5. ASSUME NEW d \in 0..MaxIDs
      PROVE Good([[Idle EXCEPT !.pc = "drop", !.dom = d] EXCEPT !.op = "remove_domain"])
  <2> DEFINE v == [[Idle EXCEPT !.pc = "drop", !.dom = d] EXCEPT !.op = "remove_domain"]
  <2>1. v \in Proc /\ v.pc = "drop" /\ v.op = "remove_domain"
    BY <1>0 DEF Proc
  <2> HIDE DEF v
  <2>2. Shape(v)
    BY <2>1
  <2> QED BY <2>1, <2>2 DEF Good, v
<1>6. ASSUME NEW d \in 0..MaxIDs, NEW s \in Seq(1..MaxIDs)
      PROVE Good([[Idle EXCEPT !.pc = "pick", !.dom = d, !.left = s] EXCEPT !.op = "deactivate"])
  <2> DEFINE v == [[Idle EXCEPT !.pc = "pick", !.dom = d, !.left = s] EXCEPT !.op = "deactivate"]
  <2>1. s \in Seq(Nat)
    <3>1. 1..MaxIDs \subseteq Nat
      BY HostsAssumption
    <3> QED BY <3>1, SeqMonotonic
  <2>2. v \in Proc /\ v.pc = "pick" /\ v.op = "deactivate" /\ v.left = s
    BY <1>0, <2>1 DEF Proc
  <2> HIDE DEF v
  <2>3. Shape(v)
    BY <2>2
  <2> QED BY <2>2, <2>3 DEF Good, v
<1>7. ASSUME NEW i \in 0..MaxIDs
      PROVE Good([[Idle EXCEPT !.pc = "current", !.id = i] EXCEPT !.op = "upsert_domain"])
  <2> DEFINE v == [[Idle EXCEPT !.pc = "current", !.id = i] EXCEPT !.op = "upsert_domain"]
  <2>1. v \in Proc /\ v.pc = "current" /\ v.op = "upsert_domain" /\ v.part = "none"
    BY <1>0 DEF Proc
  <2> HIDE DEF v
  <2>2. Shape(v)
    BY <2>1
  <2> QED BY <2>1, <2>2 DEF Good, v
<1>8. Good([Idle EXCEPT !.op = "upsert_domain"])
  <2> DEFINE v == [Idle EXCEPT !.op = "upsert_domain"]
  <2>1. v \in Proc /\ v.op = "upsert_domain"
    BY <1>0 DEF Proc
  <2>2. v.pc = "idle"
    BY DEF Idle
  <2> HIDE DEF v
  <2>3. Shape(v)
    BY <2>1, <2>2
  <2> QED BY <2>1, <2>3 DEF Good, v
<1>9. ASSUME NEW ip \in IPs, NEW pc \in {"assign", "save"}, NEW op \in {"dyndns", "settings", "view"}
      PROVE Good([[Idle EXCEPT !.pc = pc, !.ip = ip] EXCEPT !.op = op])
  <2> DEFINE v == [[Idle EXCEPT !.pc = pc, !.ip = ip] EXCEPT !.op = op]
  <2>1. v \in Proc /\ v.pc = pc /\ v.op = op
    BY <1>0 DEF Proc
  <2> HIDE DEF v
  <2>2. Shape(v)
    BY <2>1
  <2> QED BY <2>1, <2>2 DEF Good, v
<1> QED BY <1>1, <1>2, <1>3, <1>4, <1>5, <1>6, <1>7, <1>8, <1>9

(* Handlers arrive; UpsertDomain stores its row first. *)
LEMMA BeginSteps == ASSUME HInv, NEW r \in Reqs, Begin(r) PROVE HInv'
<1>0. RowsOK
  BY DEF HInv
<1>1. CASE StartCreate(r)
  <2> DEFINE g == IF domain.mode = "cloudflare" THEN <<"dns_pending", "dns", "cert_pending", "active">>
                  ELSE <<"dns_pending", "cert_pending", "active">>
  <2>1. g \in PlainGoals \union {WithDNS} /\ domain.id \in (0..MaxIDs) \ {0}
    BY <1>0, <1>1 DEF StartCreate, PlainGoals, WithDNS, RowsOK
  <2>2. PICK l \in Labels :
          Start(r, "create", [Idle EXCEPT !.pc = "insert", !.l = l, !.dom = domain.id, !.goal = g])
    BY <1>1 DEF StartCreate
  <2> HIDE DEF g
  <2>3. Good([[Idle EXCEPT !.pc = "insert", !.l = l, !.dom = domain.id, !.goal = g] EXCEPT !.op = "create"])
    BY <2>1, StartShapes
  <2>4. RowsOK' /\ UNCHANGED <<records, address, world, cut>>
    BY <1>0, <1>1, RowsKept DEF StartCreate
  <2> QED BY <2>2, <2>3, <2>4, StartUpdate
<1>2. CASE StartToggle(r)
  <2>1. PICK l \in Labels, s \in {"disabled", "maintenance"}, on \in BOOLEAN :
          Start(r, "toggle", [Idle EXCEPT !.pc = "set", !.id = host[l].id, !.goal = <<IF on THEN s ELSE "active">>])
    BY <1>2 DEF StartToggle
  <2> DEFINE g == <<IF on THEN s ELSE "active">>
  <2>2. g \in PlainGoals /\ host[l].id \in 0..MaxIDs
    BY <1>0 DEF PlainGoals, RowsOK
  <2>3. Start(r, "toggle", [Idle EXCEPT !.pc = "set", !.id = host[l].id, !.goal = g])
    BY <2>1
  <2> HIDE DEF g
  <2>4. Good([[Idle EXCEPT !.pc = "set", !.id = host[l].id, !.goal = g] EXCEPT !.op = "toggle"])
    BY <2>2, StartShapes
  <2>5. RowsOK' /\ UNCHANGED <<records, address, world, cut>>
    BY <1>0, <1>2, RowsKept DEF StartToggle
  <2> QED BY <2>3, <2>4, <2>5, StartUpdate
<1>3. CASE StartRetry(r)
  <2>1. PICK l \in Labels :
          host[l].id # 0 /\ Start(r, "retry", [Idle EXCEPT !.pc = "retry", !.id = host[l].id])
    BY <1>3 DEF StartRetry
  <2>2. host[l].id \in (0..MaxIDs) \ {0}
    BY <1>0, <2>1 DEF RowsOK
  <2>3. Good([[Idle EXCEPT !.pc = "retry", !.id = host[l].id] EXCEPT !.op = "retry"])
    BY <2>2, StartShapes
  <2>4. RowsOK' /\ UNCHANGED <<records, address, world, cut>>
    BY <1>0, <1>3, RowsKept DEF StartRetry
  <2> QED BY <2>1, <2>3, <2>4, StartUpdate
<1>4. CASE StartRemoveHost(r)
  <2> DEFINE pc == IF domain.mode = "cloudflare" THEN "find" ELSE "delete"
  <2>1. PICK l \in Labels : Start(r, "remove", [Idle EXCEPT !.l = l, !.id = host[l].id, !.pc = pc])
    BY <1>4 DEF StartRemoveHost
  <2>2. host[l].id \in 0..MaxIDs /\ pc \in {"find", "delete"}
    BY <1>0 DEF RowsOK
  <2> HIDE DEF pc
  <2>3. Good([[Idle EXCEPT !.l = l, !.id = host[l].id, !.pc = pc] EXCEPT !.op = "remove"])
    BY <2>2, StartShapes
  <2>4. RowsOK' /\ UNCHANGED <<records, address, world, cut>>
    BY <1>0, <1>4, RowsKept DEF StartRemoveHost
  <2> QED BY <2>1, <2>3, <2>4, StartUpdate
<1>5. CASE StartRemoveDomain(r)
  <2>1. Start(r, "remove_domain", [Idle EXCEPT !.pc = "drop", !.dom = domain.id])
    BY <1>5 DEF StartRemoveDomain
  <2>2. domain.id \in 0..MaxIDs
    BY <1>0 DEF RowsOK
  <2>3. Good([[Idle EXCEPT !.pc = "drop", !.dom = domain.id] EXCEPT !.op = "remove_domain"])
    BY <2>2, StartShapes
  <2>4. RowsOK' /\ UNCHANGED <<records, address, world, cut>>
    BY <1>0, <1>5, RowsKept DEF StartRemoveDomain
  <2> QED BY <2>1, <2>3, <2>4, StartUpdate
<1>6. CASE StartDeactivate(r)
  <2> DEFINE live == {host[l].id : l \in {k \in ListHostsByDomainID(domain.id) : host[k].state # "disabled"}}
  <2>1. live \subseteq 1..MaxIDs
    BY <1>0 DEF RowsOK, ListHostsByDomainID
  <2>2. Start(r, "deactivate", [Idle EXCEPT !.pc = "pick", !.dom = domain.id, !.left = InOrder(live)])
    BY <1>6 DEF StartDeactivate
  <2> HIDE DEF live
  <2>3. IsFiniteSet(live)
    <3>1. IsFiniteSet(1..MaxIDs)
      BY FS_Interval, HostsAssumption
    <3> QED BY <2>1, <3>1, FS_Subset
  <2>4. InOrder(live) \in Seq(1..MaxIDs) /\ domain.id \in 0..MaxIDs
    BY <1>0, <2>1, <2>3, InOrderListing, SeqMonotonic DEF RowsOK
  <2>5. Good([[Idle EXCEPT !.pc = "pick", !.dom = domain.id, !.left = InOrder(live)] EXCEPT !.op = "deactivate"])
    BY <2>4, StartShapes
  <2>6. RowsOK' /\ UNCHANGED <<records, address, world, cut>>
    BY <1>0, <1>6, RowsKept DEF StartDeactivate
  <2> QED BY <2>2, <2>5, <2>6, StartUpdate
<1>7. CASE StartUpsertDomain(r)
  <2> DEFINE i == IF domain.id = 0 THEN ids + 1 ELSE domain.id
  <2>1. PICK m \in Modes :
          /\ i <= MaxIDs
          /\ domain' = [id |-> i, mode |-> m, status |-> "active"]
          /\ ids' = IF domain.id = 0 THEN i ELSE ids
          /\ Start(r, "upsert_domain", IF m = "cloudflare" THEN [Idle EXCEPT !.pc = "current", !.id = i] ELSE Idle)
    BY <1>7 DEF StartUpsertDomain
  <2>2. i \in 1..MaxIDs /\ (domain.id # 0 => i = domain.id) /\ (domain.id = 0 => i = ids + 1)
    BY <1>0, <2>1, HostsAssumption DEF RowsOK
  <2> HIDE DEF i
  <2>3. RowsOK'
    <3>1. /\ domain' \in [id: 0..MaxIDs, mode: {"cloudflare", "manual"}, status: {"none", "active", "inactive"}]
          /\ ids' \in 1..MaxIDs /\ UNCHANGED <<host, backoff>> /\ domain'.id = i
      BY <1>0, <1>7, <2>1, <2>2, HostsAssumption DEF RowsOK, StartUpsertDomain
    <3>2. NoOrphanHosts'
      BY <1>0, <2>2, <3>1 DEF RowsOK, NoOrphanHosts
    <3> QED BY <1>0, <3>1, <3>2 DEF RowsOK
  <2>4. UNCHANGED <<records, address, world, cut>>
    BY <1>7 DEF StartUpsertDomain
  <2>5. CASE m = "cloudflare"
    <3>0. i \in 0..MaxIDs
      BY <2>2, HostsAssumption
    <3>1. Good([[Idle EXCEPT !.pc = "current", !.id = i] EXCEPT !.op = "upsert_domain"])
      BY <3>0, StartShapes
    <3> QED BY <2>1, <2>3, <2>4, <2>5, <3>1, StartUpdate
  <2>6. CASE m # "cloudflare"
    <3>1. Good([Idle EXCEPT !.op = "upsert_domain"])
      BY StartShapes
    <3> QED BY <2>1, <2>3, <2>4, <2>6, <3>1, StartUpdate
  <2> QED BY <2>5, <2>6
<1>8. CASE StartAddress(r)
  <2>1. PICK ip \in IPs, pc \in {"assign", "save"}, op \in {"dyndns", "settings", "view"} :
          Start(r, op, [Idle EXCEPT !.pc = pc, !.ip = ip])
    BY <1>8 DEF StartAddress
  <2>2. Good([[Idle EXCEPT !.pc = pc, !.ip = ip] EXCEPT !.op = op])
    BY StartShapes
  <2>3. RowsOK' /\ UNCHANGED <<records, address, world, cut>>
    BY <1>0, <1>8, RowsKept DEF StartAddress
  <2> QED BY <2>1, <2>2, <2>3, StartUpdate
<1> QED BY <1>1, <1>2, <1>3, <1>4, <1>5, <1>6, <1>7, <1>8 DEF Begin

-----------------------------------------------------------------------------
(* Host rows. *)

(* The host that an id stands for. *)
LEMMA StoredLabel ==
    ASSUME NEW i, Stored(i) PROVE LabelOf(i) \in Labels /\ host[LabelOf(i)].id = i
BY DEF Stored, LabelOf

(* The row is inserted under the domain that is still stored. *)
LEMMA CreateHostStep == ASSUME HInv, NEW p \in Procs, CreateHost(p) PROVE HInv'
<1> DEFINE me == proc[p]
           new == [id |-> ids + 1, dom |-> me.dom, state |-> "created"]
           v == [me EXCEPT !.pc = "set", !.id = ids + 1]
<1>0. RowsOK /\ me \in Proc /\ Shape(me) /\ me.pc = "insert"
  BY DEF HInv, CreateHost, At
<1>1. WorldOK'
  BY WorldKept DEF HInv, CreateHost
<1>2. CASE domain.id = me.dom /\ host[me.l].id = 0
  <2>1. /\ host' = [host EXCEPT ![me.l] = new] /\ ids' = ids + 1 /\ ids < MaxIDs
        /\ Set(p, v) /\ UNCHANGED <<domain, backoff>>
    BY <1>2 DEF CreateHost
  <2>2. ids + 1 \in 0..MaxIDs /\ ids + 1 \in 1..MaxIDs /\ me.dom \in 0..MaxIDs /\ me.l \in Labels /\ me.dom # 0
    BY <1>0, <2>1, HostsAssumption DEF RowsOK, Proc, Shape
  <2>3. new \in [id: 0..MaxIDs, dom: 0..MaxIDs, state: States] /\ new.dom = me.dom
    BY <2>2 DEF States, Pending
  <2> HIDE DEF new
  <2>4. host' \in [Labels -> [id: 0..MaxIDs, dom: 0..MaxIDs, state: States]]
    BY <1>0, <2>1, <2>3 DEF RowsOK
  <2>5. NoOrphanHosts'
    BY <1>0, <1>2, <2>1, <2>2, <2>3 DEF RowsOK, NoOrphanHosts
  <2>6. RowsOK'
    BY <1>0, <2>1, <2>2, <2>4, <2>5 DEF RowsOK
  <2>7. v \in Proc /\ v.pc = "set" /\ v.op = me.op /\ v.goal = me.goal /\ v.part = me.part /\ v.left = me.left
    BY <1>0, <2>2 DEF Proc
  <2> HIDE DEF v
  <2>8. Shape(v)
    BY <1>0, <2>7 DEF Shape, DNSCalls
  <2> QED BY <1>1, <2>1, <2>6, <2>7, <2>8, ProcUpdate DEF Good
<1>3. CASE ~(domain.id = me.dom /\ host[me.l].id = 0)
  <2>1. Set(p, Idle) /\ UNCHANGED rows
    BY <1>3 DEF CreateHost, rows
  <2> QED BY <1>0, <1>1, <2>1, IdleGood, RowsKept, ProcUpdate
<1> QED BY <1>2, <1>3

(* SetHostState: the check. *)
LEMMA CheckStateStep == ASSUME HInv, NEW p \in Procs, CheckState(p) PROVE HInv'
<1> DEFINE me == proc[p]
           v == [me EXCEPT !.pc = "write"]
           ok == Stored(me.id) /\ validTransition(host[LabelOf(me.id)].state, Head(me.goal))
<1>0. me \in Proc /\ Shape(me) /\ me.pc = "set"
  BY DEF HInv, CheckState, At
<1>1. v \in Proc /\ v.pc = "write" /\ v.op = me.op /\ v.goal = me.goal /\ v.part = me.part /\ v.left = me.left
  BY <1>0 DEF Proc
<1>2. Set(p, IF ok THEN v ELSE Idle) /\ UNCHANGED <<rows, records, address, world, starts, cut>>
  BY DEF CheckState
<1> HIDE DEF v, ok
<1>3. Good(v)
  BY <1>0, <1>1 DEF Good, Shape, DNSCalls
<1> QED BY <1>2, <1>3, IdleGood, ProcOnly

(* SetHostState: the update. *)
LEMMA WriteStateStep == ASSUME HInv, NEW p \in Procs, WriteState(p) PROVE HInv'
<1> DEFINE me == proc[p]
           v == [me EXCEPT !.goal = Tail(@)]
           l == LabelOf(me.id)
<1>0. RowsOK /\ me \in Proc /\ Shape(me) /\ me.pc = "write"
  BY DEF HInv, WriteState, At
<1>1. WorldOK'
  BY WorldKept DEF HInv, WriteState
<1>2. CASE Stored(me.id)
  <2>1. /\ host' = [host EXCEPT ![l].state = Head(me.goal)] /\ Set(p, Onwards(v))
        /\ UNCHANGED <<domain, ids, backoff>>
    BY <1>2 DEF WriteState
  <2>2. l \in Labels
    BY <1>2, StoredLabel
  <2>3. \/ me.goal \in PlainGoals
        \/ me.goal = WithDNS /\ me.op = "create" /\ me.part = "none"
    BY <1>0 DEF Shape
  <2>4. Head(me.goal) \in States
    BY <2>3, GoalTails DEF States, Pending
  <2>5. \/ Tail(me.goal) = <<>> \/ Tail(me.goal) \in PlainGoals
        \/ Tail(me.goal) = AtDNS /\ me.op = "create" /\ me.part = "none"
    BY <2>3, GoalTails
  <2> HIDE DEF l
  <2>6. /\ host' \in [Labels -> [id: 0..MaxIDs, dom: 0..MaxIDs, state: States]]
        /\ \A k \in Labels : host'[k].id = host[k].id /\ host'[k].dom = host[k].dom
    BY <1>0, <2>1, <2>2, <2>4 DEF RowsOK
  <2>7. RowsOK'
    BY <1>0, <2>1, <2>6 DEF RowsOK, NoOrphanHosts
  <2>8. Tail(me.goal) \in Seq(States \union {"dns"})
    <3>1. <<>> \in Seq(States \union {"dns"})
      OBVIOUS
    <3> QED BY <2>5, <3>1, GoalTails
  <2>9. v \in Proc /\ v.goal = Tail(me.goal) /\ v.op = me.op /\ v.part = me.part /\ v.left = me.left
    BY <1>0, <2>8 DEF Proc
  <2> HIDE DEF v
  <2>10. Good(Onwards(v))
    BY <1>0, <2>5, <2>9, OnwardsGood DEF Shape
  <2> QED BY <1>1, <2>1, <2>7, <2>10, ProcUpdate
<1>3. CASE ~Stored(me.id)
  <2>1. Set(p, Idle) /\ UNCHANGED rows
    BY <1>3 DEF WriteState, rows
  <2> QED BY <1>0, <1>1, <2>1, IdleGood, RowsKept, ProcUpdate
<1> QED BY <1>2, <1>3

(* RetryHost starts the backoff of a host that is stored. *)
LEMMA RetryHostStep == ASSUME HInv, NEW p \in Procs, RetryHost(p) PROVE HInv'
<1> DEFINE me == proc[p]
           g == <<"dns_pending", "cert_pending", "active">>
           v == [me EXCEPT !.pc = "set", !.goal = g]
           failed == Stored(me.id) /\ host[LabelOf(me.id)].state = "error"
<1>0. RowsOK /\ me \in Proc /\ Shape(me) /\ me.pc = "retry"
  BY DEF HInv, RetryHost, At
<1>1. WorldOK'
  BY WorldKept DEF HInv, RetryHost
<1>2. CASE failed
  <2>1. backoff' = backoff \union {me.id} /\ Set(p, v) /\ UNCHANGED <<domain, host, ids>>
    BY <1>2 DEF RetryHost
  <2>2. me.id \in 1..MaxIDs
    BY <1>0, HostsAssumption DEF Proc, Shape
  <2>3. RowsOK'
    BY <1>0, <2>1, <2>2 DEF RowsOK, NoOrphanHosts
  <2>4. g \in PlainGoals /\ g \in Seq(States \union {"dns"})
    BY GoalTails DEF PlainGoals
  <2> HIDE DEF g
  <2>5. v \in Proc /\ v.pc = "set" /\ v.goal \in PlainGoals /\ v.op = me.op /\ v.left = me.left
    BY <1>0, <2>4 DEF Proc
  <2> HIDE DEF v
  <2>6. Good(v)
    BY <1>0, <2>5 DEF Good, Shape, DNSCalls
  <2> QED BY <1>1, <2>1, <2>3, <2>6, ProcUpdate
<1>3. CASE ~failed
  <2>1. Set(p, Idle) /\ UNCHANGED rows
    BY <1>3 DEF RetryHost, rows
  <2> QED BY <1>0, <1>1, <2>1, IdleGood, RowsKept, ProcUpdate
<1> QED BY <1>2, <1>3

(* RemoveHost: the records of the name are listed. *)
LEMMA FindRecordsStep == ASSUME HInv, NEW p \in Procs, FindRecords(p) PROVE HInv'
<1> DEFINE me == proc[p]
           left == InOrder(DOMAIN records[me.l])
           v == [me EXCEPT !.pc = "delete"]
           w == [me EXCEPT !.pc = "erase", !.left = left]
<1>0. WorldOK /\ me \in Proc /\ Shape(me) /\ me.pc = "find"
  BY DEF HInv, FindRecords, At
<1>1. /\ Set(p, IF ~up THEN Idle ELSE IF records[me.l] = <<>> THEN v ELSE w)
      /\ UNCHANGED <<rows, records, address, world, starts, cut>>
  BY DEF FindRecords
<1>2. Good(v)
  <2>1. v \in Proc /\ v.pc = "delete" /\ v.op = me.op
    BY <1>0 DEF Proc
  <2> HIDE DEF v
  <2> QED BY <1>0, <2>1 DEF Good, Shape, DNSCalls
<1>3. ASSUME records[me.l] # <<>> PROVE Good(w)
  <2>1. records[me.l] \in Seq(IPs)
    BY <1>0 DEF WorldOK, Shape
  <2>2. /\ DOMAIN records[me.l] \subseteq Nat /\ DOMAIN records[me.l] # {}
        /\ DOMAIN records[me.l] = 1..Len(records[me.l]) /\ Len(records[me.l]) \in Nat
    <3>1. Len(records[me.l]) \in Nat /\ DOMAIN records[me.l] = 1..Len(records[me.l])
      BY <2>1, LenProperties
    <3>2. Len(records[me.l]) # 0
      BY <1>3, <2>1, EmptySeq
    <3> DEFINE n == Len(records[me.l])
    <3> HIDE DEF n
    <3>3. n \in Nat /\ n # 0
      BY <3>1, <3>2 DEF n
    <3>4. 1..n \subseteq Nat /\ 1 \in 1..n
      BY <3>3
    <3> QED BY <3>1, <3>4 DEF n
  <2>3. IsFiniteSet(DOMAIN records[me.l])
    <3> DEFINE n == Len(records[me.l])
    <3> HIDE DEF n
    <3>1. n \in Int /\ DOMAIN records[me.l] = 1..n
      BY <2>2 DEF n
    <3> QED BY <3>1, FS_Interval
  <2>4. left \in Seq(DOMAIN records[me.l]) /\ left # <<>>
    BY <2>2, <2>3, InOrderListing
  <2>5. left \in Seq(Nat)
    BY <2>2, <2>4, SeqMonotonic
  <2> HIDE DEF left
  <2>6. w \in Proc /\ w.pc = "erase" /\ w.left = left /\ w.op = me.op /\ w.l = me.l
    BY <1>0, <2>5 DEF Proc
  <2> HIDE DEF w
  <2> QED BY <1>0, <2>4, <2>6 DEF Good, Shape, DNSCalls
<1> HIDE DEF v, w
<1>4. CASE records[me.l] = <<>>
  BY <1>1, <1>2, <1>4, IdleGood, ProcOnly
<1>5. CASE records[me.l] # <<>>
  BY <1>1, <1>3, <1>5, IdleGood, ProcOnly
<1> QED BY <1>4, <1>5

(* RemoveHost: one record is deleted, and others may have found it before. *)
LEMMA DeleteARecordStep == ASSUME HInv, NEW p \in Procs, DeleteARecord(p) PROVE HInv'
<1> DEFINE me == proc[p]
           n == me.l
           left == Tail(me.left)
           v == [me EXCEPT !.left = left, !.pc = IF left = <<>> THEN "delete" ELSE "erase"]
           gone(q) == [proc[q] EXCEPT !.rec = "gone"]
<1>0. RowsOK /\ WorldOK /\ me \in Proc /\ Shape(me) /\ me.pc = "erase"
  BY DEF HInv, DeleteARecord, At
<1>1. RowsOK'
  BY <1>0, RowsKept DEF DeleteARecord
<1>2. CASE up /\ records[n] # <<>>
  <2>1. /\ records' = [records EXCEPT ![n] = Tail(@)]
        /\ UNCHANGED <<address, world, starts, cut>>
        /\ proc' = [q \in Procs |-> IF q = p THEN v
                                    ELSE IF proc[q].pc = "send" /\ Head(proc[q].todo) = n /\ proc[q].rec = "first"
                                    THEN gone(q) ELSE proc[q]]
    BY <1>2 DEF DeleteARecord
  <2>2. n \in Names /\ records[n] \in Seq(IPs)
    BY <1>0 DEF WorldOK, Shape
  <2>3. Tail(records[n]) \in Seq(IPs)
    BY <1>2, <2>2
  <2>4. records' \in [Names -> Seq(IPs)]
    BY <1>0, <2>1, <2>2, <2>3 DEF WorldOK
  <2>5. WorldOK'
    BY <1>0, <2>1, <2>4 DEF WorldOK, address, world
  <2>6. Good(v)
    <3>1. me.left \in Seq(Nat) /\ me.left # <<>>
      BY <1>0 DEF Proc, Shape
    <3>2. left \in Seq(Nat)
      BY <3>1
    <3> HIDE DEF left
    <3>3. /\ v \in Proc /\ v.left = left /\ v.op = me.op /\ v.l = me.l
          /\ v.pc = IF left = <<>> THEN "delete" ELSE "erase"
      BY <1>0, <3>2 DEF Proc
    <3> HIDE DEF v
    <3> QED BY <1>0, <3>3 DEF Good, Shape, DNSCalls
  <2>7. ASSUME NEW q \in Procs PROVE Good(proc[q]) /\ Good(gone(q))
    <3>1. proc[q] \in Proc /\ Shape(proc[q])
      BY DEF HInv
    <3> DEFINE u == proc[q] w == gone(q)
    <3>2. /\ w \in Proc /\ w.op = u.op /\ w.pc = u.pc /\ w.l = u.l /\ w.id = u.id /\ w.goal = u.goal
          /\ w.dom = u.dom /\ w.part = u.part /\ w.todo = u.todo /\ w.left = u.left
      BY <3>1 DEF Proc
    <3> HIDE DEF w
    <3>3. Shape(w)
      BY <3>1, <3>2 DEF Shape
    <3> QED BY <3>1, <3>2, <3>3 DEF Good, w
  <2> HIDE DEF v, gone
  <2>8. ASSUME NEW q \in Procs PROVE Good(proc'[q])
    BY <2>1, <2>6, <2>7
  <2>9. proc' \in [Procs -> Proc] /\ \A q \in Procs : Shape(proc[q])'
    BY <2>1, <2>8 DEF Good, Shape
  <2> QED BY <1>1, <2>5, <2>9 DEF HInv
<1>3. CASE ~(up /\ records[n] # <<>>)
  <2>1. Set(p, Idle) /\ UNCHANGED <<records, address, world, starts, cut>>
    BY <1>3 DEF DeleteARecord
  <2>2. WorldOK'
    BY <1>0, <2>1, WorldKept
  <2> QED BY <1>1, <2>1, <2>2, IdleGood, ProcUpdate
<1> QED BY <1>2, <1>3

(* The row goes, or the domain and every row that belongs to it. *)
LEMMA RowsDeleted ==
    ASSUME HInv, NEW p \in Procs, DeleteHostRow(p) \/ DropDomain(p) PROVE HInv'
<1> DEFINE me == proc[p]
<1>0. RowsOK
  BY DEF HInv
<1>1. WorldOK' /\ Set(p, Idle) /\ UNCHANGED <<ids, backoff>>
  BY WorldKept DEF HInv, DeleteHostRow, DropDomain
<1>2. /\ NoHost \in [id: 0..MaxIDs, dom: 0..MaxIDs, state: States] /\ NoHost.id = 0
      /\ NoDomain \in [id: 0..MaxIDs, mode: {"cloudflare", "manual"}, status: {"none", "active", "inactive"}]
  BY HostsAssumption DEF NoHost, NoDomain, States
<1>3. RowsOK'
  <2>1. CASE DeleteHostRow(p)
    <3>1. host' = [l \in Labels |-> IF host[l].id = me.id THEN NoHost ELSE host[l]] /\ UNCHANGED domain
      BY <2>1 DEF DeleteHostRow
    <3> QED BY <1>0, <1>1, <1>2, <3>1 DEF RowsOK, NoOrphanHosts
  <2>2. CASE DropDomain(p) /\ domain.id = me.dom
    <3>1. domain' = NoDomain /\ host' = [l \in Labels |-> IF host[l].dom = me.dom THEN NoHost ELSE host[l]]
      BY <2>2 DEF DropDomain
    <3>2. host' \in [Labels -> [id: 0..MaxIDs, dom: 0..MaxIDs, state: States]]
      BY <1>0, <1>2, <3>1 DEF RowsOK
    <3>3. \A l \in Labels : host'[l].id = 0
      BY <1>0, <1>2, <2>2, <3>1 DEF RowsOK, NoOrphanHosts
    <3> QED BY <1>0, <1>1, <1>2, <3>1, <3>2, <3>3 DEF RowsOK, NoOrphanHosts
  <2>3. CASE DropDomain(p) /\ domain.id # me.dom
    BY <1>0, <1>1, <2>3 DEF DropDomain, RowsOK, NoOrphanHosts
  <2> QED BY <2>1, <2>2, <2>3
<1> QED BY <1>1, <1>3, IdleGood, ProcUpdate

(* DeactivateDomain: the next host, then the domain. *)
LEMMA DeactivateStep == ASSUME HInv, NEW p \in Procs, DeactivateNext(p) PROVE HInv'
<1> DEFINE me == proc[p]
           v == [me EXCEPT !.pc = "set", !.id = Head(me.left), !.goal = <<"disabled">>, !.left = Tail(@)]
<1>0. RowsOK /\ me \in Proc /\ Shape(me) /\ me.pc = "pick"
  BY DEF HInv, DeactivateNext, At
<1>1. WorldOK'
  BY WorldKept DEF HInv, DeactivateNext
<1>2. CASE me.left # <<>>
  <2>1. Set(p, v) /\ UNCHANGED rows
    BY <1>2 DEF DeactivateNext, rows
  <2>2. me.left \in Seq(1..MaxIDs)
    BY <1>0 DEF Shape
  <2>3. Head(me.left) \in 1..MaxIDs /\ Tail(me.left) \in Seq(1..MaxIDs)
    BY <1>2, <2>2, HeadTailProperties
  <2>4. Head(me.left) \in 0..MaxIDs /\ Tail(me.left) \in Seq(Nat)
    <3>1. 1..MaxIDs \subseteq Nat /\ 1..MaxIDs \subseteq 0..MaxIDs
      BY HostsAssumption
    <3> QED BY <2>3, <3>1, SeqMonotonic
  <2>5. <<"disabled">> \in PlainGoals /\ <<"disabled">> \in Seq(States \union {"dns"})
    BY GoalTails DEF PlainGoals
  <2>6. /\ v \in Proc /\ v.pc = "set" /\ v.op = "deactivate" /\ v.left = Tail(me.left)
        /\ v.goal = <<"disabled">>
    <3> DEFINE i == Head(me.left) left == Tail(me.left) g == <<"disabled">>
    <3>1. i \in 0..MaxIDs /\ left \in Seq(Nat) /\ g \in Seq(States \union {"dns"})
      BY <2>4, <2>5
    <3>2. v = [me EXCEPT !.pc = "set", !.id = i, !.goal = g, !.left = left]
      OBVIOUS
    <3> HIDE DEF i, left, g, v
    <3>3. v \in Proc
      BY <1>0, <3>1, <3>2 DEF Proc
    <3>4. v.pc = "set" /\ v.op = me.op /\ v.left = left /\ v.goal = g
      BY <1>0, <3>2 DEF Proc
    <3>5. me.op = "deactivate"
      BY <1>0 DEF Shape
    <3> QED BY <3>3, <3>4, <3>5 DEF left, g
  <2> HIDE DEF v
  <2>7. Good(v)
    BY <2>3, <2>5, <2>6 DEF Good, Shape, DNSCalls
  <2> QED BY <1>0, <1>1, <2>1, <2>7, RowsKept, ProcUpdate
<1>3. CASE me.left = <<>>
  <2>1. /\ domain' = IF domain.id = me.dom THEN [domain EXCEPT !.status = "inactive"] ELSE domain
        /\ Set(p, Idle) /\ UNCHANGED <<host, ids, backoff>>
    BY <1>3 DEF DeactivateNext
  <2>2. /\ domain' \in [id: 0..MaxIDs, mode: {"cloudflare", "manual"}, status: {"none", "active", "inactive"}]
        /\ domain'.id = domain.id
    BY <1>0, <2>1 DEF RowsOK
  <2>3. RowsOK'
    BY <1>0, <2>1, <2>2 DEF RowsOK, NoOrphanHosts
  <2> QED BY <1>1, <2>1, <2>3, IdleGood, ProcUpdate
<1> QED BY <1>2, <1>3

-----------------------------------------------------------------------------
(* The public address and the records. *)

(* A process at one of the calls about addresses and records serves. *)
LEMMA ServingAt ==
    ASSUME NEW q \in Proc, Shape(q), q.pc \in DNSCalls PROVE Serving(q)
BY DEF Shape, Serving

(* A serving process goes to another of these calls that asks nothing      *)
(* more, with any address.                                                 *)
LEMMA ServingMoves ==
    ASSUME NEW q, Serving(q), NEW pc \in {"save", "assign", "domains", "hosts"},
           NEW a \in IPs \union {NoIP}, NEW b \in IPs \union {NoIP}, NEW d \in 0..MaxIDs
    PROVE  Good([q EXCEPT !.ip = a, !.val = b, !.pc = pc, !.dom = d])
<1> DEFINE v == [q EXCEPT !.ip = a, !.val = b, !.pc = pc, !.dom = d]
<1>1. q \in Proc
  BY DEF Serving
<1>2. v \in Proc
  BY <1>1 DEF Proc
<1>3. v.pc = pc /\ v.op = q.op /\ v.goal = q.goal
  BY <1>1 DEF Proc
<1> HIDE DEF v
<1>4. Shape(v)
  BY <1>3 DEF Shape, Serving, DNSCalls, DNSOps, AddressOps
<1> QED BY <1>2, <1>4 DEF Good, v

(* A pass of the loops begins. *)
LEMMA StartPassStep == ASSUME HInv, NEW p \in Loops, StartPass(p) PROVE HInv'
<1>0. Idle \in Proc /\ Idle.part = "none" /\ wan \in IPs /\ p \in Procs
  BY IdleGood DEF Good, Idle, HInv, WorldOK, Procs
<1> DEFINE v == [Idle EXCEPT !.op = "sync", !.pc = "current", !.val = wan]
           w == [Idle EXCEPT !.op = "maint", !.pc = "current"]
<1>1. Good(v)
  <2>1. v \in Proc
    BY <1>0 DEF Proc
  <2>2. v.pc = "current" /\ v.op = "sync" /\ v.part = "none"
    BY <1>0 DEF Proc
  <2> HIDE DEF v
  <2> QED BY <2>1, <2>2 DEF Good, Shape, DNSCalls, DNSOps
<1>2. Good(w)
  <2>1. w \in Proc
    BY <1>0 DEF Proc
  <2>2. w.pc = "current" /\ w.op = "maint" /\ w.part = "none"
    BY <1>0 DEF Proc
  <2> HIDE DEF w
  <2> QED BY <2>1, <2>2 DEF Good, Shape, DNSCalls, DNSOps
<1>3. Set(p, v) \/ Set(p, w)
  BY DEF StartPass
<1>4. UNCHANGED <<rows, records, address, world, starts, cut>>
  BY DEF StartPass
<1> HIDE DEF v, w
<1> QED BY <1>0, <1>1, <1>2, <1>3, <1>4, ProcOnly

(* What currentPublicIPv4 returns is an address, and its caller goes on. *)
LEMMA WithIPGood ==
    ASSUME NEW q, Serving(q), NEW ip \in IPs PROVE Good(WithIP(q, ip))
<1>1. /\ q \in Proc /\ q.val \in IPs \union {NoIP} /\ q.ip \in IPs \union {NoIP}
      /\ q.dom \in 0..MaxIDs /\ NoIP \in IPs \union {NoIP} /\ ip \in IPs \union {NoIP}
  BY DEF Serving, Proc
<1>2. CASE q.op = "sync"
  <2> DEFINE pc == IF ip = q.val THEN "assign" ELSE "save"
             v == [q EXCEPT !.ip = q.val, !.val = NoIP, !.pc = pc]
  <2>1. v = [q EXCEPT !.ip = q.val, !.val = NoIP, !.pc = pc, !.dom = q.dom]
    BY <1>1 DEF Proc
  <2>2. WithIP(q, ip) = v
    BY <1>2 DEF WithIP
  <2>3. pc \in {"save", "assign", "domains", "hosts"}
    OBVIOUS
  <2> HIDE DEF pc
  <2>4. Good([q EXCEPT !.ip = q.val, !.val = NoIP, !.pc = pc, !.dom = q.dom])
    BY <1>1, <2>3, ServingMoves
  <2> QED BY <2>1, <2>2, <2>4
<1>3. CASE q.op # "sync"
  <2> DEFINE pc == IF q.op = "maint" THEN "domains" ELSE "assign"
             v == [q EXCEPT !.ip = ip, !.pc = pc]
  <2>1. v = [q EXCEPT !.ip = ip, !.val = q.val, !.pc = pc, !.dom = q.dom]
    BY <1>1 DEF Proc
  <2>2. WithIP(q, ip) = v
    BY <1>3 DEF WithIP
  <2>3. pc \in {"save", "assign", "domains", "hosts"}
    OBVIOUS
  <2> HIDE DEF pc
  <2>4. Good([q EXCEPT !.ip = ip, !.val = q.val, !.pc = pc, !.dom = q.dom])
    BY <1>1, <2>3, ServingMoves
  <2> QED BY <2>1, <2>2, <2>4
<1> QED BY <1>2, <1>3

(* So is one that goes on without a public address. *)
LEMMA WithoutIPGood ==
    ASSUME NEW q, Serving(q), q.part = "none", q.op \in {"create", "upsert_domain", "sync", "maint"}
    PROVE  Good(WithoutIP(q))
<1>1. q \in Proc /\ q.val \in IPs \union {NoIP} /\ q.dom \in 0..MaxIDs /\ NoIP \in IPs \union {NoIP}
  BY DEF Serving, Proc
<1>2. CASE q.op = "sync"
  <2> DEFINE v == [q EXCEPT !.ip = q.val, !.val = NoIP, !.pc = "save"]
  <2>1. v = [q EXCEPT !.ip = q.val, !.val = NoIP, !.pc = "save", !.dom = q.dom]
    BY <1>1 DEF Proc
  <2>2. WithoutIP(q) = v
    BY <1>2 DEF WithoutIP
  <2>3. Good([q EXCEPT !.ip = q.val, !.val = NoIP, !.pc = "save", !.dom = q.dom])
    BY <1>1, ServingMoves
  <2> QED BY <2>1, <2>2, <2>3
<1>3. CASE q.op = "maint"
  BY <1>3, IdleGood DEF WithoutIP
<1>4. CASE q.op \in {"create", "upsert_domain"}
  <2>1. WithoutIP(q) = Failed(q)
    BY <1>4 DEF WithoutIP
  <2> QED BY <1>4, <2>1, FailedGood
<1> QED BY <1>2, <1>3, <1>4

(* A read of the address, torn or not, is an address or none. *)
LEMMA ReadType == ASSUME HInv, NEW p PROVE ReadPublicIP(p) \subseteq IPs \union {NoIP}
BY HostsAssumption DEF HInv, WorldOK, ReadPublicIP

(* The lookup of the public address. *)
LEMMA CurrentStep == ASSUME HInv, NEW p \in Procs, currentPublicIPv4(p) PROVE HInv'
<1> DEFINE me == proc[p]
<1>0. RowsOK /\ WorldOK /\ Serving(me) /\ me.part = "none" /\ me.op \in {"create", "upsert_domain", "sync", "maint"}
  <2>1. me \in Proc /\ Shape(me) /\ me.pc = "current"
    BY DEF HInv, currentPublicIPv4, At
  <2> QED BY <2>1, ServingAt DEF HInv, Shape, DNSCalls
<1>1. RowsOK'
  BY <1>0, RowsKept DEF currentPublicIPv4
<1>2. UNCHANGED <<records, world, starts, cut>>
  BY DEF currentPublicIPv4
<1>3. ASSUME NEW ip \in ReadPublicIP(p) \ {NoIP}, Set(p, WithIP(me, ip)), UNCHANGED address PROVE HInv'
  <2>1. Good(WithIP(me, ip))
    BY <1>0, WithIPGood, ReadType
  <2>2. WorldOK'
    BY <1>0, <1>2, <1>3, WorldKept
  <2> QED BY <1>1, <1>3, <2>1, <2>2, ProcUpdate
<1>4. ASSUME setting # NoIP, publicIP' = setting, UNCHANGED setting, Set(p, WithIP(me, setting)) PROVE HInv'
  <2>1. Good(WithIP(me, setting))
    BY <1>0, <1>4, WithIPGood DEF WorldOK
  <2>2. WorldOK'
    BY <1>0, <1>2, <1>4 DEF WorldOK, world
  <2> QED BY <1>1, <1>4, <2>1, <2>2, ProcUpdate
<1>5. ASSUME publicIP' = wan, setting' = wan, Set(p, WithIP(me, wan)) PROVE HInv'
  <2>1. Good(WithIP(me, wan))
    BY <1>0, WithIPGood DEF WorldOK
  <2>2. WorldOK'
    BY <1>0, <1>2, <1>5 DEF WorldOK, world
  <2> QED BY <1>1, <1>5, <2>1, <2>2, ProcUpdate
<1>6. ASSUME Set(p, WithoutIP(me)), UNCHANGED address PROVE HInv'
  <2>1. Good(WithoutIP(me))
    BY <1>0, WithoutIPGood
  <2>2. WorldOK'
    BY <1>0, <1>2, <1>6, WorldKept
  <2> QED BY <1>1, <1>6, <2>1, <2>2, ProcUpdate
<1> QED BY <1>3, <1>4, <1>5, <1>6 DEF currentPublicIPv4

(* The setting and the field take the address of the process. *)
LEMMA AddressSteps ==
    ASSUME HInv, NEW p \in Procs, SaveSetting(p) \/ AssignPublicIP(p) PROVE HInv'
<1> DEFINE me == proc[p]
<1>0. RowsOK /\ WorldOK /\ Serving(me)
  <2>1. me \in Proc /\ Shape(me) /\ me.pc \in {"save", "assign"}
    BY DEF HInv, SaveSetting, AssignPublicIP, At
  <2> QED BY <2>1, ServingAt DEF HInv, DNSCalls
<1>1. RowsOK'
  BY <1>0, RowsKept DEF SaveSetting, AssignPublicIP
<1>2. me \in Proc /\ me.ip \in IPs \union {NoIP} /\ me.val \in IPs \union {NoIP} /\ me.dom \in 0..MaxIDs
  BY <1>0 DEF Serving, Proc
<1>3. WorldOK'
  BY <1>0, <1>2 DEF SaveSetting, AssignPublicIP, WorldOK, world
<1>4. CASE SaveSetting(p)
  <2> DEFINE v == [me EXCEPT !.pc = "assign"]
  <2>1. v = [me EXCEPT !.ip = me.ip, !.val = me.val, !.pc = "assign", !.dom = me.dom]
    BY <1>2 DEF Proc
  <2>2. Set(p, v)
    BY <1>4 DEF SaveSetting
  <2> HIDE DEF v
  <2>3. Good(v)
    BY <1>0, <1>2, <2>1, ServingMoves
  <2> QED BY <1>1, <1>3, <2>2, <2>3, ProcUpdate
<1>5. CASE AssignPublicIP(p)
  <2> DEFINE v == [me EXCEPT !.pc = "domains"]
             w == [me EXCEPT !.pc = "domains", !.ip = NoIP]
  <2>1. v = [me EXCEPT !.ip = me.ip, !.val = me.val, !.pc = "domains", !.dom = me.dom]
    BY <1>2 DEF Proc
  <2>2. w = [me EXCEPT !.ip = NoIP, !.val = me.val, !.pc = "domains", !.dom = me.dom]
    BY <1>2 DEF Proc
  <2>3. Set(p, Idle) \/ Set(p, v) \/ Set(p, w)
    BY <1>5 DEF AssignPublicIP
  <2> HIDE DEF v, w
  <2>4. Good(v) /\ Good(w)
    BY <1>0, <1>2, <2>1, <2>2, ServingMoves
  <2> QED BY <1>1, <1>3, <2>3, <2>4, IdleGood, ProcUpdate
<1> QED BY <1>4, <1>5

(* The domain and its standing names. *)
LEMMA ListDomainsStep == ASSUME HInv, NEW p \in Procs, ListDomains(p) PROVE HInv'
<1> DEFINE me == proc[p]
           here == [me EXCEPT !.dom = domain.id]
           v == [here EXCEPT !.pc = "hosts"]
           w == [here EXCEPT !.part = "standing"]
<1>0. Serving(me) /\ domain.id \in 0..MaxIDs
  <2>1. me \in Proc /\ Shape(me) /\ me.pc = "domains"
    BY DEF HInv, ListDomains, At
  <2> QED BY <2>1, ServingAt DEF HInv, RowsOK, DNSCalls
<1>1. me \in Proc /\ me.ip \in IPs \union {NoIP} /\ me.val \in IPs \union {NoIP}
  BY <1>0 DEF Serving, Proc
<1>2. /\ Set(p, IF domain.id = 0 \/ domain.mode # "cloudflare" THEN Returned(me)
                ELSE IF me.op = "maint" THEN v ELSE Working(w, StandingNames))
      /\ UNCHANGED <<rows, records, address, world, starts, cut>>
  BY DEF ListDomains
<1>3. Good(v)
  <2>1. v = [me EXCEPT !.ip = me.ip, !.val = me.val, !.pc = "hosts", !.dom = domain.id]
    BY <1>1 DEF Proc
  <2>2. Good([me EXCEPT !.ip = me.ip, !.val = me.val, !.pc = "hosts", !.dom = domain.id])
    BY <1>0, <1>1, ServingMoves
  <2> QED BY <2>1, <2>2
<1>4. Serving(w)
  <2>1. w \in Proc /\ w.op = me.op /\ w.goal = me.goal
    BY <1>0, <1>1 DEF Proc
  <2> QED BY <1>0, <2>1 DEF Serving
<1> HIDE DEF v, w
<1>5. Good(Working(w, StandingNames))
  BY <1>4, NamesListed, WorkingGood
<1>6. Good(Returned(me))
  BY <1>0, ReturnedGood
<1> QED BY <1>2, <1>3, <1>5, <1>6, ProcOnly

(* The hosts of the domain. *)
LEMMA ListHostsStep == ASSUME HInv, NEW p \in Procs, ListHosts(p) PROVE HInv'
<1> DEFINE me == proc[p]
           own == me.part = "own"
           found == ListHostsByDomainID(IF own THEN me.id ELSE me.dom)
           names == StandingNames \o InOrder(found \ Standing)
           v == [me EXCEPT !.pc = "compare", !.todo = names]
           part == IF own THEN "ownhosts" ELSE "hosts"
           w == [me EXCEPT !.part = part]
<1>0. Serving(me) /\ me \in Proc
  <2>1. me \in Proc /\ Shape(me) /\ me.pc = "hosts"
    BY DEF HInv, ListHosts, At
  <2> QED BY <2>1, ServingAt DEF DNSCalls
<1>1. /\ Set(p, IF me.op = "maint" THEN v ELSE Working(w, InOrder(found)))
      /\ UNCHANGED <<rows, records, address, world, starts, cut>>
  BY DEF ListHosts
<1>2. InOrder(found) \in Seq(Names) /\ InOrder(found \ Standing) \in Seq(Names)
  <2>1. found \subseteq Labels /\ Labels \subseteq Names
    BY DEF ListHostsByDomainID, Names
  <2> HIDE DEF found
  <2>2. IsFiniteSet(found) /\ IsFiniteSet(found \ Standing)
    BY <2>1, HostsAssumption, FS_Subset
  <2>3. InOrder(found) \in Seq(found) /\ InOrder(found \ Standing) \in Seq(found \ Standing)
    BY <2>2, InOrderListing
  <2>4. found \subseteq Names /\ found \ Standing \subseteq Names
    BY <2>1
  <2> QED BY <2>3, <2>4, SeqMonotonic
<1> HIDE DEF found
<1>3. Good(v)
  <2>1. names \in Seq(Names) /\ names # <<>>
    <3>1. StandingNames \in Seq(Names) /\ StandingNames # <<>>
      BY NamesListed
    <3> QED BY <1>2, <3>1
  <2> HIDE DEF names
  <2>2. v \in Proc /\ v.pc = "compare" /\ v.todo = names /\ v.op = me.op /\ v.goal = me.goal
    BY <1>0, <2>1 DEF Proc
  <2> HIDE DEF v
  <2> QED BY <1>0, <2>1, <2>2 DEF Good, Shape, Serving, DNSCalls, DNSOps, AddressOps
<1>4. Serving(w)
  <2>0. part \in {"hosts", "ownhosts"}
    OBVIOUS
  <2> HIDE DEF part
  <2>1. w \in Proc /\ w.op = me.op /\ w.goal = me.goal
    BY <1>0, <2>0 DEF Proc
  <2> QED BY <1>0, <2>1 DEF Serving
<1> HIDE DEF v, w
<1>5. Good(Working(w, InOrder(found)))
  BY <1>2, <1>4, WorkingGood
<1> QED BY <1>1, <1>3, <1>5, ProcOnly

(* A name is compared; the wrong ones are repaired. *)
LEMMA CompareStep == ASSUME HInv, NEW p \in Procs, CompareRecord(p) PROVE HInv'
<1> DEFINE me == proc[p]
           n == Head(me.todo)
           bad == IF up /\ me.ip \notin Contents(n) THEN Append(me.bad, n) ELSE me.bad
           v == [me EXCEPT !.todo = Tail(@), !.bad = bad]
           w == [me EXCEPT !.part = "wrong", !.bad = <<>>]
<1>0. me \in Proc /\ Shape(me) /\ me.pc = "compare" /\ me.todo # <<>>
  BY DEF HInv, CompareRecord, At, Shape
<1>1. Serving(me) /\ me.todo \in Seq(Names) /\ me.bad \in Seq(Names)
  BY <1>0, ServingAt DEF DNSCalls, Proc
<1>2. /\ Set(p, IF Len(me.todo) > 1 THEN v ELSE Working(w, bad))
      /\ UNCHANGED <<rows, records, address, world, starts, cut>>
  BY DEF CompareRecord
<1>3. bad \in Seq(Names)
  <2>1. n \in Names
    BY <1>0, <1>1, HeadTailProperties
  <2> HIDE DEF n
  <2> QED BY <1>1, <2>1, AppendProperties
<1>4. ASSUME Len(me.todo) > 1 PROVE Good(v)
  <2> DEFINE tl == Tail(me.todo)
  <2>1. tl \in Seq(Names) /\ tl # <<>>
    <3>1. tl \in Seq(Names) /\ Len(tl) = Len(me.todo) - 1
      BY <1>0, <1>1, HeadTailProperties
    <3>2. Len(me.todo) \in Nat
      BY <1>1, LenProperties
    <3>3. ASSUME NEW m, NEW k \in Nat, k > 1, m = k - 1 PROVE m # 0
      BY <3>3
    <3>4. Len(tl) # 0
      BY <1>4, <3>1, <3>2, <3>3
    <3> QED BY <3>1, <3>4, EmptySeq
  <2>2. v = [me EXCEPT !.todo = tl, !.bad = bad]
    OBVIOUS
  <2> HIDE DEF bad, tl, v
  <2>3. v \in Proc
    BY <1>0, <1>3, <2>1, <2>2 DEF Proc
  <2>4. v.pc = "compare" /\ v.todo = tl /\ v.op = me.op /\ v.goal = me.goal
    BY <1>0, <2>2 DEF Proc
  <2> QED BY <1>1, <2>1, <2>3, <2>4 DEF Good, Shape, Serving, DNSCalls, DNSOps, AddressOps
<1>5. Serving(w)
  <2>0. <<>> \in Seq(Names)
    OBVIOUS
  <2>1. w \in Proc
    BY <1>0, <2>0 DEF Proc
  <2>2. w.op = me.op /\ w.goal = me.goal
    BY <1>0 DEF Proc
  <2> QED BY <1>1, <2>1, <2>2 DEF Serving
<1> HIDE DEF v, w, bad
<1>6. Good(Working(w, bad))
  BY <1>3, <1>5, WorkingGood
<1>7. CASE Len(me.todo) > 1
  BY <1>2, <1>4, <1>7, ProcOnly
<1>8. CASE ~(Len(me.todo) > 1)
  BY <1>2, <1>6, <1>8, ProcOnly
<1> QED BY <1>7, <1>8

(* UpsertARecord looks the first record up. *)
LEMMA LookupStep == ASSUME HInv, NEW p \in Procs, LookupARecord(p) PROVE HInv'
<1> DEFINE me == proc[p]
           n == Head(me.todo)
           src == IF me.part \in {"standing", "hosts"} THEN ReadPublicIP(p) ELSE {me.ip}
           found == IF records[n] = <<>> THEN "none" ELSE "first"
           v(ip) == [me EXCEPT !.pc = "send", !.val = ip, !.rec = found]
<1>0. me \in Proc /\ Shape(me) /\ me.pc = "upsert" /\ me.todo # <<>>
  BY DEF HInv, LookupARecord, At, Shape
<1>1. Serving(me)
  BY <1>0, ServingAt DEF DNSCalls
<1>2. PICK ip \in src :
        Set(p, IF ~up THEN Failed(me)
               ELSE IF records[n] # <<>> /\ Head(records[n]) = ip THEN NextName(me) ELSE v(ip))
  BY DEF LookupARecord
<1>3. UNCHANGED <<rows, records, address, world, starts, cut>>
  BY DEF LookupARecord
<1>4. ip \in IPs \union {NoIP}
  BY <1>0, <1>2, ReadType DEF Proc
<1> DEFINE w == v(ip)
<1>5. Good(w)
  <2>1. found \in {"none", "first", "gone"}
    OBVIOUS
  <2> HIDE DEF found
  <2>2. w \in Proc
    BY <1>0, <1>4, <2>1 DEF Proc
  <2>3. w.pc = "send" /\ w.todo = me.todo /\ w.op = me.op /\ w.goal = me.goal
    BY <1>0 DEF Proc
  <2> HIDE DEF w
  <2> QED BY <1>0, <1>1, <2>2, <2>3 DEF Good, Shape, Serving, DNSCalls, DNSOps, AddressOps
<1>6. Good(Failed(me)) /\ Good(NextName(me))
  BY <1>0, <1>1, FailedGood, NextNameGood
<1>7. Set(p, Failed(me)) \/ Set(p, NextName(me)) \/ Set(p, w)
  BY <1>2
<1> HIDE DEF w
<1> QED BY <1>3, <1>5, <1>6, <1>7, ProcOnly

(* UpsertARecord creates or changes it. *)
LEMMA SendStep == ASSUME HInv, NEW p \in Procs, SendARecord(p) PROVE HInv'
<1> DEFINE me == proc[p]
           n == Head(me.todo)
           new == IF me.rec = "first" THEN [records[n] EXCEPT ![1] = me.val] ELSE Append(records[n], me.val)
<1>0. me \in Proc /\ Shape(me) /\ me.pc = "send" /\ me.todo # <<>>
  BY DEF HInv, SendARecord, At, Shape
<1>1. Serving(me) /\ RowsOK /\ WorldOK
  BY <1>0, ServingAt DEF DNSCalls, HInv
<1>2. n \in Names
  BY <1>0, HeadTailProperties DEF Proc
<1>3. Good(Failed(me)) /\ Good(NextName(me))
  BY <1>0, <1>1, FailedGood, NextNameGood
<1>4. RowsOK'
  BY <1>1, RowsKept DEF SendARecord
<1>5. CASE Accepted(me)
  <2>1. /\ records' = [records EXCEPT ![n] = IF me.rec = "first" THEN [@ EXCEPT ![1] = me.val] ELSE Append(@, me.val)]
        /\ Set(p, NextName(me)) /\ UNCHANGED <<address, world, starts, cut>>
    BY <1>5 DEF SendARecord
  <2>2. me.val \in IPs /\ records[n] \in Seq(IPs)
    BY <1>0, <1>1, <1>2, <1>5 DEF Accepted, Proc, WorldOK
  <2>3. new \in Seq(IPs)
    <3>1. Append(records[n], me.val) \in Seq(IPs)
      BY <2>2, AppendProperties
    <3>2. [records[n] EXCEPT ![1] = me.val] \in Seq(IPs)
      <4>1. CASE 1 \in 1..Len(records[n])
        BY <2>2, <4>1, ExceptSeq
      <4>2. CASE 1 \notin 1..Len(records[n])
        <5>1. [records[n] EXCEPT ![1] = me.val] = records[n]
          BY <2>2, <4>2, LenProperties
        <5> QED BY <2>2, <5>1
      <4> QED BY <4>1, <4>2
    <3> QED BY <3>1, <3>2
  <2>4. records' = [records EXCEPT ![n] = new]
    BY <1>2, <2>1
  <2> HIDE DEF new, n
  <2>5. records' \in [Names -> Seq(IPs)]
    BY <1>1, <1>2, <2>3, <2>4 DEF WorldOK
  <2>6. WorldOK'
    BY <1>1, <2>1, <2>5 DEF WorldOK, address, world
  <2> QED BY <1>3, <1>4, <2>1, <2>6, ProcUpdate
<1>6. CASE ~Accepted(me)
  <2>1. Set(p, Failed(me)) /\ UNCHANGED <<records, address, world, starts, cut>>
    BY <1>6 DEF SendARecord
  <2>2. WorldOK'
    BY <1>1, <2>1, WorldKept
  <2> QED BY <1>3, <1>4, <2>1, <2>2, ProcUpdate
<1> QED BY <1>5, <1>6

-----------------------------------------------------------------------------
(* The environment. *)

(* The hosts an operation drives are numbers in use. *)
LEMMA DrivenType == ASSUME HInv, NEW p \in Procs PROVE Driven(p) \subseteq 0..MaxIDs
<1>1. proc[p].id \in 0..MaxIDs
  BY DEF HInv, Proc
<1> QED BY <1>1 DEF Driven

(* Aborted requests, the backoff, the address, the link and a restart. *)
LEMMA EnvironmentSteps ==
    ASSUME HInv, (\E r \in Reqs : Abort(r)) \/ BackoffOver \/ WanChange \/ LinkDown \/ LinkUp \/ Restart
    PROVE  HInv'
<1>0. RowsOK /\ WorldOK
  BY DEF HInv
<1>1. ASSUME NEW r \in Reqs, Abort(r) PROVE HInv'
  <2>1. r \in Procs /\ Set(r, Idle) /\ RowsOK'
    BY <1>0, <1>1, RowsKept DEF Abort, Procs
  <2>2. WorldOK'
    BY <1>0, <1>1, <2>1, DrivenType DEF Abort, WorldOK, address, world
  <2> QED BY <2>1, <2>2, IdleGood, ProcUpdate
<1>2. CASE BackoffOver
  <2>1. RowsOK'
    BY <1>0, <1>2 DEF BackoffOver, RowsOK, NoOrphanHosts
  <2>2. WorldOK' /\ UNCHANGED proc
    BY <1>0, <1>2, WorldKept DEF BackoffOver
  <2> QED BY <2>1, <2>2 DEF HInv, Shape
<1>3. CASE WanChange \/ LinkDown \/ LinkUp
  <2>1. UNCHANGED <<rows, proc>>
    BY <1>3 DEF WanChange, LinkDown, LinkUp
  <2>2. WorldOK'
    <3>1. CASE WanChange
      BY <1>0, <3>1, HostsAssumption DEF WanChange, WorldOK, address
    <3>2. CASE LinkDown \/ LinkUp
      BY <1>0, <3>2 DEF LinkDown, LinkUp, WorldOK, address
    <3> QED BY <1>3, <3>1, <3>2
  <2> QED BY <1>0, <2>1, <2>2, RowsKept DEF HInv, Shape
<1>4. CASE Restart
  <2>1. RowsOK'
    BY <1>0, <1>4 DEF Restart, RowsOK, NoOrphanHosts
  <2>2. cut' \subseteq 0..MaxIDs
    <3>1. UNION {Driven(p) : p \in Procs} \subseteq 0..MaxIDs
      BY DrivenType
    <3> QED BY <1>0, <1>4, <3>1 DEF Restart, WorldOK
  <2>3. WorldOK'
    BY <1>0, <1>4, <2>2, HostsAssumption DEF Restart, WorldOK
  <2>4. proc' \in [Procs -> Proc] /\ \A p \in Procs : Shape(proc[p])'
    BY <1>4, IdleGood DEF Restart, Good, Shape
  <2> QED BY <2>1, <2>3, <2>4 DEF HInv
<1> QED BY <1>1, <1>2, <1>3, <1>4

-----------------------------------------------------------------------------
(* The theorems. *)

(* The invariant holds at the start. *)
LEMMA HInvInit == Init => HInv
<1> SUFFICES ASSUME Init PROVE HInv
  OBVIOUS
<1>1. RowsOK
  <2>1. NoHost \in [id: 0..MaxIDs, dom: 0..MaxIDs, state: States] /\ NoHost.id = 0
    BY HostsAssumption DEF NoHost, States
  <2> QED BY <2>1, HostsAssumption DEF Init, RowsOK, NoOrphanHosts
<1>2. WorldOK
  BY HostsAssumption DEF Init, WorldOK
<1>3. proc \in [Procs -> Proc] /\ \A p \in Procs : Shape(proc[p])
  BY IdleGood DEF Init, Good
<1> QED BY <1>1, <1>2, <1>3 DEF HInv

(* Every step preserves it. *)
LEMMA HInvStep == HInv /\ [Next]_vars => HInv'
<1> SUFFICES ASSUME HInv, [Next]_vars PROVE HInv'
  OBVIOUS
<1>1. ASSUME NEW r \in Reqs, Begin(r) PROVE HInv'
  BY <1>1, BeginSteps
<1>2. ASSUME NEW p \in Loops, StartPass(p) PROVE HInv'
  BY <1>2, StartPassStep
<1>3. ASSUME NEW p \in Procs, Step(p) PROVE HInv'
  BY <1>3, CreateHostStep, CheckStateStep, WriteStateStep, RetryHostStep, FindRecordsStep, DeleteARecordStep,
     RowsDeleted, DeactivateStep, CurrentStep, AddressSteps, ListDomainsStep, ListHostsStep, CompareStep,
     LookupStep, SendStep DEF Step
<1>4. CASE (\E r \in Reqs : Abort(r)) \/ BackoffOver \/ WanChange \/ LinkDown \/ LinkUp \/ Restart
  BY <1>4, EnvironmentSteps
<1>5. CASE UNCHANGED vars
  <2>1. UNCHANGED <<rows, records, address, world, starts, cut>> /\ UNCHANGED proc
    BY <1>5 DEF vars
  <2> QED BY <2>1, RowsKept, WorldKept DEF HInv, Shape
<1> QED BY <1>1, <1>2, <1>3, <1>4, <1>5 DEF Next

(* TypeOK holds in every reachable state: rows, records, addresses and     *)
(* processes keep their shape under every interleaving of the handlers of  *)
(* internal/app/service.go, the two loops, lost clients and restarts.      *)
THEOREM HostsTypeCorrect == Spec => []TypeOK
<1>1. HInv => TypeOK
  BY DEF HInv, RowsOK, WorldOK, TypeOK
<1> QED BY HInvInit, HInvStep, <1>1, PTL DEF Spec

(* NoOrphanHosts holds in every reachable state: whatever CreateHost,      *)
(* RemoveDomain and UpsertDomain do between each other's calls, a stored   *)
(* host belongs to the domain that is stored.                              *)
THEOREM HostsNoOrphans == Spec => []NoOrphanHosts
<1>1. HInv => NoOrphanHosts
  BY DEF HInv, RowsOK
<1> QED BY HInvInit, HInvStep, <1>1, PTL DEF Spec
=============================================================================
