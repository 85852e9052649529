--------------------------- MODULE TrafficProofs ----------------------------
(***************************************************************************)
(* The theorems about Traffic, for every set of requests, hosts, classes   *)
(* and clients, every capacity and every bound.                            *)
(*                                                                         *)
(* Every step of the edge and of the recorder moves requests of a row from *)
(* one place to the next (edge, channel, maps, table) or loses them:       *)
(* Conserved says so of a step, and the two counting properties follow     *)
(* from it.                                                                *)
(***************************************************************************)
EXTENDS Traffic, TLAPS, FiniteSetTheorems, FunctionTheorems

TailType ==
    {Idle} \union [pc: {"count", "publish", "record"}, ev: Event]
           \union [pc: {"send"}, ev: Event, chs: SUBSET Streams]

Waiting(r) == tail[r].pc # "idle"

(* The requests at the edge, and the places in the channel, that count in  *)
(* the row k.                                                              *)
EdgeOf(k) == {r \in Reqs : tail[r].pc # "idle" /\ k \in Keys(tail[r].ev)}
PlacesOf(q, k) == {i \in DOMAIN q : k \in Keys(q[i])}

-----------------------------------------------------------------------------
(* Rows and events *)

(* Adding sums the counts; a visitor is marked once. *)
LEMMA AddOK ==
    ASSUME NEW k \in AllKeys, NEW m \in Nat, NEW n \in Nat
    PROVE  /\ add(k, m, n) \in Nat
           /\ k.table # "visitor" => add(k, m, n) = m + n
           /\ k.table = "visitor" => add(k, m, n) = 1
BY DEF add

(* What a request after its answer holds, by its step. *)
LEMMA TailFacts ==
    ASSUME TypeOK, NEW r \in Reqs
    PROVE  /\ tail[r] \in TailType
           /\ Waiting(r) => tail[r].ev \in Event
           /\ tail[r].pc \in {"count", "publish", "record"} =>
                 tail[r] \in [pc: {"count", "publish", "record"}, ev: Event]
           /\ tail[r].pc = "send" => tail[r] \in [pc: {"send"}, ev: Event, chs: SUBSET Streams]
<1>1. tail[r] \in TailType
  BY DEF TypeOK, TailType
<1>2. CASE tail[r] = Idle
  BY <1>1, <1>2 DEF Idle, Waiting
<1>3. CASE tail[r] \in [pc: {"count", "publish", "record"}, ev: Event]
  BY <1>1, <1>3
<1>4. CASE tail[r] \in [pc: {"send"}, ev: Event, chs: SUBSET Streams]
  BY <1>1, <1>4
<1> QED BY <1>1, <1>2, <1>3, <1>4 DEF TailType

-----------------------------------------------------------------------------
(* Counting *)

(* The requests on their way are finitely many. *)
LEMMA EdgeFinite ==
    ASSUME NEW k
    PROVE  IsFiniteSet(EdgeOf(k)) /\ Cardinality(EdgeOf(k)) \in Nat
<1>1. EdgeOf(k) \in SUBSET Reqs
  BY DEF EdgeOf
<1> QED BY <1>1, FS_Subset, FS_CardinalityType, BoundAssumption

(* So are the places of a queue. *)
LEMMA PlacesFinite ==
    ASSUME NEW q \in Seq(Event), NEW k
    PROVE  IsFiniteSet(PlacesOf(q, k)) /\ Cardinality(PlacesOf(q, k)) \in Nat
<1>1. PlacesOf(q, k) \in SUBSET (1..Len(q)) /\ IsFiniteSet(1..Len(q))
  BY FS_Interval DEF PlacesOf
<1> QED BY <1>1, FS_Subset, FS_CardinalityType

One(k, ev) == IF k \in Keys(ev) THEN 1 ELSE 0

(* An event put in the queue adds one place under each of its keys. *)
LEMMA PlacesAppend ==
    ASSUME NEW q \in Seq(Event), NEW ev \in Event, NEW k
    PROVE  Cardinality(PlacesOf(Append(q, ev), k)) = Cardinality(PlacesOf(q, k)) + One(k, ev)
<1> DEFINE n == Len(q) + 1
           a == Append(q, ev)
<1>1. a \in Seq(Event) /\ Len(a) = n /\ a[n] = ev /\ \A i \in 1..Len(q) : a[i] = q[i]
  OBVIOUS
<1>2. n \notin PlacesOf(q, k)
  BY DEF PlacesOf
<1> HIDE DEF a
<1>3. CASE k \in Keys(ev)
  <2>1. PlacesOf(a, k) = PlacesOf(q, k) \union {n}
    BY <1>1, <1>3 DEF PlacesOf
  <2> HIDE DEF n
  <2>2. Cardinality(PlacesOf(a, k)) = Cardinality(PlacesOf(q, k)) + 1
    BY <1>2, <2>1, PlacesFinite, FS_AddElement
  <2> QED BY <1>3, <2>2 DEF One, a
<1>4. CASE k \notin Keys(ev)
  <2>1. PlacesOf(a, k) = PlacesOf(q, k)
    BY <1>1, <1>4 DEF PlacesOf
  <2> QED BY <1>4, <2>1, PlacesFinite DEF One, a
<1> QED BY <1>3, <1>4

(* Tail moves every place one forward. *)
LEMMA PlacesTail ==
    ASSUME NEW q \in Seq(Event), q # <<>>, NEW k
    PROVE  Cardinality(PlacesOf(q, k)) = Cardinality(PlacesOf(Tail(q), k)) + One(k, Head(q))
<1> DEFINE t == Tail(q)
           S == PlacesOf(t, k)
           T == PlacesOf(q, k) \ {1}
           f == [i \in S |-> i + 1]
<1>1. t \in Seq(Event) /\ Len(t) = Len(q) - 1 /\ (\A i \in 1..Len(t) : t[i] = q[i + 1]) /\ Head(q) = q[1]
      /\ Len(q) \in Nat \ {0}
  OBVIOUS
<1> HIDE DEF t
<1>2. S \subseteq 1..Len(t) /\ T \subseteq 2..Len(q)
  BY <1>1 DEF PlacesOf
<1>3. \A i \in S : i + 1 \in T
  BY <1>1, <1>2 DEF PlacesOf
<1>4. \A j \in T : j - 1 \in S /\ (j - 1) + 1 = j
  BY <1>1, <1>2 DEF PlacesOf
<1>5. \A i, j \in S : i + 1 = j + 1 => i = j
  BY <1>2
<1> HIDE DEF S, T
<1>6. f \in Bijection(S, T)
  <2>1. f \in [S -> T] /\ \A i, j \in S : f[i] = f[j] => i = j
    BY <1>3, <1>5
  <2>2. \A j \in T : \E i \in S : f[i] = j
    BY <1>4
  <2> HIDE DEF f
  <2> QED BY <2>1, <2>2, Fun_IsBij
<1>7. IsFiniteSet(S) /\ Cardinality(T) = Cardinality(S)
  <2>1. IsFiniteSet(S)
    BY <1>1, PlacesFinite DEF S
  <2>2. ExistsBijection(S, T)
    BY <1>6 DEF ExistsBijection
  <2> QED BY <2>1, <2>2, FS_Bijection
<1>8. 1 \in PlacesOf(q, k) <=> k \in Keys(Head(q))
  BY <1>1 DEF PlacesOf
<1>9. Cardinality(T) = IF 1 \in PlacesOf(q, k) THEN Cardinality(PlacesOf(q, k)) - 1 ELSE Cardinality(PlacesOf(q, k))
  BY PlacesFinite, FS_RemoveElement DEF T
<1>10. Cardinality(PlacesOf(q, k)) \in Nat
  BY PlacesFinite
<1> QED BY <1>7, <1>8, <1>9, <1>10 DEF One, S, t

(* A request arrives at the edge, ... *)
LEMMA EdgeArrives ==
    ASSUME TypeOK, NEW r \in Reqs, NEW v, tail' = [tail EXCEPT ![r] = v], ~Waiting(r), v.pc # "idle", NEW k
    PROVE  atEdge(k)' = atEdge(k) + One(k, v.ev)
<1>0. tail'[r] = v /\ \A q \in Reqs \ {r} : tail'[q] = tail[q]
  BY DEF TypeOK
<1>1. r \notin EdgeOf(k)
  BY DEF EdgeOf, Waiting
<1>2. CASE k \in Keys(v.ev)
  <2>1. EdgeOf(k)' = EdgeOf(k) \union {r}
    BY <1>0, <1>2 DEF EdgeOf, Waiting, Keys, trafficKey, classKey, visitorKey
  <2>2. Cardinality(EdgeOf(k) \union {r}) = Cardinality(EdgeOf(k)) + 1
    BY <1>1, EdgeFinite, FS_AddElement
  <2>3. atEdge(k) = Cardinality(EdgeOf(k)) /\ atEdge(k)' = Cardinality(EdgeOf(k) \union {r})
    BY <2>1 DEF atEdge, EdgeOf
  <2> QED BY <1>2, <2>2, <2>3 DEF One
<1>3. CASE k \notin Keys(v.ev)
  <2>1. EdgeOf(k)' = EdgeOf(k)
    BY <1>0, <1>3 DEF EdgeOf, Waiting, Keys, trafficKey, classKey, visitorKey
  <2>2. atEdge(k) = Cardinality(EdgeOf(k)) /\ atEdge(k)' = Cardinality(EdgeOf(k))
    BY <2>1 DEF atEdge, EdgeOf
  <2> QED BY <1>3, <2>2, EdgeFinite DEF One
<1> QED BY <1>2, <1>3

(* ... leaves it, ... *)
LEMMA EdgeLeaves ==
    ASSUME TypeOK, NEW r \in Reqs, tail' = [tail EXCEPT ![r] = Idle], Waiting(r), NEW k
    PROVE  atEdge(k) = atEdge(k)' + One(k, tail[r].ev) /\ atEdge(k)' \in Nat
<1>0. tail'[r] = Idle /\ \A q \in Reqs \ {r} : tail'[q] = tail[q]
  BY DEF TypeOK
<1>1. r \in EdgeOf(k) <=> k \in Keys(tail[r].ev)
  BY DEF EdgeOf, Waiting
<1>2. EdgeOf(k)' = EdgeOf(k) \ {r}
  BY <1>0 DEF EdgeOf, Waiting, Keys, trafficKey, classKey, visitorKey, Idle
<1>3. /\ Cardinality(EdgeOf(k) \ {r})
           = IF r \in EdgeOf(k) THEN Cardinality(EdgeOf(k)) - 1 ELSE Cardinality(EdgeOf(k))
      /\ IsFiniteSet(EdgeOf(k) \ {r})
  BY EdgeFinite, FS_RemoveElement
<1>4. Cardinality(EdgeOf(k) \ {r}) \in Nat /\ Cardinality(EdgeOf(k)) \in Nat
  BY <1>3, EdgeFinite, FS_CardinalityType
<1>5. atEdge(k) = Cardinality(EdgeOf(k)) /\ atEdge(k)' = Cardinality(EdgeOf(k) \ {r})
  BY <1>2 DEF atEdge, EdgeOf
<1> QED BY <1>1, <1>3, <1>4, <1>5 DEF One

(* ... or goes on there. *)
LEMMA EdgeStays ==
    ASSUME TypeOK, NEW r \in Reqs, NEW v, tail' = [tail EXCEPT ![r] = v], Waiting(r), v.pc # "idle",
           v.ev = tail[r].ev, NEW k
    PROVE  atEdge(k)' = atEdge(k)
<1>0. tail'[r] = v /\ \A q \in Reqs \ {r} : tail'[q] = tail[q]
  BY DEF TypeOK
<1>1. EdgeOf(k)' = EdgeOf(k)
  BY <1>0 DEF EdgeOf, Waiting, Keys, trafficKey, classKey, visitorKey
<1> QED BY <1>1 DEF atEdge, EdgeOf

-----------------------------------------------------------------------------
(* What a step may do to the requests of a row *)

Total(k) == db[k] + underway(k)

Conserved(k) ==
    /\ k.table # "visitor" => Total(k)' + served[k] <= Total(k) + served'[k]
    /\ lost' = {} /\ k.host \in hosts' =>
          /\ lost = {} /\ k.host \in hosts
          /\ k.table # "visitor" => Total(k)' + served[k] = Total(k) + served'[k]
          /\ k.table = "visitor" => /\ served'[k] > 0 => served[k] > 0 \/ Total(k)' > 0
                                    /\ Total(k) > 0 => Total(k)' > 0

(* The invariant, which is inductive. *)
TInv == TypeOK /\ NeverCountedTwice /\ EveryRequestCounted /\ NoStatisticsWithoutHost

(* All counts are naturals and the total is their sum. *)
LEMMA CountsOK ==
    ASSUME TypeOK, NEW k \in AllKeys
    PROVE  /\ atEdge(k) \in Nat /\ queued(k) \in Nat /\ unwritten(k) \in Nat /\ agg[k] \in Nat
           /\ db[k] \in Nat /\ served[k] \in Nat
           /\ Total(k) = db[k] + atEdge(k) + queued(k) + unwritten(k) /\ Total(k) \in Nat
<1>1. atEdge(k) \in Nat
  BY EdgeFinite DEF atEdge, EdgeOf
<1>2. queued(k) \in Nat
  BY PlacesFinite DEF queued, PlacesOf, TypeOK
<1>3. agg[k] \in Nat /\ db[k] \in Nat /\ served[k] \in Nat
  BY DEF TypeOK
<1>4. unwritten(k) \in Nat
  BY <1>3 DEF unwritten
<1> QED BY <1>1, <1>2, <1>3, <1>4 DEF Total, underway

Counts ==
    \A k \in AllKeys :
        /\ atEdge(k) \in Nat /\ queued(k) \in Nat /\ unwritten(k) \in Nat /\ db[k] \in Nat /\ served[k] \in Nat
        /\ Total(k) = db[k] + atEdge(k) + queued(k) + unwritten(k) /\ Total(k) \in Nat

(* The same in one formula. *)
LEMMA CountsAlways == TypeOK => Counts
BY CountsOK DEF Counts

(* The same of the next state. *)
LEMMA CountsThen == TypeOK' => Counts'
BY CountsAlways, PTL

(* The counts of the next state, for one key. *)
LEMMA CountsNext ==
    ASSUME TypeOK', NEW k \in AllKeys
    PROVE  /\ atEdge(k)' \in Nat /\ queued(k)' \in Nat /\ unwritten(k)' \in Nat
           /\ db'[k] \in Nat /\ served'[k] \in Nat
           /\ Total(k)' = db'[k] + atEdge(k)' + queued(k)' + unwritten(k)' /\ Total(k)' \in Nat
<1>1. Counts'
  BY CountsThen
<1> QED BY <1>1 DEF Counts

(* A step that conserves the totals keeps both counting properties. *)
LEMMA ConservedIsEnough ==
    ASSUME TInv, TypeOK', \A k \in AllKeys : Conserved(k)
    PROVE  NeverCountedTwice' /\ EveryRequestCounted'
<1>1. \A k \in AllKeys : Total(k) \in Nat /\ served[k] \in Nat /\ Total(k)' \in Nat /\ served'[k] \in Nat
  BY CountsOK, CountsNext DEF TInv
<1>2. \A k \in AllKeys : k.table # "visitor" => Total(k) <= served[k]
  BY DEF TInv, NeverCountedTwice, Total
<1>3. \A k \in AllKeys : k.table # "visitor" => Total(k)' <= served'[k]
  BY <1>1, <1>2 DEF Conserved
<1>4. ASSUME lost' = {}, NEW k \in AllKeys, k.host \in hosts'
      PROVE  IF k.table = "visitor" THEN served'[k] > 0 => Total(k)' > 0 ELSE Total(k)' = served'[k]
  <2>1. lost = {} /\ k.host \in hosts
    BY <1>4 DEF Conserved
  <2>2. IF k.table = "visitor" THEN served[k] > 0 => Total(k) > 0 ELSE Total(k) = served[k]
    BY <2>1 DEF TInv, EveryRequestCounted, Total
  <2> QED BY <1>1, <1>4, <2>2 DEF Conserved
<1>5. NeverCountedTwice'
  BY <1>3 DEF NeverCountedTwice, Total
<1>6. EveryRequestCounted'
  BY <1>4 DEF EveryRequestCounted, Total
<1> QED BY <1>5, <1>6

(* Leaving the channel alone leaves the queued count. *)
LEMMA QueueStays ==
    ASSUME UNCHANGED ch, NEW k PROVE queued(k)' = queued(k)
BY DEF queued, Keys, trafficKey, classKey, visitorKey

(* Leaving the maps alone leaves the unwritten count. *)
LEMMA MapsStay ==
    ASSUME UNCHANGED <<agg, rec>>, NEW k PROVE unwritten(k)' = unwritten(k)
BY DEF unwritten

(* Leaving the requests alone leaves the count on their way. *)
LEMMA EdgeUnchanged ==
    ASSUME UNCHANGED tail, NEW k PROVE atEdge(k)' = atEdge(k)
BY DEF atEdge, Keys, trafficKey, classKey, visitorKey

(* The tables, the maps and the channel stay as they are, and so does the  *)
(* number of requests at the edge.                                         *)
LEMMA StillConserved ==
    ASSUME TypeOK, TypeOK', UNCHANGED <<hosts, recorder, db, served>>, lost \subseteq lost',
           NEW k \in AllKeys, atEdge(k)' = atEdge(k)
    PROVE  Conserved(k)
<1>1. queued(k)' = queued(k) /\ unwritten(k)' = unwritten(k)
  BY QueueStays, MapsStay DEF recorder
<1>2. Total(k)' = Total(k)
  BY <1>1, CountsOK, CountsNext
<1>3. lost' = {} => lost = {}
  OBVIOUS
<1> QED BY <1>2, <1>3, CountsOK, CountsNext DEF Conserved

(* Leaving hosts and tables alone creates no orphaned statistics. *)
LEMMA StatisticsStay ==
    ASSUME TInv, UNCHANGED <<hosts, db>> PROVE NoStatisticsWithoutHost'
BY DEF TInv, NoStatisticsWithoutHost

(* The type invariant, in two halves. *)
RecorderOK ==
    /\ ch \in Seq(Event) /\ Len(ch) <= QueueCap
    /\ agg \in [AllKeys -> Nat] /\ db \in [AllKeys -> Nat]
    /\ \A k \in AllKeys : k.table = "visitor" => agg[k] <= 1 /\ db[k] <= 1
    /\ rec \in {Select, [pc |-> "returned"]} \union [pc: {"flush"}, todo: SUBSET pending]

OthersOK ==
    /\ hosts \subseteq Hosts
    /\ chan \in [Streams -> {"none", "open", "closed"}]
    /\ unread \in [Streams -> 0..StreamCap]
    /\ tail \in [Reqs -> TailType]
    /\ stopping \in BOOLEAN /\ starts \in 1..MaxStarts
    /\ served \in [AllKeys -> Nat]
    /\ lost \subseteq {"panic", "full", "write", "stop"}

(* The type invariant in two halves. *)
LEMMA TypeHalves == TypeOK <=> RecorderOK /\ OthersOK
BY DEF TypeOK, RecorderOK, OthersOK, TailType

(* The same of the next state. *)
LEMMA TypeHalvesNext == TypeOK' <=> RecorderOK' /\ OthersOK'
BY TypeHalves, PTL

(* Leaving the recorder alone keeps its half. *)
LEMMA RecorderUnchanged ==
    ASSUME TypeOK, UNCHANGED <<recorder, db>>
    PROVE  RecorderOK'
BY TypeHalves DEF RecorderOK, recorder, pending

(* Setting one request keeps their type. *)
LEMMA TailSet ==
    ASSUME TypeOK, NEW r \in Reqs, NEW v \in TailType, tail' = [tail EXCEPT ![r] = v]
    PROVE  tail' \in [Reqs -> TailType]
BY TypeHalves DEF OthersOK

-----------------------------------------------------------------------------
(* The end of a request *)

(* A request goes on at the edge: SubscriberCount, Publish, Send and       *)
(* Published.                                                              *)
LEMMA EdgeStep ==
    ASSUME TInv, NEW r \in Reqs, NEW v \in TailType, tail' = [tail EXCEPT ![r] = v],
           Waiting(r), v.pc # "idle", v.ev = tail[r].ev,
           unread' \in [Streams -> 0..StreamCap],
           UNCHANGED <<hosts, chan, recorder, db, stopping, starts, served, lost>>
    PROVE  TypeOK' /\ (\A k \in AllKeys : Conserved(k)) /\ NoStatisticsWithoutHost'
<1>0. TypeOK
  BY DEF TInv
<1>1. RecorderOK'
  BY <1>0, RecorderUnchanged
<1>2. OthersOK'
  BY <1>0, TailSet, TypeHalves DEF OthersOK
<1>3. TypeOK'
  BY <1>1, <1>2, TypeHalvesNext
<1>4. ASSUME NEW k \in AllKeys PROVE Conserved(k)
  <2>1. atEdge(k)' = atEdge(k)
    BY <1>0, EdgeStays
  <2> QED BY <1>0, <1>3, <2>1, StillConserved
<1> QED BY <1>3, <1>4, StatisticsStay

(* A request that publishes to the live hub moves no count. *)
LEMMA RequestGoesOn ==
    ASSUME TInv, NEW r \in Reqs,
           SubscriberCount(r) \/ Publish(r) \/ Published(r) \/ \E i \in Streams : Send(r, i)
    PROVE  TypeOK' /\ (\A k \in AllKeys : Conserved(k)) /\ NoStatisticsWithoutHost'
<1>0. TypeOK /\ unread \in [Streams -> 0..StreamCap] /\ open \subseteq Streams
  BY TypeHalves DEF TInv, OthersOK, open
<1>1. CASE SubscriberCount(r)
  <2> DEFINE x == IF open = {} THEN "record" ELSE "publish"
             v == [tail[r] EXCEPT !.pc = x]
  <2>1. tail[r].pc = "count" /\ tail[r] \in [pc: {"count", "publish", "record"}, ev: Event]
    BY <1>0, <1>1, TailFacts DEF SubscriberCount
  <2>2. x \in {"record", "publish"}
    OBVIOUS
  <2>3. tail' = [tail EXCEPT ![r] = v]
    BY <1>1 DEF SubscriberCount, Goto
  <2> HIDE DEF x
  <2>4. v \in [pc: {"count", "publish", "record"}, ev: Event] /\ v.pc = x /\ v.ev = tail[r].ev
    BY <2>1, <2>2
  <2> HIDE DEF v
  <2>5. v \in TailType /\ v.pc # "idle" /\ Waiting(r)
    BY <2>1, <2>2, <2>4 DEF TailType, Waiting
  <2>6. UNCHANGED <<hosts, chan, unread, recorder, db, stopping, starts, served, lost>>
    BY <1>1 DEF SubscriberCount, hub
  <2> QED BY <1>0, <2>3, <2>4, <2>5, <2>6, EdgeStep
<1>2. CASE Publish(r)
  <2> DEFINE v == [pc |-> "send", ev |-> tail[r].ev, chs |-> open]
  <2>1. tail[r].pc = "publish" /\ tail[r].ev \in Event /\ Waiting(r)
    BY <1>0, <1>2, TailFacts DEF Publish, Waiting
  <2>2. tail' = [tail EXCEPT ![r] = v]
    BY <1>2 DEF Publish
  <2>3. v \in [pc: {"send"}, ev: Event, chs: SUBSET Streams] /\ v.pc = "send" /\ v.ev = tail[r].ev
    BY <1>0, <2>1
  <2> HIDE DEF v
  <2>4. v \in TailType
    BY <2>3 DEF TailType
  <2>5. UNCHANGED <<hosts, chan, unread, recorder, db, stopping, starts, served, lost>>
    BY <1>2 DEF Publish, hub
  <2> QED BY <1>0, <2>1, <2>2, <2>3, <2>4, <2>5, EdgeStep
<1>3. CASE Published(r)
  <2> DEFINE v == [pc |-> "record", ev |-> tail[r].ev]
  <2>1. tail[r].pc = "send" /\ tail[r].ev \in Event /\ Waiting(r)
    BY <1>0, <1>3, TailFacts DEF Published, Waiting
  <2>2. tail' = [tail EXCEPT ![r] = v]
    BY <1>3 DEF Published
  <2>3. v \in [pc: {"count", "publish", "record"}, ev: Event] /\ v.pc = "record" /\ v.ev = tail[r].ev
    BY <2>1
  <2> HIDE DEF v
  <2>4. v \in TailType
    BY <2>3 DEF TailType
  <2>5. UNCHANGED <<hosts, chan, unread, recorder, db, stopping, starts, served, lost>>
    BY <1>3 DEF Published, hub
  <2> QED BY <1>0, <2>1, <2>2, <2>3, <2>4, <2>5, EdgeStep
<1>4. ASSUME NEW i \in Streams, Send(r, i)
      PROVE  TypeOK' /\ (\A k \in AllKeys : Conserved(k)) /\ NoStatisticsWithoutHost'
  <2> DEFINE v == [tail[r] EXCEPT !.chs = @ \ {i}]
  <2>1. tail[r].pc = "send" /\ tail[r] \in [pc: {"send"}, ev: Event, chs: SUBSET Streams] /\ Waiting(r)
    BY <1>0, <1>4, TailFacts DEF Send, Waiting
  <2>2. tail' = [tail EXCEPT ![r] = v]
    BY <1>4 DEF Send
  <2>3. v \in [pc: {"send"}, ev: Event, chs: SUBSET Streams] /\ v.pc = "send" /\ v.ev = tail[r].ev
    BY <2>1
  <2> HIDE DEF v
  <2>4. v \in TailType
    BY <2>3 DEF TailType
  <2>5. unread' \in [Streams -> 0..StreamCap]
    BY <1>0, <1>4, CapAssumption DEF Send
  <2>6. UNCHANGED <<hosts, chan, recorder, db, stopping, starts, served, lost>>
    BY <1>4 DEF Send
  <2> QED BY <2>1, <2>2, <2>3, <2>4, <2>5, <2>6, EdgeStep
<1> QED BY <1>1, <1>2, <1>3, <1>4

(* A request at rest has its type. *)
LEMMA IdleTail == Idle \in TailType /\ Idle.pc = "idle"
BY DEF Idle, TailType

(* An answered request adds itself to the served and to those on their way. *)
LEMMA AnsweredStep ==
    ASSUME TInv, NEW r \in Reqs, NEW ev \in Event, Answered(r, ev)
    PROVE  TypeOK' /\ (\A k \in AllKeys : Conserved(k)) /\ NoStatisticsWithoutHost'
<1>0. TypeOK
  BY DEF TInv
<1>1. UNCHANGED <<hosts, chan, unread, recorder, db, stopping, starts, lost>> /\ ~Waiting(r)
  BY DEF Answered, hub, Waiting
<1> DEFINE v == [pc |-> "count", ev |-> ev]
<1>2. tail' = [tail EXCEPT ![r] = v] /\ v \in TailType /\ v.pc # "idle" /\ v.ev = ev
  BY DEF Answered, TailType
<1> HIDE DEF v
<1>3. served' = [k \in AllKeys |-> IF k \in Keys(ev) THEN served[k] + 1 ELSE served[k]]
  BY DEF Answered
<1>4. served' \in [AllKeys -> Nat]
  BY <1>0, <1>3, CountsOK
<1>5. TypeOK'
  <2>1. OthersOK'
    BY <1>0, <1>1, <1>2, <1>4, TailSet, TypeHalves DEF OthersOK
  <2> QED BY <1>0, <1>1, <2>1, RecorderUnchanged, TypeHalvesNext
<1>6. ASSUME NEW k \in AllKeys PROVE Conserved(k)
  <2>1. atEdge(k)' = atEdge(k) + One(k, ev)
    BY <1>0, <1>1, <1>2, EdgeArrives
  <2>2. served'[k] = served[k] + One(k, ev) /\ One(k, ev) \in Nat
    BY <1>0, <1>3, CountsOK DEF One
  <2>3. queued(k)' = queued(k) /\ unwritten(k)' = unwritten(k) /\ db'[k] = db[k]
    BY <1>1, QueueStays, MapsStay DEF recorder
  <2>4. Total(k)' = Total(k) + One(k, ev)
    BY <1>0, <1>5, <2>1, <2>2, <2>3, CountsOK, CountsNext
  <2>5. Total(k)' + served[k] = Total(k) + served'[k]
    BY <1>0, <2>2, <2>4, CountsOK
  <2>6. served'[k] > 0 => served[k] > 0 \/ Total(k)' > 0
    BY <1>0, <2>2, <2>4, CountsOK
  <2>7. Total(k) > 0 => Total(k)' > 0
    BY <1>0, <2>2, <2>4, CountsOK
  <2> QED BY <1>0, <1>1, <1>5, <2>5, <2>6, <2>7, CountsOK, CountsNext DEF Conserved
<1> QED BY <1>1, <1>5, <1>6, StatisticsStay

(* The send on a closed channel loses the request. *)
LEMMA PanicStep ==
    ASSUME TInv, NEW r \in Reqs, NEW i \in Streams, SendPanics(r, i)
    PROVE  TypeOK' /\ (\A k \in AllKeys : Conserved(k)) /\ NoStatisticsWithoutHost'
<1>0. TypeOK
  BY DEF TInv
<1>1. /\ UNCHANGED <<hosts, chan, unread, recorder, db, stopping, starts, served>> /\ Waiting(r)
      /\ tail' = [tail EXCEPT ![r] = Idle] /\ lost' = lost \union {"panic"}
  BY DEF SendPanics, hub, Waiting
<1>2. TypeOK'
  <2>1. OthersOK'
    BY <1>0, <1>1, IdleTail, TailSet, TypeHalves DEF OthersOK
  <2> QED BY <1>0, <1>1, <2>1, RecorderUnchanged, TypeHalvesNext
<1>3. ASSUME NEW k \in AllKeys PROVE Conserved(k)
  <2>1. atEdge(k)' <= atEdge(k)
    <3>1. atEdge(k) = atEdge(k)' + One(k, tail[r].ev) /\ atEdge(k)' \in Nat
      BY <1>0, <1>1, EdgeLeaves
    <3>2. One(k, tail[r].ev) \in Nat
      BY DEF One
    <3> QED BY <3>1, <3>2
  <2>2. queued(k)' = queued(k) /\ unwritten(k)' = unwritten(k) /\ db'[k] = db[k]
    BY <1>1, QueueStays, MapsStay DEF recorder
  <2>3. Total(k)' <= Total(k)
    BY <1>0, <1>2, <2>1, <2>2, CountsOK, CountsNext
  <2>4. lost' # {}
    BY <1>1
  <2> QED BY <1>0, <1>1, <1>2, <2>3, <2>4, CountsOK, CountsNext DEF Conserved
<1> QED BY <1>1, <1>2, <1>3, StatisticsStay

(* Recording moves the event from the request to the queue, or drops it. *)
LEMMA RecordStep ==
    ASSUME TInv, NEW r \in Reqs, Record(r)
    PROVE  TypeOK' /\ (\A k \in AllKeys : Conserved(k)) /\ NoStatisticsWithoutHost'
<1>0. TypeOK /\ ch \in Seq(Event) /\ Len(ch) <= QueueCap /\ lost \subseteq {"panic", "full", "write", "stop"}
  BY DEF TInv, TypeOK
<1> DEFINE ev == tail[r].ev
<1>1. /\ UNCHANGED <<hosts, chan, unread, agg, rec, db, stopping, starts, served>> /\ Waiting(r)
      /\ tail' = [tail EXCEPT ![r] = Idle] /\ ev \in Event
  BY <1>0, TailFacts DEF Record, hub, Waiting
<1>2. \/ Len(ch) < QueueCap /\ ch' = Append(ch, ev) /\ lost' = lost
      \/ ch' = ch /\ lost' = lost \union {"full"}
  BY DEF Record
<1> HIDE DEF ev
<1>3. ch' \in Seq(Event) /\ Len(ch') <= QueueCap
  BY <1>0, <1>1, <1>2, CapAssumption
<1>4. TypeOK'
  <2>1. OthersOK'
    BY <1>0, <1>1, <1>2, IdleTail, TailSet, TypeHalves DEF OthersOK
  <2>2. RecorderOK'
    BY <1>0, <1>1, <1>3, TypeHalves DEF RecorderOK, pending
  <2> QED BY <2>1, <2>2, TypeHalvesNext
<1>5. ASSUME NEW k \in AllKeys PROVE Conserved(k)
  <2>1. atEdge(k) = atEdge(k)' + One(k, ev) /\ One(k, ev) \in Nat
    BY <1>0, <1>1, EdgeLeaves DEF One, ev
  <2>2. unwritten(k)' = unwritten(k) /\ db'[k] = db[k] /\ served'[k] = served[k]
    BY <1>1, MapsStay
  <2>3. CASE ch' = Append(ch, ev) /\ lost' = lost
    <3>1. queued(k) = Cardinality(PlacesOf(ch, k)) /\ queued(k)' = Cardinality(PlacesOf(Append(ch, ev), k))
      BY <2>3 DEF queued, PlacesOf, Keys, trafficKey, classKey, visitorKey
    <3>2. queued(k)' = queued(k) + One(k, ev)
      BY <1>0, <1>1, <3>1, PlacesAppend
    <3>3. Total(k)' = Total(k)
      <4>1. /\ Total(k) = db[k] + atEdge(k) + queued(k) + unwritten(k)
            /\ db[k] \in Nat /\ atEdge(k) \in Nat /\ queued(k) \in Nat /\ unwritten(k) \in Nat
        BY <1>0, CountsOK
      <4>2. Total(k)' = db'[k] + atEdge(k)' + queued(k)' + unwritten(k)' /\ atEdge(k)' \in Nat
        BY <1>4, CountsNext
      <4> QED BY <2>1, <2>2, <3>2, <4>1, <4>2
    <3> QED BY <1>0, <1>1, <1>4, <2>3, <3>3, CountsOK, CountsNext DEF Conserved
  <2>4. CASE ch' = ch /\ lost' = lost \union {"full"}
    <3>1. queued(k)' = queued(k)
      BY <2>4, QueueStays
    <3>2. Total(k)' <= Total(k)
      <4>1. atEdge(k)' <= atEdge(k)
        BY <1>4, <2>1, CountsNext
      <4> QED BY <1>0, <1>4, <2>2, <3>1, <4>1, CountsOK, CountsNext
    <3>3. lost' # {}
      BY <2>4
    <3> QED BY <1>0, <1>1, <1>4, <2>2, <3>2, <3>3, CountsOK, CountsNext DEF Conserved
  <2> QED BY <1>2, <2>3, <2>4
<1> QED BY <1>1, <1>4, <1>5, StatisticsStay

(* Streams come and go without touching the recorder. *)
LEMMA StreamStep ==
    ASSUME TInv, NEW i \in Streams, Subscribe(i) \/ Deliver(i) \/ Cancel(i)
    PROVE  TypeOK' /\ (\A k \in AllKeys : Conserved(k)) /\ NoStatisticsWithoutHost'
<1>0. TypeOK /\ chan \in [Streams -> {"none", "open", "closed"}] /\ unread \in [Streams -> 0..StreamCap]
  BY DEF TInv, TypeOK
<1>1. UNCHANGED <<hosts, tail, recorder, db, stopping, starts, served, lost>>
  BY DEF Subscribe, Deliver, Cancel
<1>2. chan' \in [Streams -> {"none", "open", "closed"}] /\ unread' \in [Streams -> 0..StreamCap]
  BY <1>0, CapAssumption DEF Subscribe, Deliver, Cancel
<1>3. TypeOK'
  <2>1. OthersOK'
    BY <1>0, <1>1, <1>2, TypeHalves DEF OthersOK
  <2> QED BY <1>0, <1>1, <2>1, RecorderUnchanged, TypeHalvesNext
<1> QED BY <1>0, <1>1, <1>3, EdgeUnchanged, StillConserved, StatisticsStay

-----------------------------------------------------------------------------
(* Recorder.Start *)

(* What the recorder holds, by its step. *)
LEMMA RecFacts ==
    ASSUME TypeOK
    PROVE  /\ rec.pc = "flush" => rec.todo \subseteq pending /\ rec \in [pc: {"flush"}, todo: SUBSET pending]
           /\ rec.pc \in {"select", "flush", "returned"} /\ pending \subseteq AllKeys
BY DEF TypeOK, Select, pending

(* Aggregating adds the event under each of its keys. *)
LEMMA AggregateOK ==
    ASSUME TypeOK, NEW ev \in Event
    PROVE  /\ aggregate(ev) \in [AllKeys -> Nat]
           /\ \A k \in AllKeys :
                 /\ k.table # "visitor" => aggregate(ev)[k] = agg[k] + One(k, ev)
                 /\ k.table = "visitor" => /\ aggregate(ev)[k] <= 1
                                           /\ k \in Keys(ev) => aggregate(ev)[k] = 1
                                           /\ k \notin Keys(ev) => aggregate(ev)[k] = agg[k]
<1>1. \A k \in AllKeys : agg[k] \in Nat /\ (k.table = "visitor" => agg[k] <= 1)
  BY DEF TypeOK
<1>2. \A k \in AllKeys : aggregate(ev)[k] = IF k \in Keys(ev) THEN add(k, agg[k], 1) ELSE agg[k]
  BY DEF aggregate
<1>3. \A k \in AllKeys : aggregate(ev)[k] \in Nat
  <2> SUFFICES ASSUME NEW k \in AllKeys PROVE aggregate(ev)[k] \in Nat
    OBVIOUS
  <2>1. agg[k] \in Nat /\ add(k, agg[k], 1) \in Nat
    BY <1>1, AddOK
  <2> QED BY <1>2, <2>1
<1>4. aggregate(ev) \in [AllKeys -> Nat]
  BY <1>3 DEF aggregate
<1>5. ASSUME NEW k \in AllKeys
      PROVE  /\ k.table # "visitor" => aggregate(ev)[k] = agg[k] + One(k, ev)
             /\ k.table = "visitor" => /\ aggregate(ev)[k] <= 1
                                       /\ k \in Keys(ev) => aggregate(ev)[k] = 1
                                       /\ k \notin Keys(ev) => aggregate(ev)[k] = agg[k]
  <2>1. /\ k.table # "visitor" => add(k, agg[k], 1) = agg[k] + 1
        /\ k.table = "visitor" => add(k, agg[k], 1) = 1
    <3>1. agg[k] \in Nat
      BY <1>1
    <3> QED BY <3>1, AddOK
  <2>2. agg[k] \in Nat /\ (k.table = "visitor" => agg[k] <= 1)
    BY <1>1
  <2>3. aggregate(ev)[k] = IF k \in Keys(ev) THEN add(k, agg[k], 1) ELSE agg[k]
    BY <1>2
  <2> QED BY <2>1, <2>2, <2>3 DEF One
<1> QED BY <1>4, <1>5

(* Receiving moves the event from the queue to the maps. *)
LEMMA ReceiveStep ==
    ASSUME TInv, Receive
    PROVE  TypeOK' /\ (\A k \in AllKeys : Conserved(k)) /\ NoStatisticsWithoutHost'
<1>0. TypeOK /\ ch \in Seq(Event) /\ Len(ch) <= QueueCap
  BY DEF TInv, TypeOK
<1> DEFINE ev == Head(ch)
<1>1. /\ UNCHANGED <<hosts, chan, unread, tail, rec, db, stopping, starts, served, lost>>
      /\ rec.pc = "select" /\ ch # <<>> /\ agg' = aggregate(ev) /\ ch' = Tail(ch)
  BY DEF Receive, hub
<1>2. ev \in Event /\ ch' \in Seq(Event) /\ Len(ch') <= QueueCap
  BY <1>0, <1>1, CapAssumption
<1> HIDE DEF ev
<1>3. TypeOK'
  <2>1. OthersOK'
    BY <1>0, <1>1, TypeHalves DEF OthersOK
  <2>2. rec' \in {Select, [pc |-> "returned"]}
    BY <1>0, <1>1 DEF TypeOK
  <2>3. agg' \in [AllKeys -> Nat] /\ \A k \in AllKeys : k.table = "visitor" => agg'[k] <= 1
    BY <1>0, <1>1, <1>2, AggregateOK
  <2>4. RecorderOK'
    BY <1>0, <1>1, <1>2, <2>2, <2>3, TypeHalves DEF RecorderOK
  <2> QED BY <2>1, <2>4, TypeHalvesNext
<1>4. ASSUME NEW k \in AllKeys PROVE Conserved(k)
  <2>1. queued(k) = Cardinality(PlacesOf(ch, k)) /\ queued(k)' = Cardinality(PlacesOf(Tail(ch), k))
    BY <1>1 DEF queued, PlacesOf, Keys, trafficKey, classKey, visitorKey
  <2>2. queued(k) = queued(k)' + One(k, ev) /\ One(k, ev) \in Nat
    BY <1>0, <1>1, <2>1, PlacesTail DEF One, ev
  <2>3. unwritten(k) = agg[k] /\ unwritten(k)' = aggregate(ev)[k]
    BY <1>1 DEF unwritten
  <2>4. atEdge(k)' = atEdge(k) /\ db'[k] = db[k] /\ served'[k] = served[k]
    BY <1>1, EdgeUnchanged
  <2>5. CASE k.table # "visitor"
    <3>1. unwritten(k)' = unwritten(k) + One(k, ev)
      BY <1>0, <1>2, <2>3, <2>5, AggregateOK
    <3>2. queued(k)' + unwritten(k)' = queued(k) + unwritten(k)
      BY <1>0, <1>3, <2>2, <3>1, CountsOK, CountsNext
    <3>3. Total(k)' = Total(k)
      BY <1>0, <1>3, <2>4, <3>2, CountsOK, CountsNext
    <3> QED BY <1>0, <1>1, <1>3, <2>4, <2>5, <3>3, CountsOK, CountsNext DEF Conserved
  <2>6. CASE k.table = "visitor"
    <3>1. Total(k) > 0 => Total(k)' > 0
      <4>1. CASE k \in Keys(ev)
        <5>1. unwritten(k)' = 1
          BY <1>0, <1>2, <2>3, <2>6, <4>1, AggregateOK
        <5> QED BY <1>3, <5>1, CountsNext
      <4>2. CASE k \notin Keys(ev)
        <5>1. unwritten(k)' = unwritten(k) /\ queued(k)' = queued(k)
          BY <1>0, <1>2, <1>3, <2>2, <2>3, <2>6, <4>2, AggregateOK, CountsOK, CountsNext DEF One
        <5> QED BY <1>0, <1>3, <2>4, <5>1, CountsOK, CountsNext
      <4> QED BY <4>1, <4>2
    <3> QED BY <1>0, <1>1, <2>4, <2>6, <3>1, CountsOK DEF Conserved
  <2> QED BY <2>5, <2>6
<1> QED BY <1>1, <1>3, <1>4, StatisticsStay

(* StartFlush, EndFlush and Return move nothing: a row that is not pending *)
(* has nothing in the maps, and at the end of a flush nothing is left to   *)
(* write.                                                                  *)
LEMMA MapsStep ==
    ASSUME TInv, UNCHANGED <<hosts, chan, unread, tail, ch, db, stopping, starts, served, lost>>,
           RecorderOK', \A k \in AllKeys : unwritten(k)' = unwritten(k)
    PROVE  TypeOK' /\ (\A k \in AllKeys : Conserved(k)) /\ NoStatisticsWithoutHost'
<1>0. TypeOK
  BY DEF TInv
<1>1. TypeOK'
  <2>1. OthersOK'
    BY <1>0, TypeHalves DEF OthersOK
  <2> QED BY <2>1, TypeHalvesNext
<1>2. ASSUME NEW k \in AllKeys PROVE Conserved(k)
  <2>1. atEdge(k)' = atEdge(k) /\ queued(k)' = queued(k)
    BY EdgeUnchanged, QueueStays
  <2>2. Total(k)' = Total(k)
    BY <1>0, <1>1, <2>1, CountsOK, CountsNext
  <2> QED BY <1>0, <1>1, <2>2, CountsOK, CountsNext DEF Conserved
<1> QED BY <1>1, <1>2, StatisticsStay

(* Starting or ending a flush, and returning, move no count. *)
LEMMA FlushStep ==
    ASSUME TInv, StartFlush \/ EndFlush \/ Return
    PROVE  TypeOK' /\ (\A k \in AllKeys : Conserved(k)) /\ NoStatisticsWithoutHost'
<1>0. TypeOK /\ RecorderOK /\ \A k \in AllKeys : agg[k] \in Nat
  BY TypeHalves DEF TInv, RecorderOK
<1>1. UNCHANGED <<hosts, chan, unread, tail, ch, db, stopping, starts, served, lost>>
  BY DEF StartFlush, EndFlush, Return, hub
<1>2. \A k \in AllKeys : k \notin pending => agg[k] = 0
  BY <1>0 DEF pending
<1>3. CASE StartFlush
  <2>1. rec.pc = "select" /\ rec' = [pc |-> "flush", todo |-> pending] /\ UNCHANGED agg
    BY <1>3 DEF StartFlush
  <2>2. rec'.pc = "flush" /\ rec'.todo = pending
    BY <2>1
  <2>3. RecorderOK'
    BY <1>0, <1>1, <2>1 DEF RecorderOK, pending
  <2>4. \A k \in AllKeys : unwritten(k)' = unwritten(k)
    BY <1>2, <2>1, <2>2 DEF unwritten
  <2> QED BY <1>1, <2>3, <2>4, MapsStep
<1>4. CASE EndFlush
  <2>1. rec.pc = "flush" /\ rec.todo = {} /\ rec' = Select /\ agg' = Empty
    BY <1>4 DEF EndFlush, afterFlush
  <2>2. rec'.pc = "select" /\ agg' \in [AllKeys -> Nat] /\ \A k \in AllKeys : agg'[k] = 0
    BY <2>1 DEF Select, Empty
  <2>3. RecorderOK'
    BY <1>0, <1>1, <2>1, <2>2 DEF RecorderOK
  <2>4. \A k \in AllKeys : unwritten(k)' = unwritten(k)
    BY <2>1, <2>2 DEF unwritten
  <2> QED BY <1>1, <2>3, <2>4, MapsStep
<1>5. CASE Return
  <2>1. rec.pc = "select" /\ rec' = [pc |-> "returned"] /\ UNCHANGED agg
    BY <1>5 DEF Return
  <2>2. RecorderOK'
    BY <1>0, <1>1, <2>1 DEF RecorderOK
  <2>3. \A k \in AllKeys : unwritten(k)' = unwritten(k)
    BY <2>1 DEF unwritten
  <2> QED BY <1>1, <2>2, <2>3, MapsStep
<1> QED BY <1>3, <1>4, <1>5

(* A flush writes one row, or gives it up; the others stay as they are. *)
LEMMA TodoStep ==
    ASSUME TypeOK, NEW k \in AllKeys, next(k), rec' = [rec EXCEPT !.todo = @ \ {k}], UNCHANGED agg
    PROVE  /\ rec' \in [pc: {"flush"}, todo: SUBSET pending] /\ pending' = pending
           /\ unwritten(k) = agg[k] /\ unwritten(k)' = 0
           /\ \A j \in AllKeys \ {k} : unwritten(j)' = unwritten(j)
<1>1. rec.pc = "flush" /\ k \in rec.todo /\ rec \in [pc: {"flush"}, todo: SUBSET pending]
  BY RecFacts DEF next
<1>2. rec'.pc = "flush" /\ rec'.todo = rec.todo \ {k} /\ rec' \in [pc: {"flush"}, todo: SUBSET pending]
  BY <1>1
<1>3. pending' = pending
  BY DEF pending
<1>4. unwritten(k) = agg[k] /\ unwritten(k)' = 0
  BY <1>1, <1>2 DEF unwritten
<1>5. \A j \in AllKeys \ {k} : unwritten(j)' = unwritten(j)
  BY <1>1, <1>2 DEF unwritten
<1> QED BY <1>2, <1>3, <1>4, <1>5

(* A write moves a count from the maps to the table. *)
LEMMA WriteStep ==
    ASSUME TInv, NEW k \in AllKeys, Write(k)
    PROVE  TypeOK' /\ (\A j \in AllKeys : Conserved(j)) /\ NoStatisticsWithoutHost'
<1>0. TypeOK /\ RecorderOK /\ NoStatisticsWithoutHost
  BY TypeHalves DEF TInv
<1>1. /\ UNCHANGED <<hosts, chan, unread, tail, ch, agg, stopping, starts, served, lost>>
      /\ next(k) /\ k.host \in hosts /\ rec' = [rec EXCEPT !.todo = @ \ {k}]
  BY DEF Write, hub
<1>2. /\ rec' \in [pc: {"flush"}, todo: SUBSET pending] /\ pending' = pending
      /\ unwritten(k) = agg[k] /\ unwritten(k)' = 0
      /\ \A j \in AllKeys \ {k} : unwritten(j)' = unwritten(j)
  BY <1>0, <1>1, TodoStep
<1> DEFINE n == add(k, db[k], agg[k])
<1>3. db' = [db EXCEPT ![k] = n]
  BY DEF Write
<1>4. n \in Nat /\ (k.table # "visitor" => n = db[k] + agg[k]) /\ (k.table = "visitor" => n = 1)
  BY <1>0, CountsOK, AddOK
<1> HIDE DEF n
<1>5. db' \in [AllKeys -> Nat] /\ db'[k] = n /\ \A j \in AllKeys \ {k} : db'[j] = db[j]
  BY <1>0, <1>3, <1>4 DEF RecorderOK
<1>6. TypeOK'
  <2>1. OthersOK'
    BY <1>0, <1>1, TypeHalves DEF OthersOK
  <2>2. ASSUME NEW j \in AllKeys, j.table = "visitor" PROVE agg'[j] <= 1 /\ db'[j] <= 1
    <3>1. agg[j] <= 1 /\ db[j] <= 1
      BY <1>0, <2>2 DEF RecorderOK
    <3>2. agg'[j] = agg[j]
      BY <1>1
    <3>3. CASE j = k
      BY <1>4, <1>5, <2>2, <3>1, <3>2, <3>3
    <3>4. CASE j # k
      BY <1>5, <3>1, <3>2, <3>4
    <3> QED BY <3>3, <3>4
  <2>3. RecorderOK'
    BY <1>0, <1>1, <1>2, <1>5, <2>2 DEF RecorderOK
  <2> QED BY <2>1, <2>3, TypeHalvesNext
<1>7. ASSUME NEW j \in AllKeys PROVE Conserved(j)
  <2>1. atEdge(j)' = atEdge(j) /\ queued(j)' = queued(j) /\ served'[j] = served[j]
    BY <1>1, EdgeUnchanged, QueueStays
  <2>2. CASE j # k
    <3>1. Total(j)' = Total(j)
      BY <1>0, <1>2, <1>5, <1>6, <2>1, <2>2, CountsOK, CountsNext
    <3> QED BY <1>0, <1>1, <1>6, <2>1, <3>1, CountsOK, CountsNext DEF Conserved
  <2>3. CASE j = k /\ k.table # "visitor"
    <3>1. db'[j] + unwritten(j)' = db[j] + unwritten(j)
      BY <1>0, <1>2, <1>4, <1>5, <2>3, CountsOK
    <3>2. Total(j)' = Total(j)
      BY <1>0, <1>6, <2>1, <3>1, CountsOK, CountsNext
    <3> QED BY <1>0, <1>1, <1>6, <2>1, <3>2, CountsOK, CountsNext DEF Conserved
  <2>4. CASE j = k /\ k.table = "visitor"
    <3>1. Total(j)' > 0
      BY <1>4, <1>5, <1>6, <2>4, CountsNext
    <3> QED BY <1>1, <2>4, <3>1 DEF Conserved
  <2> QED BY <2>2, <2>3, <2>4
<1>8. NoStatisticsWithoutHost'
  BY <1>0, <1>1, <1>5 DEF NoStatisticsWithoutHost
<1> QED BY <1>6, <1>7, <1>8

(* A failed write gives up the count of its key, and adds none. *)
LEMMA WriteFailsStep ==
    ASSUME TInv, NEW k \in AllKeys, WriteFails(k)
    PROVE  TypeOK' /\ (\A j \in AllKeys : Conserved(j)) /\ NoStatisticsWithoutHost'
<1>0. TypeOK /\ RecorderOK
  BY TypeHalves DEF TInv
<1>1. /\ UNCHANGED <<hosts, chan, unread, tail, ch, agg, db, stopping, starts, served>>
      /\ next(k) /\ rec' = [rec EXCEPT !.todo = @ \ {k}]
      /\ lost' = IF k.host \in hosts THEN lost \union {"write"} ELSE lost
  BY DEF WriteFails, hub
<1>2. /\ rec' \in [pc: {"flush"}, todo: SUBSET pending] /\ pending' = pending
      /\ unwritten(k) = agg[k] /\ unwritten(k)' = 0
      /\ \A j \in AllKeys \ {k} : unwritten(j)' = unwritten(j)
  BY <1>0, <1>1, TodoStep
<1>3. TypeOK'
  <2>1. OthersOK'
    BY <1>0, <1>1, TypeHalves DEF OthersOK
  <2>2. RecorderOK'
    BY <1>0, <1>1, <1>2 DEF RecorderOK
  <2> QED BY <2>1, <2>2, TypeHalvesNext
<1>4. ASSUME NEW j \in AllKeys PROVE Conserved(j)
  <2>1. atEdge(j)' = atEdge(j) /\ queued(j)' = queued(j) /\ served'[j] = served[j] /\ db'[j] = db[j]
    BY <1>1, EdgeUnchanged, QueueStays
  <2>2. lost' = {} => lost = {} /\ k.host \notin hosts
    BY <1>1
  <2>3. CASE j # k
    <3>1. Total(j)' = Total(j)
      BY <1>0, <1>2, <1>3, <2>1, <2>3, CountsOK, CountsNext
    <3> QED BY <1>0, <1>1, <1>3, <2>1, <2>2, <3>1, CountsOK, CountsNext DEF Conserved
  <2>4. CASE j = k
    <3>1. Total(j)' <= Total(j)
      BY <1>0, <1>2, <1>3, <2>1, <2>4, CountsOK, CountsNext
    <3> QED BY <1>0, <1>1, <1>3, <2>1, <2>2, <2>4, <3>1, CountsOK, CountsNext DEF Conserved
  <2> QED BY <2>3, <2>4
<1> QED BY <1>1, <1>3, <1>4, StatisticsStay

-----------------------------------------------------------------------------
(* Removal, shutdown and restart *)

(* Removing a host removes its statistics. *)
LEMMA RemoveStep ==
    ASSUME TInv, NEW h \in Hosts, RemoveHost(h)
    PROVE  TypeOK' /\ (\A j \in AllKeys : Conserved(j)) /\ NoStatisticsWithoutHost'
<1>0. TypeOK /\ RecorderOK /\ NoStatisticsWithoutHost
  BY TypeHalves DEF TInv
<1>1. /\ UNCHANGED <<chan, unread, tail, ch, agg, rec, stopping, starts, served, lost>>
      /\ hosts' = hosts \ {h} /\ db' = withoutHost(h)
  BY DEF RemoveHost, hub, recorder
<1>2. db' \in [AllKeys -> Nat] /\ \A j \in AllKeys : db'[j] = IF j.host = h THEN 0 ELSE db[j]
  BY <1>0, <1>1 DEF RecorderOK, withoutHost
<1>3. TypeOK'
  <2>1. OthersOK'
    BY <1>0, <1>1, TypeHalves DEF OthersOK
  <2>2. ASSUME NEW j \in AllKeys, j.table = "visitor" PROVE agg'[j] <= 1 /\ db'[j] <= 1
    <3>1. agg[j] <= 1 /\ db[j] <= 1
      BY <1>0, <2>2 DEF RecorderOK
    <3>2. agg'[j] = agg[j]
      BY <1>1
    <3>3. db'[j] \in {0, db[j]}
      BY <1>2
    <3> QED BY <3>1, <3>2, <3>3
  <2>3. RecorderOK'
    BY <1>0, <1>1, <1>2, <2>2 DEF RecorderOK, pending
  <2> QED BY <2>1, <2>3, TypeHalvesNext
<1>4. ASSUME NEW j \in AllKeys PROVE Conserved(j)
  <2>1. atEdge(j)' = atEdge(j) /\ queued(j)' = queued(j) /\ unwritten(j)' = unwritten(j) /\ served'[j] = served[j]
    BY <1>1, EdgeUnchanged, QueueStays, MapsStay
  <2>2. CASE j.host # h
    <3>1. Total(j)' = Total(j)
      BY <1>0, <1>2, <1>3, <2>1, <2>2, CountsOK, CountsNext
    <3> QED BY <1>0, <1>1, <1>3, <2>1, <3>1, CountsOK, CountsNext DEF Conserved
  <2>3. CASE j.host = h
    <3>1. Total(j)' <= Total(j)
      BY <1>0, <1>2, <1>3, <2>1, <2>3, CountsOK, CountsNext
    <3>2. j.host \notin hosts'
      BY <1>1, <2>3
    <3> QED BY <1>0, <1>3, <2>1, <3>1, <3>2, CountsOK, CountsNext DEF Conserved
  <2> QED BY <2>2, <2>3
<1>5. NoStatisticsWithoutHost'
  BY <1>0, <1>1, <1>2 DEF NoStatisticsWithoutHost
<1> QED BY <1>3, <1>4, <1>5

(* Stopping moves no count. *)
LEMMA StopStep ==
    ASSUME TInv, Stop
    PROVE  TypeOK' /\ (\A j \in AllKeys : Conserved(j)) /\ NoStatisticsWithoutHost'
<1>0. TypeOK
  BY DEF TInv
<1>1. /\ UNCHANGED <<hosts, chan, unread, tail, recorder, db, starts, served>>
      /\ stopping' = TRUE /\ lost' = lost \union {"stop"}
  BY DEF Stop, hub
<1>2. TypeOK'
  <2>1. OthersOK'
    BY <1>0, <1>1, TypeHalves DEF OthersOK
  <2> QED BY <1>0, <1>1, <2>1, RecorderUnchanged, TypeHalvesNext
<1> QED BY <1>0, <1>1, <1>2, EdgeUnchanged, StillConserved, StatisticsStay

(* A restart may lose what was not written, and adds none. *)
LEMMA RestartStep ==
    ASSUME TInv, Restart
    PROVE  TypeOK' /\ (\A j \in AllKeys : Conserved(j)) /\ NoStatisticsWithoutHost'
<1>0. TypeOK /\ RecorderOK /\ OthersOK
  BY TypeHalves DEF TInv
<1>1. /\ UNCHANGED <<hosts, db, served>> /\ lost' = lost \union {"stop"} /\ stopping' = FALSE
      /\ starts < MaxStarts /\ starts' = starts + 1
      /\ chan' = [i \in Streams |-> IF chan[i] = "open" THEN "closed" ELSE chan[i]]
      /\ unread' = [i \in Streams |-> 0] /\ tail' = [r \in Reqs |-> Idle]
      /\ ch' = <<>> /\ agg' = Empty /\ rec' = Select
  BY DEF Restart
<1>2. agg' \in [AllKeys -> Nat] /\ \A j \in AllKeys : agg'[j] = 0
  BY <1>1 DEF Empty
<1>3. TypeOK'
  <2>1. RecorderOK'
    <3>1. ch' \in Seq(Event) /\ Len(ch') <= QueueCap
      BY <1>1, CapAssumption
    <3> QED BY <1>0, <1>1, <1>2, <3>1 DEF RecorderOK
  <2>2. OthersOK'
    <3>1. chan' \in [Streams -> {"none", "open", "closed"}] /\ unread' \in [Streams -> 0..StreamCap]
      BY <1>0, <1>1, CapAssumption DEF OthersOK
    <3>2. tail' \in [Reqs -> TailType]
      BY <1>1, IdleTail
    <3>3. starts' \in 1..MaxStarts
      BY <1>0, <1>1, BoundAssumption DEF OthersOK
    <3> QED BY <1>0, <1>1, <3>1, <3>2, <3>3 DEF OthersOK
  <2> QED BY <2>1, <2>2, TypeHalvesNext
<1>4. ASSUME NEW j \in AllKeys PROVE Conserved(j)
  <2>1. unwritten(j)' = 0
    BY <1>1, <1>2 DEF unwritten, Select
  <2>2. queued(j)' = 0
    <3>1. {i \in DOMAIN ch' : j \in Keys(ch'[i])} = {}
      BY <1>1
    <3> QED BY <3>1, FS_EmptySet DEF queued, Keys, trafficKey, classKey, visitorKey
  <2>3. atEdge(j)' = 0
    <3>1. \A r \in Reqs : tail'[r].pc = "idle"
      BY <1>1, IdleTail
    <3>2. atEdge(j)' = Cardinality({})
      BY <3>1 DEF atEdge
    <3> QED BY <3>2, FS_EmptySet
  <2>4. Total(j)' <= Total(j)
    BY <1>0, <1>1, <1>3, <2>1, <2>2, <2>3, CountsOK, CountsNext
  <2>5. lost' # {}
    BY <1>1
  <2> QED BY <1>0, <1>1, <1>3, <2>4, <2>5, CountsOK, CountsNext DEF Conserved
<1> QED BY <1>1, <1>3, <1>4, StatisticsStay

-----------------------------------------------------------------------------
(* The theorems *)

(* The invariant holds at the start. *)
LEMMA TrafficStarts == Init => TInv
<1> SUFFICES ASSUME Init PROVE TInv
  OBVIOUS
<1>1. (\A k \in AllKeys : agg[k] = 0 /\ db[k] = 0 /\ served[k] = 0)
      /\ agg \in [AllKeys -> Nat] /\ db \in [AllKeys -> Nat] /\ served \in [AllKeys -> Nat]
  BY DEF Init, Empty
<1>2. TypeOK
  <2>1. RecorderOK
    BY <1>1, CapAssumption DEF Init, RecorderOK
  <2>2. tail \in [Reqs -> TailType]
    BY IdleTail DEF Init
  <2>3. chan \in [Streams -> {"none", "open", "closed"}] /\ unread \in [Streams -> 0..StreamCap]
    BY CapAssumption DEF Init
  <2>4. hosts \subseteq Hosts /\ stopping \in BOOLEAN /\ starts \in 1..MaxStarts /\ lost = {}
    <3>1. starts = 1 /\ hosts = Hosts /\ lost = {}
      BY DEF Init
    <3>2. 1 \in 1..MaxStarts
      BY BoundAssumption
    <3>3. stopping \in BOOLEAN
      BY Zenon DEF Init
    <3> QED BY <3>1, <3>2, <3>3
  <2>5. OthersOK
    BY <1>1, <2>2, <2>3, <2>4 DEF OthersOK
  <2> QED BY <2>1, <2>5, TypeHalves
<1>3. ASSUME NEW k \in AllKeys PROVE Total(k) = 0
  <2>1. unwritten(k) = 0
    BY <1>1 DEF Init, unwritten, Select
  <2>2. queued(k) = 0
    <3>1. {i \in DOMAIN ch : k \in Keys(ch[i])} = {}
      BY DEF Init
    <3> QED BY <3>1, FS_EmptySet DEF queued
  <2>3. atEdge(k) = 0
    <3>1. \A r \in Reqs : tail[r].pc = "idle"
      BY IdleTail DEF Init
    <3>2. atEdge(k) = Cardinality({})
      BY <3>1 DEF atEdge
    <3> QED BY <3>2, FS_EmptySet
  <2> QED BY <1>1, <1>2, <2>1, <2>2, <2>3, CountsOK
<1>4. NeverCountedTwice
  BY <1>1, <1>3 DEF NeverCountedTwice, Total
<1>5. EveryRequestCounted
  BY <1>1, <1>3 DEF EveryRequestCounted, Total
<1>6. NoStatisticsWithoutHost
  BY <1>1 DEF NoStatisticsWithoutHost
<1> QED BY <1>2, <1>4, <1>5, <1>6 DEF TInv

(* Every step preserves it. *)
LEMMA TrafficStep == TInv /\ [Next]_vars => TInv'
<1> SUFFICES ASSUME TInv, [Next]_vars
             PROVE  TypeOK' /\ (\A k \in AllKeys : Conserved(k)) /\ NoStatisticsWithoutHost'
  BY ConservedIsEnough DEF TInv
<1>1. ASSUME NEW r \in Reqs, RequestStep(r)
      PROVE  TypeOK' /\ (\A k \in AllKeys : Conserved(k)) /\ NoStatisticsWithoutHost'
  <2>1. CASE Record(r)
    BY <2>1, RecordStep
  <2>2. CASE \E i \in Streams : SendPanics(r, i)
    BY <2>2, PanicStep
  <2>3. CASE SubscriberCount(r) \/ Publish(r) \/ Published(r) \/ \E i \in Streams : Send(r, i)
    BY <2>3, RequestGoesOn
  <2> QED BY <1>1, <2>1, <2>2, <2>3 DEF RequestStep
<1>2. CASE \E r \in Reqs, ev \in Event : Answered(r, ev)
  BY <1>2, AnsweredStep
<1>3. CASE \E i \in Streams : Subscribe(i) \/ Deliver(i) \/ Cancel(i)
  BY <1>3, StreamStep
<1>4. CASE RecorderStep
  <2>1. CASE Receive
    BY <2>1, ReceiveStep
  <2>2. CASE StartFlush \/ EndFlush \/ Return
    BY <2>2, FlushStep
  <2>3. CASE \E k \in AllKeys : Write(k)
    BY <2>3, WriteStep
  <2>4. CASE \E k \in AllKeys : WriteFails(k)
    BY <2>4, WriteFailsStep
  <2> QED BY <1>4, <2>1, <2>2, <2>3, <2>4 DEF RecorderStep
<1>5. CASE \E h \in Hosts : RemoveHost(h)
  BY <1>5, RemoveStep
<1>6. CASE Stop
  BY <1>6, StopStep
<1>7. CASE Restart
  BY <1>7, RestartStep
<1>8. CASE UNCHANGED vars
  <2>1. UNCHANGED <<hosts, chan, unread, tail, recorder, db, stopping, starts, served, lost>>
    BY <1>8 DEF vars, recorder
  <2>2. TypeOK
    BY DEF TInv
  <2>3. TypeOK'
    <3>1. OthersOK'
      BY <2>1, <2>2, TypeHalves DEF OthersOK
    <3> QED BY <2>1, <2>2, <3>1, RecorderUnchanged, TypeHalvesNext
  <2> QED BY <2>1, <2>2, <2>3, EdgeUnchanged, StillConserved, StatisticsStay
<1> QED BY <1>1, <1>2, <1>3, <1>4, <1>5, <1>6, <1>7, <1>8 DEF Next

(* Type correctness and the three properties below are one inductive       *)
(* invariant of the edge, the hub, the recorder and its tables.            *)
THEOREM TrafficInvariant == Spec => []TInv
BY TrafficStarts, TrafficStep, PTL DEF Spec

(* Every variable keeps its shape: Recorder.ch and the subscribers'        *)
(* channels never hold more than their capacity, a flush only has rows to  *)
(* write that are in the maps, and a visitor is counted once.              *)
THEOREM TrafficTypeCorrect == Spec => []TypeOK
<1>1. TInv => TypeOK
  BY DEF TInv
<1> QED BY <1>1, TrafficInvariant, PTL

(* However flushes, failing writes, removals of hosts and restarts         *)
(* interleave, no request is counted twice in a row of the traffic tables. *)
THEOREM NoRequestTwice == Spec => []NeverCountedTwice
<1>1. TInv => NeverCountedTwice
  BY DEF TInv
<1> QED BY <1>1, TrafficInvariant, PTL

(* A panic of the publisher, a full channel, a failed write and a stop are *)
(* the only ways in which a request of a standing host is lost to the      *)
(* statistics.                                                             *)
THEOREM RequestsAccounted == Spec => []EveryRequestCounted
<1>1. TInv => EveryRequestCounted
  BY DEF TInv
<1> QED BY <1>1, TrafficInvariant, PTL

(* A flush under way when a host is removed does not bring its rows back.  *)
THEOREM StatisticsGoWithHost == Spec => []NoStatisticsWithoutHost
<1>1. TInv => NoStatisticsWithoutHost
  BY DEF TInv
<1> QED BY <1>1, TrafficInvariant, PTL
=============================================================================
