------------------------------ MODULE Traffic ------------------------------
(***************************************************************************)
(* Traffic statistics: what the edge proxy does when a request has been    *)
(* answered (the deferred function of Handler), the live hub it publishes  *)
(* to, the administrators' live streams, and the recorder that aggregates  *)
(* requests in memory and writes them every two seconds.                   *)
(*                                                                         *)
(* The database has one connection, so an upsert is atomic and everything  *)
(* between two of them interleaves.  A host stands for the whole key of a  *)
(* row (host, country and minute) and only the number of requests is kept  *)
(* of its sums, the other columns being added up alongside.                *)
(***************************************************************************)
EXTENDS Integers, Sequences, FiniteSets

CONSTANTS
    Reqs,         \* slots for requests at the edge
    Hosts,        \* host rows; AUTOINCREMENT never gives an id again
    Classes,      \* what classifyTrafficClass tells apart
    Clients,      \* client addresses, by their hash
    QueueCap,     \* capacity of Recorder.ch (8192)
    StreamCap,    \* capacity of a subscriber's channel (512)
    MaxRequests,  \* bound: requests answered for a host
    MaxStreams,   \* bound: live streams opened
    MaxStarts     \* bound: starts of the process

ASSUME CapAssumption == QueueCap \in Nat \ {0} /\ StreamCap \in Nat \ {0}
ASSUME BoundAssumption ==
    /\ IsFiniteSet(Reqs)
    /\ MaxRequests \in Nat /\ MaxStreams \in Nat /\ MaxStarts \in Nat \ {0}

VARIABLES
    hosts,     \* the hosts table
    chan,      \* the channels of LiveHub: none, open (in subs) or closed
    unread,    \* events in a channel's buffer
    tail,      \* the deferred functions of the requests
    ch,        \* Recorder.ch
    agg,       \* trafficMap, classMap and visitors of Recorder.Start
    rec,       \* Recorder.Start: in its select, or the writes left of a flush
    db,        \* host_traffic_minute, host_traffic_class_minute, host_visitors_daily
    stopping,  \* the context of main is cancelled
    starts,    \* starts of the process
    served,    \* history: requests answered, by the row they count in
    lost       \* history: the ways in which requests were lost to the statistics

vars == <<hosts, chan, unread, tail, ch, agg, rec, db, stopping, starts, served, lost>>
hub == <<chan, unread>>
recorder == <<ch, agg, rec>>

Event == [host: Hosts, class: Classes, client: Clients]
Streams == 1..MaxStreams
(* The rows of the three tables, and the ones an event counts in. *)
AllKeys ==
    [table: {"traffic"}, host: Hosts]
        \union [table: {"class"}, host: Hosts, class: Classes]
        \union [table: {"visitor"}, host: Hosts, client: Clients]
trafficKey(ev) == [table |-> "traffic", host |-> ev.host]
classKey(ev) == [table |-> "class", host |-> ev.host, class |-> ev.class]
visitorKey(ev) == [table |-> "visitor", host |-> ev.host, client |-> ev.client]
Keys(ev) == {trafficKey(ev), classKey(ev), visitorKey(ev)}

(* Upsert*: requests add up, a visitor is a row or none (DO NOTHING). *)
add(k, old, n) == IF k.table = "visitor" THEN 1 ELSE old + n

Empty == [k \in AllKeys |-> 0]
Idle == [pc |-> "idle"]
Select == [pc |-> "select"]

Init ==
    /\ hosts = Hosts
    /\ chan = [i \in Streams |-> "none"]
    /\ unread = [i \in Streams |-> 0]
    /\ tail = [r \in Reqs |-> Idle]
    /\ ch = <<>> /\ agg = Empty /\ rec = Select
    /\ db = Empty
    /\ stopping = FALSE /\ starts = 1
    /\ served = Empty
    /\ lost = {}

-----------------------------------------------------------------------------
(* The end of a request.  A route may outlive its host's row until the     *)
(* proxy's next Refresh, so any host may be asked for.  A request without  *)
(* a route, an edge error and local traffic are published and never reach  *)
(* the recorder: they are left out.                                        *)

Answered(r, ev) ==
    /\ tail[r].pc = "idle"
    /\ served[trafficKey(ev)] < MaxRequests
    /\ served' = [k \in AllKeys |-> IF k \in Keys(ev) THEN served[k] + 1 ELSE served[k]]
    /\ tail' = [tail EXCEPT ![r] = [pc |-> "count", ev |-> ev]]
    /\ UNCHANGED <<hosts, hub, recorder, db, stopping, starts, lost>>

Goto(r, pc) == tail' = [tail EXCEPT ![r].pc = pc]
open == {i \in Streams : chan[i] = "open"}

(* Nobody watching: no event is built. *)
SubscriberCount(r) ==
    /\ tail[r].pc = "count"
    /\ Goto(r, IF open = {} THEN "record" ELSE "publish")
    /\ UNCHANGED <<hosts, hub, recorder, db, stopping, starts, served, lost>>

(* Publish copies the channels under the lock and sends without it. *)
Publish(r) ==
    /\ tail[r].pc = "publish"
    /\ tail' = [tail EXCEPT ![r] = [pc |-> "send", ev |-> @.ev, chs |-> open]]
    /\ UNCHANGED <<hosts, hub, recorder, db, stopping, starts, served, lost>>

(* Mutated form: a publisher waits for room. *)
sendableWithRoom(i) == chan[i] = "open" /\ unread[i] < StreamCap

(* A send that does not wait: a full buffer loses the event. *)
sendable(i) == chan[i] = "open"

Send(r, i) ==
    /\ tail[r].pc = "send" /\ i \in tail[r].chs
    /\ sendable(i)
    /\ unread' = [unread EXCEPT ![i] = IF @ < StreamCap THEN @ + 1 ELSE @]
    /\ tail' = [tail EXCEPT ![r].chs = @ \ {i}]
    /\ UNCHANGED <<hosts, chan, recorder, db, stopping, starts, served, lost>>

(* The subscriber left meanwhile: the send on its closed channel panics,   *)
(* net/http recovers, and the rest of the deferred function is skipped.    *)
SendPanics(r, i) ==
    /\ tail[r].pc = "send" /\ i \in tail[r].chs
    /\ chan[i] = "closed"
    /\ tail' = [tail EXCEPT ![r] = Idle]
    /\ lost' = lost \union {"panic"}
    /\ UNCHANGED <<hosts, hub, recorder, db, stopping, starts, served>>

Published(r) ==
    /\ tail[r].pc = "send" /\ tail[r].chs = {}
    /\ tail' = [tail EXCEPT ![r] = [pc |-> "record", ev |-> @.ev]]
    /\ UNCHANGED <<hosts, hub, recorder, db, stopping, starts, served, lost>>

(* Recorder.Record does not wait either: a full channel drops the event. *)
Record(r) ==
    /\ tail[r].pc = "record"
    /\ IF Len(ch) < QueueCap
       THEN ch' = Append(ch, tail[r].ev) /\ UNCHANGED lost
       ELSE UNCHANGED ch /\ lost' = lost \union {"full"}
    /\ tail' = [tail EXCEPT ![r] = Idle]
    /\ UNCHANGED <<hosts, hub, agg, rec, db, stopping, starts, served>>

-----------------------------------------------------------------------------
(* Live streams: handleTrafficLive. *)

Subscribe(i) ==
    /\ chan[i] = "none" /\ \A j \in 1..(i - 1) : chan[j] # "none"
    /\ chan' = [chan EXCEPT ![i] = "open"]
    /\ UNCHANGED <<hosts, unread, tail, recorder, db, stopping, starts, served, lost>>

Deliver(i) ==
    /\ chan[i] = "open" /\ unread[i] > 0
    /\ unread' = [unread EXCEPT ![i] = @ - 1]
    /\ UNCHANGED <<hosts, chan, tail, recorder, db, stopping, starts, served, lost>>

(* The client goes away or a write fails (the server gives a response 60   *)
(* seconds): the deferred cancel takes the channel out of subs, closes it. *)
Cancel(i) ==
    /\ chan[i] = "open"
    /\ chan' = [chan EXCEPT ![i] = "closed"]
    /\ unread' = [unread EXCEPT ![i] = 0]
    /\ UNCHANGED <<hosts, tail, recorder, db, stopping, starts, served, lost>>

-----------------------------------------------------------------------------
(* Recorder.Start: one goroutine. *)

(* Mutated form: a request is counted only by class and visitor. *)
aggregateClassOnly(ev) ==
    [k \in AllKeys |-> IF k \in Keys(ev) \ {trafficKey(ev)} THEN add(k, agg[k], 1) ELSE agg[k]]

aggregate(ev) == [k \in AllKeys |-> IF k \in Keys(ev) THEN add(k, agg[k], 1) ELSE agg[k]]

Receive ==
    /\ rec.pc = "select" /\ ch # <<>>
    /\ agg' = aggregate(Head(ch))
    /\ ch' = Tail(ch)
    /\ UNCHANGED <<hosts, hub, tail, rec, db, stopping, starts, served, lost>>

pending == {k \in AllKeys : agg[k] > 0}

(* Mutated form: a flush is not started once the context is cancelled. *)
StartFlushOnTick ==
    /\ rec.pc = "select" /\ ~stopping
    /\ pending # {}
    /\ rec' = [pc |-> "flush", todo |-> pending]
    /\ UNCHANGED <<hosts, hub, tail, ch, agg, db, stopping, starts, served, lost>>

(* The ticker, or ctx.Done.  The tables are written one after the other. *)
StartFlush ==
    /\ rec.pc = "select"
    /\ pending # {}
    /\ rec' = [pc |-> "flush", todo |-> pending]
    /\ UNCHANGED <<hosts, hub, tail, ch, agg, db, stopping, starts, served, lost>>

next(k) ==
    /\ rec.pc = "flush" /\ k \in rec.todo
    /\ k.table = "class" => \A j \in rec.todo : j.table # "traffic"
    /\ k.table = "visitor" => \A j \in rec.todo : j.table = "visitor"

(* Mutated form: a row may be written for a host that is gone. *)
WriteUnchecked(k) ==
    /\ next(k)
    /\ ~stopping
    /\ db' = [db EXCEPT ![k] = add(k, @, agg[k])]
    /\ rec' = [rec EXCEPT !.todo = @ \ {k}]
    /\ UNCHANGED <<hosts, hub, tail, ch, agg, stopping, starts, served, lost>>

(* The rows of a host refer to it. *)
Write(k) ==
    /\ next(k)
    /\ ~stopping /\ k.host \in hosts
    /\ db' = [db EXCEPT ![k] = add(k, @, agg[k])]
    /\ rec' = [rec EXCEPT !.todo = @ \ {k}]
    /\ UNCHANGED <<hosts, hub, tail, ch, agg, stopping, starts, served, lost>>

(* The write fails: the host is gone, five seconds are over, or the flush  *)
(* is the last one, whose context is derived from the cancelled one.       *)
WriteFails(k) ==
    /\ next(k)
    /\ rec' = [rec EXCEPT !.todo = @ \ {k}]
    /\ lost' = IF k.host \in hosts THEN lost \union {"write"} ELSE lost
    /\ UNCHANGED <<hosts, hub, tail, ch, agg, db, stopping, starts, served>>

(* Mutated form: the maps are kept when a write failed. *)
keepOnFailure == IF "write" \in lost THEN agg ELSE Empty

afterFlush == Empty

EndFlush ==
    /\ rec.pc = "flush" /\ rec.todo = {}
    /\ agg' = afterFlush
    /\ rec' = Select
    /\ UNCHANGED <<hosts, hub, tail, ch, db, stopping, starts, served, lost>>

(* ctx.Done with nothing left in the maps; what is in ch is left there. *)
Return ==
    /\ rec.pc = "select" /\ stopping /\ pending = {}
    /\ rec' = [pc |-> "returned"]
    /\ UNCHANGED <<hosts, hub, tail, ch, agg, db, stopping, starts, served, lost>>

-----------------------------------------------------------------------------
(* RemoveHost; ON DELETE CASCADE. *)

withoutHost(h) == [k \in AllKeys |-> IF k.host = h THEN 0 ELSE db[k]]

RemoveHost(h) ==
    /\ h \in hosts
    /\ hosts' = hosts \ {h}
    /\ db' = withoutHost(h)
    /\ UNCHANGED <<hub, tail, recorder, stopping, starts, served, lost>>

(* SIGTERM or a failed listener: main cancels and waits for the servers. *)
Stop ==
    /\ ~stopping
    /\ stopping' = TRUE
    /\ lost' = lost \union {"stop"}
    /\ UNCHANGED <<hosts, hub, tail, recorder, db, starts, served>>

(* The process ends, stopped or killed, and starts again. *)
Restart ==
    /\ starts < MaxStarts
    /\ starts' = starts + 1
    /\ stopping' = FALSE
    /\ chan' = [i \in Streams |-> IF chan[i] = "open" THEN "closed" ELSE chan[i]]
    /\ unread' = [i \in Streams |-> 0]
    /\ tail' = [r \in Reqs |-> Idle]
    /\ ch' = <<>> /\ agg' = Empty /\ rec' = Select
    /\ lost' = lost \union {"stop"}
    /\ UNCHANGED <<hosts, db, served>>

-----------------------------------------------------------------------------
RequestStep(r) ==
    \/ SubscriberCount(r) \/ Publish(r) \/ Published(r) \/ Record(r)
    \/ \E i \in Streams : Send(r, i) \/ SendPanics(r, i)

RecorderStep ==
    \/ Receive \/ StartFlush \/ EndFlush \/ Return
    \/ \E k \in AllKeys : Write(k) \/ WriteFails(k)

Next ==
    \/ \E r \in Reqs : RequestStep(r) \/ \E ev \in Event : Answered(r, ev)
    \/ \E i \in Streams : Subscribe(i) \/ Deliver(i) \/ Cancel(i)
    \/ RecorderStep
    \/ \E h \in Hosts : RemoveHost(h)
    \/ Stop \/ Restart

(* Goroutines that are not blocked run; the ticker ticks.  Clients of the  *)
(* live stream read when they like.                                        *)
Spec ==
    /\ Init /\ [][Next]_vars
    /\ WF_vars(RecorderStep)
    /\ \A r \in Reqs : WF_vars(RequestStep(r))

-----------------------------------------------------------------------------
(* The shape of the variables. *)
TypeOK ==
    /\ hosts \subseteq Hosts
    /\ chan \in [Streams -> {"none", "open", "closed"}]
    /\ unread \in [Streams -> 0..StreamCap]
    /\ tail \in [Reqs -> {Idle} \union [pc: {"count", "publish", "record"}, ev: Event]
                         \union [pc: {"send"}, ev: Event, chs: SUBSET Streams]]
    /\ ch \in Seq(Event) /\ Len(ch) <= QueueCap
    /\ agg \in [AllKeys -> Nat] /\ db \in [AllKeys -> Nat]
    /\ \A k \in AllKeys : k.table = "visitor" => agg[k] <= 1 /\ db[k] <= 1
    /\ rec \in {Select, [pc |-> "returned"]} \union [pc: {"flush"}, todo: SUBSET pending]
    /\ stopping \in BOOLEAN /\ starts \in 1..MaxStarts
    /\ served \in [AllKeys -> Nat]
    /\ lost \subseteq {"panic", "full", "write", "stop"}

(* Requests of a row that are on their way: at the edge, in the channel,   *)
(* in the maps.  A row whose write is done in this flush is not.           *)
atEdge(k) == Cardinality({r \in Reqs : tail[r].pc # "idle" /\ k \in Keys(tail[r].ev)})
queued(k) == Cardinality({i \in DOMAIN ch : k \in Keys(ch[i])})
unwritten(k) == IF rec.pc = "flush" /\ k \notin rec.todo THEN 0 ELSE agg[k]
underway(k) == atEdge(k) + queued(k) + unwritten(k)

(* Whatever fails - a write, a flush cut off by the deadline, the process  *)
(* between two writes - no request is counted twice in a row of            *)
(* host_traffic_minute or host_traffic_class_minute.                       *)
NeverCountedTwice ==
    \A k \in AllKeys : k.table # "visitor" => db[k] + underway(k) <= served[k]

(* Unless a subscriber left during a publish, the channel was full, a      *)
(* write failed or the process stopped, every request of a host that still *)
(* exists is in both tables or on its way to them, so the totals by class  *)
(* are the totals, and its client is or will be among the visitors.        *)
EveryRequestCounted ==
    lost = {} =>
        \A k \in AllKeys : k.host \in hosts =>
            IF k.table = "visitor"
            THEN served[k] > 0 => db[k] + underway(k) > 0
            ELSE db[k] + underway(k) = served[k]

(* A flush that was under way when a host was removed does not bring its   *)
(* statistics back.                                                        *)
NoStatisticsWithoutHost == \A k \in AllKeys : k.host \notin hosts => db[k] = 0

(* A subscriber that does not read never holds up the edge: the deferred   *)
(* function of every request ends.                                         *)
RequestsEnd == \A r \in Reqs : tail[r].pc # "idle" ~> tail[r].pc = "idle"

(* What the recorder took is out of its hands again - written or given up  *)
(* - also when every write fails, or the recorder has returned.            *)
RecorderDrains == (ch # <<>> \/ pending # {}) ~> (rec.pc = "returned" \/ (ch = <<>> /\ pending = {}))
=============================================================================
