----------------------------- MODULE NearbyRelay -----------------------------
(***************************************************************************)
(* The nearby path of a ride's events: on every device a RelayEngine       *)
(* (apps/mobile/lib/relay) that stores and forwards events to the peers in *)
(* radio range, from a durable queue of bounded size.  Frames are lost,    *)
(* overtaken and repeated; apps are killed between any two writes; a peer  *)
(* that connects again has another endpoint identity, so what it has       *)
(* acknowledged before is forgotten.                                       *)
(*                                                                         *)
(* Events are numbered in the order they were first seen, the order the    *)
(* queue sends them in within a priority.                                  *)
(***************************************************************************)
EXTENDS Integers, FiniteSets, FiniteSetsExt

CONSTANTS
  Devices,
  Links,             \* the pairs {d, p} in radio range of each other
  Events,            \* a set of positive integers, in first-seen order
  Origin,            \* [Events -> Devices]
  Priority,          \* [Events -> Nat]: higher goes first
  Size,              \* [Events -> Nat]: encoded size
  MaxFrame,          \* maxFrameBytes, in the unit of Size
  MaxEventsPerFrame, \* RelayProtocol.maxEventsPerFrame
  MaxHops,           \* maxRelayHops
  MaxQueued,         \* RelayEngine.maxQueuedEvents
  Disturbances,      \* the kinds of disturbance that may happen
  MaxDisturbances    \* bound: how many happen in a run

Kinds == {"kill", "expire", "reconnect"}

ASSUME MeshAssumption ==
  /\ \A l \in Links : l \subseteq Devices /\ Cardinality(l) = 2
  /\ Events \subseteq Nat \ {0}
  /\ Origin \in [Events -> Devices]
  /\ Priority \in [Events -> Nat]
  /\ Size \in [Events -> Nat]
  /\ MaxFrame \in Nat /\ MaxEventsPerFrame \in Nat \ {0}
  /\ MaxHops \in Nat /\ MaxQueued \in Nat \ {0} /\ MaxHops \in Nat \ {0}
  /\ Disturbances \subseteq Kinds
  /\ MaxDisturbances \in Nat

VARIABLES
  journal,    \* per device: the events its durable journal holds
  queue,      \* per device: the durable relay queue
  published,  \* per device: the events the app has handed to the engine
              \* since it was opened
  rx,         \* per device and peer: the frame _onPacket is working on
  frames,     \* the frames in the air
  left        \* how many disturbances may still happen

vars == <<journal, queue, published, rx, frames, left>>

Item == [id : Events, hop : 0..MaxHops, acked : SUBSET Devices]
Carried == [id : Events, hop : 0..(MaxHops - 1)]  \* encode and decode refuse more
Ids(Q) == {q.id : q \in Q}
Peers(d) == {p \in Devices : {d, p} \in Links}
Free == [busy |-> FALSE, todo |-> {}, writing |-> {}, seen |-> {}]

(* Bound: of what one peer sends another, the air holds the newest frame   *)
(* of each kind; an older one that has not arrived by then is lost.        *)
Replaces(n, f) == n.kind = f.kind /\ n.from = f.from /\ n.to = f.to
Sent(new) == new \cup {f \in frames : \A n \in new : ~Replaces(n, f)}

Spend(kind) == kind \in Disturbances /\ left > 0 /\ left' = left - 1

Init ==
  /\ journal = [d \in Devices |-> {}]
  /\ queue = [d \in Devices |-> {}]
  /\ published = [d \in Devices |-> {}]
  /\ rx = [d \in Devices |-> [p \in Devices |-> Free]]
  /\ frames = {}
  /\ left = MaxDisturbances

-----------------------------------------------------------------------------
(***************************************************************************)
(* The queue.                                                              *)
(***************************************************************************)

(* prune keeps the most urgent items and, among equals, the newest. *)
KeptBefore(a, b) ==
  \/ Priority[a.id] > Priority[b.id]
  \/ Priority[a.id] = Priority[b.id] /\ a.id > b.id
Pruned(Q) == {q \in Q : Cardinality({o \in Q : KeptBefore(o, q)}) < MaxQueued}

(* enqueue ignores an identity the queue holds. *)
Enqueued(Q, item) == IF item.id \in Ids(Q) THEN Q ELSE Q \cup {item}

(* pendingForPeer sends the most urgent items and, among equals, the       *)
(* oldest.                                                                 *)
SentBefore(a, b) ==
  \/ Priority[a.id] > Priority[b.id]
  \/ Priority[a.id] = Priority[b.id] /\ a.id < b.id
PendingPastLimit(Q, p) ==       \* broken: the hop limit is forgotten
  {q \in Q : p \notin q.acked}
PendingFor(Q, p) ==
  LET eligible == {q \in Q : q.hop < MaxHops /\ p \notin q.acked}
  IN {q \in eligible :
        Cardinality({o \in eligible : SentBefore(o, q)}) < MaxEventsPerFrame}

Acknowledged(Q, p, ids) ==
  {IF q.id \in ids THEN [q EXCEPT !.acked = @ \cup {p}] ELSE q : q \in Q}

-----------------------------------------------------------------------------
(***************************************************************************)
(* Sending.                                                                *)
(***************************************************************************)

(* The app records an event of its own in the journal. *)
Record(d, e) ==
  /\ Origin[e] = d
  /\ e \notin journal[d]
  /\ \A o \in Events : Origin[o] = d /\ o < e => o \in journal[d]
  /\ journal' = [journal EXCEPT ![d] = @ \cup {e}]
  /\ UNCHANGED <<queue, published, rx, frames, left>>

(* The batch for one peer, and whether its encoding fits a frame. *)
Batch(Q, p) == {[id |-> q.id, hop |-> q.hop] : q \in PendingFor(Q, p)}
Fits(batch) == MapThenSumSet(LAMBDA c : Size[c.id], batch) <= MaxFrame
EventsFrame(d, p, batch) ==
  [kind |-> "events", from |-> d, to |-> p, carried |-> batch]

(* flush sends each peer its batch.  The first batch that does not encode  *)
(* raises and ends the flush: the peers the iteration had not reached get  *)
(* nothing.                                                                *)
FlushFrames(d, Q, served) ==
  {EventsFrame(d, p, Batch(Q, p)) :
     p \in {s \in served : Batch(Q, s) # {}}}
CanServe(d, Q, served) ==
  /\ served \subseteq Peers(d)
  /\ \A p \in served : Fits(Batch(Q, p))
  /\ served # Peers(d) => \E p \in Peers(d) \ served : ~Fits(Batch(Q, p))

(* The periodic flush, and the one a connection triggers. *)
Flush(d) ==
  \E served \in SUBSET Peers(d) :
    LET Q == Pruned(queue[d])
    IN /\ CanServe(d, Q, served)
       /\ queue' = [queue EXCEPT ![d] = Q]
       /\ frames' = Sent(FlushFrames(d, Q, served))
       /\ UNCHANGED <<journal, published, rx, left>>

(* The app walks the journal and hands the engine what it has not handed   *)
(* it since it was opened, received events included (_publishPendingEvents *)
(* and enqueueLocal, which prunes and flushes).                            *)
Publish(d, e) ==
  /\ e \in journal[d] \ published[d]
  /\ \A p \in Devices : e \notin Ids(rx[d][p].writing)
  /\ published' = [published EXCEPT ![d] = @ \cup {e}]
  /\ \E served \in SUBSET Peers(d) :
       LET Q == Pruned(Enqueued(queue[d], [id |-> e, hop |-> 0, acked |-> {}]))
       IN /\ CanServe(d, Q, served)
          /\ queue' = [queue EXCEPT ![d] = Q]
          /\ frames' = Sent(FlushFrames(d, Q, served))
  /\ UNCHANGED <<journal, rx, left>>

-----------------------------------------------------------------------------
(***************************************************************************)
(* Receiving: _onPacket.  Packets of different peers are handled at the    *)
(* same time.                                                              *)
(***************************************************************************)
TakeAndAcknowledge(f) ==        \* broken: acknowledged before it is stored
  /\ f \in frames
  /\ f.kind = "events"
  /\ ~rx[f.to][f.from].busy
  /\ frames' = (frames \ {f}) \cup
       {[kind |-> "ack", from |-> f.to, to |-> f.from, ids |-> Ids(f.carried)]}
  /\ rx' = [rx EXCEPT ![f.to][f.from] =
              [Free EXCEPT !.busy = TRUE, !.todo = f.carried]]
  /\ UNCHANGED <<journal, queue, published, left>>

Take(f) ==
  /\ f \in frames
  /\ f.kind = "events"
  /\ ~rx[f.to][f.from].busy
  /\ frames' = frames \ {f}
  /\ rx' = [rx EXCEPT ![f.to][f.from] =
              [Free EXCEPT !.busy = TRUE, !.todo = f.carried]]
  /\ UNCHANGED <<journal, queue, published, left>>

(* What is acknowledged: every event of the frame that verifies, the ones  *)
(* the queue holds already included.                                       *)
NewlyAcknowledged(d, c) ==      \* broken: a repeated event is not
  IF c.id \in Ids(queue[d]) THEN {} ELSE {c.id}
ToAcknowledge(d, c) == {c.id}

(* One event of the frame: if the queue does not hold it, it is appended   *)
(* to the journal and handed to the app before it is queued.               *)
Receive(d, p, c) ==
  /\ c \in rx[d][p].todo
  /\ rx[d][p].writing = {}
  /\ rx' = [rx EXCEPT
       ![d][p].todo = @ \ {c},
       ![d][p].seen = @ \cup ToAcknowledge(d, c),
       ![d][p].writing = IF c.id \in Ids(queue[d]) THEN {} ELSE {c}]
  /\ journal' = [journal EXCEPT ![d] =
       IF c.id \in Ids(queue[d]) THEN @ ELSE @ \cup {c.id}]
  /\ UNCHANGED <<queue, published, frames, left>>

(* Who is known to hold an event just received: the peer it came from. *)
HeldByAll(d, p) == Peers(d)     \* broken: everyone in range
HeldBy(d, p) == {p}

Forward(d, p) ==
  /\ \E c \in rx[d][p].writing :
       queue' = [queue EXCEPT ![d] =
         Enqueued(@, [id |-> c.id, hop |-> c.hop + 1, acked |-> HeldBy(d, p)])]
  /\ rx' = [rx EXCEPT ![d][p].writing = {}]
  /\ UNCHANGED <<journal, published, frames, left>>

(* The end of the frame: acknowledge what it carried, prune and flush. *)
Finish(d, p) ==
  /\ rx[d][p].busy
  /\ rx[d][p].todo = {}
  /\ rx[d][p].writing = {}
  /\ rx' = [rx EXCEPT ![d][p] = Free]
  /\ \E served \in SUBSET Peers(d) :
       LET Q == Pruned(queue[d])
       IN /\ CanServe(d, Q, served)
          /\ queue' = [queue EXCEPT ![d] = Q]
          /\ frames' = Sent(FlushFrames(d, Q, served) \cup
               {[kind |-> "ack", from |-> d, to |-> p, ids |-> rx[d][p].seen]})
  /\ UNCHANGED <<journal, published, left>>

ReceiveAck(f) ==
  /\ f \in frames
  /\ f.kind = "ack"
  /\ frames' = frames \ {f}
  /\ queue' = [queue EXCEPT ![f.to] = Acknowledged(@, f.from, f.ids)]
  /\ UNCHANGED <<journal, published, rx, left>>

-----------------------------------------------------------------------------
(* A frame is lost. *)
Lose(f) ==
  /\ frames' = frames \ {f}
  /\ UNCHANGED <<journal, queue, published, rx, left>>

(* The app is killed: the journal and the queue are durable. *)
Kill(d) ==
  /\ Spend("kill")
  /\ published' = [published EXCEPT ![d] = {}]
  /\ rx' = [rx EXCEPT ![d] = [p \in Devices |-> Free]]
  /\ UNCHANGED <<journal, queue, frames>>

(* An item's lifetime in the queue is over. *)
Expire(d, q) ==
  /\ Spend("expire")
  /\ queue' = [queue EXCEPT ![d] = @ \ {q}]
  /\ UNCHANGED <<journal, published, rx, frames>>

(* Two peers lose each other and meet again under new endpoint names, the  *)
(* frames between them gone.                                               *)
Unnamed(Q, p) == {[q EXCEPT !.acked = @ \ {p}] : q \in Q}
Reconnect(d, p) ==
  /\ {d, p} \in Links
  /\ Spend("reconnect")
  /\ queue' = [queue EXCEPT ![d] = Unnamed(@, p), ![p] = Unnamed(@, d)]
  /\ frames' = {f \in frames : {f.from, f.to} # {d, p}}
  /\ UNCHANGED <<journal, published, rx>>

-----------------------------------------------------------------------------
TakeFrom(d, p) == \E f \in frames : f.from = p /\ f.to = d /\ Take(f)
AckFrom(d, p) == \E f \in frames : f.from = p /\ f.to = d /\ ReceiveAck(f)
Work(d, p) ==
  (\E c \in rx[d][p].todo : Receive(d, p, c)) \/ Forward(d, p) \/ Finish(d, p)

Next ==
  \/ \E d \in Devices, e \in Events : Record(d, e) \/ Publish(d, e)
  \/ \E d \in Devices : Flush(d) \/ Kill(d)
  \/ \E d \in Devices : \E p \in Peers(d) :
       TakeFrom(d, p) \/ AckFrom(d, p) \/ Work(d, p) \/ Reconnect(d, p)
  \/ \E f \in frames : Lose(f)
  \/ \E d \in Devices : \E q \in queue[d] : Expire(d, q)

Spec == Init /\ [][Next]_vars

(* The flush timer and the app's scan of the journal recur, the handling   *)
(* of a packet goes on, and of the frames two peers keep sending each      *)
(* other some arrive.                                                      *)
FairSpec ==
  /\ Spec
  /\ \A d \in Devices :
       /\ WF_vars(Flush(d))
       /\ \A e \in Events : WF_vars(Publish(d, e))
       /\ \A p \in Peers(d) :
            SF_vars(TakeFrom(d, p)) /\ SF_vars(AckFrom(d, p)) /\ WF_vars(Work(d, p))

-----------------------------------------------------------------------------
Frame ==
  [kind : {"events"}, from : Devices, to : Devices, carried : SUBSET Carried]
    \cup [kind : {"ack"}, from : Devices, to : Devices, ids : SUBSET Events]

TypeOK ==
  /\ journal \in [Devices -> SUBSET Events]
  /\ queue \in [Devices -> SUBSET Item]
  /\ published \in [Devices -> SUBSET Events]
  /\ rx \in [Devices -> [Devices ->
       [busy : BOOLEAN, todo : SUBSET Carried, writing : SUBSET Carried,
        seen : SUBSET Events]]]
  /\ frames \subseteq Frame
  /\ left \in 0..MaxDisturbances

(* A peer that is marked as having acknowledged an event has it in its     *)
(* durable journal, so that the event is never offered to it again is no   *)
(* loss, wherever the peer was killed (_onPacket appends first and         *)
(* acknowledges last).                                                     *)
AckedIsJournaled ==
  \A d \in Devices : \A q \in queue[d] : \A p \in q.acked : q.id \in journal[p]

(* An event reaches every device there is a path to within the hop limit,  *)
(* past lost frames and over peers that only forward it.                   *)
Delivered ==
  \A d \in Devices, e \in Events : e \in journal[Origin[e]] ~> e \in journal[d]

(* The relaying of an event comes to rest: the devices do not go on for    *)
(* ever sending each other events that a full queue has dropped again.     *)
Settled ==
  \A d \in Devices : \A p \in Peers(d) : PendingFor(Pruned(queue[d]), p) = {}
Settles == <>[]Settled
=============================================================================
