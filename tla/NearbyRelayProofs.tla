-------------------------- MODULE NearbyRelayProofs --------------------------
(***************************************************************************)
(* Theorems about NearbyRelay, for every set of devices and links, every   *)
(* number of events and every limit.                                       *)
(*                                                                         *)
(* That a peer marked as having acknowledged an event holds it is not      *)
(* inductive: it rests on what is queued, in hand and in the air.  An      *)
(* event is sent, queued and forwarded by devices that hold it, and        *)
(* nothing is noted down for an acknowledgement, or in the air as one,     *)
(* before the journal has it.  So events spread from neighbour to          *)
(* neighbour only, and an item stays queued, unmarked for a neighbour, as  *)
(* long as that neighbour does not hold the event.                         *)
(***************************************************************************)
EXTENDS NearbyRelay, FiniteSetTheorems, FunctionTheorems, TLAPS

Packet == [busy : BOOLEAN, todo : SUBSET Carried, writing : SUBSET Carried,
           seen : SUBSET Events]

(* A queue, a packet in hand and a frame in the air as the journals J      *)
(* allow them.                                                             *)
GoodQueue(J, d, Q) ==
  /\ Q \subseteq Item
  /\ Ids(Q) \subseteq J[d]
  /\ \A q \in Q : \A p \in q.acked : q.id \in J[p]

GoodPacket(J, d, p, r) ==
  /\ r \in Packet
  /\ r.seen \subseteq J[d]
  /\ Ids(r.writing) \subseteq J[d] \cap J[p]
  /\ Ids(r.todo) \subseteq J[p]

GoodFrame(J, f) ==
  /\ f \in Frame
  /\ IF f.kind = "ack" THEN f.ids \subseteq J[f.from]
     ELSE Ids(f.carried) \subseteq J[f.from]

Plain ==
  /\ journal \in [Devices -> SUBSET Events]
  /\ published \in [Devices -> SUBSET Events]
  /\ left \in 0..MaxDisturbances
Queues ==
  /\ queue \in [Devices -> SUBSET Item]
  /\ \A d \in Devices : GoodQueue(journal, d, queue[d])
Packets ==
  /\ rx \in [Devices -> [Devices -> Packet]]
  /\ \A d, p \in Devices : GoodPacket(journal, d, p, rx[d][p])
Frames == \A f \in frames : GoodFrame(journal, f)

Inv == Plain /\ Queues /\ Packets /\ Frames

LEMMA InvImplies == Inv => TypeOK /\ AckedIsJournaled
BY DEF Inv, Plain, Queues, Packets, Frames, GoodQueue, GoodPacket, GoodFrame,
       Packet, TypeOK, AckedIsJournaled

-----------------------------------------------------------------------------
(***************************************************************************)
(* The operators of the queue.                                             *)
(***************************************************************************)

(* A batch is made of items of the queue, none of them at the hop limit. *)
LEMMA BatchType ==
  ASSUME NEW Q \in SUBSET Item, NEW p
  PROVE  /\ Batch(Q, p) \subseteq Carried
         /\ Ids(Batch(Q, p)) \subseteq Ids(Q)
<1>1. \A q \in PendingFor(Q, p) : q \in Q /\ q.hop < MaxHops
  BY DEF PendingFor
<1>2. \A q \in PendingFor(Q, p) : [id |-> q.id, hop |-> q.hop] \in Carried
  BY <1>1, MeshAssumption DEF Item, Carried
<1> QED
  BY <1>1, <1>2 DEF Batch, Ids

(* What a device sends of its queue is well formed, and it holds it. *)
LEMMA FlushType ==
  ASSUME NEW J, NEW d \in Devices, NEW Q, GoodQueue(J, d, Q),
         NEW served \in SUBSET Peers(d)
  PROVE  \A f \in FlushFrames(d, Q, served) : GoodFrame(J, f)
<1> TAKE f \in FlushFrames(d, Q, served)
<1> PICK p \in served : f = EventsFrame(d, p, Batch(Q, p))
  BY DEF FlushFrames
<1>1. p \in Devices
  BY DEF Peers
<1>2. f.kind = "events" /\ f.from = d /\ f.carried = Batch(Q, p) /\ f \in Frame
  BY <1>1, BatchType DEF EventsFrame, Frame, GoodQueue
<1> QED
  BY <1>2, BatchType DEF GoodFrame, GoodQueue

(* Pruning drops items only. *)
LEMMA PrunedGood ==
  ASSUME NEW J, NEW d, NEW Q, GoodQueue(J, d, Q)
  PROVE  GoodQueue(J, d, Pruned(Q))
<1>1. Pruned(Q) \subseteq Q
  BY DEF Pruned
<1> QED
  BY <1>1 DEF GoodQueue, Ids

(* An item is queued for an event the device holds. *)
LEMMA EnqueuedGood ==
  ASSUME NEW J, NEW d, NEW Q, GoodQueue(J, d, Q),
         NEW item \in Item, item.id \in J[d], \A p \in item.acked : item.id \in J[p]
  PROVE  GoodQueue(J, d, Enqueued(Q, item))
BY DEF GoodQueue, Enqueued, Ids

(* A peer is marked for events it holds. *)
LEMMA AcknowledgedGood ==
  ASSUME NEW J, NEW d, NEW Q, GoodQueue(J, d, Q),
         NEW p \in Devices, NEW ids, ids \subseteq J[p]
  PROVE  GoodQueue(J, d, Acknowledged(Q, p, ids))
<1>1. ASSUME NEW q \in Q
      PROVE  LET r == IF q.id \in ids THEN [q EXCEPT !.acked = @ \cup {p}] ELSE q
             IN /\ r \in Item
                /\ r.id = q.id
                /\ \A o \in r.acked : r.id \in J[o]
  <2>1. q \in Item /\ \A o \in q.acked : q.id \in J[o]
    BY DEF GoodQueue
  <2> QED
    BY <2>1 DEF Item
<1> QED
  BY <1>1 DEF GoodQueue, Acknowledged, Ids

(* A peer that comes back under a new name has acknowledged nothing. *)
LEMMA UnnamedGood ==
  ASSUME NEW J, NEW d, NEW Q, GoodQueue(J, d, Q), NEW p
  PROVE  GoodQueue(J, d, Unnamed(Q, p))
<1>1. ASSUME NEW q \in Q
      PROVE  LET r == [q EXCEPT !.acked = @ \ {p}]
             IN /\ r \in Item
                /\ r.id = q.id
                /\ \A o \in r.acked : r.id \in J[o]
  <2>1. q \in Item /\ \A o \in q.acked : q.id \in J[o]
    BY DEF GoodQueue
  <2> QED
    BY <2>1 DEF Item
<1> QED
  BY <1>1 DEF GoodQueue, Unnamed, Ids

-----------------------------------------------------------------------------
(***************************************************************************)
(* How the parts of the invariant are kept.                                *)
(***************************************************************************)

(* One queue is replaced. *)
LEMMA QueueReplaced ==
  ASSUME Inv, NEW d \in Devices, NEW Q, GoodQueue(journal, d, Q),
         queue' = [queue EXCEPT ![d] = Q], journal' = journal
  PROVE  Queues'
BY DEF Inv, Queues, GoodQueue

(* What is sent joins or replaces what is in the air. *)
LEMMA FramesSent ==
  ASSUME Inv, NEW new, \A f \in new : GoodFrame(journal, f),
         frames' = Sent(new), journal' = journal
  PROVE  Frames'
<1>1. \A f \in frames' : f \in frames \/ f \in new
  BY DEF Sent
<1> QED
  BY <1>1 DEF Inv, Frames

(* The handling of one packet moves on. *)
LEMMA PacketReplaced ==
  ASSUME Inv, NEW d \in Devices, NEW p \in Devices, NEW r,
         GoodPacket(journal', d, p, r),
         rx' = [rx EXCEPT ![d][p] = r],
         \A o \in Devices : journal[o] \subseteq journal'[o]
  PROVE  Packets'
<1>1. rx \in [Devices -> [Devices -> Packet]] /\ r \in Packet
  BY DEF Inv, Packets, GoodPacket
<1>2. rx' \in [Devices -> [Devices -> Packet]]
  BY <1>1
<1>3. ASSUME NEW o \in Devices, NEW q \in Devices
      PROVE  GoodPacket(journal', o, q, rx'[o][q])
  <2>1. GoodPacket(journal, o, q, rx[o][q])
    BY DEF Inv, Packets
  <2>2. CASE o = d /\ q = p
    BY <1>1, <2>2
  <2>3. CASE ~(o = d /\ q = p)
    <3>1. rx'[o][q] = rx[o][q]
      BY <1>1, <2>3
    <3> QED
      BY <2>1, <3>1 DEF GoodPacket
  <2> QED
    BY <2>2, <2>3
<1> QED
  BY <1>2, <1>3 DEF Packets

(* A journal grows, and with it what is allowed. *)
LEMMA JournalGrows ==
  ASSUME Inv, NEW d \in Devices, NEW E \in SUBSET Events,
         journal' = [journal EXCEPT ![d] = @ \cup E]
  PROVE  /\ journal' \in [Devices -> SUBSET Events]
         /\ \A o \in Devices : journal[o] \subseteq journal'[o]
         /\ queue' = queue => Queues'
         /\ frames' = frames => Frames'
         /\ rx' = rx => Packets'
<1>1. journal' \in [Devices -> SUBSET Events]
  BY DEF Inv, Plain
<1>2. \A o \in Devices : journal[o] \subseteq journal'[o]
  BY DEF Inv, Plain
<1>3. queue' = queue => Queues'
  <2>1. \A o \in Devices : \A q \in queue[o] : q.acked \subseteq Devices
    BY DEF Inv, Queues, Item
  <2> QED
    BY <1>2, <2>1 DEF Inv, Queues, GoodQueue
<1>4. frames' = frames => Frames'
  <2>1. \A f \in frames : f.from \in Devices
    BY DEF Inv, Frames, GoodFrame, Frame
  <2> QED
    BY <1>2, <2>1 DEF Inv, Frames, GoodFrame
<1>5. rx' = rx => Packets'
  BY <1>2 DEF Inv, Packets, GoodPacket
<1> QED
  BY <1>1, <1>2, <1>3, <1>4, <1>5

(* What a step leaves alone stays good. *)
LEMMA Unmoved ==
  ASSUME Inv, journal' = journal
  PROVE  /\ queue' = queue => Queues'
         /\ frames' \subseteq frames => Frames'
         /\ rx' = rx => Packets'
BY DEF Inv, Queues, Frames, Packets

-----------------------------------------------------------------------------
LEMMA InvInit == Init => Inv
<1> SUFFICES ASSUME Init PROVE Inv
  OBVIOUS
<1>1. /\ Free \in Packet
      /\ Free.seen = {} /\ Free.todo = {} /\ Free.writing = {}
  BY DEF Free, Packet
<1>2. Packets
  BY <1>1 DEF Init, Packets, GoodPacket, Ids
<1>3. Plain /\ Queues /\ Frames
  BY MeshAssumption DEF Init, Plain, Queues, Frames, GoodQueue, Ids
<1> QED
  BY <1>2, <1>3 DEF Inv

LEMMA RecordStep ==
  ASSUME Inv, NEW d \in Devices, NEW e \in Events, Record(d, e)
  PROVE  Inv'
<1>1. /\ journal' = [journal EXCEPT ![d] = @ \cup {e}]
      /\ UNCHANGED <<queue, published, rx, frames, left>>
  BY DEF Record
<1>2. {e} \in SUBSET Events
  OBVIOUS
<1>3. Queues' /\ Packets' /\ Frames' /\ journal' \in [Devices -> SUBSET Events]
  BY <1>1, <1>2, JournalGrows
<1> QED
  BY <1>1, <1>3 DEF Inv, Plain

LEMMA FlushStep ==
  ASSUME Inv, NEW d \in Devices, Flush(d)
  PROVE  Inv'
<1> DEFINE Q == Pruned(queue[d])
<1> PICK served \in SUBSET Peers(d) :
      /\ queue' = [queue EXCEPT ![d] = Q]
      /\ frames' = Sent(FlushFrames(d, Q, served))
      /\ UNCHANGED <<journal, published, rx, left>>
  BY DEF Flush
<1>1. GoodQueue(journal, d, Q)
  BY PrunedGood DEF Inv, Queues
<1> HIDE DEF Q
<1>2. Queues'
  BY <1>1, QueueReplaced
<1>3. Frames'
  BY <1>1, FlushType, FramesSent
<1> QED
  BY <1>2, <1>3, Unmoved DEF Inv, Plain

LEMMA PublishStep ==
  ASSUME Inv, NEW d \in Devices, NEW e \in Events, Publish(d, e)
  PROVE  Inv'
<1> DEFINE item == [id |-> e, hop |-> 0, acked |-> {}]
           Q == Pruned(Enqueued(queue[d], item))
<1> PICK served \in SUBSET Peers(d) :
      /\ queue' = [queue EXCEPT ![d] = Q]
      /\ frames' = Sent(FlushFrames(d, Q, served))
  BY DEF Publish
<1>1. /\ UNCHANGED <<journal, rx, left>>
      /\ published' = [published EXCEPT ![d] = @ \cup {e}]
      /\ e \in journal[d]
  BY DEF Publish
<1>2. item \in Item
  BY MeshAssumption DEF Item
<1>3. GoodQueue(journal, d, Enqueued(queue[d], item))
  BY <1>1, <1>2, EnqueuedGood DEF Inv, Queues
<1>4. GoodQueue(journal, d, Q)
  BY <1>3, PrunedGood
<1> HIDE DEF Q
<1>5. Queues'
  BY <1>1, <1>4, QueueReplaced
<1>6. Frames'
  BY <1>1, <1>4, FlushType, FramesSent
<1> QED
  BY <1>1, <1>5, <1>6, Unmoved DEF Inv, Plain

(* A packet is taken: its sender holds what it carries. *)
LEMMA TakeStep ==
  ASSUME Inv, NEW d \in Devices, NEW p \in Devices, TakeFrom(d, p)
  PROVE  Inv'
<1> PICK f \in frames : f.from = p /\ f.to = d /\ Take(f)
  BY DEF TakeFrom
<1> DEFINE r == [Free EXCEPT !.busy = TRUE, !.todo = f.carried]
<1>1. /\ rx' = [rx EXCEPT ![d][p] = r]
      /\ frames' = frames \ {f}
      /\ f.kind = "events"
      /\ UNCHANGED <<journal, queue, published, left>>
  BY DEF Take
<1>2. f.carried \subseteq Carried /\ Ids(f.carried) \subseteq journal[p]
  BY <1>1 DEF Inv, Frames, GoodFrame, Frame
<1>3. GoodPacket(journal, d, p, r)
  BY <1>2 DEF GoodPacket, Packet, Free, Ids
<1> HIDE DEF r
<1>4. Packets'
  BY <1>1, <1>3, PacketReplaced
<1> QED
  BY <1>1, <1>4, Unmoved DEF Inv, Plain

(* An event of a packet: it is in the journal before anything else. *)
LEMMA ReceiveStep ==
  ASSUME Inv, NEW d \in Devices, NEW p \in Devices,
         NEW c \in rx[d][p].todo, Receive(d, p, c)
  PROVE  Inv'
<1> DEFINE held == c.id \in Ids(queue[d])
           E == IF held THEN {} ELSE {c.id}
           r == [rx[d][p] EXCEPT !.todo = @ \ {c},
                                 !.seen = @ \cup ToAcknowledge(d, c),
                                 !.writing = IF held THEN {} ELSE {c}]
<1>1. GoodPacket(journal, d, p, rx[d][p])
  BY DEF Inv, Packets
<1>2. c \in Carried /\ c.id \in Events /\ c.id \in journal[p]
  BY <1>1 DEF GoodPacket, Packet, Carried, Ids
<1>3. /\ rx' = [rx EXCEPT ![d][p] = r]
      /\ journal' = [journal EXCEPT ![d] = @ \cup E]
      /\ UNCHANGED <<queue, published, frames, left>>
  <2>1. journal' = [journal EXCEPT ![d] = IF held THEN @ ELSE @ \cup {c.id}]
    BY DEF Receive
  <2>2. journal' = [journal EXCEPT ![d] = @ \cup E]
    BY <2>1 DEF Inv, Plain
  <2>3. rx' = [rx EXCEPT ![d][p] = r]
    <3>1. rx \in [Devices -> [Devices -> Packet]]
      BY DEF Inv, Packets
    <3> QED
      BY <3>1 DEF Receive, Packet
  <2>4. UNCHANGED <<queue, published, frames, left>>
    BY DEF Receive
  <2> QED
    BY <2>2, <2>3, <2>4
<1>4. E \in SUBSET Events
  BY <1>2
<1>5. /\ journal' \in [Devices -> SUBSET Events]
      /\ \A o \in Devices : journal[o] \subseteq journal'[o]
      /\ Queues' /\ Frames'
  BY <1>3, <1>4, JournalGrows
<1>6. c.id \in journal'[d]
  BY <1>3, <1>5 DEF Inv, Plain, Queues, GoodQueue
<1>7. GoodPacket(journal', d, p, r)
  <2>1. rx[d][p] \in Packet
    BY <1>1 DEF GoodPacket
  <2>2. r \in Packet
    BY <1>2, <2>1 DEF Packet, ToAcknowledge
  <2>3. r.seen \subseteq journal'[d]
    BY <1>1, <1>5, <1>6, <2>1 DEF GoodPacket, Packet, ToAcknowledge
  <2>4. Ids(r.writing) \subseteq journal'[d] \cap journal'[p]
    BY <1>2, <1>5, <1>6, <2>1 DEF Packet, Ids
  <2>5. Ids(r.todo) \subseteq journal'[p]
    BY <1>1, <1>5, <2>1 DEF GoodPacket, Packet, Ids
  <2> QED
    BY <2>2, <2>3, <2>4, <2>5 DEF GoodPacket
<1> HIDE DEF r
<1>8. Packets'
  BY <1>3, <1>5, <1>7, PacketReplaced
<1> QED
  BY <1>3, <1>5, <1>8 DEF Inv, Plain

(* It is queued, one hop further, as held by the peer it came from. *)
LEMMA ForwardStep ==
  ASSUME Inv, NEW d \in Devices, NEW p \in Devices, Forward(d, p)
  PROVE  Inv'
<1> PICK c \in rx[d][p].writing :
      queue' = [queue EXCEPT ![d] =
        Enqueued(@, [id |-> c.id, hop |-> c.hop + 1, acked |-> HeldBy(d, p)])]
  BY DEF Forward
<1> DEFINE item == [id |-> c.id, hop |-> c.hop + 1, acked |-> HeldBy(d, p)]
           r == [rx[d][p] EXCEPT !.writing = {}]
<1>1. GoodPacket(journal, d, p, rx[d][p])
  BY DEF Inv, Packets
<1>2. c \in Carried /\ c.id \in journal[d] /\ c.id \in journal[p]
  BY <1>1 DEF GoodPacket, Packet, Ids
<1>3. item \in Item /\ item.id = c.id /\ item.acked = {p}
  BY <1>2, MeshAssumption DEF Item, Carried, HeldBy
<1>4. /\ queue' = [queue EXCEPT ![d] = Enqueued(queue[d], item)]
      /\ rx' = [rx EXCEPT ![d][p] = r]
      /\ UNCHANGED <<journal, published, frames, left>>
  BY DEF Forward
<1> HIDE DEF item
<1>5. GoodQueue(journal, d, Enqueued(queue[d], item))
  BY <1>2, <1>3, EnqueuedGood DEF Inv, Queues
<1>6. Queues'
  BY <1>4, <1>5, QueueReplaced
<1>7. GoodPacket(journal, d, p, r)
  BY <1>1 DEF GoodPacket, Packet, Ids
<1> HIDE DEF r
<1>8. Packets'
  BY <1>4, <1>7, PacketReplaced
<1> QED
  BY <1>4, <1>6, <1>8, Unmoved DEF Inv, Plain

(* The packet is done and acknowledged. *)
LEMMA FinishStep ==
  ASSUME Inv, NEW d \in Devices, NEW p \in Devices, Finish(d, p)
  PROVE  Inv'
<1> DEFINE Q == Pruned(queue[d])
           ack == [kind |-> "ack", from |-> d, to |-> p, ids |-> rx[d][p].seen]
<1> PICK served \in SUBSET Peers(d) :
      /\ queue' = [queue EXCEPT ![d] = Q]
      /\ frames' = Sent(FlushFrames(d, Q, served) \cup {ack})
  BY DEF Finish
<1>1. rx' = [rx EXCEPT ![d][p] = Free] /\ UNCHANGED <<journal, published, left>>
  BY DEF Finish
<1>2. GoodQueue(journal, d, Q)
  BY PrunedGood DEF Inv, Queues
<1>3. GoodFrame(journal, ack)
  <2>1. rx[d][p].seen \subseteq journal[d] /\ rx[d][p].seen \subseteq Events
    BY DEF Inv, Packets, GoodPacket, Packet
  <2> QED
    BY <2>1 DEF GoodFrame, Frame
<1>4. GoodPacket(journal, d, p, Free)
  BY DEF GoodPacket, Packet, Free, Ids
<1> HIDE DEF Q, ack
<1>5. Queues'
  BY <1>1, <1>2, QueueReplaced
<1>6. Frames'
  <2>1. \A f \in FlushFrames(d, Q, served) \cup {ack} : GoodFrame(journal, f)
    BY <1>2, <1>3, FlushType
  <2> QED
    BY <1>1, <2>1, FramesSent
<1>7. Packets'
  BY <1>1, <1>4, PacketReplaced
<1> QED
  BY <1>1, <1>5, <1>6, <1>7 DEF Inv, Plain

(* An acknowledgement arrives: its sender holds what it lists. *)
LEMMA AckStep ==
  ASSUME Inv, NEW d \in Devices, NEW p \in Devices, AckFrom(d, p)
  PROVE  Inv'
<1> PICK f \in frames : f.from = p /\ f.to = d /\ ReceiveAck(f)
  BY DEF AckFrom
<1>1. /\ f.kind = "ack"
      /\ frames' = frames \ {f}
      /\ queue' = [queue EXCEPT ![d] = Acknowledged(queue[d], p, f.ids)]
      /\ UNCHANGED <<journal, published, rx, left>>
  BY DEF ReceiveAck
<1>2. f.ids \subseteq journal[p]
  BY <1>1 DEF Inv, Frames, GoodFrame
<1>3. GoodQueue(journal, d, Acknowledged(queue[d], p, f.ids))
  BY <1>2, AcknowledgedGood DEF Inv, Queues
<1>4. Queues'
  BY <1>1, <1>3, QueueReplaced
<1> QED
  BY <1>1, <1>4, Unmoved DEF Inv, Plain

(* The app is killed, an item expires. *)
LEMMA KillStep ==
  ASSUME Inv, NEW d \in Devices, Kill(d)
  PROVE  Inv'
<1>1. /\ published' = [published EXCEPT ![d] = {}]
      /\ rx' = [rx EXCEPT ![d] = [p \in Devices |-> Free]]
      /\ left' \in 0..MaxDisturbances
      /\ UNCHANGED <<journal, queue, frames>>
  BY MeshAssumption DEF Kill, Spend, Inv, Plain
<1>2. \A o, p \in Devices : GoodPacket(journal, o, p, Free)
  BY DEF GoodPacket, Packet, Free, Ids
<1>3. Free \in Packet
  BY DEF Packet, Free
<1>4. Packets'
  BY <1>1, <1>2, <1>3 DEF Inv, Packets
<1> QED
  BY <1>1, <1>4, Unmoved DEF Inv, Plain

LEMMA ExpireStep ==
  ASSUME Inv, NEW d \in Devices, NEW q \in queue[d], Expire(d, q)
  PROVE  Inv'
<1>1. /\ queue' = [queue EXCEPT ![d] = queue[d] \ {q}]
      /\ left' \in 0..MaxDisturbances
      /\ UNCHANGED <<journal, published, rx, frames>>
  BY MeshAssumption DEF Expire, Spend, Inv, Plain
<1>2. GoodQueue(journal, d, queue[d] \ {q})
  BY DEF Inv, Queues, GoodQueue, Ids
<1>3. Queues'
  BY <1>1, <1>2, QueueReplaced
<1> QED
  BY <1>1, <1>3, Unmoved DEF Inv, Plain

(* Two peers meet again under new names. *)
LEMMA ReconnectStep ==
  ASSUME Inv, NEW d \in Devices, NEW p \in Devices, Reconnect(d, p)
  PROVE  Inv'
<1>1. /\ frames' \subseteq frames
      /\ left' \in 0..MaxDisturbances
      /\ UNCHANGED <<journal, published, rx>>
  BY MeshAssumption DEF Reconnect, Spend, Inv, Plain
<1>2. \A o \in Devices : \/ queue'[o] = queue[o]
                         \/ \E n \in Devices : queue'[o] = Unnamed(queue[o], n)
                         \/ d = p
  BY DEF Reconnect, Inv, Queues
<1>3. d # p
  <2>1. {d, p} \in Links
    BY DEF Reconnect
  <2>2. Cardinality({d, p}) = 2
    BY <2>1, MeshAssumption
  <2>3. Cardinality({d}) = 1
    BY FS_Singleton
  <2> QED
    BY <2>2, <2>3
<1>4. \A o \in Devices : GoodQueue(journal, o, queue'[o])
  BY <1>2, <1>3, UnnamedGood DEF Inv, Queues
<1>5. Queues'
  BY <1>1, <1>4 DEF Reconnect, Inv, Queues, GoodQueue
<1> QED
  BY <1>1, <1>5, Unmoved DEF Inv, Plain

LEMMA InvStep == Inv /\ [Next]_vars => Inv'
<1> SUFFICES ASSUME Inv, [Next]_vars PROVE Inv'
  OBVIOUS
<1>1. ASSUME NEW d \in Devices, NEW e \in Events, Record(d, e) \/ Publish(d, e)
      PROVE  Inv'
  BY <1>1, RecordStep, PublishStep
<1>2. ASSUME NEW d \in Devices, Flush(d) \/ Kill(d) PROVE Inv'
  BY <1>2, FlushStep, KillStep
<1>3. ASSUME NEW d \in Devices, NEW p \in Peers(d),
             TakeFrom(d, p) \/ AckFrom(d, p) \/ Work(d, p) \/ Reconnect(d, p)
      PROVE  Inv'
  <2>1. p \in Devices
    BY DEF Peers
  <2> QED
    BY <1>3, <2>1, TakeStep, AckStep, ReceiveStep, ForwardStep, FinishStep,
       ReconnectStep DEF Work
<1>4. ASSUME NEW f \in frames, Lose(f) PROVE Inv'
  BY <1>4, Unmoved DEF Lose, Inv, Plain
<1>5. ASSUME NEW d \in Devices, NEW q \in queue[d], Expire(d, q) PROVE Inv'
  BY <1>5, ExpireStep
<1>6. CASE UNCHANGED vars
  BY <1>6, Unmoved DEF vars, Inv, Plain
<1> QED
  BY <1>1, <1>2, <1>3, <1>4, <1>5, <1>6 DEF Next

(* Every reachable state is well typed: no frame carries an item at the    *)
(* hop limit, which the encoder would refuse (pendingForPeer, encode).     *)
THEOREM NearbyTypeCorrect == Spec => []TypeOK
<1>1. Init => Inv
  BY InvInit
<1>2. Inv /\ [Next]_vars => Inv'
  BY InvStep
<1>3. Inv => TypeOK
  BY InvImplies
<1> QED
  BY <1>1, <1>2, <1>3, PTL DEF Spec

(* A peer that is marked as having acknowledged an event has it in its     *)
(* durable journal, wherever apps are killed, whatever frames are lost and *)
(* however often peers reconnect (_onPacket).                              *)
THEOREM AckedJournaled == Spec => []AckedIsJournaled
<1>1. Init => Inv
  BY InvInit
<1>2. Inv /\ [Next]_vars => Inv'
  BY InvStep
<1>3. Inv => AckedIsJournaled
  BY InvImplies
<1> QED
  BY <1>1, <1>2, <1>3, PTL DEF Spec

LEMMA InvHolds == Spec => []Inv
BY InvInit, InvStep, PTL DEF Spec

-----------------------------------------------------------------------------
(***************************************************************************)
(* Where events come from: a device has an event from itself or from a     *)
(* neighbour that has it already.                                          *)
(***************************************************************************)
SpreadsByLinks ==
  [][\A d \in Devices : \A e \in journal'[d] \ journal[d] :
       Origin[e] = d \/ \E p \in Peers(d) : e \in journal[p]]_vars

(* A set of devices that nobody outside it is in range of. *)
Apart(S) == \A l \in Links : l \cap S # {} => l \subseteq S

(* What the devices of such a set have was made, and made in it. *)
MadeNearby ==
  \A S \in SUBSET Devices : Apart(S) =>
    \A d \in S : \A e \in journal[d] : Origin[e] \in S /\ e \in journal[Origin[e]]

LEMMA Spreads ==
  ASSUME Inv, Next, NEW d \in Devices
  PROVE  /\ journal[d] \subseteq journal'[d]
         /\ \A e \in journal'[d] \ journal[d] :
              Origin[e] = d \/ \E p \in Peers(d) : e \in journal[p]
<1>1. journal \in [Devices -> SUBSET Events]
  BY DEF Inv, Plain
<1>2. ASSUME NEW c \in Devices, NEW e \in Events, Record(c, e)
      PROVE  /\ journal[d] \subseteq journal'[d]
             /\ \A o \in journal'[d] \ journal[d] : Origin[o] = d
  BY <1>1, <1>2 DEF Record
<1>3. ASSUME NEW c \in Devices, NEW p \in Peers(c), NEW m \in rx[c][p].todo,
             Receive(c, p, m)
      PROVE  /\ journal[d] \subseteq journal'[d]
             /\ \A o \in journal'[d] \ journal[d] : \E q \in Peers(d) : o \in journal[q]
  <2>1. GoodPacket(journal, c, p, rx[c][p])
    BY DEF Inv, Packets, Peers
  <2>2. m.id \in journal[p]
    BY <2>1 DEF GoodPacket, Packet, Ids
  <2>3. \/ journal'[c] = journal[c] \/ journal'[c] = journal[c] \cup {m.id}
    BY <1>1, <1>3 DEF Receive
  <2>4. d # c => journal'[d] = journal[d]
    BY <1>1, <1>3 DEF Receive
  <2> QED
    BY <2>2, <2>3, <2>4
<1>4. ASSUME journal' = journal
      PROVE  /\ journal[d] \subseteq journal'[d]
             /\ \A o \in journal'[d] \ journal[d] : Origin[o] = d
  BY <1>4
<1>5. \/ \E c \in Devices, e \in Events : Record(c, e)
      \/ \E c \in Devices : \E p \in Peers(c) : \E m \in rx[c][p].todo : Receive(c, p, m)
      \/ journal' = journal
  BY DEF Next, Publish, Flush, Kill, TakeFrom, Take, AckFrom, ReceiveAck, Work,
         Forward, Finish, Reconnect, Lose, Expire
<1> QED
  BY <1>2, <1>3, <1>4, <1>5

(* Every event a device comes to have is its own or one a peer in radio    *)
(* range of it has in its durable journal, whatever is killed, lost,       *)
(* repeated or forwarded (_onPacket).                                      *)
THEOREM EventsSpreadByLinks == Spec => SpreadsByLinks
<1>1. Inv /\ Next =>
        \A d \in Devices : \A e \in journal'[d] \ journal[d] :
          Origin[e] = d \/ \E p \in Peers(d) : e \in journal[p]
  BY Spreads
<1> QED
  BY <1>1, InvHolds, PTL DEF Spec, SpreadsByLinks

(* Nothing is in any journal that its origin has not made, and nothing     *)
(* crosses a gap in the radio range: devices out of range of all others    *)
(* have their own events only.                                             *)
THEOREM EventsAreMadeNearby == Spec => []MadeNearby
<1>1. Init => MadeNearby
  BY DEF Init, MadeNearby
<1>2. Inv /\ MadeNearby /\ [Next]_vars => MadeNearby'
  <2> SUFFICES ASSUME Inv, MadeNearby, Next,
                      NEW S \in SUBSET Devices, Apart(S), NEW d \in S, NEW e \in journal'[d]
               PROVE  Origin[e] \in S /\ e \in journal'[Origin[e]]
    BY DEF MadeNearby, vars, Apart
  <2>1. \A c \in Devices : journal[c] \subseteq journal'[c]
    BY Spreads
  <2>2. \A p \in Peers(d) : p \in S
    BY DEF Apart, Peers
  <2>3. ASSUME NEW p \in S, e \in journal[p]
        PROVE  Origin[e] \in S /\ e \in journal'[Origin[e]]
    BY <2>1, <2>3 DEF MadeNearby
  <2>4. CASE e \in journal[d]
    BY <2>3, <2>4
  <2>5. CASE e \notin journal[d]
    BY <2>2, <2>3, <2>5, Spreads
  <2> QED
    BY <2>4, <2>5
<1> QED
  BY <1>1, <1>2, InvHolds, PTL DEF Spec

-----------------------------------------------------------------------------
(***************************************************************************)
(* What is never lost.  As long as the queue has room for every event and  *)
(* none expires in it, what the app has handed to the engine stays queued. *)
(***************************************************************************)
Room ==
  /\ "expire" \notin Disturbances
  /\ IsFiniteSet(Events)
  /\ Cardinality(Events) <= MaxQueued

(* An item per event, and the published ones are there. *)
Distinct(Q) == \A q, r \in Q : q.id = r.id => q = r
Stored == \A d \in Devices : Distinct(queue[d]) /\ published[d] \subseteq Ids(queue[d])

(* A published event is still offered to every neighbour that does not     *)
(* have it.                                                                *)
StillOffered ==
  \A d \in Devices : \A e \in published[d] : \A p \in Peers(d) :
    e \in journal[p] \/ \E q \in queue[d] : q.id = e /\ p \notin q.acked

(* A queue with room is not pruned. *)
LEMMA PrunedNothing ==
  ASSUME Room, NEW Q \in SUBSET Item, Distinct(Q)
  PROVE  Pruned(Q) = Q
<1> SUFFICES ASSUME NEW q \in Q
             PROVE  Cardinality({o \in Q : KeptBefore(o, q)}) < MaxQueued
  BY DEF Pruned
<1> DEFINE B == {o \in Q : KeptBefore(o, q)}
           T == Events \ {q.id}
           f == [o \in B |-> o.id]
<1>1. q.id \in Events /\ \A o \in B : o \in Q /\ o.id \in Events
  BY DEF Item
<1>2. ~KeptBefore(q, q)
  <2>1. q.id \in Nat /\ Priority[q.id] \in Nat
    BY <1>1, MeshAssumption
  <2> QED
    BY <2>1 DEF KeptBefore
<1>3. \A o \in B : o.id # q.id
  BY <1>2 DEF Distinct
<1>4. f \in Injection(B, T)
  <2>1. f \in [B -> T]
    BY <1>1, <1>3
  <2>2. \A o, r \in B : f[o] = f[r] => o = r
    BY DEF Distinct
  <2> QED
    BY <2>1, <2>2 DEF Injection, IsInjective
<1>5. /\ IsFiniteSet(T) /\ Cardinality(T) = Cardinality(Events) - 1
      /\ Cardinality(Events) \in Nat
  BY <1>1, FS_RemoveElement, FS_CardinalityType DEF Room
<1> HIDE DEF B, T, f
<1>6. IsFiniteSet(B) /\ Cardinality(B) <= Cardinality(T)
  BY <1>4, <1>5, FS_Injection
<1>7. Cardinality(B) \in Nat
  BY <1>6, FS_CardinalityType
<1>8. Cardinality(B) < MaxQueued
  BY <1>5, <1>6, <1>7, MeshAssumption DEF Room
<1> QED
  BY <1>8 DEF B

(* The ways a queue changes: an item joins, or the marks of its items do.  *)
LEMMA EnqueuedKeeps ==
  ASSUME NEW Q, Distinct(Q), NEW item
  PROVE  /\ Distinct(Enqueued(Q, item))
         /\ Ids(Enqueued(Q, item)) = Ids(Q) \cup {item.id}
BY DEF Distinct, Enqueued, Ids

LEMMA ReplacedKeeps ==
  ASSUME NEW Q, Distinct(Q), NEW m, \A q \in Q : m[q].id = q.id
  PROVE  LET R == {m[q] : q \in Q} IN Distinct(R) /\ Ids(R) = Ids(Q)
<1> DEFINE R == {m[q] : q \in Q}
<1>1. Distinct(R)
  BY DEF Distinct
<1>2. ASSUME NEW i PROVE i \in Ids(R) <=> i \in Ids(Q)
  <2>1. i \in Ids(R) => \E q \in Q : i = m[q].id
    BY DEF Ids
  <2>2. ASSUME NEW q \in Q, i = q.id PROVE i \in Ids(R)
    BY <2>2 DEF Ids
  <2> HIDE DEF R
  <2> QED
    BY <2>1, <2>2 DEF Ids
<1> QED
  BY <1>1, <1>2

LEMMA MarkedKeeps ==
  ASSUME NEW Q \in SUBSET Item, Distinct(Q), NEW p, NEW ids
  PROVE  /\ Distinct(Acknowledged(Q, p, ids)) /\ Ids(Acknowledged(Q, p, ids)) = Ids(Q)
         /\ Distinct(Unnamed(Q, p)) /\ Ids(Unnamed(Q, p)) = Ids(Q)
<1>1. \A q \in Q : /\ [q EXCEPT !.acked = @ \cup {p}].id = q.id
                   /\ [q EXCEPT !.acked = @ \ {p}].id = q.id
  BY DEF Item
<1>2. Distinct(Acknowledged(Q, p, ids)) /\ Ids(Acknowledged(Q, p, ids)) = Ids(Q)
  <2> DEFINE m == [q \in Q |-> IF q.id \in ids THEN [q EXCEPT !.acked = @ \cup {p}] ELSE q]
  <2>1. \A q \in Q : m[q].id = q.id
    BY <1>1
  <2>2. Acknowledged(Q, p, ids) = {m[q] : q \in Q}
    BY DEF Acknowledged
  <2> HIDE DEF m
  <2> QED
    BY <2>1, <2>2, ReplacedKeeps
<1>3. Distinct(Unnamed(Q, p)) /\ Ids(Unnamed(Q, p)) = Ids(Q)
  <2> DEFINE m == [q \in Q |-> [q EXCEPT !.acked = @ \ {p}]]
  <2>1. \A q \in Q : m[q].id = q.id
    BY <1>1
  <2>2. Unnamed(Q, p) = {m[q] : q \in Q}
    BY DEF Unnamed
  <2> HIDE DEF m
  <2> QED
    BY <2>1, <2>2, ReplacedKeeps
<1> QED
  BY <1>2, <1>3

LEMMA StoredStep ==
  ASSUME Room, Inv, Stored, Next
  PROVE  Stored'
<1>1. /\ queue \in [Devices -> SUBSET Item]
      /\ published \in [Devices -> SUBSET Events]
      /\ \A d \in Devices : Pruned(queue[d]) = queue[d]
  BY PrunedNothing DEF Inv, Plain, Queues, Stored
<1>2. ASSUME NEW d \in Devices, NEW Q, Distinct(Q), Ids(queue[d]) \subseteq Ids(Q),
             queue' = [queue EXCEPT ![d] = Q], UNCHANGED published
      PROVE  Stored'
  BY <1>1, <1>2 DEF Stored
<1>3. ASSUME NEW d \in Devices, NEW e \in Events, Publish(d, e)
      PROVE  Stored'
  <2> DEFINE item == [id |-> e, hop |-> 0, acked |-> {}]
             Q == Enqueued(queue[d], item)
  <2>1. /\ queue' = [queue EXCEPT ![d] = Pruned(Q)]
        /\ published' = [published EXCEPT ![d] = @ \cup {e}]
        /\ e \in journal[d]
    BY <1>3 DEF Publish
  <2>2. item \in Item
    BY MeshAssumption DEF Item
  <2>3. Q \in SUBSET Item
    BY <1>1, <2>2 DEF Enqueued
  <2>4. Distinct(Q) /\ Ids(Q) = Ids(queue[d]) \cup {e}
    BY EnqueuedKeeps DEF Stored
  <2>5. Pruned(Q) = Q
    BY <2>3, <2>4, PrunedNothing
  <2> HIDE DEF Q
  <2> QED
    BY <1>1, <2>1, <2>4, <2>5 DEF Stored
<1>4. ASSUME NEW d \in Devices, NEW p \in Devices, Forward(d, p)
      PROVE  Stored'
  <2> PICK c \in rx[d][p].writing :
        queue' = [queue EXCEPT ![d] =
          Enqueued(@, [id |-> c.id, hop |-> c.hop + 1, acked |-> HeldBy(d, p)])]
    BY <1>4 DEF Forward
  <2> DEFINE item == [id |-> c.id, hop |-> c.hop + 1, acked |-> HeldBy(d, p)]
  <2>1. queue' = [queue EXCEPT ![d] = Enqueued(queue[d], item)] /\ UNCHANGED published
    BY <1>1, <1>4 DEF Forward
  <2> HIDE DEF item
  <2>2. Distinct(queue[d])
    BY DEF Stored
  <2>3. /\ Distinct(Enqueued(queue[d], item))
        /\ Ids(queue[d]) \subseteq Ids(Enqueued(queue[d], item))
    BY <2>2, EnqueuedKeeps
  <2> QED
    BY <1>2, <2>1, <2>3
<1>5. ASSUME NEW d \in Devices, Flush(d) \/ \E p \in Devices : Finish(d, p)
      PROVE  Stored'
  <2>1. queue' = [queue EXCEPT ![d] = Pruned(queue[d])] /\ UNCHANGED published
    BY <1>5 DEF Flush, Finish
  <2> QED
    BY <1>1, <2>1 DEF Stored
<1>6. ASSUME NEW d \in Devices, NEW p \in Devices, AckFrom(d, p)
      PROVE  Stored'
  <2> PICK f \in frames : f.from = p /\ f.to = d /\ ReceiveAck(f)
    BY <1>6 DEF AckFrom
  <2>1. queue' = [queue EXCEPT ![d] = Acknowledged(queue[d], p, f.ids)] /\ UNCHANGED published
    BY DEF ReceiveAck
  <2>2. queue[d] \in SUBSET Item /\ Distinct(queue[d])
    BY <1>1 DEF Stored
  <2>3. /\ Distinct(Acknowledged(queue[d], p, f.ids))
        /\ Ids(queue[d]) \subseteq Ids(Acknowledged(queue[d], p, f.ids))
    BY <2>2, MarkedKeeps
  <2> QED
    BY <1>2, <2>1, <2>3
<1>7. ASSUME NEW d \in Devices, NEW p \in Devices, Reconnect(d, p)
      PROVE  Stored'
  <2>1. /\ UNCHANGED published
        /\ queue' = [queue EXCEPT ![d] = Unnamed(@, p), ![p] = Unnamed(@, d)]
    BY <1>7 DEF Reconnect
  <2>2. ASSUME NEW o \in Devices
        PROVE  Distinct(queue'[o]) /\ Ids(queue'[o]) = Ids(queue[o])
    <3>1. queue[o] \in SUBSET Item /\ Distinct(queue[o])
      BY <1>1 DEF Stored
    <3>2. \A n : /\ Distinct(Unnamed(queue[o], n)) /\ Ids(Unnamed(queue[o], n)) = Ids(queue[o])
                 /\ Unnamed(queue[o], n) \in SUBSET Item
      <4>1. \A n : \A q \in queue[o] : [q EXCEPT !.acked = @ \ {n}] \in Item
        BY <3>1 DEF Item
      <4> QED
        BY <3>1, <4>1, MarkedKeeps DEF Unnamed
    <3>3. \/ queue'[o] = queue[o]
          \/ \E n : queue'[o] = Unnamed(queue[o], n)
          \/ o = d /\ d = p
      BY <1>1, <2>1
    <3>4. d # p
      <4>1. {d, p} \in Links
        BY <1>7 DEF Reconnect
      <4>2. Cardinality({d, p}) = 2
        BY <4>1, MeshAssumption
      <4>3. Cardinality({d}) = 1
        BY FS_Singleton
      <4> QED
        BY <4>2, <4>3
    <3> QED
      BY <3>1, <3>2, <3>3, <3>4
  <2> QED
    BY <2>1, <2>2 DEF Stored
<1>8. ASSUME NEW d \in Devices, Kill(d)
      PROVE  Stored'
  BY <1>1, <1>8 DEF Kill, Stored
<1>9. ASSUME NEW d \in Devices, NEW q \in queue[d] PROVE ~Expire(d, q)
  BY DEF Expire, Spend, Room
<1>10. ASSUME UNCHANGED <<queue, published>> PROVE Stored'
  BY <1>10 DEF Stored
<1>11. \/ \E d \in Devices, e \in Events : Publish(d, e)
       \/ \E d \in Devices : Flush(d) \/ \E p \in Devices : Finish(d, p)
       \/ \E d \in Devices : Kill(d)
       \/ \E d, p \in Devices : Forward(d, p) \/ AckFrom(d, p) \/ Reconnect(d, p)
       \/ UNCHANGED <<queue, published>>
  <2>1. \A d \in Devices, e \in Events : Record(d, e) => UNCHANGED <<queue, published>>
    BY DEF Record
  <2>2. \A d, p \in Devices :
          /\ Work(d, p) => Forward(d, p) \/ Finish(d, p) \/ UNCHANGED <<queue, published>>
          /\ TakeFrom(d, p) => UNCHANGED <<queue, published>>
    <3>1. \A d, p \in Devices : \A c : Receive(d, p, c) => UNCHANGED <<queue, published>>
      BY DEF Receive
    <3>2. \A f : Take(f) => UNCHANGED <<queue, published>>
      BY DEF Take
    <3> QED
      BY <3>1, <3>2 DEF Work, TakeFrom
  <2>3. \A f \in frames : Lose(f) => UNCHANGED <<queue, published>>
    BY DEF Lose
  <2>4. \A d \in Devices : Peers(d) \subseteq Devices
    BY DEF Peers
  <2> QED
    BY <1>9, <2>1, <2>2, <2>3, <2>4 DEF Next
<1> QED
  BY <1>3, <1>4, <1>5, <1>6, <1>7, <1>8, <1>10, <1>11

(* Nothing a device has handed to its engine is given up before every      *)
(* neighbour has it: through lost and repeated frames, kills and           *)
(* reconnections the item stays in the queue with the neighbour not        *)
(* marked, as long as no item expires and the queue has room for all       *)
(* events (_onPacket, prune, pendingForPeer).                              *)
THEOREM OfferedUntilHeld ==
  ASSUME Room
  PROVE  Spec => []StillOffered
<1>1. Init => Stored
  BY DEF Init, Stored, Distinct, Ids
<1>2. Inv /\ Stored /\ [Next]_vars => Stored'
  BY StoredStep DEF vars, Stored
<1>3. Inv /\ Stored => StillOffered
  <2> SUFFICES ASSUME Inv, Stored, NEW d \in Devices, NEW e \in published[d],
                      NEW p \in Peers(d), e \notin journal[p]
               PROVE  \E q \in queue[d] : q.id = e /\ p \notin q.acked
    BY DEF StillOffered
  <2>1. PICK q \in queue[d] : q.id = e
    BY DEF Stored, Ids
  <2>2. p \notin q.acked
    BY <2>1 DEF Inv, Queues, GoodQueue
  <2> QED
    BY <2>1, <2>2
<1> QED
  BY <1>1, <1>2, <1>3, InvHolds, PTL DEF Spec
=============================================================================
