--------------------------- MODULE PilotAuthority ---------------------------
(***************************************************************************)
(* Who is the pilot.  Every device replays the signed journal twice: the   *)
(* DeviceAuthorityPolicy decides, event by event in the order of creation  *)
(* times, which events count at all, and the PilotAuthorityReducer derives *)
(* the pilot from those.  RideController keeps the events that count in    *)
(* memory, admits each arriving event to them once, and replays the whole  *)
(* journal only when the app is opened.                                    *)
(*                                                                         *)
(* All devices have joined and are attached to the balloon.  Clocks may    *)
(* differ; time is counted in units of the tolerated skew (two minutes).   *)
(***************************************************************************)
EXTENDS Integers, FiniteSets, Sequences

CONSTANTS
  Devices,
  Root,          \* the device that created the flight as its pilot
  Offset,        \* [Devices -> Int]: how far a device's clock is ahead
  OfferLife,     \* ten minutes
  MaxSkew,       \* maximumClockSkew
  MaxNow,        \* bound: the last instant
  MaxEvents,     \* bound: events made in a run
  MaxRevokes     \* bound: revocations among them

ASSUME AuthorityAssumption ==
  /\ Root \in Devices
  /\ Offset \in [Devices -> Int]
  /\ OfferLife \in Nat /\ MaxSkew \in Nat
  /\ MaxNow \in Nat /\ MaxEvents \in Nat /\ MaxRevokes \in Nat

VARIABLES
  now,       \* true time
  made,      \* the events made so far
  known,     \* per device: the events in its durable journal
  memory     \* per device: the events RideController works with

vars == <<now, made, known, memory>>

Event ==
  [id : 1..MaxEvents, kind : {"offer"}, by : Devices, at : Int, to : Devices,
   expires : Int]
    \cup [id : 1..MaxEvents, kind : {"accept"}, by : Devices, at : Int,
          offer : 1..MaxEvents]
    \cup [id : 1..MaxEvents, kind : {"revoke"}, by : Devices, at : Int,
          target : Devices]

OfKind(E, kind) == {e \in E : e.kind = kind}
Clock(d) == now + Offset[d]

(* RideLifecycleReducer.compareEvents: by creation time, then identity. *)
Before(e, f) == e.at < f.at \/ (e.at = f.at /\ e.id < f.id)
Nth(E, n) == CHOOSE e \in E : Cardinality({f \in E : Before(f, e)}) = n - 1
First(E) == {e \in E : \A f \in E : f = e \/ Before(e, f)}

Init ==
  /\ now = 0
  /\ made = {}
  /\ known = [d \in Devices |-> {}]
  /\ memory = [d \in Devices |-> {}]

-----------------------------------------------------------------------------
(* Both replays: an acceptance fits its offer. *)
Accepts(a, o) ==
  /\ a.offer = o.id
  /\ a.by = o.to
  /\ a.at <= o.expires
  /\ a.at >= o.at - MaxSkew

(***************************************************************************)
(* DeviceAuthorityPolicy.                                                  *)
(***************************************************************************)
Start == [pilot |-> Root, revoked |-> {}, offers |-> {}, counted |-> {}]

IsAuthorized(p, e) ==
  /\ e.by \notin p.revoked
  /\ e.kind \in {"offer", "revoke"} => e.by = p.pilot

AnyOffer(p, o) == TRUE             \* broken: a former pilot's offer counts
FromPilot(p, o) == o.by = p.pilot

Applied(p, e) ==
  CASE e.kind = "offer" -> [p EXCEPT !.offers = @ \cup {e}]
    [] e.kind = "accept" ->
         IF \E o \in p.offers : FromPilot(p, o) /\ Accepts(e, o)
         THEN [p EXCEPT !.pilot = e.by] ELSE p
    [] e.kind = "revoke" ->
         IF e.target # p.pilot THEN [p EXCEPT !.revoked = @ \cup {e.target}] ELSE p

Judge(p, e) ==
  IF IsAuthorized(p, e) THEN [Applied(p, e) EXCEPT !.counted = @ \cup {e}] ELSE p

Policy(E) ==
  LET after[n \in 0..Cardinality(E)] ==
        IF n = 0 THEN Start ELSE Judge(after[n - 1], Nth(E, n))
  IN after[Cardinality(E)]
Filtered(E) == Policy(E).counted

(***************************************************************************)
(* PilotAuthorityReducer: all offers and the first acceptance of each are  *)
(* collected; then, from the creator on, the offer of the current pilot    *)
(* that was accepted first is applied, for as long as there is one.  A     *)
(* handover is the pair of an offer and its acceptance.                    *)
(***************************************************************************)
Acceptance(E, o) == First({a \in OfKind(E, "accept") : a.offer = o.id})

Pilot(handovers) ==
  IF handovers = <<>> THEN Root ELSE handovers[Len(handovers)].offer.to

Candidates(E, handovers) ==
  {h \in [offer : OfKind(E, "offer"), acceptance : OfKind(E, "accept")] :
     /\ h.acceptance \in Acceptance(E, h.offer)
     /\ Accepts(h.acceptance, h.offer)
     /\ h.offer.by = Pilot(handovers)
     /\ \A i \in DOMAIN handovers : handovers[i].offer # h.offer}

FirstAccepted(H) ==
  {h \in H : \A g \in H : g = h \/ Before(h.acceptance, g.acceptance)}

Extended(E, handovers) ==
  LET next == FirstAccepted(Candidates(E, handovers)) IN
  IF next = {} THEN handovers ELSE Append(handovers, CHOOSE h \in next : TRUE)

Handovers(E) ==
  LET after[n \in 0..Cardinality(OfKind(E, "offer"))] ==
        IF n = 0 THEN <<>> ELSE Extended(E, after[n - 1])
  IN after[Cardinality(OfKind(E, "offer"))]

PilotOf(E) == Pilot(Handovers(E))

(* The offers of the pilot that nobody has taken up. *)
Pending(E, clock) ==
  {o \in OfKind(E, "offer") :
     /\ o.by = PilotOf(E)
     /\ \A i \in DOMAIN Handovers(E) : Handovers(E)[i].offer # o
     /\ o.expires > clock}

-----------------------------------------------------------------------------
(***************************************************************************)
(* RideController.                                                         *)
(***************************************************************************)

(* _acceptStoredEvent: the arriving event is judged among those that count *)
(* so far.  If it does not count it stays out of memory for good; if it    *)
(* does, others may cease to.                                              *)
Admit(E, e) ==
  LET counted == Filtered(E \cup {e}) IN IF e \in counted THEN counted ELSE E

HasAuthority(d) == PilotOf(memory[d]) = d

Stored(journal, e) == journal \cup {e}

(* _record: the event goes to the device's journal and, if it counts, into *)
(* its memory.                                                             *)
Record(d, e) ==
  /\ e.id <= MaxEvents
  /\ made' = made \cup {e}
  /\ known' = [known EXCEPT ![d] = Stored(@, e)]
  /\ memory' = [memory EXCEPT ![d] = Admit(@, e)]
  /\ UNCHANGED now

NextId == Cardinality(made) + 1

(* offerPilotHandover, to a device whose role is balloon crew. *)
Offer(d, t) ==
  /\ HasAuthority(d)
  /\ t # d
  /\ Record(d, [id |-> NextId, kind |-> "offer", by |-> d, at |-> Clock(d),
                to |-> t, expires |-> Clock(d) + OfferLife])

(* acceptPilotHandover: the latest pending offer that names this device. *)
Accept(d) ==
  LET mine == {o \in Pending(memory[d], Clock(d)) : o.to = d} IN
  \E o \in mine :
    /\ \A p \in mine : p = o \/ Before(p, o)
    /\ Record(d, [id |-> NextId, kind |-> "accept", by |-> d, at |-> Clock(d),
                  offer |-> o.id])

(* revokeDeviceAuthority: the pilot removes a device. *)
Revoke(d, t) ==
  /\ Cardinality(OfKind(made, "revoke")) < MaxRevokes
  /\ HasAuthority(d)
  /\ t # d
  /\ Record(d, [id |-> NextId, kind |-> "revoke", by |-> d, at |-> Clock(d),
                target |-> t])

(* An event reaches a device over the internet or nearby: what one device  *)
(* has made comes in the order it was made, but a revocation, the one      *)
(* critical event, may overtake the others.                                *)
Urgent(e) == e.kind = "revoke"
Overtakes(e, f) == Urgent(e) /\ ~Urgent(f)
Receive(d, e) ==
  /\ e \notin known[d]
  /\ \A f \in made \ known[d] : f.by = e.by /\ f.id < e.id => Overtakes(e, f)
  /\ known' = [known EXCEPT ![d] = Stored(@, e)]
  /\ memory' = [memory EXCEPT ![d] = Admit(@, e)]
  /\ UNCHANGED <<now, made>>

(* initialize: the app is opened and replays its journal. *)
Open(d) ==
  /\ memory' = [memory EXCEPT ![d] = Filtered(known[d])]
  /\ UNCHANGED <<now, made, known>>

Tick ==
  /\ now < MaxNow
  /\ now' = now + 1
  /\ UNCHANGED <<made, known, memory>>

Next ==
  \/ \E d, t \in Devices : Offer(d, t) \/ Revoke(d, t)
  \/ \E d \in Devices : Accept(d) \/ Open(d)
  \/ \E d \in Devices : \E e \in made : Receive(d, e)
  \/ Tick

Spec == Init /\ [][Next]_vars

-----------------------------------------------------------------------------
(* The handovers a device has applied were accepted one after the other:   *)
(* no pair is applied that had gone stale by the time authority came back. *)
HandoversInOrder(E) ==
  \A i, j \in DOMAIN Handovers(E) :
    i < j => Before(Handovers(E)[i].acceptance, Handovers(E)[j].acceptance)

(* No offer was accepted again, by a device whose memory had dropped its   *)
(* first acceptance.                                                       *)
AcceptedOnce(E) ==
  \A e, f \in OfKind(E, "accept") : e.offer = f.offer => e = f

(* The two replays name the same pilot as long as the clocks are in step,  *)
(* no stale pair is applied and no offer was accepted twice: whoever the   *)
(* app shows as the pilot is the one whose pilot-only events count, in     *)
(* whatever order offers, acceptances and revocations reach a device and   *)
(* whenever it is restarted.                                               *)
OneAuthorityUnlessStale ==
  \A d \in Devices :
    HandoversInOrder(memory[d]) /\ AcceptedOnce(memory[d]) =>
      Policy(memory[d]).pilot = PilotOf(memory[d])

(* Devices that have the same events agree on the pilot and on who is      *)
(* revoked, in whichever order the events came (launch-recovery-           *)
(* acceptance.md: out-of-order authority changes converge).                *)
Agreement ==
  \A d, f \in Devices :
    known[d] = known[f] =>
      /\ Policy(memory[d]).pilot = Policy(memory[f]).pilot
      /\ Policy(memory[d]).revoked = Policy(memory[f]).revoked
=============================================================================
