---------------------------- MODULE PushDispatch ----------------------------
(***************************************************************************)
(* Push alerts of one ride (push.py, membership.py): the devices' provider *)
(* registrations, the projection of the stored events into the members of  *)
(* the ride, and the dispatch that follows an upload as a background task. *)
(*                                                                         *)
(* An upload stores its new events and projects them under the ride's row  *)
(* lock (RelayService), is answered, and then hands all its events to a    *)
(* dispatch, those that were stored before too.  The dispatch takes the    *)
(* same lock, reads the members and the registrations, reserves one        *)
(* delivery per event and registration, calls the provider for it, and     *)
(* commits everything at the end.  The number of a call stands for the     *)
(* provider token it registers.  A clock unit is hours.                    *)
(***************************************************************************)
EXTENDS Serving, Sequences

CONSTANTS
  Devices,         \* installations, which are devices of the ride
  Workers,         \* background dispatches at a time
  Bodies,          \* the events offered, as the code tells them apart
  MaxBatch,        \* bound: new events of an upload
  MaxLog,          \* bound: stored events
  ExpireAfter,     \* expire_after: the age at which a member is given up
  Nobody           \* no such row; a free worker

Roles == {"coordinator", "rider"}      \* lead and tailEndCharlie are one here
Types == {"riderJoined", "roleChanged", "riderLeft", "other", "emergencyStop",
          "mechanical", "resolved", "iceInfoShared", "rideEnded"}
Body == [by : Devices, type : Types, role : Roles, to : SUBSET Devices]
EventRow == [by : Devices, type : Types, role : Roles, to : SUBSET Devices, at : Nat]

Member == [role : Roles, left : BOOLEAN, seen : Nat]
PushRegistration == [token : Nat, wants : BOOLEAN, live : BOOLEAN]
Pairs == (1..MaxLog) \X Devices
Dispatch == [batch : SUBSET (1..MaxLog), phase : {"queued", "sending"},
             due : SUBSET Pairs, reserved : SUBSET Pairs,
             rideMembers : [Devices -> Member \cup {Nobody}],
             tokens : [Devices -> Nat],
             stale : SUBSET Devices, invalid : SUBSET Devices]

ASSUME PushAssumption ==
  /\ Bodies \subseteq Body
  /\ MaxBatch \in Nat /\ MaxLog \in Nat \ {0}
  /\ ExpireAfter \in Nat \ {0}
  /\ Nobody \notin Member \cup PushRegistration \cup Dispatch

VARIABLES
  log,         \* the stored events, in sequence order, with their time
  rideMembers, \* [Devices -> Member \cup {Nobody}]: RideMember rows
  ready,       \* membership_projection_ready
  regs,        \* [Devices -> PushRegistration \cup {Nobody}]: PushRegistration
  delivered,   \* committed PushDelivery rows: <<event, device>>
  dispatches,  \* the dispatch of each worker
  sends,       \* history: [event, device] -> provider calls
  lost,        \* history: [event, device] -> reservations rolled back
  refused      \* history: tokens a provider has declared invalid

pushState == <<log, rideMembers, ready, regs, delivered, dispatches,
               sends, lost, refused>>
pushVars == <<serving, pushState>>

-----------------------------------------------------------------------------
(***************************************************************************)
(* The projection: one event of a device changes that device's row.        *)
(***************************************************************************)
Later(a, b) == IF a >= b THEN a ELSE b

ProjectEvent(rows, event) ==
  LET old == IF rows[event.by] = Nobody
             THEN [role |-> "rider", left |-> FALSE, seen |-> event.at]
             ELSE rows[event.by]
  IN [rows EXCEPT ![event.by] =
        [role |-> IF event.type \in {"riderJoined", "roleChanged"}
                  THEN event.role ELSE old.role,
         left |-> CASE event.type = "riderJoined" -> FALSE
                    [] event.type = "riderLeft" -> TRUE
                    [] OTHER -> old.left,
         seen |-> Later(event.at, old.seen)]]

Projected(rows, events) ==
  LET after[n \in 0..Len(events)] ==
        IF n = 0 THEN rows ELSE ProjectEvent(after[n - 1], events[n])
  IN after[Len(events)]
NoMembers == [d \in Devices |-> Nobody]
RowAt(body, t) == [by |-> body.by, type |-> body.type, role |-> body.role,
                   to |-> body.to, at |-> t]
Replayed == Projected(NoMembers, log)

(* A new ride, one under way, or one from before the projection existed,   *)
(* which has events and no members yet.                                    *)
PushInit ==
  /\ log \in {<<>>} \cup {<<RowAt(b, 0)>> : b \in Bodies}
  /\ ready \in BOOLEAN
  /\ rideMembers = IF ready THEN Replayed ELSE NoMembers
  /\ regs = [d \in Devices |-> Nobody]
  /\ delivered = {}
  /\ dispatches = [w \in Workers |-> Nobody]
  /\ sends = [p \in Pairs |-> 0]
  /\ lost = [p \in Pairs |-> 0]
  /\ refused = {}

Sending(w) == dispatches[w] # Nobody /\ dispatches[w].phase = "sending"
AnyTime == TRUE                  \* broken: the row is not locked
RideFree == \A w \in Workers : ~Sending(w)

-----------------------------------------------------------------------------
(* A batch of new events is stored, perhaps together with events the relay *)
(* has already: a retry, or a phone that carries what another has uploaded.*)
NewEvents ==
  UNION {[1..n -> {RowAt(b, t) : b \in Bodies, t \in 0..now}] : n \in 0..MaxBatch}

Queued(batch) ==
  [batch |-> batch, phase |-> "queued", due |-> {}, reserved |-> {},
   rideMembers |-> NoMembers, tokens |-> [d \in Devices |-> 0],
   stale |-> {}, invalid |-> {}]

Upload(w) ==
  /\ dispatches[w] = Nobody
  /\ Arrival
  /\ RideFree
  /\ \E known \in SUBSET DOMAIN log, new \in NewEvents :
       /\ known # {} \/ new # <<>>
       /\ Len(log) + Len(new) <= MaxLog
       /\ log' = log \o new
       /\ rideMembers' = Projected(rideMembers, new)
       /\ dispatches' = [dispatches EXCEPT ![w] =
            Queued(known \cup (Len(log) + 1)..(Len(log) + Len(new)))]
  /\ UNCHANGED <<ready, regs, delivered, sends, lost, refused>>

(***************************************************************************)
(* classify_push_event: which events are messages, how urgent, to whom.    *)
(***************************************************************************)
IsMessage(event) ==
  event.type \in {"emergencyStop", "mechanical", "resolved", "iceInfoShared",
                  "rideEnded"}
Critical(event) == event.type \in {"emergencyStop", "iceInfoShared"}

Targets(event, d, row) ==
  \/ event.type = "rideEnded"
  \/ d \in event.to
  \/ event.type = "iceInfoShared" /\ event.to = {}
  \/ /\ row.role = "coordinator"
     /\ \/ event.type = "resolved"
        \/ event.type \in {"emergencyStop", "mechanical"} /\ event.to = {}

PreferenceAllows(event, d) == Critical(event) \/ regs[d].wants

Messages(w) == {e \in dispatches[w].batch : IsMessage(log[e])}

(* Nothing in the batch is a message: the ride is not even read. *)
NothingToSend(w) ==
  /\ dispatches[w] # Nobody
  /\ dispatches[w].phase = "queued"
  /\ Messages(w) = {}
  /\ dispatches' = [dispatches EXCEPT ![w] = Nobody]
  /\ UNCHANGED <<serving, log, rideMembers, ready, regs, delivered, sends, lost, refused>>

(* The members, rebuilt from the stored events when that is still to do. *)
AsStored == rideMembers          \* broken: the rebuild is forgotten
Rebuilt == IF ready THEN rideMembers ELSE Replayed

Reached(rows, e, d) ==
  /\ rows[d] # Nobody
  /\ ~rows[d].left
  /\ now - rows[d].seen < ExpireAfter
  /\ regs[d] # Nobody
  /\ regs[d].live
  /\ log[e].by # d
  /\ Targets(log[e], d, rows[d])
  /\ PreferenceAllows(log[e], d)

(* The ride is locked, the members and the registrations are read. *)
LockRide(w) ==
  /\ dispatches[w] # Nobody
  /\ dispatches[w].phase = "queued"
  /\ Messages(w) # {}
  /\ RideFree
  /\ dispatches' = [dispatches EXCEPT ![w] =
       [batch |-> dispatches[w].batch, phase |-> "sending",
        due |-> {p \in Messages(w) \X Devices : Reached(Rebuilt, p[1], p[2])},
        reserved |-> {}, rideMembers |-> Rebuilt,
        tokens |-> [d \in Devices |-> IF regs[d] = Nobody THEN 0 ELSE regs[d].token],
        stale |-> {}, invalid |-> {}]]
  /\ UNCHANGED <<serving, log, rideMembers, ready, regs, delivered, sends, lost, refused>>

(* A delivery that is in the table is not made again. *)
NotYet(p) == TRUE                \* broken: no unique constraint
Unsent(p) == p \notin delivered

SkipDelivered(w, p) ==
  /\ Sending(w)
  /\ p \in dispatches[w].due
  /\ ~Unsent(p)
  /\ dispatches' = [dispatches EXCEPT ![w].due = @ \ {p}]
  /\ UNCHANGED <<serving, log, rideMembers, ready, regs, delivered, sends, lost, refused>>

(* A provider accepts or fails, or says that the token is no more. *)
PermanentlyInvalid(d) == SUBSET {d}

(* The delivery is reserved, which keeps the registration from being       *)
(* locked until the commit, and the provider called with the token read    *)
(* before.                                                                 *)
Deliver(w, p) ==
  /\ Sending(w)
  /\ p \in dispatches[w].due
  /\ Unsent(p)
  /\ sends' = [sends EXCEPT ![p] = @ + 1]
  /\ \E invalid \in PermanentlyInvalid(p[2]) :
       /\ dispatches' = [dispatches EXCEPT
            ![w].due = @ \ {p},
            ![w].reserved = @ \cup {p},
            ![w].stale = IF regs[p[2]].token = dispatches[w].tokens[p[2]]
                         THEN @ ELSE @ \cup {p[2]},
            ![w].invalid = @ \cup invalid]
       /\ refused' = refused \cup {dispatches[w].tokens[d] : d \in invalid}
  /\ UNCHANGED <<serving, log, rideMembers, ready, regs, delivered, lost>>

CommitDispatch(w) ==
  /\ Sending(w)
  /\ dispatches[w].due = {}
  /\ delivered' = delivered \cup dispatches[w].reserved
  /\ rideMembers' = dispatches[w].rideMembers
  /\ ready' = TRUE
  /\ regs' = [d \in Devices |->
       IF d \in dispatches[w].invalid
       THEN [token |-> regs[d].token, wants |-> regs[d].wants, live |-> FALSE]
       ELSE regs[d]]
  /\ dispatches' = [dispatches EXCEPT ![w] = Nobody]
  /\ UNCHANGED <<serving, log, sends, lost, refused>>

(* The transaction fails, or the server stops and starts again: what was   *)
(* reserved is rolled back, what was sent stays sent, and a dispatch that  *)
(* was queued is forgotten.                                                *)
RolledBack(ws) ==
  [p \in Pairs |-> lost[p] +
     Cardinality({w \in ws : dispatches[w] # Nobody /\ p \in dispatches[w].reserved})]

FailDispatch(w) ==
  /\ Sending(w)
  /\ lost' = RolledBack({w})
  /\ dispatches' = [dispatches EXCEPT ![w] = Nobody]
  /\ UNCHANGED <<serving, log, rideMembers, ready, regs, delivered, sends, refused>>

Crash ==
  /\ \E w \in Workers : dispatches[w] # Nobody
  /\ lost' = RolledBack(Workers)
  /\ dispatches' = [w \in Workers |-> Nobody]
  /\ UNCHANGED <<serving, log, rideMembers, ready, regs, delivered, sends, refused>>

-----------------------------------------------------------------------------
(* A registration is selected FOR UPDATE: it waits while a dispatch has    *)
(* reserved a delivery to it.                                              *)
RowOpen(d) == TRUE               \* broken: the row is not locked
RowFree(d) == \A w \in Workers : Sending(w) =>
                \A p \in dispatches[w].reserved : p[2] # d

RegisterPush(d) ==
  /\ Arrival
  /\ RowFree(d)
  /\ \E wants \in BOOLEAN :
       regs' = [regs EXCEPT ![d] = [token |-> calls', wants |-> wants, live |-> TRUE]]
  /\ UNCHANGED <<log, rideMembers, ready, delivered, dispatches, sends, lost, refused>>

RevokePush(d) ==
  /\ Arrival
  /\ regs[d] # Nobody
  /\ regs[d].live
  /\ regs' = [regs EXCEPT ![d].live = FALSE]
  /\ UNCHANGED <<log, rideMembers, ready, delivered, dispatches, sends, lost, refused>>

PushStep ==
  \/ Crash
  \/ \E w \in Workers :
       \/ Upload(w) \/ NothingToSend(w) \/ LockRide(w) \/ CommitDispatch(w) \/ FailDispatch(w)
       \/ \E p \in Pairs : SkipDelivered(w, p) \/ Deliver(w, p)
  \/ \E d \in Devices : RegisterPush(d) \/ RevokePush(d)

(* Alerts alone, whatever else the server does meanwhile. *)
PushNext == PushStep \/ (Elsewhere /\ UNCHANGED pushState)
PushSpec == PushInit /\ ServingInit /\ [][PushNext]_pushVars

-----------------------------------------------------------------------------
PushTypeOK ==
  /\ log \in Seq(EventRow)
  /\ rideMembers \in [Devices -> Member \cup {Nobody}]
  /\ ready \in BOOLEAN
  /\ regs \in [Devices -> PushRegistration \cup {Nobody}]
  /\ delivered \subseteq Pairs
  /\ dispatches \in [Workers -> Dispatch \cup {Nobody}]
  /\ sends \in [Pairs -> Nat]
  /\ lost \in [Pairs -> Nat]
  /\ refused \subseteq Nat

(* "One provider attempt per durable event and recipient registration",    *)
(* however often the event is uploaded again and however the dispatches    *)
(* overlap: a further attempt takes a dispatch that did not commit.        *)
OneAttempt == \A p \in Pairs : sends[p] <= 1 + lost[p]

(* The members are what a replay of the stored events gives, whether the   *)
(* rows were kept up to date or rebuilt beside new uploads.                *)
ProjectionTrue == ready => rideMembers = Replayed

(* A device is alerted only while the ride's stored events make it a       *)
(* member that has not left, though members leave as dispatches wait.      *)
OnlyMembersAlerted ==
  [][\A p \in Pairs : sends'[p] # sends[p] =>
       /\ Replayed'[p[2]] # Nobody
       /\ ~Replayed'[p[2]].left]_pushVars

(* A registration is withdrawn only by its device or because the provider  *)
(* refused its token; or because the device replaced the token between     *)
(* the dispatch's reading of it and its reservation.                       *)
RevokedForCause ==
  [][\A d \in Devices :
       regs[d] # Nobody /\ regs[d].live /\ ~regs'[d].live =>
       \/ RevokePush(d)
       \/ regs[d].token \in refused
       \/ \E w \in Workers : CommitDispatch(w) /\ d \in dispatches[w].stale]_pushVars
=============================================================================
