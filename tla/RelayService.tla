---------------------------- MODULE RelayService ----------------------------
(***************************************************************************)
(* One ride of the relay server (apps/server, service.py): its row, its    *)
(* stored events, its idempotency replays and its live positions, as       *)
(* changed by RelayService.synchronize, by the presence endpoint and by    *)
(* the scheduled cleanup.  Rides share nothing but a capacity limit.       *)
(*                                                                         *)
(* Each endpoint call is served by a handler: a thread with a database     *)
(* session and one READ COMMITTED transaction.  synchronize first reads    *)
(* the ride without a lock (session.get in _get_or_claim_ride) and only    *)
(* then selects it FOR UPDATE.  The ORM does not refresh an object it has  *)
(* already loaded, so the attributes the transaction computes with are     *)
(* those of the first read, and a flush writes the columns that differ     *)
(* from that read.  txn[h].loaded is that first read and txn[h].orm the    *)
(* object the transaction works on.                                        *)
(*                                                                         *)
(* Time is counted in units of the shortest retention the properties tell  *)
(* apart (an hour or so); a request may outlive one clock tick, not more.  *)
(***************************************************************************)
EXTENDS Integers, Sequences, FiniteSets

CONSTANTS
  Handlers,            \* concurrent synchronize calls
  Devices,             \* devices that publish live positions
  Tokens,              \* ride bearer credentials a caller may present
  Events,              \* event identities; an identity fixes the whole body
  EventType,           \* [Events -> EventTypes]
  EventRetention,      \* the retention of each event's type, never none
  ClientExpiry,        \* [Events -> Nat]: expiresAt stamped by the client
  Batches,             \* the upload batches offered: sequences over Events
  RideRetention,       \* ride_retention_hours
  EndedGrace,          \* ended_ride_grace_hours
  ReplayRetention,     \* idempotency_retention_hours
  MaxEvents,           \* maximum_events_per_ride
  MaxReplays,          \* maximum_replays_per_ride
  MaxDownload,         \* maximum_download_events
  MaxPresence,         \* maximum_pre_start_presence_riders
  MaxNow,              \* bound: the last instant of the clock
  MaxRequests,         \* bound: synchronize calls made in a run
  NoRide, NotEnded     \* "no such row" and a NULL ended_at

LifecycleTypes == {"rideStarted", "rideEnded", "rideReopened"}
EventTypes == LifecycleTypes \cup {"note"}

ASSUME EventAssumption ==
  /\ EventType \in [Events -> EventTypes]
  /\ EventRetention \in [Events -> Nat \ {0}]
  /\ ClientExpiry \in [Events -> Nat]
  /\ Batches \subseteq Seq(Events)
  /\ Tokens # {}
  /\ \A b \in Batches : \A i, j \in DOMAIN b : b[i] = b[j] => i = j

ASSUME LimitAssumption ==
  /\ RideRetention \in Nat
  /\ EndedGrace \in Nat
  /\ ReplayRetention \in Nat
  /\ MaxEvents \in Nat
  /\ MaxReplays \in Nat
  /\ MaxDownload \in Nat \ {0}
  /\ MaxPresence \in Nat
  /\ MaxNow \in Nat
  /\ MaxRequests \in Nat

RideRow == [token : Tokens, endedAt : Nat \cup {NotEnded},
            deleteAfter : Int, count : Nat]

ASSUME NullAssumption == NoRide \notin RideRow /\ NotEnded \notin Nat

VARIABLES
  now,         \* the server's clock
  ride,        \* the committed Ride row, or NoRide
  rows,        \* the committed StoredEvent rows
  nextSeq,     \* the next value of the sequence column; never rolled back
  replays,     \* the committed IdempotencyReplay rows
  presence,    \* devices with a stored live position
  phase,       \* how far each handler is
  txn,         \* what each handler's session and transaction hold
  cleaner,     \* the scheduled cleanup job
  requests,    \* how many synchronize calls were made (bound)
  minted,      \* history: every cursor the relay has put into a response
  everStored   \* history: every event identity that was ever committed

ride_vars == <<ride, rows, replays, presence>>
vars == <<now, ride, rows, nextSeq, replays, presence, phase, txn, cleaner,
          requests, minted, everStored>>

Row == [seq : Nat \ {0}, id : Events, expires : Int]
Request == [token : Tokens, cursor : Nat, events : Seq(Events)]
Replay == [key : Request, accepted : SUBSET Events, expires : Nat]
Phases == {"idle", "open", "storing", "replaying"}
Txn == [req : Request, at : Nat, loaded : RideRow \cup {NoRide},
        orm : RideRow \cup {NoRide}, existing : SUBSET Events,
        todo : Seq(Events), accepted : SUBSET Events, added : SUBSET Row]

Smaller(a, b) == IF a <= b THEN a ELSE b
Larger(a, b) == IF a >= b THEN a ELSE b
Unclamped(count, n) == count - n      \* broken: the count runs below zero
AfterPurge(count, n) == Larger(0, count - n)
Ids(R) == {r.id : r \in R}
Seqs(R) == {r.seq : r \in R}
Unexpired(R, t) == {r \in R : r.expires > t}
Expired(R, t) == {r \in R : r.expires <= t}

(***************************************************************************)
(* The ride's row lock: held from SELECT ... FOR UPDATE to the commit.     *)
(***************************************************************************)
NoLock == {}           \* broken: the ride is read without FOR UPDATE
Locking == {h \in Handlers : phase[h] \in {"storing", "replaying"}}
LockFree == Locking = {}

(***************************************************************************)
(* The ride's phase as the presence endpoint derives it: from the stored   *)
(* lifecycle events in sequence order, an end counting unless a reopen     *)
(* follows it.                                                             *)
(***************************************************************************)
OfType(R, type) == {r \in R : EventType[r.id] = type}
RidePresencePhase(R) ==
  IF \E e \in OfType(R, "rideEnded") :
       \A o \in OfType(R, "rideReopened") : o.seq < e.seq
  THEN "ended"
  ELSE IF OfType(R, "rideStarted") # {} THEN "started" ELSE "open"

(* The last end or reopen of an uploaded batch is an end. *)
BatchEndsNothing(batch) == FALSE      \* broken: positions are not discarded
BatchEndsRide(batch) ==
  \E i \in DOMAIN batch :
    /\ EventType[batch[i]] = "rideEnded"
    /\ \A j \in DOMAIN batch :
         EventType[batch[j]] \in {"rideEnded", "rideReopened"} => j <= i

NoTxn == [req |-> [token |-> CHOOSE t \in Tokens : TRUE, cursor |-> 0,
                   events |-> <<>>],
          at |-> 0, loaded |-> NoRide, orm |-> NoRide, existing |-> {},
          todo |-> <<>>, accepted |-> {}, added |-> {}]

IdleCleaner == [phase |-> "idle", at |-> 0, expired |-> 0]

Init ==
  /\ now = 0
  /\ ride = NoRide
  /\ rows = {}
  /\ nextSeq = 1
  /\ replays = {}
  /\ presence = {}
  /\ phase = [h \in Handlers |-> "idle"]
  /\ txn = [h \in Handlers |-> NoTxn]
  /\ cleaner = IdleCleaner
  /\ requests = 0
  /\ minted = {0}
  /\ everStored = {}

-----------------------------------------------------------------------------
(***************************************************************************)
(* synchronize                                                             *)
(***************************************************************************)

(* A call arrives: its clock is read, its cursor decoded (only a cursor    *)
(* this relay minted verifies) and the ride read without a lock.           *)
Receive(h, req) ==
  /\ phase[h] = "idle"
  /\ requests < MaxRequests
  /\ requests' = requests + 1
  /\ phase' = [phase EXCEPT ![h] = "open"]
  /\ txn' = [txn EXCEPT ![h] =
       [NoTxn EXCEPT !.req = req, !.at = now, !.loaded = ride]]
  /\ UNCHANGED <<now, ride_vars, nextSeq, cleaner, minted, everStored>>

(* The transaction is rolled back and the call answered with an error. *)
RefuseAndHang(h) ==    \* broken: the error leaves the transaction open
  UNCHANGED vars
Refuse(h) ==
  /\ phase' = [phase EXCEPT ![h] = "idle"]
  /\ txn' = [txn EXCEPT ![h] = NoTxn]
  /\ UNCHANGED <<now, ride_vars, nextSeq, cleaner, requests, minted, everStored>>

(* 503: a ride nobody has claimed yet meets the capacity limit. *)
RefuseClaim(h) ==
  /\ phase[h] = "open"
  /\ txn[h].loaded = NoRide
  /\ Refuse(h)

Claimed(h) ==
  [token |-> txn[h].req.token, endedAt |-> NotEnded,
   deleteAfter |-> txn[h].at + RideRetention, count |-> 0]

(* The object the session holds once the row is locked: the one just       *)
(* inserted, the one a concurrent claim inserted (read afresh after the    *)
(* IntegrityError), or the one of the unlocked read, not refreshed.        *)
Held(h) ==
  IF txn[h].loaded # NoRide THEN txn[h].loaded
  ELSE IF ride = NoRide THEN Claimed(h) ELSE ride

(* The claimed ride was deleted in between (500), or its credential is     *)
(* another one (403).                                                      *)
RefuseRide(h) ==
  /\ phase[h] = "open"
  /\ LockFree
  /\ \/ txn[h].loaded # NoRide /\ ride = NoRide
     \/ Held(h).token # txn[h].req.token
  /\ Refuse(h)

LiveReplay(h) ==
  {p \in replays : p.key = txn[h].req /\ p.expires > txn[h].at}

(* The row lock is granted: expired events and replays are purged and a    *)
(* stored replay of a non-empty upload is looked up.                       *)
Lock(h) ==
  /\ phase[h] = "open"
  /\ LockFree
  /\ ~(txn[h].loaded # NoRide /\ ride = NoRide)
  /\ Held(h).token = txn[h].req.token
  /\ LET t == txn[h]
         purged == Cardinality(Expired(rows, t.at))
         replayed == t.req.events # <<>> /\ LiveReplay(h) # {}
     IN /\ phase' = [phase EXCEPT ![h] =
                       IF replayed THEN "replaying" ELSE "storing"]
        /\ txn' = [txn EXCEPT ![h] =
             [t EXCEPT !.loaded = IF t.loaded # NoRide THEN t.loaded ELSE ride,
                       !.orm = [Held(h) EXCEPT
                                  !.count = AfterPurge(@, purged)],
                       !.existing = Ids(Unexpired(rows, t.at)),
                       !.todo = t.req.events,
                       !.accepted = IF replayed
                                    THEN UNION {p.accepted : p \in LiveReplay(h)}
                                    ELSE {}]]
  /\ UNCHANGED <<now, ride_vars, nextSeq, cleaner, requests, minted, everStored>>

(* When a new event would expire: its type's retention, the client's own   *)
(* deadline and the ride's, whichever comes first.                         *)
ExpiresOnce(h, e) ==   \* broken: the retention is not counted from the call
  Smaller(EventRetention[e], Smaller(ClientExpiry[e], txn[h].orm.deleteAfter))
ExpiresAt(h, e) ==
  Smaller(txn[h].at + EventRetention[e],
          Smaller(ClientExpiry[e], txn[h].orm.deleteAfter))

(* The ride after one stored event: an end shortens its life to the grace  *)
(* period, a reopen gives it the full retention back.                      *)
AfterEvent(r, e, at) ==
  IF EventType[e] = "rideEnded" /\ r.endedAt = NotEnded
  THEN [r EXCEPT !.count = @ + 1, !.endedAt = at,
                 !.deleteAfter = Smaller(@, at + EndedGrace)]
  ELSE IF EventType[e] = "rideReopened" /\ r.endedAt # NotEnded
  THEN [r EXCEPT !.count = @ + 1, !.endedAt = NotEnded,
                 !.deleteAfter = Larger(@, at + RideRetention)]
  ELSE [r EXCEPT !.count = @ + 1]

(* One turn of _store_events' loop for an event that is known already, or  *)
(* that would expire at once: accepted, nothing stored.                    *)
AcceptOnly(h) ==
  /\ phase[h] = "storing"
  /\ txn[h].todo # <<>>
  /\ LET e == Head(txn[h].todo)
     IN /\ e \in txn[h].existing \/ ExpiresAt(h, e) <= txn[h].at
        /\ txn' = [txn EXCEPT ![h].todo = Tail(@),
                              ![h].accepted = @ \cup {e}]
  /\ UNCHANGED <<now, ride_vars, nextSeq, phase, cleaner, requests, minted,
                 everStored>>

NewToClock(h, e) == ExpiresAt(h, e) > txn[h].at   \* broken: stored twice
New(h, e) == e \notin txn[h].existing /\ ExpiresAt(h, e) > txn[h].at

(* The row of a new event takes the next number of the sequence. *)
RowByCount(h, e) ==    \* broken: numbered by how many rows there are
  [seq |-> Cardinality(Unexpired(rows, txn[h].at) \cup txn[h].added) + 1, id |-> e,
   expires |-> ExpiresAt(h, e)]
RowFor(h, e) == [seq |-> nextSeq, id |-> e, expires |-> ExpiresAt(h, e)]

(* One turn for a new event. *)
StoreEvent(h) ==
  /\ phase[h] = "storing"
  /\ txn[h].todo # <<>>
  /\ LET e == Head(txn[h].todo)
     IN /\ New(h, e)
        /\ txn[h].orm.count + 1 <= MaxEvents
        /\ txn' = [txn EXCEPT
             ![h].todo = Tail(@),
             ![h].accepted = @ \cup {e},
             ![h].existing = @ \cup {e},
             ![h].added = @ \cup {RowFor(h, e)},
             ![h].orm = AfterEvent(@, e, txn[h].at)]
        /\ nextSeq' = nextSeq + 1
  /\ UNCHANGED <<now, ride_vars, phase, cleaner, requests, minted, everStored>>

(* 413: the ride's event quota is exhausted; the whole batch is refused. *)
RefuseEvent(h) ==
  /\ phase[h] = "storing"
  /\ txn[h].todo # <<>>
  /\ New(h, Head(txn[h].todo))
  /\ txn[h].orm.count + 1 > MaxEvents
  /\ Refuse(h)

(* What the transaction sees: the unexpired rows and its own. *)
Sees(h) == Unexpired(rows, txn[h].at) \cup txn[h].added

(* A page of the download: the oldest rows after the cursor, as many as    *)
(* the count limit allows and, the response's byte limit stopping it       *)
(* earlier, possibly fewer; one row always fits.                           *)
IsPage(h, page) ==
  LET visible == {r \in Sees(h) : r.seq > txn[h].req.cursor}
  IN /\ page \subseteq visible
     /\ Cardinality(page) <= MaxDownload
     /\ page = {} => visible = {}
     /\ \A r \in page, v \in visible : v.seq < r.seq => v \in page
Pages(h) == {page \in SUBSET Sees(h) : IsPage(h, page)}

IsCursor(h, page, cursor) ==
  IF page = {} THEN cursor = txn[h].req.cursor
  ELSE cursor \in Seqs(page) /\ \A r \in page : r.seq <= cursor

(* Any call that leaves the ride running moves its deadline. *)
Touched(h) ==
  IF txn[h].orm.endedAt = NotEnded
  THEN [txn[h].orm EXCEPT !.deleteAfter = txn[h].at + RideRetention]
  ELSE txn[h].orm

(* The UPDATE the flush issues: the columns whose value is no longer the   *)
(* loaded one.  A touched deadline always is: it comes from a later clock  *)
(* reading.  A ride just claimed is inserted as it is.                     *)
Flushed(h) ==
  LET t == txn[h]
      o == Touched(h)
  IN IF t.loaded = NoRide THEN o
     ELSE [ride EXCEPT
             !.endedAt = IF o.endedAt # t.loaded.endedAt THEN o.endedAt ELSE @,
             !.deleteAfter = IF \/ o.endedAt = NotEnded
                                \/ o.deleteAfter # t.loaded.deleteAfter
                             THEN o.deleteAfter ELSE @,
             !.count = IF o.count # t.loaded.count THEN o.count ELSE @]

LiveReplays(h) == {p \in replays : p.expires > txn[h].at}

(* The commit both outcomes share: purged rows go, added ones appear, the  *)
(* ride is flushed and the lock released.                                  *)
CommitWith(h, page, cursor) ==
  /\ IsCursor(h, page, cursor)
  /\ ride' = Flushed(h)
  /\ rows' = Sees(h)
  /\ everStored' = everStored \cup Ids(rows')
  /\ minted' = minted \cup {cursor}
  /\ phase' = [phase EXCEPT ![h] = "idle"]
  /\ txn' = [txn EXCEPT ![h] = NoTxn]
  /\ UNCHANGED <<now, nextSeq, cleaner, requests>>

(* The end of a call that stored its batch.  An upload is remembered under *)
(* its idempotency key, a poll is not.                                     *)
Commit(h, page, cursor) ==
  /\ phase[h] = "storing"
  /\ txn[h].todo = <<>>
  /\ txn[h].req.events # <<>> => Cardinality(LiveReplays(h)) + 1 <= MaxReplays
  /\ replays' = LiveReplays(h) \cup
       IF txn[h].req.events = <<>> THEN {}
       ELSE {[key |-> txn[h].req, accepted |-> txn[h].accepted,
              expires |-> txn[h].at + ReplayRetention]}
  /\ presence' = IF BatchEndsRide(txn[h].req.events) THEN {} ELSE presence
  /\ CommitWith(h, page, cursor)

(* 413: no replay row may be added; the stored batch is rolled back. *)
RefuseReplay(h) ==
  /\ phase[h] = "storing"
  /\ txn[h].todo = <<>>
  /\ txn[h].req.events # <<>>
  /\ Cardinality(LiveReplays(h)) + 1 > MaxReplays
  /\ Refuse(h)

(* The end of a retry: the upload's outcome is repeated, the download is   *)
(* built afresh from the request's cursor.                                 *)
CommitReplay(h, page, cursor) ==
  /\ phase[h] = "replaying"
  /\ replays' = LiveReplays(h)
  /\ presence' = presence
  /\ CommitWith(h, page, cursor)

-----------------------------------------------------------------------------
(***************************************************************************)
(* synchronize_pre_start_presence.  A position's time to live is shorter   *)
(* than a clock unit, so any stored position may have lapsed by the time   *)
(* of a call.  The row is locked first and read only then.                 *)
(***************************************************************************)
PresenceSync(d, kind) ==
  /\ LockFree
  /\ ride # NoRide
  /\ \E fresh \in SUBSET presence :
       presence' =
         CASE RidePresencePhase(rows) = "ended" -> {}
           [] OTHER ->
              CASE kind = "clear" -> fresh \ {d}
                [] kind = "read" -> fresh
                [] kind = "publish" ->
                     IF d \notin fresh /\ Cardinality(fresh) >= MaxPresence
                     THEN presence     \* 409: the call is rolled back
                     ELSE fresh \cup {d}
  /\ UNCHANGED <<now, ride, rows, nextSeq, replays, phase, txn, cleaner,
                 requests, minted, everStored>>

(***************************************************************************)
(* purge_expired, the scheduled cleanup: it counts the expired rows, then  *)
(* waits for the ride's lock, subtracts that count and deletes what has    *)
(* expired by then, the ride with everything under it if its own deadline  *)
(* has passed.                                                             *)
(***************************************************************************)
CleanupScan ==
  /\ cleaner.phase = "idle"
  /\ cleaner' = [phase |-> "scanned", at |-> now,
                 expired |-> Cardinality(Expired(rows, now))]
  /\ UNCHANGED <<now, ride_vars, nextSeq, phase, txn, requests, minted,
                 everStored>>

CleanupDelete ==
  /\ cleaner.phase = "scanned"
  /\ LockFree
  /\ cleaner' = IdleCleaner
  /\ IF ride # NoRide /\ ride.deleteAfter <= cleaner.at
     THEN /\ ride' = NoRide
          /\ rows' = {}
          /\ replays' = {}
          /\ presence' = {}
     ELSE /\ ride' = IF ride = NoRide THEN ride
                     ELSE [ride EXCEPT !.count = AfterPurge(@, cleaner.expired)]
          /\ rows' = Unexpired(rows, cleaner.at)
          /\ replays' = {p \in replays : p.expires > cleaner.at}
          /\ \E fresh \in SUBSET presence : presence' = fresh
  /\ UNCHANGED <<now, nextSeq, phase, txn, requests, minted, everStored>>

(* No call and no cleanup run spans more than one tick. *)
Tick ==
  /\ now < MaxNow
  /\ \A h \in Handlers : phase[h] # "idle" => txn[h].at = now
  /\ cleaner.phase # "idle" => cleaner.at = now
  /\ now' = now + 1
  /\ UNCHANGED <<ride_vars, nextSeq, phase, txn, cleaner, requests, minted,
                 everStored>>

-----------------------------------------------------------------------------
Arrive(h) ==
  \E token \in Tokens, cursor \in minted, events \in Batches :
    Receive(h, [token |-> token, cursor |-> cursor, events |-> events])

Finish(h) ==
  /\ phase[h] \in {"storing", "replaying"}
  /\ \E page \in Pages(h) :
       \E cursor \in minted \cup Seqs(Sees(h)) :
         Commit(h, page, cursor) \/ CommitReplay(h, page, cursor)

(* The steps a handler takes by itself once a call has arrived. *)
Handle(h) ==
  \/ RefuseRide(h) \/ Lock(h) \/ AcceptOnly(h) \/ StoreEvent(h)
  \/ RefuseEvent(h) \/ RefuseReplay(h) \/ Finish(h)

Next ==
  \/ \E h \in Handlers : Arrive(h) \/ RefuseClaim(h) \/ Handle(h)
  \/ \E d \in Devices, kind \in {"read", "publish", "clear"} :
       PresenceSync(d, kind)
  \/ CleanupScan
  \/ CleanupDelete
  \/ Tick

Spec == Init /\ [][Next]_vars

-----------------------------------------------------------------------------
TypeOK ==
  /\ now \in Nat
  /\ ride \in RideRow \cup {NoRide}
  /\ rows \subseteq Row
  /\ nextSeq \in Nat \ {0}
  /\ replays \subseteq Replay
  /\ presence \subseteq Devices
  /\ phase \in [Handlers -> Phases]
  /\ txn \in [Handlers -> Txn]
  /\ cleaner \in [phase : {"idle", "scanned"}, at : Nat, expired : Nat]
  /\ requests \in Nat
  /\ minted \subseteq Nat
  /\ everStored \subseteq Events

(* An upload that is repeated, or that two calls carry at once, leaves one *)
(* row per event, and no two rows of the ride share a sequence number      *)
(* (_validate_event_conflicts and _store_events under the row lock).       *)
OneRowPerEvent ==
  \A r, s \in rows : r.id = s.id \/ r.seq = s.seq => r = s

(* No row ever appears at or below a cursor a device may hold already: a   *)
(* poll that starts at that cursor would never see it.  Sequence numbers   *)
(* are taken before the commit, so this is what the row lock is for.       *)
CursorNeverSkips ==
  [][\A r \in rows' \ rows : \A c \in minted : c < r.seq]_vars

(* The relay answers that it accepted an event only if it has stored it at *)
(* some time, or if the event's own deadline or the ride's has passed      *)
(* (_store_events; a replay repeats the outcome of such a call).           *)
AcceptedIsKept ==
  [][\A h \in Handlers : phase[h] = "storing" /\ Finish(h) =>
       \A e \in txn[h].accepted :
         \/ e \in everStored'
         \/ ClientExpiry[e] <= now
         \/ txn[h].orm.deleteAfter <= now]_vars

(* Live positions do not survive the end of the ride.  The relay comes to  *)
(* report "ended" and to keep positions in two ways only: a reopen's row   *)
(* is gone before the end it undid (see ReopenedRideKeepsRunning), or an   *)
(* upload brings the end and, after it, a reopen the relay stores before   *)
(* it or not at all, so that the discard goes by the order of the batch    *)
(* and the phase by the order of the rows.                                 *)
LastWordReopens(batch) ==
  \E i \in DOMAIN batch :
    /\ EventType[batch[i]] = "rideReopened"
    /\ \A j \in DOMAIN batch :
         EventType[batch[j]] \in {"rideEnded", "rideReopened"} => j <= i
EndedWithPositions == presence # {} /\ RidePresencePhase(rows) = "ended"
EndedRideHasNoPositions ==
  [][EndedWithPositions' =>
       \/ EndedWithPositions
       \/ \E r \in rows \ rows' : EventType[r.id] = "rideReopened"
       \/ \E h \in Handlers : LastWordReopens(txn[h].req.events) /\ Finish(h)]_vars

(* No call is stuck: one that has the ride's lock can always take a step,  *)
(* and one that waits for it can once the lock is free.  As a call is a    *)
(* bounded number of steps, every refusal, rollback and early return lets  *)
(* go of the lock.                                                         *)
NoCallStuck ==
  \A h \in Handlers : phase[h] # "idle" =>
    \/ ENABLED <<Handle(h)>>_vars
    \/ phase[h] = "open" /\ ~LockFree

(* The journal behaves as RideJournal promises, whatever calls run at      *)
(* once: rows are numbered past every cursor and row a device may have     *)
(* read, and a cursor is the number of a row that was shown.               *)
Journal == INSTANCE RideJournal
             WITH log <- {[seq |-> r.seq, id |-> r.id] : r \in rows}
JournalSpec == Journal!Spec

-----------------------------------------------------------------------------
(***************************************************************************)
(* What a comment and a test say and the code does not keep.               *)
(***************************************************************************)

(* Only an end that is uploaded ends the ride: a ride that has been        *)
(* reopened runs until then (_ride_presence_phase).  A reopen stored       *)
(* during the grace period expires with it, the end it undoes later.       *)
ReopenedRideKeepsRunning ==
  [][RidePresencePhase(rows) # "ended" /\ RidePresencePhase(rows') = "ended" =>
       \E r \in rows' \ rows : EventType[r.id] = "rideEnded"]_vars
=============================================================================
