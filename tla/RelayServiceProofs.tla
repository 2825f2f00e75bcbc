------------------------- MODULE RelayServiceProofs -------------------------
(***************************************************************************)
(* Theorems about RelayService, for every number of handlers, devices,     *)
(* events and every value of the limits.                                   *)
(***************************************************************************)
EXTENDS RelayService, FiniteSetTheorems, WellFoundedInduction, TLAPS

(* What can be counted is finite. *)
Finite ==
  /\ IsFiniteSet(rows)
  /\ \A h \in Handlers : IsFiniteSet(txn[h].added)

(* One handler holds the ride at a time, and as long as it does the row it *)
(* works on is there, so that its flush is an UPDATE of an existing row.   *)
LockInv ==
  /\ \A g, h \in Locking : g = h
  /\ \A h \in Locking : /\ txn[h].orm \in RideRow
                        /\ txn[h].loaded # NoRide => ride # NoRide

TypeInv == TypeOK /\ Finite /\ LockInv

-----------------------------------------------------------------------------
(***************************************************************************)
(* The operators the handlers compute with.                                *)
(***************************************************************************)

(* A handler that holds nothing has a well-formed empty transaction. *)
LEMMA NoTxnType == NoTxn \in Txn /\ NoTxn.added = {}
<1>1. (CHOOSE t \in Tokens : TRUE) \in Tokens
  BY EventAssumption
<1>2. <<>> \in Seq(Events)
  OBVIOUS
<1> QED
  BY <1>1, <1>2 DEF NoTxn, Txn, Request

(* The ride object under the lock is a ride, whichever read it is from. *)
LEMMA HeldType ==
  ASSUME TypeOK, NEW h \in Handlers
  PROVE  Held(h) \in RideRow
<1>1. txn[h].loaded \in RideRow \cup {NoRide} /\ ride \in RideRow \cup {NoRide}
  BY DEF TypeOK, Txn
<1>2. Claimed(h) \in RideRow
  <2>1. txn[h].req.token \in Tokens /\ txn[h].at \in Nat
    BY DEF TypeOK, Txn, Request
  <2> QED
    BY <2>1, LimitAssumption DEF Claimed, RideRow
<1> QED
  BY <1>1, <1>2 DEF Held

(* A purge never leaves a negative count. *)
LEMMA AfterPurgeType ==
  ASSUME NEW n \in Nat, NEW m \in Nat
  PROVE  AfterPurge(n, m) \in Nat
BY DEF AfterPurge, Larger

(* An expiry is an instant. *)
LEMMA ExpiresAtType ==
  ASSUME TypeOK, NEW h \in Handlers, txn[h].orm \in RideRow, NEW e \in Events
  PROVE  ExpiresAt(h, e) \in Int
<1>1. /\ txn[h].at \in Nat
      /\ txn[h].orm.deleteAfter \in Int
      /\ EventRetention[e] \in Nat
      /\ ClientExpiry[e] \in Nat
  BY EventAssumption DEF TypeOK, Txn, RideRow
<1> QED
  BY <1>1 DEF ExpiresAt, Smaller

(* Storing an event leaves the ride object a ride. *)
LEMMA AfterEventType ==
  ASSUME NEW r \in RideRow, NEW e, NEW at \in Nat
  PROVE  AfterEvent(r, e, at) \in RideRow
<1>1. r.deleteAfter \in Int /\ r.count + 1 \in Nat
  BY DEF RideRow
<1>2. /\ Smaller(r.deleteAfter, at + EndedGrace) \in Int
      /\ Larger(r.deleteAfter, at + RideRetention) \in Int
  BY <1>1, LimitAssumption DEF Smaller, Larger
<1> QED
  BY <1>1, <1>2 DEF AfterEvent, RideRow

(* What the flush writes is a ride. *)
LEMMA FlushedType ==
  ASSUME TypeOK, LockInv, NEW h \in Locking
  PROVE  Flushed(h) \in RideRow
<1>1. /\ h \in Handlers
      /\ txn[h].orm \in RideRow
      /\ txn[h].loaded # NoRide => ride \in RideRow
      /\ txn[h].at \in Nat
  BY DEF TypeOK, LockInv, Txn, Locking
<1>2. Touched(h) \in RideRow
  BY <1>1, LimitAssumption DEF Touched, RideRow
<1> QED
  BY <1>1, <1>2 DEF Flushed, RideRow

(* What a transaction sees is a finite set of rows. *)
LEMMA SeesType ==
  ASSUME TypeOK, Finite, NEW h \in Handlers
  PROVE  Sees(h) \subseteq Row /\ IsFiniteSet(Sees(h))
<1>1. Sees(h) \subseteq rows \cup txn[h].added
  BY DEF Sees, Unexpired
<1>2. IsFiniteSet(rows \cup txn[h].added)
  BY FS_Union DEF Finite
<1>3. rows \cup txn[h].added \subseteq Row
  BY DEF TypeOK, Txn
<1> QED
  BY <1>1, <1>2, <1>3, FS_Subset

(* Expired rows can be counted. *)
LEMMA ExpiredCount ==
  ASSUME TypeOK, Finite, NEW t
  PROVE  Cardinality(Expired(rows, t)) \in Nat
<1>1. Expired(rows, t) \subseteq rows
  BY DEF Expired
<1> QED
  BY <1>1, FS_Subset, FS_CardinalityType DEF Finite

-----------------------------------------------------------------------------
(***************************************************************************)
(* Type correctness.  TypeOK needs Finite, because a cardinality is a      *)
(* number of something finite only, and LockInv, because the attributes of *)
(* the ride object are read only under the lock.                           *)
(***************************************************************************)
LEMMA TypeInit == Init => TypeInv
<1> SUFFICES ASSUME Init PROVE TypeInv
  OBVIOUS
<1>1. TypeOK
  BY NoTxnType, EventAssumption DEF Init, TypeOK, Phases, IdleCleaner
<1>2. Finite
  BY NoTxnType, FS_EmptySet DEF Init, Finite
<1>3. LockInv
  BY DEF Init, LockInv, Locking
<1> QED
  BY <1>1, <1>2, <1>3 DEF TypeInv

(* Letting go of the ride without committing. *)
LEMMA TypeRefuse ==
  ASSUME TypeInv, NEW h \in Handlers, Refuse(h)
  PROVE  TypeInv'
<1>1. TypeOK'
  BY NoTxnType DEF TypeInv, TypeOK, Refuse, ride_vars, Phases
<1>2. Finite'
  BY NoTxnType, FS_EmptySet DEF TypeInv, TypeOK, Finite, Refuse, ride_vars
<1>3. LockInv'
  <2>1. Locking' \subseteq Locking \ {h}
    BY DEF TypeInv, TypeOK, Refuse, Locking
  <2>2. \A g \in Locking' : txn'[g] = txn[g] /\ ride' = ride
    BY <2>1 DEF TypeInv, TypeOK, Refuse, Locking, ride_vars
  <2> QED
    BY <2>1, <2>2 DEF TypeInv, LockInv
<1> QED
  BY <1>1, <1>2, <1>3 DEF TypeInv

(* A call that arrives. *)
LEMMA TypeArrive ==
  ASSUME TypeInv, NEW h \in Handlers, Arrive(h)
  PROVE  TypeInv'
<1> PICK token \in Tokens, cursor \in minted, events \in Batches :
      Receive(h, [token |-> token, cursor |-> cursor, events |-> events])
  BY DEF Arrive
<1> DEFINE req == [token |-> token, cursor |-> cursor, events |-> events]
           t == [NoTxn EXCEPT !.req = req, !.at = now, !.loaded = ride]
<1>1. req \in Request
  BY EventAssumption DEF TypeInv, TypeOK, Request
<1>2. t \in Txn /\ t.added = {}
  BY <1>1, NoTxnType DEF TypeInv, TypeOK, Txn
<1>3. txn' = [txn EXCEPT ![h] = t] /\ phase' = [phase EXCEPT ![h] = "open"]
  BY DEF Receive
<1> HIDE DEF t
<1>4. TypeOK'
  BY <1>2, <1>3 DEF TypeInv, TypeOK, Receive, ride_vars, Phases
<1>5. Finite'
  BY <1>2, <1>3, FS_EmptySet DEF TypeInv, TypeOK, Finite, Receive, ride_vars
<1>6. LockInv'
  <2>1. Locking' \subseteq Locking \ {h}
    BY <1>3 DEF TypeInv, TypeOK, Locking
  <2>2. \A g \in Locking' : txn'[g] = txn[g] /\ ride' = ride
    BY <1>3, <2>1 DEF TypeInv, TypeOK, Receive, ride_vars, Locking
  <2> QED
    BY <2>1, <2>2 DEF TypeInv, LockInv
<1> QED
  BY <1>4, <1>5, <1>6 DEF TypeInv

(* The lock is granted. *)
LEMMA TypeLock ==
  ASSUME TypeInv, NEW h \in Handlers, Lock(h)
  PROVE  TypeInv'
<1> DEFINE purged == Cardinality(Expired(rows, txn[h].at))
           replayed == txn[h].req.events # <<>> /\ LiveReplay(h) # {}
           orm == [Held(h) EXCEPT !.count = AfterPurge(@, purged)]
           loaded == IF txn[h].loaded # NoRide THEN txn[h].loaded ELSE ride
           existing == Ids(Unexpired(rows, txn[h].at))
           accepted == IF replayed THEN UNION {p.accepted : p \in LiveReplay(h)}
                       ELSE {}
           t == [txn[h] EXCEPT !.loaded = loaded, !.orm = orm,
                               !.existing = existing,
                               !.todo = txn[h].req.events,
                               !.accepted = accepted]
<1>1. /\ phase' = [phase EXCEPT ![h] = IF replayed THEN "replaying" ELSE "storing"]
      /\ txn' = [txn EXCEPT ![h] = t]
      /\ Locking = {}
      /\ loaded # NoRide => ride # NoRide
      /\ UNCHANGED <<now, ride_vars, nextSeq, cleaner, requests, minted, everStored>>
  BY DEF Lock, LockFree
<1>2. txn[h] \in Txn
  BY DEF TypeInv, TypeOK
<1>3. loaded \in RideRow \cup {NoRide}
  BY <1>2 DEF TypeInv, TypeOK, Txn
<1>4. orm \in RideRow
  <2>1. Held(h) \in RideRow
    BY HeldType DEF TypeInv
  <2>2. purged \in Nat
    BY ExpiredCount DEF TypeInv
  <2>3. AfterPurge(Held(h).count, purged) \in Nat
    BY <2>1, <2>2, AfterPurgeType DEF RideRow
  <2> QED
    BY <2>1, <2>3 DEF RideRow
<1>5. existing \in SUBSET Events
  BY DEF TypeInv, TypeOK, Row, Ids, Unexpired
<1>6. accepted \in SUBSET Events
  BY DEF TypeInv, TypeOK, Replay, LiveReplay
<1>7. txn[h].req.events \in Seq(Events)
  BY <1>2 DEF Txn, Request
<1> HIDE DEF replayed, orm, loaded, existing, accepted
<1>8. /\ t \in Txn
      /\ t.added = txn[h].added
      /\ t.orm = orm
      /\ t.loaded = loaded
  BY <1>2, <1>3, <1>4, <1>5, <1>6, <1>7 DEF Txn
<1> HIDE DEF t
<1>9. TypeOK'
  BY <1>1, <1>8 DEF TypeInv, TypeOK, ride_vars, Phases
<1>10. Finite'
  BY <1>1, <1>8 DEF TypeInv, TypeOK, Finite, ride_vars
<1>11. LockInv'
  <2>1. Locking' \subseteq {h}
    BY <1>1 DEF TypeInv, TypeOK, Locking
  <2>2. txn'[h] = t /\ ride' = ride
    BY <1>1 DEF TypeInv, TypeOK, ride_vars
  <2> QED
    BY <1>1, <1>4, <1>8, <2>1, <2>2 DEF LockInv
<1> QED
  BY <1>9, <1>10, <1>11 DEF TypeInv

(* One turn of the storing loop, whatever it does with the event. *)
LEMMA TypeTurn ==
  ASSUME TypeInv, NEW h \in Handlers, AcceptOnly(h) \/ StoreEvent(h)
  PROVE  TypeInv'
<1>1. /\ txn[h] \in Txn
      /\ txn[h].todo \in Seq(Events)
      /\ txn[h].todo # <<>>
      /\ h \in Locking
      /\ txn[h].orm \in RideRow
  BY DEF TypeInv, TypeOK, LockInv, Locking, Txn, AcceptOnly, StoreEvent
<1>2. Head(txn[h].todo) \in Events /\ Tail(txn[h].todo) \in Seq(Events)
  BY <1>1
<1> DEFINE e == Head(txn[h].todo)
<1>3. RowFor(h, e) \in Row
  BY <1>1, <1>2, ExpiresAtType DEF TypeInv, TypeOK, RowFor, Row
<1>4. AfterEvent(txn[h].orm, e, txn[h].at) \in RideRow
  BY <1>1, AfterEventType DEF Txn
<1> HIDE DEF e
<1> SUFFICES ASSUME NEW t \in Txn,
                    txn' = [txn EXCEPT ![h] = t],
                    t.orm \in RideRow,
                    t.loaded = txn[h].loaded,
                    IsFiniteSet(t.added),
                    nextSeq' \in Nat \ {0}
             PROVE  TypeInv'
  <2>1. CASE AcceptOnly(h)
    <3> DEFINE t == [txn[h] EXCEPT !.todo = Tail(@), !.accepted = @ \cup {e}]
    <3>1. txn' = [txn EXCEPT ![h] = t] /\ nextSeq' = nextSeq
      BY <2>1 DEF AcceptOnly, e
    <3>2. /\ t \in Txn
          /\ t.orm = txn[h].orm
          /\ t.loaded = txn[h].loaded
          /\ t.added = txn[h].added
      BY <1>1, <1>2 DEF Txn, e
    <3> QED
      BY <1>1, <3>1, <3>2 DEF TypeInv, TypeOK, Finite
  <2>2. CASE StoreEvent(h)
    <3> DEFINE t == [txn[h] EXCEPT !.todo = Tail(@),
                                   !.accepted = @ \cup {e},
                                   !.existing = @ \cup {e},
                                   !.added = @ \cup {RowFor(h, e)},
                                   !.orm = AfterEvent(@, e, txn[h].at)]
    <3>1. txn' = [txn EXCEPT ![h] = t] /\ nextSeq' = nextSeq + 1
      BY <2>2 DEF StoreEvent, e
    <3>2. /\ t \in Txn
          /\ t.orm = AfterEvent(txn[h].orm, e, txn[h].at)
          /\ t.loaded = txn[h].loaded
          /\ t.added = txn[h].added \cup {RowFor(h, e)}
      BY <1>1, <1>2, <1>3, <1>4 DEF Txn, e
    <3>3. IsFiniteSet(t.added)
      BY <3>2, FS_AddElement DEF TypeInv, Finite
    <3>4. nextSeq' \in Nat \ {0}
      BY <3>1 DEF TypeInv, TypeOK
    <3> HIDE DEF t
    <3> QED
      BY <1>4, <3>1, <3>2, <3>3, <3>4
  <2> QED
    BY <2>1, <2>2
<1>5. UNCHANGED <<now, ride_vars, phase, cleaner, requests, minted, everStored>>
  BY DEF AcceptOnly, StoreEvent
<1>6. TypeOK'
  BY <1>5 DEF TypeInv, TypeOK, ride_vars
<1>7. Finite'
  BY <1>5 DEF TypeInv, TypeOK, Finite, ride_vars
<1>8. LockInv'
  <2>1. Locking' = Locking
    BY <1>5 DEF Locking
  <2>2. txn'[h] = t /\ ride' = ride
    BY <1>5 DEF TypeInv, TypeOK, ride_vars
  <2> QED
    BY <1>1, <2>1, <2>2 DEF TypeInv, LockInv
<1> QED
  BY <1>6, <1>7, <1>8 DEF TypeInv

(* The end of a call that commits. *)
LEMMA TypeFinish ==
  ASSUME TypeInv, NEW h \in Handlers, Finish(h)
  PROVE  TypeInv'
<1> PICK page \in SUBSET Sees(h), cursor \in minted \cup Seqs(Sees(h)) :
      Commit(h, page, cursor) \/ CommitReplay(h, page, cursor)
  BY DEF Finish, Pages
<1>1. CommitWith(h, page, cursor) /\ h \in Locking
  BY DEF Commit, CommitReplay, Locking
<1>2. Sees(h) \subseteq Row /\ IsFiniteSet(Sees(h))
  BY SeesType DEF TypeInv
<1>3. ride' \in RideRow
  BY <1>1, FlushedType DEF TypeInv, CommitWith
<1>4. replays' \subseteq Replay
  <2>1. /\ txn[h].req \in Request
        /\ txn[h].accepted \in SUBSET Events
        /\ txn[h].at + ReplayRetention \in Nat
    BY LimitAssumption DEF TypeInv, TypeOK, Txn
  <2>2. LiveReplays(h) \subseteq Replay
    BY DEF TypeInv, TypeOK, LiveReplays
  <2> QED
    BY <2>1, <2>2 DEF Commit, CommitReplay, Replay
<1>5. presence' \subseteq Devices
  BY DEF TypeInv, TypeOK, Commit, CommitReplay
<1>6. minted' \subseteq Nat
  BY <1>1, <1>2 DEF TypeInv, TypeOK, CommitWith, Seqs, Row
<1>7. everStored' \subseteq Events
  BY <1>1, <1>2 DEF TypeInv, TypeOK, CommitWith, Ids, Row
<1>8. TypeOK'
  BY <1>1, <1>2, <1>3, <1>4, <1>5, <1>6, <1>7, NoTxnType
     DEF TypeInv, TypeOK, CommitWith, Phases
<1>9. Finite'
  BY <1>1, <1>2, NoTxnType, FS_EmptySet DEF TypeInv, TypeOK, Finite, CommitWith
<1>10. LockInv'
  <2>1. Locking' = {}
    BY <1>1 DEF TypeInv, TypeOK, LockInv, CommitWith, Locking
  <2> QED
    BY <2>1 DEF LockInv
<1> QED
  BY <1>8, <1>9, <1>10 DEF TypeInv

(* A live position is published, read or withdrawn. *)
LEMMA TypePresence ==
  ASSUME TypeInv, NEW d \in Devices, NEW kind \in {"read", "publish", "clear"},
         PresenceSync(d, kind)
  PROVE  TypeInv'
<1>1. presence' \subseteq Devices
  BY DEF TypeInv, TypeOK, PresenceSync
<1>2. UNCHANGED <<now, ride, rows, nextSeq, replays, phase, txn, cleaner,
                  requests, minted, everStored>>
  BY DEF PresenceSync
<1>3. TypeOK'
  BY <1>1, <1>2 DEF TypeInv, TypeOK
<1> QED
  BY <1>2, <1>3 DEF TypeInv, Finite, LockInv, Locking

(* The scheduled cleanup. *)
LEMMA TypeCleanup ==
  ASSUME TypeInv, CleanupScan \/ CleanupDelete
  PROVE  TypeInv'
<1>1. CASE CleanupScan
  <2>1. cleaner' \in [phase : {"idle", "scanned"}, at : Nat, expired : Nat]
    BY <1>1, ExpiredCount DEF TypeInv, TypeOK, CleanupScan
  <2>2. UNCHANGED <<now, ride_vars, nextSeq, phase, txn, requests, minted,
                    everStored>>
    BY <1>1 DEF CleanupScan
  <2>3. TypeOK'
    BY <2>1, <2>2 DEF TypeInv, TypeOK, ride_vars
  <2> QED
    BY <2>2, <2>3 DEF TypeInv, Finite, LockInv, Locking, ride_vars
<1>2. CASE CleanupDelete
  <2>1. UNCHANGED <<now, nextSeq, phase, txn, requests, minted, everStored>>
    BY <1>2 DEF CleanupDelete
  <2>2. rows' \subseteq rows /\ replays' \subseteq replays /\ presence' \subseteq presence
    BY <1>2 DEF CleanupDelete, Unexpired
  <2>3. ride' \in RideRow \cup {NoRide}
    <3>1. CASE ride = NoRide
      BY <1>2, <3>1 DEF CleanupDelete
    <3>2. CASE ride \in RideRow
      <4>1. AfterPurge(ride.count, cleaner.expired) \in Nat
        BY <3>2, AfterPurgeType DEF TypeInv, TypeOK, RideRow
      <4> QED
        BY <1>2, <3>2, <4>1 DEF CleanupDelete, RideRow
    <3> QED
      BY <3>1, <3>2 DEF TypeInv, TypeOK
  <2>4. TypeOK'
    BY <1>2, <2>1, <2>2, <2>3 DEF TypeInv, TypeOK, CleanupDelete, IdleCleaner
  <2>5. Finite'
    BY <2>1, <2>2, FS_Subset DEF TypeInv, Finite
  <2>6. LockInv'
    BY <1>2, <2>1 DEF LockInv, Locking, LockFree, CleanupDelete
  <2> QED
    BY <2>4, <2>5, <2>6 DEF TypeInv
<1> QED
  BY <1>1, <1>2

LEMMA TypeStep == TypeInv /\ [Next]_vars => TypeInv'
<1> SUFFICES ASSUME TypeInv, [Next]_vars PROVE TypeInv'
  OBVIOUS
<1>1. ASSUME NEW h \in Handlers, Arrive(h) PROVE TypeInv'
  BY <1>1, TypeArrive
<1>2. ASSUME NEW h \in Handlers,
             RefuseClaim(h) \/ RefuseRide(h) \/ RefuseEvent(h) \/ RefuseReplay(h)
      PROVE  TypeInv'
  BY <1>2, TypeRefuse DEF RefuseClaim, RefuseRide, RefuseEvent, RefuseReplay
<1>3. ASSUME NEW h \in Handlers, Lock(h) PROVE TypeInv'
  BY <1>3, TypeLock
<1>4. ASSUME NEW h \in Handlers, AcceptOnly(h) \/ StoreEvent(h) PROVE TypeInv'
  BY <1>4, TypeTurn
<1>5. ASSUME NEW h \in Handlers, Finish(h) PROVE TypeInv'
  BY <1>5, TypeFinish
<1>6. ASSUME NEW d \in Devices, NEW kind \in {"read", "publish", "clear"},
             PresenceSync(d, kind)
      PROVE  TypeInv'
  BY <1>6, TypePresence
<1>7. CASE CleanupScan \/ CleanupDelete
  BY <1>7, TypeCleanup
<1>8. CASE Tick
  BY <1>8 DEF Tick, ride_vars, TypeInv, TypeOK, Finite, LockInv, Locking
<1>9. CASE UNCHANGED vars
  BY <1>9 DEF vars, TypeInv, TypeOK, Finite, LockInv, Locking
<1> QED
  BY <1>1, <1>2, <1>3, <1>4, <1>5, <1>6, <1>7, <1>8, <1>9 DEF Next, Handle

(* Every reachable state is well typed: no count falls below zero, no      *)
(* attribute of a missing ride is read and no position is held for a       *)
(* device the ride does not know (synchronize, purge_expired).             *)
THEOREM TypeCorrect == Spec => []TypeOK
<1>1. Init => TypeInv
  BY TypeInit
<1>2. TypeInv /\ [Next]_vars => TypeInv'
  BY TypeStep
<1>3. TypeInv => TypeOK
  BY DEF TypeInv
<1> QED
  BY <1>1, <1>2, <1>3, PTL DEF Spec

-----------------------------------------------------------------------------
(***************************************************************************)
(* The journal.  That rows are unique and numbered past every cursor is    *)
(* not inductive: it rests on what the open transaction holds.             *)
(***************************************************************************)

(* What the transaction under the lock has added is new: it knows every    *)
(* identity it sees, and numbers past every row and every cursor.          *)
Pending(h) ==
  /\ txn[h].existing = Ids(Sees(h))
  /\ \A r, s \in Sees(h) : r.id = s.id \/ r.seq = s.seq => r = s
  /\ \A r \in txn[h].added : /\ r.seq < nextSeq
                             /\ \A s \in rows : s.seq < r.seq
                             /\ \A c \in minted : c < r.seq

JournalInv ==
  /\ \A r \in rows : r.seq < nextSeq
  /\ \A c \in minted : c < nextSeq
  /\ OneRowPerEvent
  /\ \A h \in Handlers \ Locking : txn[h].added = {}
  /\ \A h \in Locking : Pending(h)

LEMMA JournalInit == Init => JournalInv
BY NoTxnType DEF Init, JournalInv, OneRowPerEvent, Locking

(* A step that touches neither the rows nor what a transaction under the   *)
(* lock has added.                                                         *)
LEMMA JournalQuiet ==
  ASSUME JournalInv,
         rows' = rows, nextSeq' = nextSeq, minted' = minted,
         Locking' \subseteq Locking,
         \A h \in Locking' : /\ txn'[h].existing = txn[h].existing
                             /\ txn'[h].added = txn[h].added
                             /\ txn'[h].at = txn[h].at,
         \A h \in Handlers \ Locking' : txn'[h].added = {}
  PROVE  JournalInv'
<1>1. \A h \in Locking' : Sees(h)' = Sees(h)
  BY DEF Sees, Unexpired
<1>2. \A h \in Locking' : Pending(h)'
  BY <1>1 DEF JournalInv, Pending
<1> QED
  BY <1>2 DEF JournalInv, OneRowPerEvent

LEMMA JournalLock ==
  ASSUME TypeInv, JournalInv, NEW h \in Handlers, Lock(h)
  PROVE  JournalInv'
<1>1. /\ rows' = rows /\ nextSeq' = nextSeq /\ minted' = minted
      /\ txn'[h].existing = Ids(Unexpired(rows, txn[h].at))
      /\ txn'[h].added = txn[h].added
      /\ txn'[h].at = txn[h].at
      /\ Locking = {}
      /\ \A g \in Handlers \ {h} : txn'[g] = txn[g]
      /\ Locking' = {h}
  <2>1. phase' = [phase EXCEPT ![h] = phase'[h]] /\ phase'[h] \in {"storing", "replaying"}
    BY DEF Lock, TypeInv, TypeOK
  <2>2. Locking = {} /\ Locking' = {h}
    BY <2>1 DEF Lock, LockFree, Locking, TypeInv, TypeOK
  <2>3. txn[h] \in Txn /\ txn \in [Handlers -> Txn]
    BY DEF TypeInv, TypeOK
  <2> QED
    BY <2>2, <2>3 DEF Lock, ride_vars, Txn
<1>2. txn[h].added = {}
  BY <1>1 DEF JournalInv
<1>3. Sees(h)' = Unexpired(rows, txn[h].at)
  BY <1>1, <1>2 DEF Sees, Unexpired
<1>4. Unexpired(rows, txn[h].at) \subseteq rows
  BY DEF Unexpired
<1>5. Pending(h)'
  BY <1>1, <1>2, <1>3, <1>4 DEF Pending, JournalInv, OneRowPerEvent
<1> QED
  BY <1>1, <1>5 DEF JournalInv, OneRowPerEvent

LEMMA JournalStore ==
  ASSUME TypeInv, JournalInv, NEW h \in Handlers, StoreEvent(h)
  PROVE  JournalInv'
<1> DEFINE e == Head(txn[h].todo)
           row == RowFor(h, e)
<1>1. /\ h \in Locking
      /\ txn[h] \in Txn
      /\ nextSeq \in Nat \ {0}
      /\ rows \subseteq Row /\ minted \subseteq Nat
  BY DEF StoreEvent, Locking, TypeInv, TypeOK
<1>2. row.seq = nextSeq /\ row.id = e
  BY DEF RowFor
<1> HIDE DEF row
<1>3. /\ rows' = rows /\ minted' = minted
      /\ nextSeq' = nextSeq + 1
      /\ Locking' = Locking
      /\ txn'[h].existing = txn[h].existing \cup {e}
      /\ txn'[h].added = txn[h].added \cup {row}
      /\ txn'[h].at = txn[h].at
      /\ \A g \in Handlers \ {h} : txn'[g] = txn[g]
  BY <1>1 DEF StoreEvent, TypeInv, TypeOK, Txn, ride_vars, Locking, row
<1>4. e \notin Ids(Sees(h))
  BY <1>1 DEF StoreEvent, New, JournalInv, Pending
<1>5. Sees(h)' = Sees(h) \cup {row}
  BY <1>3 DEF Sees, Unexpired
<1>6. \A s \in Sees(h) : s.seq < nextSeq /\ s.id # e
  <2>1. \A s \in Sees(h) : s \in rows \/ s \in txn[h].added
    BY DEF Sees, Unexpired
  <2> QED
    BY <1>1, <1>4, <2>1 DEF JournalInv, Pending, Ids
<1>7. Sees(h) \subseteq Row
  BY SeesType DEF TypeInv
<1>8. Pending(h)'
  <2>1. txn'[h].existing = Ids(Sees(h)')
    BY <1>1, <1>2, <1>3, <1>5 DEF JournalInv, Pending, Ids
  <2>2. \A r, s \in Sees(h)' : r.id = s.id \/ r.seq = s.seq => r = s
    BY <1>1, <1>2, <1>5, <1>6, <1>7 DEF JournalInv, Pending, Row
  <2>3. \A r \in txn'[h].added : /\ r.seq < nextSeq'
                                 /\ \A s \in rows' : s.seq < r.seq
                                 /\ \A c \in minted' : c < r.seq
    <3>1. txn[h].added \subseteq Row
      BY <1>1 DEF Txn
    <3> QED
      BY <1>1, <1>2, <1>3, <3>1 DEF JournalInv, Pending, Row
  <2> QED
    BY <2>1, <2>2, <2>3 DEF Pending
<1>9. Locking = {h}
  BY <1>1 DEF TypeInv, LockInv
<1>10. (\A r \in rows' : r.seq < nextSeq') /\ (\A c \in minted' : c < nextSeq')
  BY <1>1, <1>3 DEF JournalInv, Row
<1> QED
  BY <1>3, <1>8, <1>9, <1>10 DEF JournalInv, OneRowPerEvent

(* What a commit does to the journal: the rows it adds are those of its    *)
(* transaction, and the cursor is one it was given or of a row it shows.   *)
LEMMA FinishChanges ==
  ASSUME TypeInv, JournalInv, NEW h \in Handlers, Finish(h)
  PROVE  /\ h \in Locking
         /\ Pending(h)
         /\ rows' = Sees(h)
         /\ nextSeq' = nextSeq
         /\ minted \subseteq minted' /\ minted' \subseteq minted \cup Seqs(Sees(h))
         /\ everStored' = everStored \cup Ids(Sees(h))
         /\ Locking' = {}
         /\ \A g \in Handlers : txn'[g].added = {}
         /\ \A r \in rows' \ rows : r \in txn[h].added
<1> PICK page \in SUBSET Sees(h), cursor \in minted \cup Seqs(Sees(h)) :
      Commit(h, page, cursor) \/ CommitReplay(h, page, cursor)
  BY DEF Finish, Pages
<1>1. CommitWith(h, page, cursor) /\ h \in Locking
  BY DEF Commit, CommitReplay, Locking
<1>2. Locking = {h}
  BY <1>1 DEF TypeInv, LockInv
<1>3. Locking' = {}
  BY <1>1, <1>2 DEF TypeInv, TypeOK, CommitWith, Locking
<1>4. \A g \in Handlers : txn'[g].added = {}
  BY <1>1, <1>2, NoTxnType DEF TypeInv, TypeOK, CommitWith, JournalInv
<1>5. rows' = Sees(h) /\ \A r \in Sees(h) : r \in rows \/ r \in txn[h].added
  BY <1>1 DEF CommitWith, Sees, Unexpired
<1> QED
  BY <1>1, <1>3, <1>4, <1>5 DEF CommitWith, JournalInv

LEMMA JournalFinish ==
  ASSUME TypeInv, JournalInv, NEW h \in Handlers, Finish(h)
  PROVE  JournalInv'
<1>1. \A r \in Sees(h) : r.seq < nextSeq
  BY FinishChanges DEF JournalInv, Pending, Sees, Unexpired
<1>2. OneRowPerEvent'
  BY FinishChanges DEF Pending, OneRowPerEvent
<1>3. \A c \in minted' : c < nextSeq
  BY <1>1, FinishChanges DEF JournalInv, Seqs
<1> QED
  BY <1>1, <1>2, <1>3, FinishChanges DEF JournalInv

(* A step that is not the end of a call leaves the rows alone or drops     *)
(* some of them, and hands out no cursor.                                  *)
LEMMA JournalCleanup ==
  ASSUME TypeInv, JournalInv, CleanupDelete
  PROVE  JournalInv' /\ rows' \subseteq rows /\ minted' = minted
<1>1. /\ rows' \subseteq rows
      /\ UNCHANGED <<nextSeq, minted, phase, txn>>
      /\ Locking = {}
  BY DEF CleanupDelete, Unexpired, LockFree
<1>2. Locking' = {}
  BY <1>1 DEF Locking
<1> QED
  BY <1>1, <1>2 DEF JournalInv, OneRowPerEvent

LEMMA JournalRefuse ==
  ASSUME TypeInv, JournalInv, NEW h \in Handlers, Refuse(h) \/ Arrive(h)
  PROVE  JournalInv' /\ rows' = rows /\ minted' = minted
<1>1. /\ rows' = rows /\ nextSeq' = nextSeq /\ minted' = minted
      /\ phase' = [phase EXCEPT ![h] = phase'[h]]
      /\ phase'[h] \in {"idle", "open"}
      /\ txn' = [txn EXCEPT ![h] = txn'[h]]
      /\ txn'[h].added = {}
  <2>1. CASE Refuse(h)
    BY <2>1, NoTxnType DEF Refuse, ride_vars, TypeInv, TypeOK
  <2>2. CASE Arrive(h)
    <3> PICK req : Receive(h, req)
      BY <2>2 DEF Arrive
    <3>1. [NoTxn EXCEPT !.req = req, !.at = now, !.loaded = ride].added = {}
      BY NoTxnType DEF Txn
    <3> QED
      BY <3>1 DEF Receive, ride_vars, TypeInv, TypeOK
  <2> QED
    BY <2>1, <2>2
<1>2. Locking' \subseteq Locking \ {h}
  BY <1>1 DEF Locking, TypeInv, TypeOK
<1>3. \A g \in Locking' : txn'[g] = txn[g]
  BY <1>1, <1>2 DEF TypeInv, TypeOK, Locking
<1>4. \A g \in Handlers \ Locking' : txn'[g].added = {}
  <2>1. \A g \in Handlers \ {h} : phase'[g] = phase[g] /\ txn'[g] = txn[g]
    BY <1>1 DEF TypeInv, TypeOK
  <2> QED
    BY <1>1, <2>1 DEF JournalInv, Locking
<1> QED
  BY <1>1, <1>2, <1>3, <1>4, JournalQuiet

LEMMA JournalAccept ==
  ASSUME TypeInv, JournalInv, NEW h \in Handlers, AcceptOnly(h)
  PROVE  JournalInv'
<1>1. /\ UNCHANGED <<rows, nextSeq, minted, phase>>
      /\ \A g \in Handlers : /\ txn'[g].existing = txn[g].existing
                             /\ txn'[g].added = txn[g].added
                             /\ txn'[g].at = txn[g].at
  BY DEF AcceptOnly, ride_vars, TypeInv, TypeOK, Txn
<1>2. Locking' = Locking
  BY <1>1 DEF Locking
<1>3. \A g \in Locking : g \in Handlers
  BY DEF Locking
<1> QED
  BY <1>1, <1>2, <1>3, JournalQuiet DEF JournalInv

(* Each step of the relay is the end of a call, or adds no row and hands   *)
(* out no cursor; all of them keep the invariant.                          *)
LEMMA JournalStep ==
  ASSUME TypeInv, JournalInv, [Next]_vars
  PROVE  /\ JournalInv'
         /\ \/ \E h \in Handlers : Finish(h)
            \/ rows' \subseteq rows /\ minted' = minted
<1> DEFINE Goal == /\ JournalInv'
                   /\ \/ \E h \in Handlers : Finish(h)
                      \/ rows' \subseteq rows /\ minted' = minted
<1> SUFFICES Goal
  OBVIOUS
<1>1. ASSUME NEW h \in Handlers,
             \/ Arrive(h) \/ RefuseClaim(h) \/ RefuseRide(h)
             \/ RefuseEvent(h) \/ RefuseReplay(h)
      PROVE  Goal
  <2>1. Refuse(h) \/ Arrive(h)
    BY <1>1 DEF RefuseClaim, RefuseRide, RefuseEvent, RefuseReplay
  <2> QED
    BY <2>1, JournalRefuse
<1>2. ASSUME NEW h \in Handlers, Lock(h) PROVE Goal
  BY <1>2, JournalLock DEF Lock, ride_vars
<1>3. ASSUME NEW h \in Handlers, AcceptOnly(h) PROVE Goal
  BY <1>3, JournalAccept DEF AcceptOnly, ride_vars
<1>4. ASSUME NEW h \in Handlers, StoreEvent(h) PROVE Goal
  BY <1>4, JournalStore DEF StoreEvent, ride_vars
<1>5. ASSUME NEW h \in Handlers, Finish(h) PROVE Goal
  BY <1>5, JournalFinish
<1>6. CASE CleanupDelete
  BY <1>6, JournalCleanup
<1>7. CASE \/ \E d \in Devices, kind \in {"read", "publish", "clear"} :
                PresenceSync(d, kind)
           \/ CleanupScan \/ Tick \/ UNCHANGED vars
  <2>1. UNCHANGED <<rows, nextSeq, minted, phase, txn>>
    BY <1>7 DEF PresenceSync, CleanupScan, Tick, vars, ride_vars
  <2>2. Locking' = Locking
    BY <2>1 DEF Locking
  <2>3. JournalInv'
    BY <2>1, <2>2, JournalQuiet DEF JournalInv
  <2> QED
    BY <2>1, <2>3
<1> QED
  BY <1>1, <1>2, <1>3, <1>4, <1>5, <1>6, <1>7 DEF Next, Handle

LEMMA JournalInvariant == Spec => [](TypeInv /\ JournalInv)
<1>1. Init => TypeInv /\ JournalInv
  BY TypeInit, JournalInit
<1>2. TypeInv /\ JournalInv /\ [Next]_vars => (TypeInv /\ JournalInv)'
  BY TypeStep, JournalStep
<1> QED
  BY <1>1, <1>2, PTL DEF Spec

(* However many uploads of the same events run at once or are repeated,    *)
(* an event has one row and a row a number of its own (_store_events,      *)
(* under the row lock of synchronize).                                     *)
THEOREM RowsUnique == Spec => []OneRowPerEvent
<1>1. JournalInv => OneRowPerEvent
  BY DEF JournalInv
<1> QED
  BY <1>1, JournalInvariant, PTL

(* A device that polls from a cursor it was given never has a row appear   *)
(* behind it: a new row's number is above every cursor handed out so far.  *)
THEOREM CursorsNeverSkip == Spec => CursorNeverSkips
<1>1. TypeInv /\ JournalInv /\ [Next]_vars
      => [\A r \in rows' \ rows : \A c \in minted : c < r.seq]_vars
  BY JournalStep, FinishChanges DEF Pending
<1> QED
  BY <1>1, JournalInvariant, PTL DEF Spec, CursorNeverSkips

-----------------------------------------------------------------------------
(***************************************************************************)
(* The relay implements RideJournal.                                       *)
(***************************************************************************)
Log == {[seq |-> r.seq, id |-> r.id] : r \in rows}

(* The end of a call is a served call of the journal. *)
LEMMA FinishServes ==
  ASSUME TypeInv, JournalInv, NEW h \in Handlers, Finish(h)
  PROVE  Journal!Serve
<1>1. Sees(h) \subseteq Row
  BY SeesType DEF TypeInv
<1>2. Log' \subseteq Journal!LogRow
  BY <1>1, FinishChanges DEF Log, Journal!LogRow, Row
<1>3. \A q \in Log' \ Log : \E r \in txn[h].added : q = [seq |-> r.seq, id |-> r.id]
  BY FinishChanges DEF Log
<1>4. \A q, s \in Log' : q.id = s.id \/ q.seq = s.seq => q = s
  BY FinishChanges DEF Log, Pending
<1>5. \A q \in Log' \ Log : /\ \A s \in Log : s.seq < q.seq
                            /\ \A c \in minted : c < q.seq
  BY <1>3, FinishChanges DEF Log, Pending
<1>6. minted \subseteq minted' /\ minted' \subseteq minted \cup {q.seq : q \in Log'}
  <2>1. \A r \in Sees(h) : \E q \in Log' : q.seq = r.seq
    <3>1. \A r \in Sees(h) : [seq |-> r.seq, id |-> r.id] \in Log'
      BY FinishChanges DEF Log
    <3> QED
      BY <3>1
  <2>2. Seqs(Sees(h)) \subseteq {q.seq : q \in Log'}
    BY <2>1 DEF Seqs
  <2> QED
    BY <2>2, FinishChanges
<1> QED
  BY <1>2, <1>4, <1>5, <1>6 DEF Journal!Serve, Journal!Added, Log

LEMMA JournalRefined ==
  ASSUME TypeInv, JournalInv, [Next]_vars
  PROVE  [Journal!Next]_(Journal!vars)
<1>1. CASE \E h \in Handlers : Finish(h)
  BY <1>1, FinishServes DEF Journal!Next
<1>2. CASE rows' \subseteq rows /\ minted' = minted
  <2>1. Log' \subseteq Log
    BY <1>2 DEF Log
  <2> QED
    BY <1>2, <2>1 DEF Journal!Next, Journal!Forget, Log
<1> QED
  BY <1>1, <1>2, JournalStep

(* Whatever calls, retries and cleanups run at once, the stored rows and   *)
(* the cursors behave as one append-only log with retention.               *)
THEOREM JournalImplemented == Spec => JournalSpec
<1>1. Init => Journal!Init
  BY DEF Init, Journal!Init
<1>2. TypeInv /\ JournalInv /\ [Next]_vars => [Journal!Next]_(Journal!vars)
  BY JournalRefined
<1> QED
  BY <1>1, <1>2, JournalInvariant, PTL DEF Spec, JournalSpec, Journal!Spec

-----------------------------------------------------------------------------
(***************************************************************************)
(* What an acceptance promises.                                            *)
(***************************************************************************)

(* An event the open transaction has accepted is a row it sees, or its     *)
(* time or the ride's was over when the call came in.                      *)
Kept(h, e) ==
  \/ e \in Ids(Sees(h))
  \/ ClientExpiry[e] <= txn[h].at
  \/ txn[h].orm.deleteAfter <= txn[h].at

KeptInv ==
  /\ \A h \in Handlers : txn[h].at <= now
  /\ \A h \in Handlers : phase[h] = "storing" =>
       \A e \in txn[h].accepted : Kept(h, e)

LEMMA KeptInit == Init => KeptInv
BY DEF Init, KeptInv, NoTxn

(* A turn of the loop: an event that is not stored is known already or has *)
(* expired, and a ride whose deadline has passed stores none, so that no   *)
(* reopen gives it a new one.                                              *)
LEMMA KeptTurn ==
  ASSUME TypeInv, JournalInv, KeptInv, NEW h \in Handlers,
         AcceptOnly(h) \/ StoreEvent(h)
  PROVE  KeptInv'
<1> PICK e : e = Head(txn[h].todo)
  OBVIOUS
<1>1. /\ h \in Locking
      /\ txn[h] \in Txn
      /\ txn[h].orm \in RideRow
      /\ e \in Events
  BY DEF TypeInv, TypeOK, LockInv, Locking, Txn, AcceptOnly, StoreEvent
<1>2. /\ EventRetention[e] \in Nat \ {0}
      /\ ClientExpiry[e] \in Nat
      /\ txn[h].at \in Nat
      /\ txn[h].orm.deleteAfter \in Int
  BY <1>1, EventAssumption DEF Txn, RideRow
<1>3. /\ UNCHANGED <<now, rows, phase>>
      /\ txn'[h].at = txn[h].at
      /\ txn'[h].accepted = txn[h].accepted \cup {e}
      /\ txn[h].added \subseteq txn'[h].added
      /\ \A g \in Handlers \ {h} : txn'[g] = txn[g]
  <2>1. txn \in [Handlers -> Txn]
    BY DEF TypeInv, TypeOK
  <2>2. CASE AcceptOnly(h)
    BY <1>1, <2>1, <2>2 DEF AcceptOnly, ride_vars, Txn
  <2>3. CASE StoreEvent(h)
    BY <1>1, <2>1, <2>3 DEF StoreEvent, ride_vars, Txn
  <2> QED
    BY <2>2, <2>3
<1>4. Sees(h) \subseteq Sees(h)'
  BY <1>3 DEF Sees, Unexpired
<1>5. txn[h].orm.deleteAfter <= txn[h].at
      => txn'[h].orm.deleteAfter <= txn[h].at
  <2>1. CASE AcceptOnly(h)
    BY <1>1, <2>1 DEF AcceptOnly, TypeInv, TypeOK, Txn
  <2>2. CASE StoreEvent(h)
    <3>1. ExpiresAt(h, e) > txn[h].at
      BY <2>2 DEF StoreEvent, New
    <3> QED
      BY <1>2, <3>1 DEF ExpiresAt, Smaller
  <2> QED
    BY <2>1, <2>2
<1>6. Kept(h, e)'
  <2>1. CASE AcceptOnly(h)
    <3>1. e \in Ids(Sees(h)) \/ ExpiresAt(h, e) <= txn[h].at
      BY <1>1, <2>1 DEF AcceptOnly, JournalInv, Pending
    <3>2. ExpiresAt(h, e) <= txn[h].at
          => \/ ClientExpiry[e] <= txn[h].at
             \/ txn[h].orm.deleteAfter <= txn[h].at
      BY <1>2 DEF ExpiresAt, Smaller
    <3> QED
      BY <1>3, <1>4, <1>5, <3>1, <3>2 DEF Kept, Ids
  <2>2. CASE StoreEvent(h)
    <3>1. RowFor(h, e) \in Sees(h)'
      BY <1>1, <2>2 DEF StoreEvent, Sees, TypeInv, TypeOK, Txn
    <3>2. RowFor(h, e).id = e
      BY DEF RowFor
    <3> QED
      BY <3>1, <3>2 DEF Kept, Ids
  <2> QED
    BY <2>1, <2>2
<1>7. \A f \in txn[h].accepted : phase[h] = "storing" /\ Kept(h, f) => Kept(h, f)'
  BY <1>3, <1>4, <1>5 DEF Kept, Ids
<1>8. \A g \in Handlers \ {h} : Sees(g)' = Sees(g)
  BY <1>3 DEF Sees, Unexpired
<1>9. \A g \in Handlers \ {h}, f \in Events : Kept(g, f) => Kept(g, f)'
  BY <1>3, <1>8 DEF Kept
<1>10. phase[h] = "storing"
  BY DEF AcceptOnly, StoreEvent
<1>11. \A g \in Handlers : txn[g].accepted \subseteq Events
  BY DEF TypeInv, TypeOK, Txn
<1> QED
  BY <1>3, <1>6, <1>7, <1>9, <1>10, <1>11 DEF KeptInv

(* The lock is granted: nothing is accepted yet. *)
LEMMA KeptLock ==
  ASSUME TypeInv, KeptInv, NEW h \in Handlers, Lock(h)
  PROVE  KeptInv'
<1>1. /\ now' = now /\ rows' = rows
      /\ \A g \in Handlers \ {h} : txn'[g] = txn[g] /\ phase'[g] = phase[g]
      /\ txn'[h].at = txn[h].at
      /\ phase'[h] = "storing" => txn'[h].accepted = {}
  <2>1. txn \in [Handlers -> Txn] /\ phase \in [Handlers -> Phases]
    BY DEF TypeInv, TypeOK
  <2> QED
    BY <2>1 DEF Lock, ride_vars, Txn
<1>2. \A g \in Handlers \ {h} : Sees(g)' = Sees(g)
  BY <1>1 DEF Sees, Unexpired
<1>3. \A g \in Handlers \ {h}, e \in Events : Kept(g, e) => Kept(g, e)'
  BY <1>1, <1>2 DEF Kept
<1>4. \A g \in Handlers : txn[g].accepted \subseteq Events
  BY DEF TypeInv, TypeOK, Txn
<1> QED
  BY <1>1, <1>3, <1>4 DEF KeptInv

(* A call that arrives or is over has accepted nothing. *)
LEMMA KeptOver ==
  ASSUME TypeInv, KeptInv, NEW h \in Handlers,
         Arrive(h) \/ Refuse(h) \/ Finish(h)
  PROVE  KeptInv'
<1>1. /\ now' = now
      /\ \A g \in Handlers \ {h} : txn'[g] = txn[g] /\ phase'[g] = phase[g]
      /\ txn'[h].at <= now
      /\ phase'[h] # "storing"
  <2>1. /\ txn \in [Handlers -> Txn] /\ phase \in [Handlers -> Phases]
        /\ now \in Nat /\ NoTxn.at = 0
    BY DEF TypeInv, TypeOK, NoTxn
  <2>2. CASE Refuse(h)
    BY <2>1, <2>2 DEF Refuse
  <2>3. CASE Finish(h)
    BY <2>1, <2>3 DEF Finish, Commit, CommitReplay, CommitWith
  <2>4. CASE Arrive(h)
    <3> PICK req : Receive(h, req)
      BY <2>4 DEF Arrive
    <3>1. [NoTxn EXCEPT !.req = req, !.at = now, !.loaded = ride].at = now
      BY NoTxnType DEF Txn
    <3> QED
      BY <2>1, <3>1 DEF Receive
  <2> QED
    BY <2>2, <2>3, <2>4
<1>2. \A g \in Handlers \ {h} : phase[g] = "storing" => rows' = rows
  <2>1. CASE Finish(h)
    <3>1. h \in Locking
      BY <2>1 DEF Finish, Commit, CommitReplay, Locking
    <3> QED
      BY <3>1 DEF TypeInv, LockInv, Locking
  <2>2. CASE Arrive(h) \/ Refuse(h)
    BY <2>2 DEF Arrive, Receive, Refuse, ride_vars
  <2> QED
    BY <2>1, <2>2
<1>3. \A g \in Handlers \ {h} : phase[g] = "storing" => Sees(g)' = Sees(g)
  BY <1>1, <1>2 DEF Sees, Unexpired
<1>4. \A g \in Handlers \ {h}, e \in Events :
        phase[g] = "storing" /\ Kept(g, e) => Kept(g, e)'
  BY <1>1, <1>3 DEF Kept
<1>5. \A g \in Handlers : txn[g].accepted \subseteq Events
  BY DEF TypeInv, TypeOK, Txn
<1> QED
  BY <1>1, <1>4, <1>5 DEF KeptInv

LEMMA KeptStep ==
  ASSUME TypeInv, JournalInv, KeptInv, [Next]_vars
  PROVE  KeptInv'
<1>1. ASSUME NEW h \in Handlers,
             \/ Arrive(h) \/ RefuseClaim(h) \/ RefuseRide(h)
             \/ RefuseEvent(h) \/ RefuseReplay(h) \/ Finish(h)
      PROVE  KeptInv'
  <2>1. Arrive(h) \/ Refuse(h) \/ Finish(h)
    BY <1>1 DEF RefuseClaim, RefuseRide, RefuseEvent, RefuseReplay
  <2> QED
    BY <2>1, KeptOver
<1>2. ASSUME NEW h \in Handlers, Lock(h) PROVE KeptInv'
  BY <1>2, KeptLock
<1>3. ASSUME NEW h \in Handlers, AcceptOnly(h) \/ StoreEvent(h) PROVE KeptInv'
  BY <1>3, KeptTurn
<1>4. CASE \/ \E d \in Devices, kind \in {"read", "publish", "clear"} :
                PresenceSync(d, kind)
           \/ CleanupScan \/ CleanupDelete \/ Tick \/ UNCHANGED vars
  <2>1. UNCHANGED <<phase, txn>> /\ now' \in {now, now + 1}
    BY <1>4 DEF PresenceSync, CleanupScan, CleanupDelete, Tick, vars, ride_vars
  <2>2. \A g \in Handlers : phase[g] = "storing" => rows' = rows
    BY <1>4 DEF PresenceSync, CleanupScan, CleanupDelete, Tick, vars, ride_vars,
                LockFree, Locking
  <2>3. \A g \in Handlers : phase[g] = "storing" => Sees(g)' = Sees(g)
    BY <2>1, <2>2 DEF Sees, Unexpired
  <2>4. \A g \in Handlers, e \in Events :
          phase[g] = "storing" /\ Kept(g, e) => Kept(g, e)'
    BY <2>1, <2>3 DEF Kept
  <2>5. \A g \in Handlers : txn'[g].at <= now'
    BY <2>1 DEF KeptInv, TypeInv, TypeOK, Txn
  <2>6. \A g \in Handlers : txn[g].accepted \subseteq Events
    BY DEF TypeInv, TypeOK, Txn
  <2> QED
    BY <2>1, <2>4, <2>5, <2>6 DEF KeptInv
<1> QED
  BY <1>1, <1>2, <1>3, <1>4 DEF Next, Handle

(* The commit makes good what was accepted. *)
LEMMA KeptFinish ==
  ASSUME TypeInv, JournalInv, KeptInv, NEW h \in Handlers, Finish(h),
         phase[h] = "storing", NEW e \in txn[h].accepted
  PROVE  \/ e \in everStored'
         \/ ClientExpiry[e] <= now
         \/ txn[h].orm.deleteAfter <= now
<1>1. Kept(h, e) /\ txn[h].at <= now /\ e \in Events
  BY DEF KeptInv, TypeInv, TypeOK, Txn
<1>2. /\ txn[h].at \in Nat /\ now \in Nat
      /\ ClientExpiry[e] \in Nat
      /\ txn[h].orm.deleteAfter \in Int
  BY <1>1, FinishChanges, EventAssumption
     DEF TypeInv, TypeOK, LockInv, Txn, RideRow
<1>3. e \in Ids(Sees(h)) => e \in everStored'
  BY FinishChanges
<1> QED
  BY <1>1, <1>2, <1>3 DEF Kept

(* What the relay says it accepted it has stored at some time, unless the  *)
(* event or the ride had already expired (_store_events).                  *)
THEOREM AcceptedKept == Spec => AcceptedIsKept
<1>1. Init => KeptInv
  BY KeptInit
<1>2. TypeInv /\ JournalInv /\ KeptInv /\ [Next]_vars => KeptInv'
  BY KeptStep
<1>3. TypeInv /\ JournalInv /\ KeptInv /\ [Next]_vars =>
        [\A h \in Handlers : phase[h] = "storing" /\ Finish(h) =>
           \A e \in txn[h].accepted :
             \/ e \in everStored'
             \/ ClientExpiry[e] <= now
             \/ txn[h].orm.deleteAfter <= now]_vars
  BY KeptFinish
<1> QED
  BY <1>1, <1>2, <1>3, JournalInvariant, PTL DEF Spec, AcceptedIsKept

-----------------------------------------------------------------------------
(***************************************************************************)
(* Live positions and the end of the ride.                                 *)
(***************************************************************************)

(* What a transaction has added is of its batch, and so is what it has     *)
(* still to do; one that repeats a stored outcome adds nothing.            *)
Carried(t, e) == \E i \in DOMAIN t.req.events : t.req.events[i] = e

BatchInv ==
  \A h \in Handlers :
    /\ phase[h] = "storing" =>
         /\ \A r \in txn[h].added : Carried(txn[h], r.id)
         /\ \A i \in DOMAIN txn[h].todo : Carried(txn[h], txn[h].todo[i])
    /\ phase[h] = "replaying" => txn[h].added = {}

LEMMA BatchInit == Init => BatchInv
BY DEF Init, BatchInv

(* A step after which each handler under the lock was under it before and  *)
(* holds what it held.                                                     *)
LEMMA BatchQuiet ==
  ASSUME BatchInv,
         \A h \in Handlers : phase'[h] \in {"storing", "replaying"} =>
           phase'[h] = phase[h] /\ txn'[h] = txn[h]
  PROVE  BatchInv'
BY DEF BatchInv, Carried

LEMMA BatchLock ==
  ASSUME TypeInv, JournalInv, BatchInv, NEW h \in Handlers, Lock(h)
  PROVE  BatchInv'
<1>1. /\ phase \in [Handlers -> Phases]
      /\ txn \in [Handlers -> Txn]
      /\ Locking = {}
  BY DEF TypeInv, TypeOK, Lock, LockFree
<1>2. /\ \A g \in Handlers \ {h} : phase'[g] = phase[g] /\ txn'[g] = txn[g]
      /\ txn'[h].added = txn[h].added
      /\ txn'[h].todo = txn[h].req.events
      /\ txn'[h].req = txn[h].req
  BY <1>1 DEF Lock, Txn
<1>3. txn[h].added = {}
  BY <1>1 DEF JournalInv
<1>4. \A g \in Handlers \ {h} : phase'[g] \notin {"storing", "replaying"}
  BY <1>1, <1>2 DEF Locking
<1> QED
  BY <1>2, <1>3, <1>4 DEF BatchInv, Carried

LEMMA BatchTurn ==
  ASSUME TypeInv, BatchInv, NEW h \in Handlers, AcceptOnly(h) \/ StoreEvent(h)
  PROVE  BatchInv'
<1>1. /\ phase[h] = "storing" /\ phase' = phase
      /\ txn \in [Handlers -> Txn]
      /\ txn[h].todo \in Seq(Events)
      /\ txn[h].todo # <<>>
  BY DEF TypeInv, TypeOK, Txn, AcceptOnly, StoreEvent
<1> PICK e : e = Head(txn[h].todo)
  OBVIOUS
<1>2. /\ \A g \in Handlers \ {h} : txn'[g] = txn[g]
      /\ txn'[h].todo = Tail(txn[h].todo)
      /\ txn'[h].req = txn[h].req
      /\ \A r \in txn'[h].added : r \in txn[h].added \/ r.id = e
  <2>1. CASE AcceptOnly(h)
    BY <1>1, <2>1 DEF AcceptOnly, Txn
  <2>2. CASE StoreEvent(h)
    <3>1. RowFor(h, e).id = e
      BY DEF RowFor
    <3>2. txn'[h].added = txn[h].added \cup {RowFor(h, e)}
      BY <1>1, <2>2 DEF StoreEvent, Txn
    <3>3. /\ \A g \in Handlers \ {h} : txn'[g] = txn[g]
          /\ txn'[h].todo = Tail(txn[h].todo)
          /\ txn'[h].req = txn[h].req
      BY <1>1, <2>2 DEF StoreEvent, Txn
    <3> QED
      BY <3>1, <3>2, <3>3
  <2> QED
    BY <2>1, <2>2
<1>3. /\ e = txn[h].todo[1] /\ 1 \in DOMAIN txn[h].todo
      /\ \A i \in DOMAIN Tail(txn[h].todo) :
           /\ i + 1 \in DOMAIN txn[h].todo
           /\ Tail(txn[h].todo)[i] = txn[h].todo[i + 1]
  BY <1>1
<1>4. Carried(txn[h], e) /\ \A i \in DOMAIN txn[h].todo : Carried(txn[h], txn[h].todo[i])
  BY <1>1, <1>3 DEF BatchInv
<1>5. \A f : Carried(txn[h], f) => Carried(txn'[h], f)
  BY <1>2 DEF Carried
<1>6. \A r \in txn'[h].added : Carried(txn'[h], r.id)
  BY <1>1, <1>2, <1>4, <1>5 DEF BatchInv
<1>7. \A i \in DOMAIN txn'[h].todo : Carried(txn'[h], txn'[h].todo[i])
  BY <1>2, <1>3, <1>4, <1>5
<1>8. \A g \in Handlers \ {h} : phase'[g] = phase[g] /\ txn'[g] = txn[g]
  BY <1>1, <1>2
<1>9. phase'[h] = "storing"
  BY <1>1
<1> QED
  BY <1>6, <1>7, <1>8, <1>9 DEF BatchInv, Carried

LEMMA BatchStep ==
  ASSUME TypeInv, JournalInv, BatchInv, [Next]_vars
  PROVE  BatchInv'
<1>1. ASSUME NEW h \in Handlers,
             \/ Arrive(h) \/ RefuseClaim(h) \/ RefuseRide(h)
             \/ RefuseEvent(h) \/ RefuseReplay(h) \/ Finish(h)
      PROVE  BatchInv'
  <2>1. phase \in [Handlers -> Phases] /\ txn \in [Handlers -> Txn]
    BY DEF TypeInv, TypeOK
  <2>2. Refuse(h) \/ Arrive(h) \/ Finish(h)
    BY <1>1 DEF RefuseClaim, RefuseRide, RefuseEvent, RefuseReplay
  <2>3. /\ phase'[h] \in {"idle", "open"}
        /\ \A g \in Handlers \ {h} : phase'[g] = phase[g] /\ txn'[g] = txn[g]
    <3>1. CASE Refuse(h)
      BY <2>1, <3>1 DEF Refuse
    <3>2. CASE Arrive(h)
      <4> PICK req : Receive(h, req)
        BY <3>2 DEF Arrive
      <4> QED
        BY <2>1 DEF Receive
    <3>3. CASE Finish(h)
      BY <2>1, <3>3 DEF Finish, Commit, CommitReplay, CommitWith
    <3> QED
      BY <2>2, <3>1, <3>2, <3>3
  <2> QED
    BY <2>3, BatchQuiet
<1>2. ASSUME NEW h \in Handlers, Lock(h) PROVE BatchInv'
  BY <1>2, BatchLock
<1>3. ASSUME NEW h \in Handlers, AcceptOnly(h) \/ StoreEvent(h) PROVE BatchInv'
  BY <1>3, BatchTurn
<1>4. CASE \/ \E d \in Devices, kind \in {"read", "publish", "clear"} :
                PresenceSync(d, kind)
           \/ CleanupScan \/ CleanupDelete \/ Tick \/ UNCHANGED vars
  <2>1. UNCHANGED <<phase, txn>>
    BY <1>4 DEF PresenceSync, CleanupScan, CleanupDelete, Tick, vars
  <2> QED
    BY <2>1, BatchQuiet
<1> QED
  BY <1>1, <1>2, <1>3, <1>4 DEF Next, Handle

(* A set of numbers has a least one, and one with an upper bound a         *)
(* greatest: the one whose difference to the bound is least.               *)
LEMMA Least ==
  ASSUME NEW T \in SUBSET Nat, T # {}
  PROVE  \E x \in T : \A y \in T : x <= y
<1>1. IsWellFoundedOn(OpToRel(<, Nat), Nat)
  BY NatLessThanWellFounded
<1>2. PICK x \in T : \A y \in T : ~(<<y, x>> \in OpToRel(<, Nat))
  BY <1>1, WFMin
<1>3. \A y \in T : ~(y < x)
  BY <1>2 DEF OpToRel
<1> QED
  BY <1>3

LEMMA Greatest ==
  ASSUME NEW T \in SUBSET Nat, T # {}, NEW n \in Nat, \A x \in T : x <= n
  PROVE  \E x \in T : \A y \in T : y <= x
<1> DEFINE D == {z \in Nat : \E x \in T : z = n - x}
<1>1. PICK z \in D : \A y \in D : z <= y
  <2>1. PICK x \in T : TRUE
    OBVIOUS
  <2>2. n - x \in D
    BY <2>1
  <2> QED
    BY <2>2, Least
<1>2. PICK x \in T : z = n - x
  OBVIOUS
<1>3. \A y \in T : n - y \in D
  OBVIOUS
<1> QED
  BY <1>1, <1>2, <1>3

(* The last word of a batch is an end or a reopen, if it has a word of     *)
(* either at all.                                                          *)
LEMMA LastWord ==
  ASSUME NEW batch \in Seq(Events),
         ~BatchEndsRide(batch), ~LastWordReopens(batch)
  PROVE  \A i \in DOMAIN batch :
           EventType[batch[i]] \notin {"rideEnded", "rideReopened"}
<1> DEFINE T == {i \in DOMAIN batch :
                   EventType[batch[i]] \in {"rideEnded", "rideReopened"}}
<1>1. /\ T \in SUBSET Nat
      /\ Len(batch) \in Nat
      /\ \A i \in T : i <= Len(batch)
  OBVIOUS
<1>2. ASSUME T # {} PROVE FALSE
  <2>1. PICK i \in T : \A j \in T : j <= i
    <3> HIDE DEF T
    <3> QED
      BY <1>1, <1>2, Greatest
  <2> QED
    BY <2>1 DEF BatchEndsRide, LastWordReopens
<1> QED
  BY <1>2

(* Dropping rows ends a ride only if a reopen is among them.               *)
LEMMA PhaseOfFewer ==
  ASSUME NEW R \in SUBSET Row, NEW Q \in SUBSET Row,
         \A r \in Q \ R : EventType[r.id] \notin {"rideEnded", "rideReopened"},
         \A r \in R \ Q : EventType[r.id] # "rideReopened",
         RidePresencePhase(Q) = "ended"
  PROVE  RidePresencePhase(R) = "ended"
<1>1. PICK e \in OfType(Q, "rideEnded") :
        \A o \in OfType(Q, "rideReopened") : o.seq < e.seq
  BY DEF RidePresencePhase
<1>2. e \in OfType(R, "rideEnded")
  BY DEF OfType
<1>3. OfType(R, "rideReopened") \subseteq OfType(Q, "rideReopened")
  BY DEF OfType
<1> QED
  BY <1>1, <1>2, <1>3 DEF RidePresencePhase

(* A commit leaves positions with an ended ride only in the two ways.      *)
LEMMA EndingCommit ==
  ASSUME TypeInv, JournalInv, BatchInv, NEW h \in Handlers, Finish(h),
         EndedWithPositions',
         ~EndedWithPositions,
         \A r \in rows \ rows' : EventType[r.id] # "rideReopened"
  PROVE  LastWordReopens(txn[h].req.events)
<1> SUFFICES ASSUME ~LastWordReopens(txn[h].req.events) PROVE FALSE
  OBVIOUS
<1>1. /\ rows' = Sees(h)
      /\ Sees(h) \subseteq Row
      /\ rows \subseteq Row
      /\ \A r \in rows' \ rows : r \in txn[h].added
  BY FinishChanges, SeesType DEF TypeInv, TypeOK
<1>2. presence' = presence /\ phase[h] = "storing" => ~BatchEndsRide(txn[h].req.events)
  BY DEF Finish, Commit, CommitReplay, EndedWithPositions
<1>3. presence' = presence
  BY DEF Finish, Commit, CommitReplay, EndedWithPositions
<1>4. \A r \in rows' \ rows : EventType[r.id] \notin {"rideEnded", "rideReopened"}
  <2>1. CASE phase[h] = "storing"
    <3>1. txn[h].req.events \in Seq(Events)
      BY DEF TypeInv, TypeOK, Txn, Request
    <3>2. \A i \in DOMAIN txn[h].req.events :
            EventType[txn[h].req.events[i]] \notin {"rideEnded", "rideReopened"}
      BY <1>2, <1>3, <2>1, <3>1, LastWord
    <3> QED
      BY <1>1, <2>1, <3>2 DEF BatchInv, Carried
  <2>2. CASE phase[h] = "replaying"
    BY <1>1, <2>2 DEF BatchInv
  <2> QED
    BY <2>1, <2>2 DEF Finish, Commit, CommitReplay
<1>5. RidePresencePhase(rows) = "ended"
  BY <1>1, <1>4, PhaseOfFewer DEF EndedWithPositions
<1> QED
  BY <1>3, <1>5 DEF EndedWithPositions

(* Nothing else adds a row, and only a device that finds the ride running  *)
(* adds a position.                                                        *)
LEMMA EndingElsewhere ==
  ASSUME TypeInv, [Next]_vars, \A h \in Handlers : ~Finish(h),
         EndedWithPositions',
         \A r \in rows \ rows' : EventType[r.id] # "rideReopened"
  PROVE  EndedWithPositions
<1>1. \/ \E d \in Devices, kind \in {"read", "publish", "clear"} :
            PresenceSync(d, kind)
      \/ rows' \subseteq rows /\ presence' \subseteq presence
  <2>1. ASSUME NEW h \in Handlers, Arrive(h) \/ RefuseClaim(h) \/ Handle(h)
        PROVE  rows' = rows /\ presence' = presence
    <3>1. CASE Arrive(h)
      BY <3>1 DEF Arrive, Receive, ride_vars
    <3>2. CASE \/ RefuseClaim(h) \/ RefuseRide(h) \/ RefuseEvent(h)
               \/ RefuseReplay(h)
      BY <3>2 DEF RefuseClaim, RefuseRide, RefuseEvent, RefuseReplay, Refuse,
                  ride_vars
    <3>3. CASE Lock(h) \/ AcceptOnly(h) \/ StoreEvent(h)
      BY <3>3 DEF Lock, AcceptOnly, StoreEvent, ride_vars
    <3> QED
      BY <2>1, <3>1, <3>2, <3>3 DEF Handle
  <2>2. CASE CleanupScan \/ Tick \/ UNCHANGED vars
    BY <2>2 DEF CleanupScan, Tick, vars, ride_vars
  <2>3. CASE CleanupDelete
    BY <2>3 DEF CleanupDelete, Unexpired
  <2> QED
    BY <2>1, <2>2, <2>3 DEF Next
<1>2. CASE \E d \in Devices, kind \in {"read", "publish", "clear"} :
             PresenceSync(d, kind)
  BY <1>2 DEF PresenceSync, EndedWithPositions
<1>3. CASE rows' \subseteq rows /\ presence' \subseteq presence
  <2>1. rows \subseteq Row /\ rows' \subseteq Row
    BY <1>3 DEF TypeInv, TypeOK
  <2>2. RidePresencePhase(rows) = "ended"
    BY <1>3, <2>1, PhaseOfFewer DEF EndedWithPositions
  <2> QED
    BY <1>3, <2>2 DEF EndedWithPositions
<1> QED
  BY <1>1, <1>2, <1>3

(* The end of the ride discards the live positions, whatever devices       *)
(* publish meanwhile, and no call brings them back: the ride is reported   *)
(* ended and has positions only after a reopen expired before the end it   *)
(* undid, or after a batch whose last word reopens (synchronize,           *)
(* synchronize_pre_start_presence).                                        *)
THEOREM PositionsDiscarded == Spec => EndedRideHasNoPositions
<1>1. Init => BatchInv
  BY BatchInit
<1>2. TypeInv /\ JournalInv /\ BatchInv /\ [Next]_vars => BatchInv'
  BY BatchStep
<1>3. TypeInv /\ JournalInv /\ BatchInv /\ [Next]_vars =>
        [EndedWithPositions' =>
           \/ EndedWithPositions
           \/ \E r \in rows \ rows' : EventType[r.id] = "rideReopened"
           \/ \E h \in Handlers :
                LastWordReopens(txn[h].req.events) /\ Finish(h)]_vars
  BY EndingCommit, EndingElsewhere
<1> QED
  BY <1>1, <1>2, <1>3, JournalInvariant, PTL DEF Spec, EndedRideHasNoPositions

-----------------------------------------------------------------------------
(***************************************************************************)
(* No call is stuck.  ENABLED is out of the prover's reach; what NoCall-   *)
(* Stuck says of it is proved of the guards: of the steps a handler may    *)
(* take next, one has its guard met.  The commit is the one for which this *)
(* takes an argument: there is a page it may answer with.                  *)
(***************************************************************************)
(* The handlers' guards, in the order of Handle's disjuncts.               *)
MayRefuseRide(h) ==
  /\ phase[h] = "open" /\ LockFree
  /\ (txn[h].loaded # NoRide /\ ride = NoRide) \/ Held(h).token # txn[h].req.token
MayLock(h) ==
  /\ phase[h] = "open" /\ LockFree
  /\ ~(txn[h].loaded # NoRide /\ ride = NoRide)
  /\ Held(h).token = txn[h].req.token
MayAcceptOnly(h) ==
  /\ phase[h] = "storing" /\ txn[h].todo # <<>>
  /\ Head(txn[h].todo) \in txn[h].existing \/ ExpiresAt(h, Head(txn[h].todo)) <= txn[h].at
MayStoreEvent(h) ==
  /\ phase[h] = "storing" /\ txn[h].todo # <<>>
  /\ New(h, Head(txn[h].todo)) /\ txn[h].orm.count + 1 <= MaxEvents
MayRefuseEvent(h) ==
  /\ phase[h] = "storing" /\ txn[h].todo # <<>>
  /\ New(h, Head(txn[h].todo)) /\ txn[h].orm.count + 1 > MaxEvents
TooManyReplays(h) ==
  txn[h].req.events # <<>> /\ Cardinality(LiveReplays(h)) + 1 > MaxReplays
MayRefuseReplay(h) ==
  phase[h] = "storing" /\ txn[h].todo = <<>> /\ TooManyReplays(h)
HasAnswer(h) ==
  \E page \in Pages(h), cursor \in minted \cup Seqs(Sees(h)) : IsCursor(h, page, cursor)
MayFinish(h) ==
  /\ \/ (phase[h] = "storing" /\ txn[h].todo = <<>> /\ ~TooManyReplays(h))
     \/ phase[h] = "replaying"
  /\ HasAnswer(h)

MayGoOn(h) ==
  \/ MayRefuseRide(h) \/ MayLock(h) \/ MayAcceptOnly(h) \/ MayStoreEvent(h)
  \/ MayRefuseEvent(h) \/ MayRefuseReplay(h) \/ MayFinish(h)

(* A call was made from a cursor the relay has given out.                  *)
GivenOut == \A h \in Handlers : phase[h] # "idle" => txn[h].req.cursor \in minted

LEMMA GivenOutInit == Init => GivenOut
BY DEF Init, GivenOut

LEMMA GivenOutStep ==
  ASSUME TypeInv, GivenOut, [Next]_vars
  PROVE  GivenOut'
<1>1. phase \in [Handlers -> Phases] /\ txn \in [Handlers -> Txn]
  BY DEF TypeInv, TypeOK
<1>2. ASSUME minted \subseteq minted',
             NEW h \in Handlers,
             \A g \in Handlers \ {h} : phase'[g] = phase[g] /\ txn'[g] = txn[g],
             phase'[h] # "idle" => txn'[h].req.cursor \in minted'
      PROVE  GivenOut'
  BY <1>2 DEF GivenOut
<1>3. ASSUME NEW h \in Handlers, Arrive(h) PROVE GivenOut'
  <2>1. PICK token \in Tokens, cursor \in minted, events \in Batches :
          Receive(h, [token |-> token, cursor |-> cursor, events |-> events])
    BY <1>3 DEF Arrive
  <2>2. /\ minted' = minted
        /\ \A g \in Handlers \ {h} : phase'[g] = phase[g] /\ txn'[g] = txn[g]
    BY <1>1, <2>1 DEF Receive
  <2>3. txn'[h].req.cursor = cursor
    BY <1>1, <2>1, NoTxnType DEF Receive, Txn
  <2> QED
    BY <1>2, <2>2, <2>3
<1>4. ASSUME NEW h \in Handlers,
             \/ RefuseClaim(h) \/ RefuseRide(h) \/ RefuseEvent(h) \/ RefuseReplay(h)
             \/ Finish(h)
      PROVE  GivenOut'
  <2>1. /\ phase' = [phase EXCEPT ![h] = "idle"] /\ txn' = [txn EXCEPT ![h] = NoTxn]
        /\ minted \subseteq minted'
    BY <1>4 DEF RefuseClaim, RefuseRide, RefuseEvent, RefuseReplay, Refuse, Finish,
                Commit, CommitReplay, CommitWith
  <2> QED
    BY <1>1, <1>2, <2>1
<1>5. ASSUME NEW h \in Handlers, Lock(h) \/ AcceptOnly(h) \/ StoreEvent(h)
      PROVE  GivenOut'
  <2>1. minted' = minted /\ phase[h] # "idle"
    BY <1>5 DEF Lock, AcceptOnly, StoreEvent
  <2>2. /\ \A g \in Handlers \ {h} : phase'[g] = phase[g] /\ txn'[g] = txn[g]
        /\ txn'[h].req = txn[h].req
    <3>1. CASE Lock(h)
      BY <1>1, <3>1 DEF Lock, Txn
    <3>2. CASE AcceptOnly(h)
      BY <1>1, <3>2 DEF AcceptOnly, Txn
    <3>3. CASE StoreEvent(h)
      BY <1>1, <3>3 DEF StoreEvent, Txn
    <3> QED
      BY <1>5, <3>1, <3>2, <3>3
  <2> QED
    BY <1>2, <2>1, <2>2 DEF GivenOut
<1>6. CASE \/ \E d \in Devices, kind \in {"read", "publish", "clear"} :
                PresenceSync(d, kind)
           \/ CleanupScan \/ CleanupDelete \/ Tick \/ UNCHANGED vars
  <2>1. UNCHANGED <<minted, phase, txn>>
    BY <1>6 DEF PresenceSync, CleanupScan, CleanupDelete, Tick, vars
  <2> QED
    BY <2>1 DEF GivenOut
<1> QED
  BY <1>3, <1>4, <1>5, <1>6 DEF Next, Handle

(* A page with the oldest row the caller has not seen is an answer, and so *)
(* is an empty one if there is none.                                       *)
LEMMA AnswerExists ==
  ASSUME TypeInv, JournalInv, GivenOut, NEW h \in Locking
  PROVE  HasAnswer(h)
<1> DEFINE c == txn[h].req.cursor
<1> DEFINE visible == {r \in Sees(h) : r.seq > c}
<1>1. /\ Sees(h) \subseteq Row /\ c \in minted /\ Pending(h)
  BY SeesType DEF TypeInv, GivenOut, JournalInv, Locking
<1>2. CASE visible = {}
  <2>1. IsPage(h, {})
    BY <1>2, LimitAssumption, FS_EmptySet DEF IsPage
  <2>2. IsCursor(h, {}, c)
    BY DEF IsCursor
  <2>3. {} \in SUBSET Sees(h) /\ c \in minted \cup Seqs(Sees(h))
    BY <1>1
  <2> HIDE DEF c
  <2> QED
    BY <2>1, <2>2, <2>3 DEF HasAnswer, Pages
<1>3. CASE visible # {}
  <2> DEFINE T == {r.seq : r \in visible}
  <2>1. T \in SUBSET Nat /\ T # {}
    BY <1>1, <1>3 DEF Row
  <2>2. PICK n \in T : \A m \in T : n <= m
    <3> HIDE DEF T
    <3> QED
      BY <2>1, Least
  <2>3. PICK r \in visible : r.seq = n
    OBVIOUS
  <2>4. \A v \in visible : r.seq <= v.seq /\ v.seq \in Nat /\ r.seq \in Nat
    BY <2>1, <2>2, <2>3
  <2>5. {r} \subseteq visible /\ {r} # {}
    BY <2>3
  <2>6. Cardinality({r}) <= MaxDownload
    <3>1. Cardinality({r}) = 1
      BY FS_Singleton
    <3> QED
      BY <3>1, LimitAssumption
  <2>7. \A q \in {r}, v \in visible : v.seq < q.seq => v \in {r}
    <3> HIDE DEF visible
    <3> QED
      BY <2>4
  <2>8. IsPage(h, {r})
    BY <2>5, <2>6, <2>7 DEF IsPage
  <2>9. r.seq \in Seqs({r}) /\ r.seq \in Seqs(Sees(h)) /\ r.seq <= r.seq
    <3>1. r \in Sees(h) /\ r.seq \in Nat
      BY <2>3, <2>4
    <3> QED
      BY <3>1 DEF Seqs
  <2>10. IsCursor(h, {r}, r.seq)
    BY <2>9 DEF IsCursor
  <2>11. {r} \in SUBSET Sees(h) /\ r.seq \in minted \cup Seqs(Sees(h))
    BY <2>3, <2>9
  <2> HIDE DEF visible
  <2> QED
    BY <2>8, <2>10, <2>11 DEF HasAnswer, Pages
<1> QED
  BY <1>2, <1>3

(* A call that has the ride's lock meets the guard of one of its next      *)
(* steps, and so does one that waits for it once the lock is free: in      *)
(* particular the page limit never leaves a commit without an answer       *)
(* (synchronize, _build_response).                                          *)
THEOREM CallsMayGoOn ==
  Spec => [](\A h \in Handlers : phase[h] # "idle" =>
               MayGoOn(h) \/ (phase[h] = "open" /\ ~LockFree))
<1> DEFINE Goal == \A h \in Handlers : phase[h] # "idle" =>
                     MayGoOn(h) \/ (phase[h] = "open" /\ ~LockFree)
<1>1. Init => GivenOut
  BY GivenOutInit
<1>2. TypeInv /\ GivenOut /\ [Next]_vars => GivenOut'
  BY GivenOutStep
<1>3. TypeInv /\ JournalInv /\ GivenOut => Goal
  <2> SUFFICES ASSUME TypeInv, JournalInv, GivenOut, NEW h \in Handlers,
                      phase[h] # "idle"
               PROVE  MayGoOn(h) \/ (phase[h] = "open" /\ ~LockFree)
    OBVIOUS
  <2>1. phase[h] \in {"open", "storing", "replaying"}
    BY DEF TypeInv, TypeOK, Phases
  <2>2. CASE phase[h] = "open"
    BY <2>2 DEF MayGoOn, MayRefuseRide, MayLock
  <2>3. CASE phase[h] = "storing" /\ txn[h].todo # <<>>
    <3>1. /\ txn[h] \in Txn /\ txn[h].orm \in RideRow /\ txn[h].todo \in Seq(Events)
      BY <2>3 DEF TypeInv, TypeOK, LockInv, Locking, Txn
    <3>2. Head(txn[h].todo) \in Events
      BY <2>3, <3>1
    <3>3. ExpiresAt(h, Head(txn[h].todo)) \in Int /\ txn[h].at \in Int
      BY <3>1, <3>2, ExpiresAtType DEF TypeInv, Txn
    <3>4. txn[h].orm.count + 1 \in Int /\ MaxEvents \in Int
      BY <3>1, LimitAssumption DEF RideRow
    <3>5. txn[h].orm.count + 1 <= MaxEvents \/ txn[h].orm.count + 1 > MaxEvents
      BY <3>4
    <3>6. New(h, Head(txn[h].todo)) \/ Head(txn[h].todo) \in txn[h].existing
            \/ ExpiresAt(h, Head(txn[h].todo)) <= txn[h].at
      BY <3>3 DEF New
    <3> QED
      BY <2>3, <3>5, <3>6 DEF MayGoOn, MayAcceptOnly, MayStoreEvent, MayRefuseEvent
  <2>4. CASE (phase[h] = "storing" /\ txn[h].todo = <<>>) \/ phase[h] = "replaying"
    <3>1. HasAnswer(h)
      BY <2>4, AnswerExists DEF Locking
    <3> QED
      BY <2>4, <3>1 DEF MayGoOn, MayRefuseReplay, MayFinish
  <2> QED
    BY <2>1, <2>2, <2>3, <2>4
<1> HIDE DEF Goal
<1>4. Spec => []Goal
  BY <1>1, <1>2, <1>3, JournalInvariant, PTL DEF Spec
<1> QED
  BY <1>4 DEF Goal

-----------------------------------------------------------------------------
(***************************************************************************)
(* A call is a bounded number of steps: one for the lock, one for each     *)
(* event of its batch, one for the answer.                                 *)
(***************************************************************************)
StepsLeft(h) ==
  IF phase[h] = "idle" THEN 0
  ELSE IF phase[h] = "open" THEN 2 + Len(txn[h].req.events)
  ELSE IF phase[h] = "storing" THEN 1 + Len(txn[h].todo)
  ELSE 1

CallsRunOut ==
  [][\A h \in Handlers :
       /\ RefuseClaim(h) \/ Handle(h) => StepsLeft(h)' < StepsLeft(h)
       /\ phase[h] # "idle" => StepsLeft(h)' <= StepsLeft(h)]_vars

LEMMA StepsLeftType ==
  ASSUME TypeInv, NEW h \in Handlers
  PROVE  /\ StepsLeft(h) \in Nat
         /\ phase[h] # "idle" => StepsLeft(h) > 0
         /\ Len(txn[h].req.events) \in Nat /\ Len(txn[h].todo) \in Nat
<1>1. txn[h].req.events \in Seq(Events) /\ txn[h].todo \in Seq(Events)
  BY DEF TypeInv, TypeOK, Txn, Request
<1>2. Len(txn[h].req.events) \in Nat /\ Len(txn[h].todo) \in Nat
  BY <1>1
<1> QED
  BY <1>2 DEF StepsLeft

(* A refusal and the answer end the call. *)
LEMMA OverIsLess ==
  ASSUME TypeInv, NEW h \in Handlers,
         \/ RefuseClaim(h) \/ RefuseRide(h) \/ RefuseEvent(h) \/ RefuseReplay(h)
         \/ Finish(h)
  PROVE  /\ StepsLeft(h)' \in Nat /\ StepsLeft(h)' < StepsLeft(h)
         /\ \A g \in Handlers \ {h} : phase'[g] = phase[g] /\ txn'[g] = txn[g]
<1>1. phase[h] # "idle" /\ phase' = [phase EXCEPT ![h] = "idle"] /\ txn' = [txn EXCEPT ![h] = NoTxn]
  BY DEF RefuseClaim, RefuseRide, RefuseEvent, RefuseReplay, Refuse, Finish,
         Commit, CommitReplay, CommitWith
<1>2. phase'[h] = "idle" /\ \A g \in Handlers \ {h} : phase'[g] = phase[g] /\ txn'[g] = txn[g]
  BY <1>1 DEF TypeInv, TypeOK
<1>3. StepsLeft(h)' = 0
  BY <1>2 DEF StepsLeft
<1> QED
  BY <1>1, <1>2, <1>3, StepsLeftType

(* So does the lock, which puts the batch to be stored, and every turn of  *)
(* the loop, which takes one event from it.                                *)
LEMMA TurnIsLess ==
  ASSUME TypeInv, NEW h \in Handlers, Lock(h) \/ AcceptOnly(h) \/ StoreEvent(h)
  PROVE  /\ StepsLeft(h)' \in Nat /\ StepsLeft(h)' < StepsLeft(h)
         /\ \A g \in Handlers \ {h} : phase'[g] = phase[g] /\ txn'[g] = txn[g]
<1>1. /\ phase \in [Handlers -> Phases] /\ txn \in [Handlers -> Txn]
      /\ txn[h].todo \in Seq(Events)
  BY DEF TypeInv, TypeOK, Txn
<1>2. CASE Lock(h)
  <2>1. /\ phase[h] = "open" /\ phase'[h] \in {"storing", "replaying"}
        /\ txn'[h].todo = txn[h].req.events
        /\ \A g \in Handlers \ {h} : phase'[g] = phase[g] /\ txn'[g] = txn[g]
    BY <1>1, <1>2 DEF Lock, Txn
  <2>2. StepsLeft(h) = 2 + Len(txn[h].req.events)
    BY <2>1 DEF StepsLeft
  <2>3. StepsLeft(h)' = 1 + Len(txn[h].req.events) \/ StepsLeft(h)' = 1
    BY <2>1 DEF StepsLeft
  <2> QED
    BY <2>1, <2>2, <2>3, StepsLeftType
<1>3. CASE AcceptOnly(h) \/ StoreEvent(h)
  <2>1. /\ phase[h] = "storing" /\ phase' = phase /\ txn[h].todo # <<>>
        /\ txn'[h].todo = Tail(txn[h].todo)
        /\ \A g \in Handlers \ {h} : txn'[g] = txn[g]
    <3>1. CASE AcceptOnly(h)
      BY <1>1, <3>1 DEF AcceptOnly, Txn
    <3>2. CASE StoreEvent(h)
      BY <1>1, <3>2 DEF StoreEvent, Txn
    <3> QED
      BY <1>3, <3>1, <3>2
  <2>2. Len(Tail(txn[h].todo)) < Len(txn[h].todo) /\ Len(Tail(txn[h].todo)) \in Nat
    BY <1>1, <2>1
  <2>3. StepsLeft(h) = 1 + Len(txn[h].todo) /\ StepsLeft(h)' = 1 + Len(Tail(txn[h].todo))
    BY <2>1 DEF StepsLeft
  <2> QED
    BY <2>1, <2>2, <2>3, StepsLeftType
<1> QED
  BY <1>2, <1>3

(* Every step a call takes brings it closer to its end, and no step of     *)
(* another call, of the presence endpoint or of the cleanup takes it       *)
(* further away: with CallsMayGoOn, a call that holds the ride's lock      *)
(* lets go of it after at most as many steps as its batch has events, and  *)
(* one (synchronize, _store_events).                                       *)
THEOREM CallsAreShort == Spec => CallsRunOut
<1> DEFINE Shorter(h) ==
      /\ RefuseClaim(h) \/ Handle(h) => StepsLeft(h)' < StepsLeft(h)
      /\ phase[h] # "idle" => StepsLeft(h)' <= StepsLeft(h)
<1>1. ASSUME TypeInv, NEW h \in Handlers, RefuseClaim(h) \/ Handle(h)
      PROVE  /\ StepsLeft(h)' \in Nat /\ StepsLeft(h)' < StepsLeft(h)
             /\ \A g \in Handlers \ {h} : phase'[g] = phase[g] /\ txn'[g] = txn[g]
  BY <1>1, OverIsLess, TurnIsLess DEF Handle
<1>2. ASSUME TypeInv, Next, NEW h \in Handlers PROVE Shorter(h)
  <2>1. StepsLeft(h) \in Nat
    BY <1>2, StepsLeftType
  <2>2. RefuseClaim(h) \/ Handle(h) =>
          StepsLeft(h)' < StepsLeft(h) /\ StepsLeft(h)' <= StepsLeft(h)
    BY <1>1, <1>2, <2>1
  <2>3. ASSUME phase'[h] = phase[h] /\ txn'[h] = txn[h]
        PROVE  StepsLeft(h)' <= StepsLeft(h)
    BY <2>1, <2>3 DEF StepsLeft
  <2>4. ASSUME NEW g \in Handlers, g # h, RefuseClaim(g) \/ Handle(g)
        PROVE  StepsLeft(h)' <= StepsLeft(h)
    BY <1>1, <1>2, <2>3, <2>4
  <2>5. ASSUME NEW g \in Handlers, Arrive(g), phase[h] # "idle"
        PROVE  StepsLeft(h)' <= StepsLeft(h)
    <3>1. phase'[h] = phase[h] /\ txn'[h] = txn[h]
      BY <1>2, <2>5 DEF Arrive, Receive, TypeInv, TypeOK
    <3> QED
      BY <2>3, <3>1
  <2>6. ASSUME \/ \E d \in Devices, kind \in {"read", "publish", "clear"} :
                    PresenceSync(d, kind)
               \/ CleanupScan \/ CleanupDelete \/ Tick
        PROVE  StepsLeft(h)' <= StepsLeft(h)
    <3>1. phase'[h] = phase[h] /\ txn'[h] = txn[h]
      BY <2>6 DEF PresenceSync, CleanupScan, CleanupDelete, Tick
    <3> QED
      BY <2>3, <3>1
  <2>7. phase[h] # "idle" => StepsLeft(h)' <= StepsLeft(h)
    BY <1>2, <2>2, <2>4, <2>5, <2>6 DEF Next
  <2> QED
    BY <2>2, <2>7
<1>3. TypeInv /\ Next =>
        \A h \in Handlers :
          /\ RefuseClaim(h) \/ Handle(h) => StepsLeft(h)' < StepsLeft(h)
          /\ phase[h] # "idle" => StepsLeft(h)' <= StepsLeft(h)
  BY <1>2
<1> QED
  BY <1>3, JournalInvariant, PTL DEF Spec, CallsRunOut
=============================================================================
