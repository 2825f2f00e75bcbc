--------------------------- MODULE AudienceProofs ---------------------------
(***************************************************************************)
(* Theorems about whom a ride is shown and told to: its observers          *)
(* (ObserverGrants) and the devices that registered for alerts             *)
(* (PushDispatch), for any number of devices, threads, grants, uploads and *)
(* calls and any limits.                                                   *)
(***************************************************************************)
EXTENDS ObserverGrants, PushDispatch, FiniteSetTheorems,
        WellFoundedInduction, TLAPS

-----------------------------------------------------------------------------
(***************************************************************************)
(* Observers.  GrantsBounded rests on the ride's lock (CountInv): while a  *)
(* creation has counted, no grant is added, so it still counts too few by  *)
(* the time it inserts; and what is active now was active at the earlier   *)
(* time it judged by.  NeverGoesBack rests on the grant's lock (ReadInv):  *)
(* what a publication merges into is what it has read.                     *)
(***************************************************************************)
Creating(t) == clerks[t] # NoGrant /\ clerks[t].kind = "create"

(* A call read the clock before; a creation's number is its own. *)
ClockInv == \A t \in Clerks : clerks[t] # NoGrant => clerks[t].at <= now

OwnNumber ==
  \A t \in Clerks : Creating(t) =>
    /\ clerks[t].n <= calls
    /\ grants[clerks[t].n] = NoGrant
    /\ seen[clerks[t].n] = NoGrant
    /\ \A u \in Clerks : Creating(u) /\ clerks[u].n = clerks[t].n => u = t

NumbersUsed == \A g \in GrantIds : grants[g] # NoGrant \/ seen[g] # NoGrant => g <= calls

CountInv ==
  /\ \A t \in Clerks : Doing(t, "create", "counted") =>
       Cardinality(ActiveAt(clerks[t].at)) < MaxGrants
  /\ \A t, u \in Clerks :
       Doing(t, "create", "counted") /\ Doing(u, "create", "counted") => t = u

ReadInv ==
  \A t \in Clerks : Doing(t, "publish", "read") =>
    LET g == clerks[t].grant IN
    /\ grants[g] # NoGrant
    /\ grants[g].snapshot = clerks[t].current
    /\ clerks[t].current["version"] < clerks[t].snapshot["version"]
    /\ \A u \in Clerks : Doing(u, "publish", "read") /\ clerks[u].grant = g => u = t

SeenInv ==
  \A g \in GrantIds :
    seen[g] # NoGrant /\ grants[g] # NoGrant /\ ~grants[g].revoked =>
      \A f \in Fields : seen[g][f] <= grants[g].snapshot[f]

ObserverInv ==
  /\ ObserverTypeOK /\ ClockInv /\ OwnNumber /\ NumbersUsed /\ CountInv /\ ReadInv /\ SeenInv
  /\ GrantsBounded /\ RevokedIsEmpty

-----------------------------------------------------------------------------
(* Records of calls are told apart by their kind, and from an idle clerk. *)
LEMMA ObserverShapes ==
  /\ NoGrant \notin Grant /\ NoGrant \notin GrantCall
  /\ NoGrant \notin PublishCall /\ NoGrant \notin Snapshot
BY ObserverAssumption

LEMMA GrantCallShape ==
  ASSUME ObserverTypeOK, NEW t \in Clerks, clerks[t] # NoGrant
  PROVE  /\ clerks[t].kind = "create" => clerks[t] \in GrantCall
         /\ clerks[t].kind = "publish" => clerks[t] \in PublishCall
         /\ clerks[t].kind \in {"create", "publish"}
         /\ clerks[t].at \in Nat
BY DEF ObserverTypeOK, GrantCall, PublishCall

(* The grants that are active in a table at a time. *)
ActiveIn(G, at) ==
  {g \in GrantIds : G[g] # NoGrant /\ ~G[g].revoked /\ G[g].expires > at}

LEMMA ActiveIsIn ==
  /\ \A at : ActiveAt(at) = ActiveIn(grants, at)
  /\ ActiveAt(now)' = ActiveIn(grants', now')
BY DEF ActiveAt, ActiveIn, Open

LEMMA ActiveFinite ==
  ASSUME NEW G, NEW at
  PROVE  IsFiniteSet(ActiveIn(G, at)) /\ Cardinality(ActiveIn(G, at)) \in Nat
<1>1. IsFiniteSet(GrantIds)
  BY FS_Interval, ServingAssumption DEF GrantIds
<1>2. ActiveIn(G, at) \subseteq GrantIds
  BY DEF ActiveIn
<1> QED
  BY <1>1, <1>2, FS_Subset, FS_CardinalityType

LEMMA ObserverInitHolds == ObserverInit /\ ServingInit => ObserverInv
<1> SUFFICES ASSUME ObserverInit, ServingInit PROVE ObserverInv
  OBVIOUS
<1> USE DEF ObserverInit, ServingInit
<1>1. ObserverTypeOK
  BY ServingAssumption DEF ObserverTypeOK, ServingTypeOK
<1>2. ActiveAt(now) = {}
  BY DEF ActiveAt, Open
<1>3. GrantsBounded
  BY <1>2, FS_EmptySet, ObserverAssumption DEF GrantsBounded
<1> QED
  BY <1>1, <1>3
     DEF ObserverInv, ClockInv, OwnNumber, Creating, NumbersUsed, CountInv, ReadInv, SeenInv, RevokedIsEmpty, Doing

(* The type of Merged, and that it replaces nothing by an older part. *)
LEMMA MergedNewer ==
  ASSUME NEW c \in Snapshot, NEW s \in Snapshot, c["version"] < s["version"]
  PROVE  /\ Merged(c, s) \in Snapshot
         /\ \A f \in Fields : c[f] <= Merged(c, s)[f]
<1> USE DEF Snapshot, Fields
<1>1. \A f \in Fields : c[f] \in Nat /\ s[f] \in Nat
  OBVIOUS
<1>2. Merged(c, s) = [f \in Fields |-> Merged(c, s)[f]]
  BY DEF Merged
<1>3. \A f \in Fields : Merged(c, s)[f] \in Nat /\ c[f] <= Merged(c, s)[f]
  BY <1>1 DEF Merged
<1> QED
  BY <1>2, <1>3
-----------------------------------------------------------------------------
(* Where no grant is opened or prolonged, no more are active than were at  *)
(* any earlier time.                                                       *)
GrantTable == [GrantIds -> Grant \cup {NoGrant}]

NoneOpened(G, H) ==
  \A g \in GrantIds : H[g] # NoGrant /\ ~H[g].revoked =>
    G[g] # NoGrant /\ ~G[g].revoked /\ H[g].expires = G[g].expires

LEMMA FewerActive ==
  ASSUME NEW G \in GrantTable, NEW H, NoneOpened(G, H),
         NEW at \in Nat, NEW later \in Nat, at <= later
  PROVE  Cardinality(ActiveIn(H, later)) <= Cardinality(ActiveIn(G, at))
<1>1. ActiveIn(H, later) \subseteq ActiveIn(G, at)
  <2> SUFFICES ASSUME NEW g \in ActiveIn(H, later) PROVE g \in ActiveIn(G, at)
    OBVIOUS
  <2>1. g \in GrantIds /\ H[g] # NoGrant /\ ~H[g].revoked /\ H[g].expires > later
    BY DEF ActiveIn
  <2>2. G[g] # NoGrant /\ ~G[g].revoked /\ H[g].expires = G[g].expires
    BY <2>1 DEF NoneOpened
  <2>3. G[g].expires \in Nat
    BY <2>1, <2>2 DEF GrantTable, Grant
  <2> QED
    BY <2>1, <2>2, <2>3 DEF ActiveIn
<1> QED
  BY <1>1, ActiveFinite, FS_Subset

(* So the limit holds, and what a creation has counted stays too few.      *)
LEMMA BoundsKept ==
  ASSUME ObserverInv, NoneOpened(grants, grants'), now' \in Nat, now <= now',
         \A t \in Clerks : Doing(t, "create", "counted")' =>
           Doing(t, "create", "counted") /\ clerks'[t] = clerks[t]
  PROVE  GrantsBounded' /\ CountInv'
<1> USE DEF ObserverInv
<1>1. now \in Nat /\ grants \in GrantTable
  BY DEF ObserverTypeOK, ServingTypeOK, GrantTable
<1>2. Cardinality(ActiveIn(grants', now')) <= Cardinality(ActiveIn(grants, now))
  BY <1>1, FewerActive
<1>3. GrantsBounded'
  BY <1>2, ActiveIsIn, ActiveFinite, ObserverAssumption DEF GrantsBounded
<1>4. ASSUME NEW t \in Clerks, Doing(t, "create", "counted")'
      PROVE  Cardinality(ActiveIn(grants', clerks'[t].at)) < MaxGrants
  <2>1. Doing(t, "create", "counted") /\ clerks'[t] = clerks[t] /\ clerks[t].at \in Nat
    BY <1>4, GrantCallShape DEF Doing
  <2>2. Cardinality(ActiveIn(grants, clerks[t].at)) < MaxGrants
    BY <2>1, ActiveIsIn DEF CountInv
  <2>3. Cardinality(ActiveIn(grants', clerks[t].at)) <= Cardinality(ActiveIn(grants, clerks[t].at))
    BY <1>1, <2>1, FewerActive
  <2> QED
    BY <2>1, <2>2, <2>3, ActiveFinite, ObserverAssumption
<1>5. ASSUME NEW t \in Clerks, NEW u \in Clerks,
             Doing(t, "create", "counted")', Doing(u, "create", "counted")'
      PROVE  t = u
  BY <1>5 DEF CountInv
<1> QED
  BY <1>3, <1>4, <1>5 DEF CountInv, ActiveAt, ActiveIn, Open

-----------------------------------------------------------------------------
(***************************************************************************)
(* Steps of a clerk that leave the grants and what was seen alone.         *)
(***************************************************************************)
LEMMA GrantsStay ==
  ASSUME ObserverInv, grants' = grants, seen' = seen, now' = now, calls <= calls',
         ObserverTypeOK', ClockInv', OwnNumber', CountInv', ReadInv'
  PROVE  ObserverInv'
<1> USE DEF ObserverInv
<1>1. now \in Nat /\ calls \in Nat /\ calls' \in Nat /\ GrantIds \subseteq Nat
  BY ServingAssumption DEF ObserverTypeOK, ServingTypeOK, GrantIds
<1>2. NumbersUsed'
  <2> SUFFICES ASSUME NEW g \in GrantIds, grants[g] # NoGrant \/ seen[g] # NoGrant
               PROVE  g <= calls'
    BY DEF NumbersUsed
  <2>1. g \in Nat /\ g <= calls
    BY <1>1 DEF NumbersUsed
  <2> QED
    BY <1>1, <2>1
<1>3. SeenInv' /\ RevokedIsEmpty'
  BY DEF SeenInv, RevokedIsEmpty
<1>4. GrantsBounded'
  BY ActiveIsIn DEF GrantsBounded
<1> QED
  BY <1>2, <1>3, <1>4

(* What counts stays below the limit as long as nobody else has counted.   *)
LEMMA CountsStay ==
  ASSUME ObserverInv, grants' = grants, now' = now, NEW t \in Clerks,
         ~Doing(t, "create", "counted")',
         \A u \in Clerks \ {t} : clerks'[u] = clerks[u]
  PROVE  CountInv'
<1>1. \A u \in Clerks : Doing(u, "create", "counted")' =>
        Doing(u, "create", "counted") /\ clerks'[u] = clerks[u]
  BY DEF Doing
<1>2. NoneOpened(grants, grants') /\ now' \in Nat /\ now <= now'
  BY DEF NoneOpened, ObserverInv, ObserverTypeOK, ServingTypeOK
<1> QED
  BY <1>1, <1>2, BoundsKept

(* A clerk that is not reading leaves the others' readings true. *)
LEMMA ReadingsStay ==
  ASSUME ObserverInv, grants' = grants, NEW t \in Clerks,
         ~Doing(t, "publish", "read")',
         \A u \in Clerks \ {t} : clerks'[u] = clerks[u]
  PROVE  ReadInv'
<1>1. \A u \in Clerks : Doing(u, "publish", "read")' =>
        Doing(u, "publish", "read") /\ clerks'[u] = clerks[u]
  BY DEF Doing
<1> QED
  BY <1>1 DEF ObserverInv, ReadInv

(* An answered call leaves nothing to keep. *)
LEMMA ClosedStep ==
  ASSUME ObserverInv, NEW t \in Clerks, Close(t), UNCHANGED <<serving, grants, seen>>
  PROVE  ObserverInv'
<1> USE DEF ObserverInv, Close, serving
<1>0. clerks'[t] = NoGrant /\ \A u \in Clerks \ {t} : clerks'[u] = clerks[u]
  BY DEF ObserverTypeOK
<1>1. ObserverTypeOK'
  BY DEF ObserverTypeOK, ServingTypeOK
<1>2. ClockInv' /\ OwnNumber'
  BY <1>0 DEF ClockInv, OwnNumber, Creating
<1>3. CountInv' /\ ReadInv'
  BY <1>0, CountsStay, ReadingsStay DEF Doing
<1>4. calls <= calls'
  BY ServingAssumption DEF ObserverTypeOK, ServingTypeOK
<1> QED
  BY <1>1, <1>2, <1>3, <1>4, GrantsStay

LEMMA AskGrantStep ==
  ASSUME ObserverInv, NEW t \in Clerks, AskGrant(t)
  PROVE  ObserverInv'
<1> USE DEF ObserverInv, AskGrant
<1>1. PICK scope \in Scopes, life \in Durations :
        clerks' = [clerks EXCEPT ![t] =
          [kind |-> "create", at |-> now, n |-> calls', scope |-> scope,
           life |-> life, phase |-> "asked"]]
  OBVIOUS
<1>2. /\ now \in Nat /\ calls \in Nat /\ calls' = calls + 1 /\ now' = now
      /\ calls' \in GrantIds
  BY ServingAssumption DEF ObserverTypeOK, ServingTypeOK, Arrival, GrantIds
<1>3. /\ clerks'[t].kind = "create" /\ clerks'[t].at = now /\ clerks'[t].n = calls'
      /\ clerks'[t].phase = "asked" /\ clerks'[t] # NoGrant
      /\ clerks'[t] \in GrantCall
      /\ \A u \in Clerks \ {t} : clerks'[u] = clerks[u]
  <2>1. [kind |-> "create", at |-> now, n |-> calls', scope |-> scope,
         life |-> life, phase |-> "asked"] \in GrantCall
    BY <1>2 DEF GrantCall
  <2> QED
    BY <1>1, <2>1, ObserverShapes DEF ObserverTypeOK
<1>4. ObserverTypeOK'
  BY <1>1, <1>2, <1>3, ServingAssumption
     DEF ObserverTypeOK, ServingTypeOK, GrantIds
<1>5. ClockInv'
  BY <1>2, <1>3 DEF ClockInv
<1>6. OwnNumber'
  <2>1. grants[calls'] = NoGrant /\ seen[calls'] = NoGrant
    BY <1>2 DEF NumbersUsed
  <2>2. \A u \in Clerks : Creating(u) => clerks[u].n <= calls /\ clerks[u].n \in Nat
    BY GrantCallShape, ServingAssumption DEF OwnNumber, Creating, GrantCall, GrantIds
  <2>3. \A u \in Clerks \ {t} : Creating(u)' => Creating(u)
    BY <1>3 DEF Creating
  <2> QED
    BY <1>2, <1>3, <2>1, <2>2, <2>3 DEF OwnNumber, Creating
<1>7. CountInv' /\ ReadInv'
  BY <1>2, <1>3, CountsStay, ReadingsStay DEF Doing
<1> QED
  BY <1>2, <1>4, <1>5, <1>6, <1>7, GrantsStay

LEMMA CountGrantsStep ==
  ASSUME ObserverInv, NEW t \in Clerks, CountGrants(t)
  PROVE  ObserverInv'
<1> USE DEF ObserverInv, CountGrants, serving
<1>1. /\ clerks[t] \in GrantCall /\ clerks[t] # NoGrant
      /\ clerks' = [clerks EXCEPT ![t] = [clerks[t] EXCEPT !.phase = "counted"]]
  BY GrantCallShape DEF Doing, ObserverTypeOK
<1>2. /\ clerks'[t] \in GrantCall /\ clerks'[t] # NoGrant
      /\ clerks'[t].kind = "create" /\ clerks'[t].phase = "counted"
      /\ clerks'[t].at = clerks[t].at /\ clerks'[t].n = clerks[t].n
      /\ \A u \in Clerks \ {t} : clerks'[u] = clerks[u]
  BY <1>1, ObserverShapes DEF ObserverTypeOK, GrantCall, Doing
<1>3. ObserverTypeOK'
  BY <1>1, <1>2 DEF ObserverTypeOK, ServingTypeOK
<1>4. ClockInv' /\ OwnNumber'
  BY <1>2 DEF ClockInv, OwnNumber, Creating, Doing
<1>5. ReadInv'
  BY <1>2, ReadingsStay DEF Doing
<1>6. CountInv'
  <2>1. \A u \in Clerks : Doing(u, "create", "counted")' => u = t
    BY <1>2 DEF CountFree, Doing
  <2>2. Cardinality(ActiveIn(grants', clerks'[t].at)) < MaxGrants
    BY <1>2, ActiveIsIn
  <2> QED
    BY <2>1, <2>2 DEF CountInv, ActiveAt, ActiveIn, Open
<1>7. calls <= calls'
  BY ServingAssumption DEF ObserverTypeOK, ServingTypeOK
<1> QED
  BY <1>3, <1>4, <1>5, <1>6, <1>7, GrantsStay

LEMMA AskPublishStep ==
  ASSUME ObserverInv, NEW t \in Clerks, AskPublish(t)
  PROVE  ObserverInv'
<1> USE DEF ObserverInv, AskPublish
<1>1. PICK g \in GrantIds, scope \in Scopes :
        \E s \in PublishObserverSnapshotRequest(scope) :
          clerks' = [clerks EXCEPT ![t] =
            [kind |-> "publish", at |-> now, grant |-> g, scope |-> scope,
             snapshot |-> s, phase |-> "asked", current |-> Nothing]]
  OBVIOUS
<1>2. PICK s \in PublishObserverSnapshotRequest(scope) :
          clerks' = [clerks EXCEPT ![t] =
            [kind |-> "publish", at |-> now, grant |-> g, scope |-> scope,
             snapshot |-> s, phase |-> "asked", current |-> Nothing]]
  BY <1>1
<1>3. /\ now \in Nat /\ calls \in Nat /\ calls' = calls + 1 /\ now' = now
      /\ calls' \in GrantIds
  BY ServingAssumption DEF ObserverTypeOK, ServingTypeOK, Arrival, GrantIds
<1>4. s \in Snapshot /\ Nothing \in Snapshot
  BY <1>3, ObserverAssumption DEF PublishObserverSnapshotRequest, Snapshot, Nothing
<1>5. /\ clerks'[t] \in PublishCall /\ clerks'[t] # NoGrant
      /\ clerks'[t].kind = "publish" /\ clerks'[t].phase = "asked"
      /\ clerks'[t].at = now
      /\ \A u \in Clerks \ {t} : clerks'[u] = clerks[u]
  <2>1. [kind |-> "publish", at |-> now, grant |-> g, scope |-> scope,
         snapshot |-> s, phase |-> "asked", current |-> Nothing] \in PublishCall
    BY <1>3, <1>4 DEF PublishCall
  <2> QED
    BY <1>2, <2>1, ObserverShapes DEF ObserverTypeOK
<1>6. ObserverTypeOK'
  BY <1>2, <1>3, <1>5, ServingAssumption DEF ObserverTypeOK, ServingTypeOK, GrantIds
<1>7. ClockInv'
  BY <1>3, <1>5 DEF ClockInv
<1>8. OwnNumber'
  <2>1. \A u \in Clerks : Creating(u)' => u # t /\ Creating(u)
    BY <1>5 DEF Creating
  <2>2. \A u \in Clerks : Creating(u) => clerks[u].n <= calls'
    BY <1>3, GrantCallShape, ServingAssumption DEF OwnNumber, Creating, GrantCall, GrantIds
  <2> QED
    BY <1>5, <2>1, <2>2 DEF OwnNumber, Creating
<1>9. CountInv' /\ ReadInv'
  BY <1>3, <1>5, CountsStay, ReadingsStay DEF Doing
<1> QED
  BY <1>3, <1>6, <1>7, <1>8, <1>9, GrantsStay

LEMMA ReadGrantStep ==
  ASSUME ObserverInv, NEW t \in Clerks, ReadGrant(t)
  PROVE  ObserverInv'
<1> DEFINE g == clerks[t].grant
<1> DEFINE s == grants[g].snapshot
<1>1. /\ clerks[t] \in PublishCall /\ g \in GrantIds
      /\ grants[g] # NoGrant /\ s \in Snapshot
      /\ Newer(t) /\ GrantFree(g)
      /\ UNCHANGED <<serving, grants, seen>>
  BY GrantCallShape
     DEF ObserverInv, Doing, ObserverTypeOK, PublishCall, ReadGrant, Publishable, Open, Grant
<1>2. /\ clerks \in [Clerks -> GrantCall \cup PublishCall \cup {NoGrant}]
      /\ clerks' = [clerks EXCEPT ![t].phase = "read", ![t].current = s]
  BY DEF ObserverInv, ObserverTypeOK, ReadGrant
<1>3. /\ clerks' \in [Clerks -> GrantCall \cup PublishCall \cup {NoGrant}]
      /\ clerks'[t] \in PublishCall /\ clerks'[t] # NoGrant
      /\ clerks'[t].kind = "publish" /\ clerks'[t].phase = "read"
      /\ clerks'[t].at = clerks[t].at /\ clerks'[t].grant = g
      /\ clerks'[t].snapshot = clerks[t].snapshot /\ clerks'[t].current = s
      /\ \A u \in Clerks \ {t} : clerks'[u] = clerks[u]
  <2> HIDE DEF s
  <2>1. /\ clerks'[t] \in PublishCall
        /\ clerks'[t].kind = "publish" /\ clerks'[t].phase = "read"
        /\ clerks'[t].at = clerks[t].at /\ clerks'[t].grant = g
        /\ clerks'[t].snapshot = clerks[t].snapshot /\ clerks'[t].current = s
        /\ \A u \in Clerks \ {t} : clerks'[u] = clerks[u]
    BY <1>1, <1>2 DEF PublishCall
  <2>2. clerks' = [u \in Clerks |-> clerks'[u]]
    BY <1>2
  <2> QED
    BY <1>2, <2>1, <2>2, ObserverShapes
<1>4. ObserverTypeOK' /\ now' = now /\ calls <= calls'
  BY <1>1, <1>3, ServingAssumption DEF ObserverInv, ObserverTypeOK, ServingTypeOK, serving
<1>5. ClockInv'
  BY <1>1, <1>3, ObserverShapes DEF ObserverInv, ClockInv, serving
<1>6. OwnNumber'
  <2>1. \A u \in Clerks : Creating(u)' => u # t /\ Creating(u) /\ clerks'[u] = clerks[u]
    BY <1>3 DEF Creating
  <2> QED
    BY <1>1, <2>1 DEF ObserverInv, OwnNumber, serving
<1>7. CountInv'
  BY <1>1, <1>3, CountsStay DEF Doing, serving
<1>8. ReadInv'
  <2>1. \A u \in Clerks \ {t} : Doing(u, "publish", "read")' =>
          Doing(u, "publish", "read") /\ clerks'[u] = clerks[u] /\ clerks[u].grant # g
    BY <1>1, <1>3 DEF Doing, GrantFree
  <2>2. s["version"] < clerks[t].snapshot["version"]
    BY <1>1 DEF Newer
  <2>3. ASSUME NEW u \in Clerks \ {t}, Doing(u, "publish", "read")'
        PROVE  LET h == clerks'[u].grant IN
               /\ grants'[h] # NoGrant
               /\ grants'[h].snapshot = clerks'[u].current
               /\ clerks'[u].current["version"] < clerks'[u].snapshot["version"]
               /\ \A v \in Clerks : Doing(v, "publish", "read")' /\ clerks'[v].grant = h => v = u
    <3>1. Doing(u, "publish", "read") /\ clerks'[u] = clerks[u] /\ clerks[u].grant # g
      BY <2>1, <2>3
    <3>2. \A v \in Clerks : Doing(v, "publish", "read")' /\ clerks'[v].grant = clerks[u].grant =>
            v # t /\ Doing(v, "publish", "read") /\ clerks'[v] = clerks[v]
      BY <1>3, <2>1, <3>1
    <3> QED
      BY <1>1, <3>1, <3>2 DEF ObserverInv, ReadInv
  <2>4. \A v \in Clerks : Doing(v, "publish", "read")' /\ clerks'[v].grant = g => v = t
    BY <2>1
  <2> QED
    BY <1>1, <1>3, <2>2, <2>3, <2>4 DEF ReadInv
<1> QED
  BY <1>1, <1>4, <1>5, <1>6, <1>7, <1>8, GrantsStay

-----------------------------------------------------------------------------
(***************************************************************************)
(* Steps that change grants.                                               *)
(***************************************************************************)
LEMMA InsertGrantStep ==
  ASSUME ObserverInv, NEW t \in Clerks, InsertGrant(t)
  PROVE  ObserverInv'
<1> DEFINE n == clerks[t].n
<1> DEFINE row == [scope |-> clerks[t].scope, revoked |-> FALSE, snapshot |-> Nothing,
                   expires |-> Sooner(clerks[t].at + clerks[t].life, RideEnds)]
<1>1. /\ clerks[t] \in GrantCall /\ n \in GrantIds /\ clerks[t].at \in Nat
      /\ Doing(t, "create", "counted") /\ Creating(t)
      /\ seen' = seen /\ now' = now /\ calls' = calls
  BY GrantCallShape DEF ObserverInv, InsertGrant, Doing, Creating, GrantCall, serving
<1>2. row \in Grant
  <2>0. clerks[t].life \in Nat
    BY <1>1, ObserverAssumption DEF GrantCall
  <2>1. Sooner(clerks[t].at + clerks[t].life, RideEnds) \in Nat
    BY <1>1, <2>0, ObserverAssumption DEF Sooner
  <2>2. Nothing \in Snapshot
    BY DEF Nothing, Snapshot
  <2> QED
    BY <1>1, <2>1, <2>2 DEF Grant, GrantCall
<1>3. /\ grants' \in GrantTable
      /\ grants'[n] = row /\ \A g \in GrantIds \ {n} : grants'[g] = grants[g]
  BY <1>1, <1>2 DEF ObserverInv, ObserverTypeOK, InsertGrant, GrantTable
<1>4. /\ clerks' \in [Clerks -> GrantCall \cup PublishCall \cup {NoGrant}]
      /\ clerks'[t] = NoGrant /\ \A u \in Clerks \ {t} : clerks'[u] = clerks[u]
  BY DEF ObserverInv, ObserverTypeOK, InsertGrant, Close
<1>5. grants[n] = NoGrant /\ seen[n] = NoGrant /\ n <= calls
  BY <1>1 DEF ObserverInv, OwnNumber
<1>6. ObserverTypeOK' /\ ClockInv' /\ NumbersUsed'
  BY <1>1, <1>3, <1>4, <1>5
     DEF ObserverInv, ObserverTypeOK, ServingTypeOK, GrantTable, ClockInv, NumbersUsed
<1>7. OwnNumber'
  <2>1. \A u \in Clerks : Creating(u)' =>
          /\ u # t /\ Creating(u) /\ clerks'[u] = clerks[u]
          /\ clerks[u].n # n /\ clerks[u].n \in GrantIds
    BY <1>1, <1>4, GrantCallShape DEF ObserverInv, Creating, OwnNumber, GrantCall
  <2> QED
    BY <1>1, <1>3, <2>1 DEF ObserverInv, OwnNumber
<1>8. CountInv'
  BY <1>1, <1>4 DEF ObserverInv, CountInv, Doing
<1>9. ReadInv'
  <2>1. \A u \in Clerks : Doing(u, "publish", "read")' =>
          /\ u # t /\ Doing(u, "publish", "read") /\ clerks'[u] = clerks[u]
          /\ clerks[u].grant \in GrantIds /\ clerks[u].grant # n
    BY <1>4, <1>5, GrantCallShape DEF ObserverInv, Doing, ReadInv, PublishCall
  <2> QED
    BY <1>3, <2>1 DEF ObserverInv, ReadInv
<1>10. SeenInv' /\ RevokedIsEmpty'
  BY <1>1, <1>3, <1>5 DEF ObserverInv, SeenInv, RevokedIsEmpty
<1>11. GrantsBounded'
  <2>1. ActiveIn(grants', now) \subseteq ActiveIn(grants, clerks[t].at) \cup {n}
    <3> SUFFICES ASSUME NEW g \in ActiveIn(grants', now), g # n
                 PROVE  g \in ActiveIn(grants, clerks[t].at)
      OBVIOUS
    <3>1. /\ g \in GrantIds /\ grants'[g] = grants[g] /\ grants[g] # NoGrant
          /\ ~grants[g].revoked /\ grants[g].expires > now
      BY <1>3 DEF ActiveIn
    <3>2. grants[g].expires \in Nat /\ now \in Nat /\ clerks[t].at <= now
      BY <1>1, <3>1 DEF ObserverInv, ObserverTypeOK, ServingTypeOK, Grant, ClockInv, Doing
    <3> QED
      BY <1>1, <3>1, <3>2 DEF ActiveIn
  <2>2. Cardinality(ActiveIn(grants, clerks[t].at)) < MaxGrants
    BY <1>1, ActiveIsIn DEF ObserverInv, CountInv
  <2>3. Cardinality(ActiveIn(grants, clerks[t].at) \cup {n})
          \in {Cardinality(ActiveIn(grants, clerks[t].at)),
               Cardinality(ActiveIn(grants, clerks[t].at)) + 1}
    <3> DEFINE active == ActiveIn(grants, clerks[t].at)
    <3>1. IsFiniteSet(active)
      BY ActiveFinite
    <3> HIDE DEF active
    <3>2. Cardinality(active \cup {n}) \in {Cardinality(active), Cardinality(active) + 1}
      BY <3>1, FS_AddElement
    <3> QED
      BY <3>2 DEF active
  <2>4. /\ IsFiniteSet(ActiveIn(grants, clerks[t].at) \cup {n})
        /\ Cardinality(ActiveIn(grants, clerks[t].at) \cup {n}) \in Nat
    BY ActiveFinite, FS_AddElement, FS_CardinalityType
  <2>5. Cardinality(ActiveIn(grants', now))
          <= Cardinality(ActiveIn(grants, clerks[t].at) \cup {n})
    BY <2>1, <2>4, FS_Subset
  <2>6. Cardinality(ActiveIn(grants', now)) <= MaxGrants
    BY <2>2, <2>3, <2>4, <2>5, ActiveFinite, ObserverAssumption
  <2> QED
    BY <1>1, <2>6, ActiveIsIn DEF GrantsBounded
<1> QED
  BY <1>6, <1>7, <1>8, <1>9, <1>10, <1>11 DEF ObserverInv

(* One grant, that nobody is reading, changes without being opened.        *)
LEMMA OneGrantChanges ==
  ASSUME ObserverInv, ObserverTypeOK', NEW g \in GrantIds, grants[g] # NoGrant,
         \A h \in GrantIds \ {g} : grants'[h] = grants[h],
         NoneOpened(grants, grants'), seen' = seen, now' = now, calls <= calls',
         \A u \in Clerks : clerks'[u] \in {clerks[u], NoGrant},
         \A u \in Clerks : Doing(u, "publish", "read")' => clerks[u].grant # g,
         grants'[g] # NoGrant /\ grants'[g].revoked => grants'[g].snapshot = Nothing,
         grants'[g] # NoGrant /\ ~grants'[g].revoked =>
           \A f \in Fields : grants[g].snapshot[f] <= grants'[g].snapshot[f]
  PROVE  ObserverInv'
<1> USE DEF ObserverInv
<1>0. now \in Nat /\ calls \in Nat /\ calls' \in Nat /\ GrantIds \subseteq Nat
  BY ServingAssumption DEF ObserverTypeOK, ServingTypeOK, GrantIds
<1>1. ClockInv' /\ NumbersUsed'
  BY <1>0 DEF ClockInv, NumbersUsed
<1>2. OwnNumber'
  <2>1. \A u \in Clerks : Creating(u)' =>
          /\ Creating(u) /\ clerks'[u] = clerks[u]
          /\ clerks[u].n # g /\ clerks[u].n \in GrantIds
    BY GrantCallShape DEF Creating, OwnNumber, GrantCall
  <2>2. ASSUME NEW u \in Clerks, Creating(u)'
        PROVE  /\ clerks'[u].n <= calls'
               /\ grants'[clerks'[u].n] = NoGrant /\ seen'[clerks'[u].n] = NoGrant
    <3>1. clerks[u].n <= calls /\ grants[clerks[u].n] = NoGrant /\ seen[clerks[u].n] = NoGrant
      BY <2>1, <2>2 DEF OwnNumber
    <3>2. clerks[u].n \in Nat /\ clerks'[u] = clerks[u]
      BY <1>0, <2>1, <2>2
    <3> QED
      BY <1>0, <2>1, <2>2, <3>1, <3>2
  <2>3. ASSUME NEW u \in Clerks, NEW v \in Clerks, Creating(u)', Creating(v)',
               clerks'[v].n = clerks'[u].n
        PROVE  v = u
    BY <2>1, <2>3 DEF OwnNumber
  <2> QED
    BY <2>2, <2>3 DEF OwnNumber
<1>3. \A u \in Clerks : Doing(u, "create", "counted")' =>
        Doing(u, "create", "counted") /\ clerks'[u] = clerks[u]
  BY DEF Doing
<1>4. GrantsBounded' /\ CountInv'
  BY <1>0, <1>3, BoundsKept
<1>5. ReadInv'
  <2>1. \A u \in Clerks : Doing(u, "publish", "read")' =>
          /\ Doing(u, "publish", "read") /\ clerks'[u] = clerks[u]
          /\ clerks[u].grant \in GrantIds /\ clerks[u].grant # g
    BY GrantCallShape DEF Doing, PublishCall
  <2> QED
    BY <2>1 DEF ReadInv
<1>6. RevokedIsEmpty'
  BY DEF RevokedIsEmpty
<1>7. SeenInv'
  <2> SUFFICES ASSUME NEW h \in GrantIds, seen[h] # NoGrant,
                      grants'[h] # NoGrant, ~grants'[h].revoked, NEW f \in Fields
               PROVE  seen[h][f] <= grants'[h].snapshot[f]
    BY DEF SeenInv
  <2>1. grants[h] # NoGrant /\ ~grants[h].revoked
    BY DEF NoneOpened
  <2>2. seen[h][f] <= grants[h].snapshot[f]
    BY <2>1 DEF SeenInv
  <2>3. seen[h][f] \in Nat /\ grants[h].snapshot[f] \in Nat /\ grants'[h].snapshot[f] \in Nat
    BY <2>1 DEF ObserverTypeOK, Grant, Snapshot
  <2> QED
    BY <2>2, <2>3
<1> QED
  BY <1>1, <1>2, <1>4, <1>5, <1>6, <1>7

LEMMA StoreSnapshotStep ==
  ASSUME ObserverInv, NEW t \in Clerks, StoreSnapshot(t)
  PROVE  ObserverInv'
<1> DEFINE g == clerks[t].grant
<1> DEFINE merged == Merged(clerks[t].current, clerks[t].snapshot)
<1>1. /\ clerks[t] \in PublishCall /\ g \in GrantIds
      /\ Doing(t, "publish", "read")
      /\ grants[g] # NoGrant /\ grants[g] \in Grant /\ ~grants[g].revoked
      /\ UNCHANGED <<serving, seen>>
  BY GrantCallShape
     DEF ObserverInv, Doing, ObserverTypeOK, PublishCall, StoreSnapshot, Open
<1>2. /\ grants[g].snapshot = clerks[t].current
      /\ clerks[t].current["version"] < clerks[t].snapshot["version"]
      /\ \A u \in Clerks \ {t} : Doing(u, "publish", "read") => clerks[u].grant # g
  BY <1>1 DEF ObserverInv, ReadInv
<1>3. /\ merged \in Snapshot
      /\ \A f \in Fields : grants[g].snapshot[f] <= merged[f]
  BY <1>1, <1>2, MergedNewer DEF PublishCall
<1>4. grants' = [grants EXCEPT ![g].snapshot = merged] /\ Close(t)
  BY DEF StoreSnapshot
<1> HIDE DEF merged
<1>5. /\ grants'[g] \in Grant /\ grants'[g].snapshot = merged
      /\ ~grants'[g].revoked /\ grants'[g].expires = grants[g].expires
      /\ \A h \in GrantIds \ {g} : grants'[h] = grants[h]
      /\ grants' \in GrantTable
  <2>1. /\ grants'[g] = [grants[g] EXCEPT !.snapshot = merged]
        /\ \A h \in GrantIds \ {g} : grants'[h] = grants[h]
        /\ grants' = [h \in GrantIds |-> grants'[h]]
    BY <1>1, <1>4 DEF ObserverInv, ObserverTypeOK
  <2>2. /\ grants'[g] \in Grant /\ grants'[g].snapshot = merged
        /\ ~grants'[g].revoked /\ grants'[g].expires = grants[g].expires
    BY <1>1, <1>3, <2>1 DEF Grant
  <2> QED
    BY <2>1, <2>2 DEF ObserverInv, ObserverTypeOK, GrantTable
<1>6. /\ clerks'[t] = NoGrant /\ \A u \in Clerks \ {t} : clerks'[u] = clerks[u]
      /\ clerks' \in [Clerks -> GrantCall \cup PublishCall \cup {NoGrant}]
  BY <1>4 DEF Close, ObserverInv, ObserverTypeOK
<1>7. ObserverTypeOK' /\ calls <= calls' /\ now' = now
  BY <1>1, <1>5, <1>6, ServingAssumption DEF ObserverInv, ObserverTypeOK, ServingTypeOK, GrantTable, serving
<1>8. NoneOpened(grants, grants')
  BY <1>1, <1>5 DEF NoneOpened
<1>9. /\ \A u \in Clerks : clerks'[u] \in {clerks[u], NoGrant}
      /\ \A u \in Clerks : Doing(u, "publish", "read")' => clerks[u].grant # g
  BY <1>2, <1>6 DEF Doing
<1> QED
  BY <1>1, <1>3, <1>5, <1>7, <1>8, <1>9, OneGrantChanges

LEMMA RevokeGrantStep ==
  ASSUME ObserverInv, NEW g \in GrantIds, RevokeGrant(g)
  PROVE  ObserverInv'
<1>1. /\ grants[g] # NoGrant /\ grants[g] \in Grant /\ GrantFree(g)
      /\ now' = now /\ calls \in Nat /\ calls' = calls + 1 /\ calls' \in 0..MaxCalls
      /\ UNCHANGED <<clerks, seen>>
      /\ Nothing \in Snapshot
  BY ServingAssumption
     DEF RevokeGrant, Open, Arrival, ObserverInv, ObserverTypeOK, ServingTypeOK, Nothing, Snapshot
<1>2. grants' = [grants EXCEPT ![g].revoked = TRUE, ![g].snapshot = Nothing]
  BY DEF RevokeGrant, ClearedSnapshot
<1> HIDE DEF Nothing
<1>3. /\ grants'[g] \in Grant /\ grants'[g].revoked /\ grants'[g].snapshot = Nothing
      /\ \A h \in GrantIds \ {g} : grants'[h] = grants[h]
      /\ grants' \in GrantTable
  <2>1. /\ grants'[g] = [grants[g] EXCEPT !.revoked = TRUE, !.snapshot = Nothing]
        /\ \A h \in GrantIds \ {g} : grants'[h] = grants[h]
        /\ grants' = [h \in GrantIds |-> grants'[h]]
    BY <1>2 DEF ObserverInv, ObserverTypeOK
  <2>2. grants'[g] \in Grant /\ grants'[g].revoked /\ grants'[g].snapshot = Nothing
    BY <1>1, <2>1 DEF Grant
  <2> QED
    BY <2>1, <2>2 DEF ObserverInv, ObserverTypeOK, GrantTable
<1>4. ObserverTypeOK' /\ calls <= calls'
  BY <1>1, <1>3 DEF ObserverInv, ObserverTypeOK, ServingTypeOK, GrantTable
<1>5. NoneOpened(grants, grants')
  BY <1>3 DEF NoneOpened
<1>6. \A u \in Clerks : Doing(u, "publish", "read")' => clerks[u].grant # g
  BY <1>1 DEF GrantFree, Doing
<1> QED
  BY <1>1, <1>3, <1>4, <1>5, <1>6, OneGrantChanges

LEMMA PurgeGrantStep ==
  ASSUME ObserverInv, NEW g \in GrantIds, PurgeGrant(g)
  PROVE  ObserverInv'
<1>1. /\ grants[g] # NoGrant /\ GrantFree(g)
      /\ UNCHANGED <<serving, clerks, seen>>
      /\ grants' \in GrantTable
      /\ grants'[g] = NoGrant /\ \A h \in GrantIds \ {g} : grants'[h] = grants[h]
  BY DEF PurgeGrant, ObserverInv, ObserverTypeOK, GrantTable
<1>2. ObserverTypeOK' /\ calls <= calls' /\ now' = now
  BY <1>1, ServingAssumption DEF ObserverInv, ObserverTypeOK, ServingTypeOK, GrantTable, serving
<1>3. NoneOpened(grants, grants')
  BY <1>1 DEF NoneOpened
<1>4. \A u \in Clerks : Doing(u, "publish", "read")' => clerks[u].grant # g
  BY <1>1 DEF GrantFree, Doing
<1> QED
  BY <1>1, <1>2, <1>3, <1>4, OneGrantChanges

(* What an observer is shown is what the grant holds. *)
LEMMA ReadSnapshotStep ==
  ASSUME ObserverInv, NEW g \in GrantIds, ReadSnapshot(g)
  PROVE  ObserverInv'
<1> USE DEF ObserverInv
<1>1. /\ grants[g] # NoGrant /\ grants[g] \in Grant
      /\ UNCHANGED <<serving, grants, clerks>>
      /\ seen'[g] = grants[g].snapshot
      /\ \A h \in GrantIds \ {g} : seen'[h] = seen[h]
      /\ seen' = [h \in GrantIds |-> seen'[h]]
  BY DEF ReadSnapshot, Open, ObserverTypeOK
<1>2. seen'[g] \in Snapshot
  BY <1>1 DEF Grant
<1>3. ObserverTypeOK'
  BY <1>1, <1>2 DEF ObserverTypeOK, ServingTypeOK, serving
<1>4. ClockInv' /\ CountInv' /\ ReadInv' /\ RevokedIsEmpty' /\ GrantsBounded'
  BY <1>1 DEF ClockInv, CountInv, ReadInv, RevokedIsEmpty, GrantsBounded, ActiveAt, Open, Doing, serving
<1>5. OwnNumber'
  <2>1. \A u \in Clerks : Creating(u) => clerks[u].n # g /\ clerks[u].n \in GrantIds
    BY <1>1, GrantCallShape DEF Creating, OwnNumber, GrantCall
  <2> QED
    BY <1>1, <2>1 DEF OwnNumber, Creating, serving
<1>6. NumbersUsed'
  BY <1>1 DEF NumbersUsed, serving
<1>7. SeenInv'
  <2>1. \A f \in Fields : grants[g].snapshot[f] \in Nat
    BY <1>1 DEF Grant, Snapshot
  <2> QED
    BY <1>1, <2>1 DEF SeenInv
<1> QED
  BY <1>3, <1>4, <1>5, <1>6, <1>7

(* Time passes, or other services are called. *)
LEMMA ObserverElsewhere ==
  ASSUME ObserverInv, now' \in Nat, now <= now', calls' \in 0..MaxCalls, calls <= calls',
         UNCHANGED observerState
  PROVE  ObserverInv'
<1> USE DEF ObserverInv, observerState
<1>0. /\ now \in Nat /\ calls \in Nat /\ calls' \in Nat /\ GrantIds \subseteq Nat
  BY ServingAssumption DEF ObserverTypeOK, ServingTypeOK, GrantIds
<1>1. ObserverTypeOK'
  BY DEF ObserverTypeOK, ServingTypeOK
<1>2. ClockInv'
  BY <1>0, GrantCallShape DEF ClockInv
<1>3. OwnNumber'
  <2>1. \A u \in Clerks : Creating(u) => clerks[u].n \in Nat
    BY <1>0, GrantCallShape DEF Creating, GrantCall
  <2> QED
    BY <1>0, <2>1 DEF OwnNumber, Creating
<1>4. NumbersUsed'
  BY <1>0 DEF NumbersUsed
<1>5. GrantsBounded' /\ CountInv'
  <2>1. NoneOpened(grants, grants')
    BY DEF NoneOpened
  <2> QED
    BY <1>0, <2>1, BoundsKept DEF Doing
<1>6. ReadInv' /\ SeenInv' /\ RevokedIsEmpty'
  BY DEF ReadInv, Doing, SeenInv, RevokedIsEmpty
<1> QED
  BY <1>1, <1>2, <1>3, <1>4, <1>5, <1>6

-----------------------------------------------------------------------------
LEMMA ObserverPreserved ==
  ASSUME ObserverInv, [ObserverNext]_observerVars
  PROVE  ObserverInv'
<1>1. ASSUME NEW t \in Clerks,
             \/ AskGrant(t) \/ CountGrants(t) \/ RefuseGrant(t) \/ InsertGrant(t)
             \/ AskPublish(t) \/ ReadGrant(t) \/ RefusePublish(t) \/ StoreSnapshot(t)
      PROVE  ObserverInv'
  <2>1. CASE AskGrant(t)
    BY <2>1, AskGrantStep
  <2>2. CASE CountGrants(t)
    BY <2>2, CountGrantsStep
  <2>3. CASE RefuseGrant(t)
    BY <2>3, ClosedStep DEF RefuseGrant
  <2>4. CASE InsertGrant(t)
    BY <2>4, InsertGrantStep
  <2>5. CASE AskPublish(t)
    BY <2>5, AskPublishStep
  <2>6. CASE ReadGrant(t)
    BY <2>6, ReadGrantStep
  <2>7. CASE RefusePublish(t)
    BY <2>7, ClosedStep DEF RefusePublish
  <2>8. CASE StoreSnapshot(t)
    BY <2>8, StoreSnapshotStep
  <2> QED
    BY <1>1, <2>1, <2>2, <2>3, <2>4, <2>5, <2>6, <2>7, <2>8
<1>2. ASSUME NEW g \in GrantIds, RevokeGrant(g) \/ ReadSnapshot(g) \/ PurgeGrant(g)
      PROVE  ObserverInv'
  BY <1>2, RevokeGrantStep, ReadSnapshotStep, PurgeGrantStep
<1>3. CASE Elsewhere /\ UNCHANGED observerState
  <2>1. now' \in Nat /\ now <= now' /\ calls' \in 0..MaxCalls /\ calls <= calls'
    BY <1>3 DEF Elsewhere
  <2> QED
    BY <1>3, <2>1, ObserverElsewhere
<1>4. CASE UNCHANGED observerVars
  <2>1. /\ now' = now /\ calls' = calls /\ UNCHANGED observerState
    BY <1>4 DEF observerVars, serving
  <2>2. now \in Nat /\ calls \in 0..MaxCalls /\ calls \in Nat
    BY ServingAssumption DEF ObserverInv, ObserverTypeOK, ServingTypeOK
  <2> QED
    BY <2>1, <2>2, ObserverElsewhere
<1> QED
  BY <1>1, <1>2, <1>3, <1>4 DEF ObserverNext, ObserverStep

THEOREM ObserverInvHolds == ObserverSpec => []ObserverInv
<1>1. ObserverInit /\ ServingInit => ObserverInv
  BY ObserverInitHolds
<1>2. ObserverInv /\ [ObserverNext]_observerVars => ObserverInv'
  BY ObserverPreserved
<1> QED
  BY <1>1, <1>2, PTL DEF ObserverSpec

(* No more grants of a ride are active at a time than its limit, however   *)
(* creations overlap: the ride's row lock covers the count and the insert. *)
THEOREM GrantsLimited == ObserverSpec => []GrantsBounded
<1>1. ObserverInv => GrantsBounded
  BY DEF ObserverInv
<1> QED
  BY <1>1, ObserverInvHolds, PTL

(* A publication that overlaps a revocation leaves no snapshot behind.     *)
THEOREM RevokedStaysEmpty == ObserverSpec => []RevokedIsEmpty
<1>1. ObserverInv => RevokedIsEmpty
  BY DEF ObserverInv
<1> QED
  BY <1>1, ObserverInvHolds, PTL

(* What observers are shown never goes back: the grant's row lock covers   *)
(* the reading of the snapshot that a publication merges with.             *)
THEOREM SeenGoesForward == ObserverSpec => NeverGoesBack
<1> DEFINE Forward == \A g \in GrantIds : seen[g] # NoGrant =>
                        \A f \in Fields : seen'[g][f] >= seen[g][f]
<1>1. ASSUME ObserverInv, [ObserverNext]_observerVars PROVE Forward
  <2>1. \A g \in GrantIds : seen[g] # NoGrant => \A f \in Fields : seen[g][f] \in Nat
    BY <1>1 DEF ObserverInv, ObserverTypeOK, Snapshot
  <2>2. CASE seen' = seen
    BY <2>1, <2>2
  <2>3. ASSUME NEW g \in GrantIds, ReadSnapshot(g) PROVE Forward
    <3>1. /\ grants[g] # NoGrant /\ ~grants[g].revoked
          /\ grants[g].snapshot \in Snapshot
          /\ seen' = [seen EXCEPT ![g] = grants[g].snapshot]
          /\ seen \in [GrantIds -> Snapshot \cup {NoGrant}]
      BY <1>1, <2>3 DEF ReadSnapshot, Open, ObserverInv, ObserverTypeOK, Grant
    <3>2. seen[g] # NoGrant => \A f \in Fields : seen[g][f] <= grants[g].snapshot[f]
      BY <1>1, <3>1 DEF ObserverInv, SeenInv
    <3>3. \A f \in Fields : grants[g].snapshot[f] \in Nat
      BY <3>1 DEF Snapshot
    <3> QED
      BY <2>1, <3>1, <3>2, <3>3
  <2>4. seen' = seen \/ \E g \in GrantIds : ReadSnapshot(g)
    BY <1>1 DEF ObserverNext, ObserverStep, observerVars, observerState, AskGrant, CountGrants,
         RefuseGrant, InsertGrant, AskPublish, ReadGrant, RefusePublish, StoreSnapshot,
         RevokeGrant, PurgeGrant
  <2> QED
    BY <2>2, <2>3, <2>4
<1>2. ObserverInv /\ [ObserverNext]_observerVars => [Forward]_observerVars
  BY <1>1
<1> QED
  BY <1>2, ObserverInvHolds, PTL DEF ObserverSpec, NeverGoesBack

-----------------------------------------------------------------------------
(***************************************************************************)
(* The dispatch holds the ride: while one sends, no other does, no event   *)
(* is stored and no registration it has reserved a delivery to is          *)
(* replaced.                                                               *)
(***************************************************************************)
OneSender == \A v, w \in Workers : Sending(v) /\ Sending(w) => v = w

Holds(w, p) == dispatches[w] # Nobody /\ p \in dispatches[w].reserved

(* Every provider call is a committed delivery, the sender's reservation,  *)
(* or one that was rolled back.                                            *)
AttemptInv ==
  \A p \in Pairs :
    /\ \A w \in Workers : Holds(w, p) => Sending(w) /\ p \notin delivered
    /\ p \in delivered \/ (\E w \in Workers : Holds(w, p)) => sends[p] = 1 + lost[p]
    /\ p \notin delivered /\ (\A w \in Workers : ~Holds(w, p)) => sends[p] = lost[p]

IsMember(rows, d) == rows[d] # Nobody /\ ~rows[d].left

(* What a dispatch has read is still so. *)
ReadingInv ==
  \A w \in Workers : Sending(w) =>
    /\ dispatches[w].rideMembers = Replayed
    /\ \A p \in dispatches[w].due :
         /\ p \notin dispatches[w].reserved
         /\ IsMember(Replayed, p[2])
         /\ regs[p[2]] # Nobody

(* A refused token is still the registered one, unless the dispatch saw    *)
(* that it was not.                                                        *)
InvalidInv ==
  \A w \in Workers : Sending(w) => \A d \in dispatches[w].invalid :
    /\ regs[d] # Nobody
    /\ dispatches[w].tokens[d] \in refused
    /\ d \in dispatches[w].stale \/ regs[d].token = dispatches[w].tokens[d]
    /\ \E p \in dispatches[w].reserved : p[2] = d

PushInv ==
  /\ ServingTypeOK /\ PushTypeOK /\ Len(log) <= MaxLog
  /\ OneSender /\ AttemptInv /\ ProjectionTrue /\ ReadingInv /\ InvalidInv
-----------------------------------------------------------------------------
(***************************************************************************)
(* The projection of a log is computed event by event.                     *)
(***************************************************************************)

(* A property of 0 that passes on to the next number is one of every       *)
(* number: the least that lacks it is neither 0 nor a successor.           *)
LEMMA EveryNumber ==
  ASSUME NEW T \in SUBSET Nat, 0 \in T, \A n \in T : n + 1 \in T
  PROVE  T = Nat
<1>1. IsWellFoundedOn(OpToRel(<, Nat), Nat)
  BY NatLessThanWellFounded
<1>2. SUFFICES ASSUME Nat \ T # {} PROVE FALSE
  OBVIOUS
<1>3. PICK n \in Nat \ T : \A m \in Nat \ T : ~(<<m, n>> \in OpToRel(<, Nat))
  <2> DEFINE C == Nat \ T
  <2>1. C \subseteq Nat /\ C # {}
    BY <1>2
  <2> HIDE DEF C
  <2>2. \E n \in C : \A m \in C : ~(<<m, n>> \in OpToRel(<, Nat))
    BY <1>1, <2>1, WFMin
  <2> QED
    BY <2>2 DEF C
<1>4. \A m \in Nat \ T : ~(m < n)
  BY <1>3 DEF OpToRel
<1>5. n # 0 /\ n - 1 \in Nat
  OBVIOUS
<1>6. n - 1 \in T
  BY <1>4, <1>5
<1> QED
  BY <1>5, <1>6

(* The rows after each of the first n events. *)
RowsAfter(after, rows, events, n) ==
  after = [m \in 0..n |-> IF m = 0 THEN rows
                          ELSE ProjectEvent(after[m - 1], events[m])]

LEMMA RowsAfterExist ==
  ASSUME NEW rows, NEW events, NEW n \in Nat
  PROVE  \E after : RowsAfter(after, rows, events, n)
<1> DEFINE T == {m \in Nat : \E after : RowsAfter(after, rows, events, m)}
<1>1. 0 \in T
  <2> DEFINE a == [m \in 0..0 |-> rows]
  <2>1. a = [m \in 0..0 |-> IF m = 0 THEN rows ELSE ProjectEvent(a[m - 1], events[m])]
    OBVIOUS
  <2> HIDE DEF a
  <2>2. RowsAfter(a, rows, events, 0)
    BY <2>1 DEF RowsAfter
  <2> QED
    BY <2>2
<1>2. \A m \in T : m + 1 \in T
  <2> SUFFICES ASSUME NEW m \in T PROVE m + 1 \in T
    OBVIOUS
  <2> PICK a : RowsAfter(a, rows, events, m)
    OBVIOUS
  <2> DEFINE b == [i \in 0..(m + 1) |->
                     IF i = m + 1 THEN ProjectEvent(a[m], events[m + 1]) ELSE a[i]]
             c == [i \in 0..(m + 1) |-> IF i = 0 THEN rows
                                        ELSE ProjectEvent(b[i - 1], events[i])]
  <2>1. ASSUME NEW i \in 0..(m + 1) PROVE b[i] = c[i]
    <3>1. CASE i = m + 1
      BY <3>1
    <3>2. CASE i \in 0..m
      <4>1. a[i] = IF i = 0 THEN rows ELSE ProjectEvent(a[i - 1], events[i])
        BY <3>2 DEF RowsAfter
      <4>2. i # 0 => b[i - 1] = a[i - 1]
        BY <3>2
      <4> QED
        BY <3>2, <4>1, <4>2
    <3> QED
      BY <3>1, <3>2
  <2>2. b = c
    BY <2>1
  <2>3. RowsAfter(b, rows, events, m + 1)
    BY <2>2 DEF RowsAfter
  <2> QED
    BY <2>3
<1>3. T = Nat
  <2> HIDE DEF T
  <2>1. T \in SUBSET Nat
    BY DEF T
  <2> QED
    BY <1>1, <1>2, <2>1, EveryNumber
<1> QED
  BY <1>3

(* What each event makes of the rows, spelled out for a run of rows.       *)
LEMMA RowsAfterStep ==
  ASSUME NEW rows, NEW events, NEW n \in Nat, NEW after,
         RowsAfter(after, rows, events, n)
  PROVE  /\ after[0] = rows
         /\ \A m \in 0..n : m + 1 <= n =>
              after[m + 1] = ProjectEvent(after[m], events[m + 1])
<1>1. after[0] = rows
  BY DEF RowsAfter
<1>2. ASSUME NEW m \in 0..n, m + 1 <= n
      PROVE  after[m + 1] = ProjectEvent(after[m], events[m + 1])
  <2>1. m + 1 \in 0..n /\ m + 1 # 0 /\ (m + 1) - 1 = m
    BY <1>2
  <2> QED
    BY <2>1 DEF RowsAfter
<1> QED
  BY <1>1, <1>2

(* The rows that the events make in turn; the last of them is the projection. *)
InTurn(after, rows, events) ==
  /\ after[0] = rows
  /\ \A m \in 0..Len(events) : m + 1 <= Len(events) =>
       after[m + 1] = ProjectEvent(after[m], events[m + 1])

LEMMA ProjectedIsLast ==
  ASSUME NEW rows, NEW events, Len(events) \in Nat
  PROVE  \E after : InTurn(after, rows, events) /\ Projected(rows, events) = after[Len(events)]
<1> DEFINE a == CHOOSE after : RowsAfter(after, rows, events, Len(events))
<1>1. RowsAfter(a, rows, events, Len(events))
  BY RowsAfterExist
<1>2. Projected(rows, events) = a[Len(events)]
  BY DEF Projected, RowsAfter
<1> HIDE DEF a
<1>3. /\ a[0] = rows
      /\ \A m \in 0..Len(events) : m + 1 <= Len(events) =>
           a[m + 1] = ProjectEvent(a[m], events[m + 1])
  BY <1>1, RowsAfterStep
<1>4. InTurn(a, rows, events)
  BY <1>3 DEF InTurn
<1> QED
  BY <1>2, <1>4

(* Projecting a longer log continues where the shorter one ended. *)
LEMMA ProjectedConcat ==
  ASSUME NEW S, NEW rows, NEW s \in Seq(S), NEW t \in Seq(S)
  PROVE  Projected(rows, s \o t) = Projected(Projected(rows, s), t)
<1>1. /\ Len(s) \in Nat /\ Len(t) \in Nat /\ Len(s \o t) = Len(s) + Len(t)
      /\ \A i \in 1..Len(s) : (s \o t)[i] = s[i]
      /\ \A i \in 1..Len(t) : (s \o t)[Len(s) + i] = t[i]
  OBVIOUS
<1>2. PICK a : InTurn(a, rows, s) /\ Projected(rows, s) = a[Len(s)]
  BY <1>1, ProjectedIsLast
<1>3. PICK b : /\ InTurn(b, Projected(rows, s), t)
               /\ Projected(Projected(rows, s), t) = b[Len(t)]
  BY <1>1, ProjectedIsLast
<1>4. PICK u : u = s \o t
  OBVIOUS
<1>5. /\ Len(u) \in Nat /\ Len(u) = Len(s) + Len(t)
      /\ \A i \in 1..Len(s) : u[i] = s[i]
      /\ \A i \in 1..Len(t) : u[Len(s) + i] = t[i]
  BY <1>1, <1>4
<1>6. Len(u) \in Nat
  BY <1>5
<1>7. PICK c : InTurn(c, rows, u) /\ Projected(rows, u) = c[Len(u)]
  BY <1>6, ProjectedIsLast
<1>8. \A m \in 0..Len(s) : c[m] = a[m]
  <2> DEFINE T == {m \in Nat : m <= Len(s) => c[m] = a[m]}
  <2>1. 0 \in T
    BY <1>2, <1>7 DEF InTurn
  <2>2. \A m \in T : m + 1 \in T
    <3> SUFFICES ASSUME NEW m \in T, m + 1 <= Len(s) PROVE c[m + 1] = a[m + 1]
      OBVIOUS
    <3>1. m \in 0..Len(s) /\ m \in 0..Len(u) /\ m + 1 <= Len(u)
          /\ m + 1 \in 1..Len(s)
      BY <1>5
    <3>2. c[m] = a[m]
      BY <3>1
    <3> QED
      BY <1>5, <1>2, <1>7, <3>1, <3>2 DEF InTurn
  <2> HIDE DEF T
  <2>3. T = Nat
    <3>1. T \in SUBSET Nat
      BY DEF T
    <3> QED
      BY <2>1, <2>2, <3>1, EveryNumber
  <2> QED
    BY <1>1, <2>3 DEF T
<1>9. \A m \in 0..Len(t) : c[Len(s) + m] = b[m]
  <2> DEFINE T == {m \in Nat : m <= Len(t) => c[Len(s) + m] = b[m]}
  <2>1. 0 \in T
    <3>1. Len(s) + 0 = Len(s) /\ Len(s) \in 0..Len(s)
      BY <1>1
    <3> QED
      BY <3>1, <1>2, <1>3, <1>8 DEF InTurn
  <2>2. \A m \in T : m + 1 \in T
    <3> SUFFICES ASSUME NEW m \in T, m + 1 <= Len(t)
                 PROVE  c[Len(s) + (m + 1)] = b[m + 1]
      OBVIOUS
    <3>1. /\ m \in 0..Len(t) /\ Len(s) + m \in 0..Len(u)
          /\ Len(s) + m + 1 <= Len(u) /\ m + 1 \in 1..Len(t)
          /\ Len(s) + (m + 1) = Len(s) + m + 1
      BY <1>5
    <3>2. c[Len(s) + m] = b[m]
      BY <3>1
    <3>3. c[Len(s) + m + 1] = ProjectEvent(c[Len(s) + m], u[Len(s) + m + 1])
      BY <1>7, <3>1 DEF InTurn
    <3>4. u[Len(s) + m + 1] = t[m + 1]
      BY <1>5, <3>1
    <3>5. b[m + 1] = ProjectEvent(b[m], t[m + 1])
      BY <1>3, <3>1 DEF InTurn
    <3> QED
      BY <3>1, <3>2, <3>3, <3>4, <3>5
  <2> HIDE DEF T
  <2>3. T = Nat
    <3>1. T \in SUBSET Nat
      BY DEF T
    <3> QED
      BY <2>1, <2>2, <3>1, EveryNumber
  <2>4. \A m \in 0..Len(t) : m \in T /\ m <= Len(t)
    BY <1>1, <2>3
  <2> QED
    BY <2>4 DEF T
<1>10. Len(t) \in 0..Len(t)
  BY <1>1
<1> QED
  BY <1>5, <1>3, <1>7, <1>9, <1>10, <1>4

MemberRows == [Devices -> Member \cup {Nobody}]

LEMMA ProjectEventType ==
  ASSUME NEW rows \in MemberRows, NEW event \in EventRow
  PROVE  ProjectEvent(rows, event) \in MemberRows
<1>1. event.by \in Devices /\ event.at \in Nat /\ event.role \in Roles
  BY DEF EventRow
<1>2. rows[event.by] # Nobody => rows[event.by] \in Member
  BY <1>1 DEF MemberRows
<1> QED
  BY <1>1, <1>2 DEF ProjectEvent, Later, MemberRows, Member, Roles

LEMMA ProjectedType ==
  ASSUME NEW rows \in MemberRows, NEW events \in Seq(EventRow)
  PROVE  Projected(rows, events) \in MemberRows
<1>1. Len(events) \in Nat /\ \A i \in 1..Len(events) : events[i] \in EventRow
  OBVIOUS
<1>2. PICK a : InTurn(a, rows, events) /\ Projected(rows, events) = a[Len(events)]
  BY <1>1, ProjectedIsLast
<1> DEFINE T == {m \in Nat : m <= Len(events) => a[m] \in MemberRows}
<1>3. 0 \in T
  BY <1>2 DEF InTurn
<1>4. \A m \in T : m + 1 \in T
  <2> SUFFICES ASSUME NEW m \in T, m + 1 <= Len(events)
               PROVE  a[m + 1] \in MemberRows
    OBVIOUS
  <2>1. m \in 0..Len(events) /\ m + 1 \in 1..Len(events)
    BY <1>1
  <2>2. a[m + 1] = ProjectEvent(a[m], events[m + 1])
    BY <1>1, <1>2, <2>1 DEF InTurn
  <2> QED
    BY <1>1, <2>1, <2>2, ProjectEventType
<1> HIDE DEF T
<1>5. T = Nat
  <2>1. T \in SUBSET Nat
    BY DEF T
  <2> QED
    BY <1>3, <1>4, <2>1, EveryNumber
<1> QED
  BY <1>1, <1>2, <1>5 DEF T

(* Nothing stored, nobody projected. *)
LEMMA ProjectedNothing ==
  ASSUME NEW rows
  PROVE  Projected(rows, <<>>) = rows
<1>1. Len(<<>>) = 0
  OBVIOUS
<1> QED
  BY <1>1, ProjectedIsLast DEF InTurn
-----------------------------------------------------------------------------
(***************************************************************************)
(* Each step keeps PushInv.                                                *)
(***************************************************************************)
LEMMA PushInitHolds == PushInit /\ ServingInit => PushInv
<1> SUFFICES ASSUME PushInit, ServingInit PROVE PushInv
  OBVIOUS
<1>1. ServingTypeOK
  BY ServingAssumption DEF ServingInit, ServingTypeOK
<1>2. log \in Seq(EventRow) /\ Len(log) <= MaxLog
  <2>1. CASE log = <<>>
    BY <2>1, PushAssumption
  <2>2. CASE log \in {<<RowAt(b, 0)>> : b \in Bodies}
    <3> PICK b \in Bodies : log = <<RowAt(b, 0)>>
      BY <2>2
    <3>1. RowAt(b, 0) \in EventRow
      BY PushAssumption DEF RowAt, EventRow, Body
    <3> QED
      BY <3>1, PushAssumption
  <2> QED
    BY <2>1, <2>2 DEF PushInit
<1>3. NoMembers \in MemberRows
  BY DEF NoMembers, MemberRows
<1>4. rideMembers \in MemberRows
  BY <1>2, <1>3, ProjectedType DEF PushInit, Replayed
<1>5. PushTypeOK
  BY <1>2, <1>4 DEF PushInit, PushTypeOK, MemberRows
<1>6. \A w \in Workers : dispatches[w] = Nobody
  BY DEF PushInit
<1>7. AttemptInv
  BY <1>6 DEF PushInit, AttemptInv, Holds
<1>8. ProjectionTrue
  BY DEF PushInit, ProjectionTrue
<1> QED
  BY <1>1, <1>2, <1>5, <1>6, <1>7, <1>8
     DEF PushInv, OneSender, ReadingInv, InvalidInv, Sending

LEMMA PushServing ==
  ASSUME ServingTypeOK, Arrival \/ UNCHANGED serving \/ Elsewhere
  PROVE  ServingTypeOK'
BY ServingAssumption DEF ServingTypeOK, Arrival, serving, Elsewhere

LEMMA DispatchShape ==
  ASSUME PushTypeOK, NEW w \in Workers, dispatches[w] # Nobody
  PROVE  dispatches[w] \in Dispatch
BY DEF PushTypeOK

(* While no dispatch sends, none holds a reservation. *)
LEMMA NoneHeld ==
  ASSUME PushInv, RideFree
  PROVE  \A p \in Pairs, w \in Workers : ~Holds(w, p)
BY DEF PushInv, AttemptInv, RideFree

LEMMA UploadKeeps ==
  ASSUME PushInv, NEW w \in Workers, Upload(w)
  PROVE  PushInv'
<1> PICK known \in SUBSET DOMAIN log, new \in NewEvents :
       /\ Len(log) + Len(new) <= MaxLog
       /\ log' = log \o new
       /\ rideMembers' = Projected(rideMembers, new)
       /\ dispatches' = [dispatches EXCEPT ![w] =
            Queued(known \cup (Len(log) + 1)..(Len(log) + Len(new)))]
  BY DEF Upload
<1>1. /\ dispatches[w] = Nobody /\ Arrival /\ RideFree
      /\ UNCHANGED <<ready, regs, delivered, sends, lost, refused>>
  BY DEF Upload
<1>2. /\ log \in Seq(EventRow) /\ Len(log) \in Nat /\ now \in Nat
      /\ rideMembers \in MemberRows
      /\ dispatches \in [Workers -> Dispatch \cup {Nobody}]
  BY DEF PushInv, PushTypeOK, MemberRows, ServingTypeOK
<1>3. new \in Seq(EventRow)
  <2> DEFINE R == {RowAt(b, t) : b \in Bodies, t \in 0..now}
  <2>1. R \subseteq EventRow
    BY <1>2, PushAssumption DEF RowAt, EventRow, Body
  <2>2. new \in UNION {[1..n -> R] : n \in 0..MaxBatch}
    BY DEF NewEvents
  <2> HIDE DEF R
  <2>3. PICK n \in 0..MaxBatch : new \in [1..n -> R]
    BY <2>2
  <2>4. n \in Nat /\ new \in [1..n -> EventRow]
    BY <2>1, <2>3, PushAssumption
  <2> QED
    BY <2>4
<1>4. Len(new) \in Nat /\ Len(log) \in Nat
  BY <1>2, <1>3
<1>5. log' \in Seq(EventRow) /\ Len(log') <= MaxLog
  BY <1>2, <1>3
<1>6. rideMembers' \in MemberRows
  BY <1>2, <1>3, ProjectedType
<1> DEFINE t == Queued(known \cup (Len(log) + 1)..(Len(log) + Len(new)))
<1>7. t \in Dispatch
  <2>1. DOMAIN log = 1..Len(log) /\ MaxLog \in Nat /\ Len(log) <= MaxLog
    BY <1>2, PushAssumption DEF PushInv
  <2>2. /\ known \subseteq 1..MaxLog
        /\ (Len(log) + 1)..(Len(log) + Len(new)) \subseteq 1..MaxLog
    BY <1>4, <2>1
  <2>3. NoMembers \in [Devices -> Member \cup {Nobody}]
    BY DEF NoMembers
  <2> QED
    BY <2>2, <2>3 DEF Queued, Dispatch
<1>8. t.phase = "queued" /\ t.reserved = {}
  BY DEF Queued
<1>9. dispatches' = [dispatches EXCEPT ![w] = t]
  OBVIOUS
<1> HIDE DEF t
<1>10. PushTypeOK'
  <2>1. dispatches' \in [Workers -> Dispatch \cup {Nobody}]
    BY <1>2, <1>7, <1>9
  <2> QED
    BY <1>1, <1>5, <1>6, <2>1 DEF PushInv, PushTypeOK, MemberRows
<1>11. /\ \A v \in Workers : ~Sending(v)'
       /\ \A v \in Workers, p \in Pairs : ~Holds(v, p)'
  BY <1>1, <1>2, <1>8, <1>9, NoneHeld DEF Sending, RideFree, Holds
<1>12. AttemptInv'
  BY <1>1, <1>11, NoneHeld DEF PushInv, AttemptInv
<1>13. ProjectionTrue'
  <2>1. ready => rideMembers = Projected(NoMembers, log)
    BY DEF PushInv, ProjectionTrue, Replayed
  <2>2. Projected(NoMembers, log \o new) = Projected(Projected(NoMembers, log), new)
    BY <1>2, <1>3, ProjectedConcat
  <2> QED
    BY <1>1, <2>1, <2>2 DEF ProjectionTrue, Replayed
<1>14. ServingTypeOK'
  BY <1>1, PushServing DEF PushInv
<1> QED
  BY <1>5, <1>10, <1>11, <1>12, <1>13, <1>14
     DEF PushInv, OneSender, ReadingInv, InvalidInv

LEMMA LockKeeps ==
  ASSUME PushInv, NEW w \in Workers, LockRide(w)
  PROVE  PushInv'
<1> DEFINE due == {p \in Messages(w) \X Devices : Reached(Rebuilt, p[1], p[2])}
           tokens == [d \in Devices |-> IF regs[d] = Nobody THEN 0 ELSE regs[d].token]
           t == [batch |-> dispatches[w].batch, phase |-> "sending",
                 due |-> due, reserved |-> {}, rideMembers |-> Rebuilt,
                 tokens |-> tokens, stale |-> {}, invalid |-> {}]
<1>1. /\ dispatches' = [dispatches EXCEPT ![w] = t]
      /\ RideFree
      /\ dispatches[w] \in Dispatch
      /\ UNCHANGED <<serving, log, rideMembers, ready, regs, delivered, sends,
                     lost, refused>>
  BY DispatchShape DEF LockRide, PushInv
<1>2. Rebuilt = Replayed
  BY DEF Rebuilt, PushInv, ProjectionTrue
<1>3. Replayed \in MemberRows
  <2>1. NoMembers \in MemberRows /\ log \in Seq(EventRow)
    BY DEF NoMembers, MemberRows, PushInv, PushTypeOK
  <2> QED
    BY <2>1, ProjectedType DEF Replayed
<1>4. due \subseteq Pairs
  BY <1>1 DEF Messages, Pairs, Dispatch
<1>5. tokens \in [Devices -> Nat]
  BY DEF PushInv, PushTypeOK, PushRegistration
<1>6. \A p \in due : IsMember(Replayed, p[2]) /\ regs[p[2]] # Nobody
  BY <1>2 DEF Reached, IsMember
<1> HIDE DEF due, tokens
<1>7. t \in Dispatch
  BY <1>1, <1>2, <1>3, <1>4, <1>5 DEF Dispatch, MemberRows
<1>8. /\ t.phase = "sending" /\ t.reserved = {} /\ t.due = due
      /\ t.rideMembers = Replayed /\ t.invalid = {}
  BY <1>2
<1> HIDE DEF t
<1>9. dispatches \in [Workers -> Dispatch \cup {Nobody}]
  BY DEF PushInv, PushTypeOK
<1>10. /\ Sending(w)'
       /\ \A v \in Workers \ {w} : ~Sending(v)'
       /\ \A v \in Workers, p \in Pairs : ~Holds(v, p)'
       /\ dispatches'[w] = t
  BY <1>1, <1>7, <1>8, <1>9, NoneHeld, PushAssumption
     DEF Sending, RideFree, Holds
<1>11. PushTypeOK'
  BY <1>1, <1>7 DEF PushInv, PushTypeOK
<1>12. AttemptInv'
  BY <1>1, <1>10, NoneHeld DEF PushInv, AttemptInv
<1>13. ReadingInv'
  BY <1>1, <1>4, <1>6, <1>8, <1>10 DEF ReadingInv, Replayed
<1>14. InvalidInv'
  BY <1>8, <1>10 DEF InvalidInv
<1>15. OneSender' /\ ProjectionTrue' /\ ServingTypeOK'
  BY <1>1, <1>10 DEF OneSender, PushInv, ProjectionTrue, Replayed, ServingTypeOK, serving
<1> QED
  BY <1>1, <1>11, <1>12, <1>13, <1>14, <1>15 DEF PushInv

(* A dispatch that works through what is due leaves everything else alone. *)
LEMMA WorkKeeps ==
  ASSUME PushInv, NEW w \in Workers, NEW p \in Pairs,
         SkipDelivered(w, p) \/ Deliver(w, p)
  PROVE  PushInv'
<1>1. /\ Sending(w)
      /\ p \in dispatches[w].due
      /\ dispatches \in [Workers -> Dispatch \cup {Nobody}]
      /\ dispatches[w] \in Dispatch
      /\ UNCHANGED <<serving, log, rideMembers, ready, regs, delivered, lost>>
      /\ sends \in [Pairs -> Nat] /\ lost \in [Pairs -> Nat]
      /\ refused \subseteq Nat
      /\ ServingTypeOK
  BY DispatchShape DEF SkipDelivered, Deliver, Sending, PushInv, PushTypeOK
<1>2. /\ p[2] \in Devices
      /\ p \notin dispatches[w].reserved
      /\ regs[p[2]] # Nobody
  BY <1>1 DEF PushInv, ReadingInv, Pairs
<1>3. \A v \in Workers \ {w} : ~Sending(v) /\ \A q \in Pairs : ~Holds(v, q)
  BY <1>1 DEF PushInv, OneSender, AttemptInv
<1> SUFFICES ASSUME NEW t \in Dispatch,
                    dispatches' = [dispatches EXCEPT ![w] = t],
                    t.phase = "sending",
                    t.rideMembers = dispatches[w].rideMembers,
                    t.tokens = dispatches[w].tokens,
                    t.due = dispatches[w].due \ {p},
                    dispatches[w].stale \subseteq t.stale,
                    refused \subseteq refused', refused' \subseteq Nat,
                    \/ /\ t.reserved = dispatches[w].reserved
                       /\ t.invalid = dispatches[w].invalid
                       /\ sends' = sends
                    \/ /\ t.reserved = dispatches[w].reserved \cup {p}
                       /\ t.invalid \subseteq dispatches[w].invalid \cup {p[2]}
                       /\ p \notin delivered
                       /\ sends' = [sends EXCEPT ![p] = @ + 1]
                       /\ p[2] \in t.invalid \ dispatches[w].invalid =>
                            dispatches[w].tokens[p[2]] \in refused'
                       /\ regs[p[2]].token # dispatches[w].tokens[p[2]] =>
                            p[2] \in t.stale
             PROVE  PushInv'
  <2>1. CASE SkipDelivered(w, p)
    <3> DEFINE t == [dispatches[w] EXCEPT !.due = @ \ {p}]
    <3>1. /\ dispatches' = [dispatches EXCEPT ![w] = t]
          /\ sends' = sends /\ refused' = refused
      BY <2>1 DEF SkipDelivered
    <3>2. /\ t \in Dispatch
          /\ t.phase = "sending"
          /\ t.rideMembers = dispatches[w].rideMembers
          /\ t.tokens = dispatches[w].tokens
          /\ t.due = dispatches[w].due \ {p}
          /\ t.stale = dispatches[w].stale
          /\ t.reserved = dispatches[w].reserved
          /\ t.invalid = dispatches[w].invalid
      BY <1>1 DEF Dispatch, Sending
    <3> HIDE DEF t
    <3> QED
      BY <1>1, <3>1, <3>2
  <2>2. CASE Deliver(w, p)
    <3> PICK invalid \in PermanentlyInvalid(p[2]) :
          /\ dispatches' = [dispatches EXCEPT
               ![w].due = @ \ {p},
               ![w].reserved = @ \cup {p},
               ![w].stale = IF regs[p[2]].token = dispatches[w].tokens[p[2]]
                            THEN @ ELSE @ \cup {p[2]},
               ![w].invalid = @ \cup invalid]
          /\ refused' = refused \cup {dispatches[w].tokens[d] : d \in invalid}
      BY <2>2 DEF Deliver
    <3> DEFINE stale == IF regs[p[2]].token = dispatches[w].tokens[p[2]]
                        THEN dispatches[w].stale ELSE dispatches[w].stale \cup {p[2]}
               t == [dispatches[w] EXCEPT
                       !.due = @ \ {p}, !.reserved = @ \cup {p},
                       !.stale = stale, !.invalid = @ \cup invalid]
    <3>1. invalid \subseteq {p[2]}
      BY DEF PermanentlyInvalid
    <3>2. stale \subseteq Devices /\ dispatches[w].stale \subseteq stale
          /\ (regs[p[2]].token # dispatches[w].tokens[p[2]] => p[2] \in stale)
      BY <1>1, <1>2 DEF Dispatch
    <3>3. dispatches' = [dispatches EXCEPT ![w] = t]
      BY <1>1 DEF Dispatch
    <3>4. /\ p \notin delivered
          /\ sends' = [sends EXCEPT ![p] = @ + 1]
      BY <2>2 DEF Deliver, Unsent
    <3>5. dispatches[w].tokens \in [Devices -> Nat]
      BY <1>1 DEF Dispatch
    <3>6. refused \subseteq refused' /\ refused' \subseteq Nat
          /\ \A d \in invalid : dispatches[w].tokens[d] \in refused'
      BY <1>1, <1>2, <3>1, <3>5
    <3> HIDE DEF stale
    <3>7. /\ t \in Dispatch
          /\ t.phase = "sending"
          /\ t.rideMembers = dispatches[w].rideMembers
          /\ t.tokens = dispatches[w].tokens
          /\ t.due = dispatches[w].due \ {p}
          /\ t.stale = stale
          /\ t.reserved = dispatches[w].reserved \cup {p}
          /\ t.invalid = dispatches[w].invalid \cup invalid
      BY <1>1, <1>2, <3>1, <3>2 DEF Dispatch, Sending
    <3> HIDE DEF t
    <3> QED
      BY <3>1, <3>2, <3>3, <3>4, <3>6, <3>7
  <2> QED
    BY <2>1, <2>2
<1>4. /\ dispatches'[w] = t /\ dispatches'[w] # Nobody
      /\ \A v \in Workers \ {w} : dispatches'[v] = dispatches[v]
  BY <1>1, PushAssumption
<1>5. Sending(w)' /\ \A v \in Workers \ {w} : ~Sending(v)'
  BY <1>3, <1>4 DEF Sending
<1>6. PushTypeOK'
  BY <1>1 DEF PushInv, PushTypeOK
<1>7. \A q \in Pairs : /\ Holds(w, q)' <=> q \in t.reserved
                       /\ Holds(w, q) <=> q \in dispatches[w].reserved
                       /\ \A v \in Workers \ {w} : ~Holds(v, q)'
  BY <1>1, <1>3, <1>4 DEF Holds, Sending
<1>8. AttemptInv'
  <2> SUFFICES ASSUME NEW q \in Pairs
               PROVE  /\ \A v \in Workers : Holds(v, q)' => Sending(v)' /\ q \notin delivered'
                      /\ q \in delivered' \/ (\E v \in Workers : Holds(v, q)')
                           => sends'[q] = 1 + lost'[q]
                      /\ q \notin delivered' /\ (\A v \in Workers : ~Holds(v, q)')
                           => sends'[q] = lost'[q]
    BY DEF AttemptInv
  <2>1. /\ q \in dispatches[w].reserved => q \notin delivered
        /\ q \in delivered \/ q \in dispatches[w].reserved => sends[q] = 1 + lost[q]
        /\ q \notin delivered /\ q \notin dispatches[w].reserved => sends[q] = lost[q]
    BY <1>3, <1>7 DEF PushInv, AttemptInv
  <2>2. sends[q] \in Nat /\ lost[q] \in Nat
    BY <1>1
  <2>3. CASE t.reserved = dispatches[w].reserved /\ sends' = sends
    BY <1>1, <1>5, <1>7, <2>1, <2>3
  <2>4. CASE /\ t.reserved = dispatches[w].reserved \cup {p}
             /\ p \notin delivered
             /\ sends' = [sends EXCEPT ![p] = @ + 1]
    <3>1. CASE q = p
      <4>1. sends'[q] = 1 + lost[q]
        BY <1>1, <1>2, <2>1, <2>2, <2>4, <3>1
      <4> QED
        BY <1>1, <1>5, <1>7, <2>4, <3>1, <4>1
    <3>2. CASE q # p
      <4>1. sends'[q] = sends[q]
        BY <1>1, <2>4, <3>2
      <4> QED
        BY <1>1, <1>5, <1>7, <2>1, <2>4, <3>2, <4>1
    <3> QED
      BY <3>1, <3>2
  <2> QED
    BY <2>3, <2>4
<1>9. ReadingInv'
  <2>1. Replayed' = Replayed
    BY <1>1 DEF Replayed
  <2>2. \A q \in t.due : q \in dispatches[w].due /\ q \notin t.reserved
    BY <1>1 DEF PushInv, ReadingInv
  <2> QED
    BY <1>1, <1>4, <1>5, <2>1, <2>2 DEF PushInv, ReadingInv
<1>10. InvalidInv'
  <2> SUFFICES ASSUME NEW d \in t.invalid
               PROVE  /\ regs[d] # Nobody
                      /\ t.tokens[d] \in refused'
                      /\ d \in t.stale \/ regs[d].token = t.tokens[d]
                      /\ \E q \in t.reserved : q[2] = d
    BY <1>1, <1>4, <1>5 DEF InvalidInv
  <2>1. CASE d \in dispatches[w].invalid
    <3>1. /\ regs[d] # Nobody
          /\ dispatches[w].tokens[d] \in refused
          /\ d \in dispatches[w].stale \/ regs[d].token = dispatches[w].tokens[d]
          /\ \E q \in dispatches[w].reserved : q[2] = d
      BY <1>1, <2>1 DEF PushInv, InvalidInv
    <3>2. dispatches[w].reserved \subseteq t.reserved
      OBVIOUS
    <3> QED
      BY <3>1, <3>2
  <2>2. CASE d \notin dispatches[w].invalid
    BY <1>2, <2>2
  <2> QED
    BY <2>1, <2>2
<1>11. OneSender' /\ ProjectionTrue' /\ ServingTypeOK'
  BY <1>1, <1>5 DEF OneSender, PushInv, ProjectionTrue, Replayed, ServingTypeOK, serving
<1>12. Len(log') <= MaxLog
  BY <1>1 DEF PushInv
<1> QED
  BY <1>6, <1>8, <1>9, <1>10, <1>11, <1>12 DEF PushInv

(* The end of a dispatch, however it ends: it holds nothing any more. *)
LEMMA OverKeeps ==
  ASSUME PushInv, NEW W \in SUBSET Workers,
         serving' = serving, log' = log, refused' = refused, sends' = sends,
         \A v \in Workers : v \in W => dispatches'[v] = Nobody,
         \A v \in Workers \ W : dispatches'[v] = dispatches[v],
         PushTypeOK', AttemptInv', ProjectionTrue',
         \A v \in Workers \ W : Sending(v) => regs' = regs
  PROVE  PushInv'
<1>1. \A v \in Workers : Sending(v)' => Sending(v) /\ v \notin W /\ dispatches'[v] = dispatches[v]
  BY DEF Sending
<1>2. Replayed' = Replayed
  BY DEF Replayed
<1>3. ReadingInv'
  BY <1>1, <1>2 DEF ReadingInv, PushInv
<1>4. InvalidInv'
  BY <1>1 DEF InvalidInv, PushInv
<1>5. OneSender' /\ ServingTypeOK' /\ Len(log') <= MaxLog
  BY <1>1 DEF OneSender, PushInv, ServingTypeOK, serving
<1> QED
  BY <1>3, <1>4, <1>5 DEF PushInv

LEMMA NothingKeeps ==
  ASSUME PushInv, NEW w \in Workers, NothingToSend(w)
  PROVE  PushInv'
<1>1. /\ dispatches \in [Workers -> Dispatch \cup {Nobody}]
      /\ dispatches' = [dispatches EXCEPT ![w] = Nobody]
      /\ ~Sending(w)
      /\ UNCHANGED <<serving, log, rideMembers, ready, regs, delivered, sends, lost, refused>>
  BY DEF NothingToSend, PushInv, PushTypeOK, Sending
<1>2. PushTypeOK'
  BY <1>1 DEF PushInv, PushTypeOK
<1>3. /\ \A v \in Workers, p \in Pairs : Holds(v, p)' <=> Holds(v, p)
      /\ \A v \in Workers : Sending(v)' <=> Sending(v)
  <2>1. \A p \in Pairs : ~Holds(w, p)
    BY <1>1 DEF PushInv, AttemptInv
  <2> QED
    BY <1>1, <2>1 DEF Holds, Sending
<1>4. AttemptInv'
  <2> SUFFICES ASSUME NEW p \in Pairs
               PROVE  /\ \A v \in Workers : Holds(v, p)' => Sending(v)' /\ p \notin delivered'
                      /\ p \in delivered' \/ (\E v \in Workers : Holds(v, p)')
                           => sends'[p] = 1 + lost'[p]
                      /\ p \notin delivered' /\ (\A v \in Workers : ~Holds(v, p)')
                           => sends'[p] = lost'[p]
    BY DEF AttemptInv
  <2>1. /\ \A v \in Workers : Holds(v, p) => Sending(v) /\ p \notin delivered
        /\ p \in delivered \/ (\E v \in Workers : Holds(v, p)) => sends[p] = 1 + lost[p]
        /\ p \notin delivered /\ (\A v \in Workers : ~Holds(v, p)) => sends[p] = lost[p]
    BY DEF PushInv, AttemptInv
  <2> QED
    BY <1>1, <1>3, <2>1
<1>5. ProjectionTrue'
  BY <1>1 DEF PushInv, ProjectionTrue, Replayed
<1>6. {w} \in SUBSET Workers
  OBVIOUS
<1>7. dispatches'[w] = Nobody /\ \A v \in Workers \ {w} : dispatches'[v] = dispatches[v]
  BY <1>1
<1> QED
  BY <1>1, <1>2, <1>4, <1>5, <1>6, <1>7, OverKeeps

(* Of the dispatches that stop, one at most had reserved the delivery.     *)
LEMMA RolledBackIs ==
  ASSUME PushInv, NEW W \in SUBSET Workers, NEW p \in Pairs
  PROVE  /\ (\E w \in W : Holds(w, p)) => RolledBack(W)[p] = lost[p] + 1
         /\ (\A w \in W : ~Holds(w, p)) => RolledBack(W)[p] = lost[p]
<1> DEFINE H == {w \in W : dispatches[w] # Nobody /\ p \in dispatches[w].reserved}
<1>1. RolledBack(W)[p] = lost[p] + Cardinality(H)
  BY DEF RolledBack
<1>2. lost[p] \in Nat
  BY DEF PushInv, PushTypeOK
<1>3. H = {w \in W : Holds(w, p)}
  BY DEF Holds
<1>4. ASSUME NEW w \in W, Holds(w, p) PROVE H = {w}
  BY <1>3, <1>4 DEF PushInv, AttemptInv, OneSender
<1>5. (\A w \in W : ~Holds(w, p)) => H = {}
  BY <1>3
<1> HIDE DEF H
<1>6. \A w \in W : Holds(w, p) => Cardinality(H) = 1
  BY <1>4, FS_Singleton
<1>7. (\A w \in W : ~Holds(w, p)) => Cardinality(H) = 0
  BY <1>5, FS_EmptySet
<1> QED
  BY <1>1, <1>2, <1>6, <1>7

LEMMA RolledBackKeeps ==
  ASSUME PushInv, NEW W \in SUBSET Workers,
         UNCHANGED <<serving, log, rideMembers, ready, regs, delivered, sends, refused>>,
         lost' = RolledBack(W),
         dispatches' \in [Workers -> Dispatch \cup {Nobody}],
         \A v \in Workers : v \in W => dispatches'[v] = Nobody,
         \A v \in Workers \ W : dispatches'[v] = dispatches[v]
  PROVE  PushInv'
<1>1. \A p \in Pairs : /\ sends[p] \in Nat /\ lost[p] \in Nat
                       /\ lost'[p] \in Nat
                       /\ (\E w \in W : Holds(w, p)) => lost'[p] = lost[p] + 1
                       /\ (\A w \in W : ~Holds(w, p)) => lost'[p] = lost[p]
  <2>1. \A p \in Pairs : sends[p] \in Nat /\ lost[p] \in Nat
    BY DEF PushInv, PushTypeOK
  <2> QED
    BY <2>1, RolledBackIs
<1>2. lost' \in [Pairs -> Nat]
  <2>1. lost' = [p \in Pairs |-> lost'[p]]
    BY DEF RolledBack
  <2> QED
    BY <1>1, <2>1
<1>3. PushTypeOK'
  BY <1>2 DEF PushInv, PushTypeOK
<1>4. \A v \in Workers, p \in Pairs : Holds(v, p)' <=> v \notin W /\ Holds(v, p)
  BY DEF Holds
<1>5. \A v \in Workers : Sending(v)' <=> v \notin W /\ Sending(v)
  BY DEF Sending
<1>6. AttemptInv'
  <2> SUFFICES ASSUME NEW p \in Pairs
               PROVE  /\ \A v \in Workers : Holds(v, p)' => Sending(v)' /\ p \notin delivered'
                      /\ p \in delivered' \/ (\E v \in Workers : Holds(v, p)')
                           => sends'[p] = 1 + lost'[p]
                      /\ p \notin delivered' /\ (\A v \in Workers : ~Holds(v, p)')
                           => sends'[p] = lost'[p]
    BY DEF AttemptInv
  <2>1. /\ \A v \in Workers : Holds(v, p) => Sending(v) /\ p \notin delivered
        /\ p \in delivered \/ (\E v \in Workers : Holds(v, p)) => sends[p] = 1 + lost[p]
        /\ p \notin delivered /\ (\A v \in Workers : ~Holds(v, p)) => sends[p] = lost[p]
        /\ \A v, w \in Workers : Holds(v, p) /\ Holds(w, p) => v = w
    BY DEF PushInv, AttemptInv, OneSender
  <2>2. CASE \E w \in W : Holds(w, p)
    BY <1>1, <1>4, <1>5, <2>1, <2>2
  <2>3. CASE \A w \in W : ~Holds(w, p)
    BY <1>1, <1>4, <1>5, <2>1, <2>3
  <2> QED
    BY <2>2, <2>3
<1>7. ProjectionTrue'
  BY DEF PushInv, ProjectionTrue, Replayed
<1> QED
  BY <1>3, <1>6, <1>7, OverKeeps

LEMMA FailKeeps ==
  ASSUME PushInv, Crash \/ \E w \in Workers : FailDispatch(w)
  PROVE  PushInv'
<1>1. dispatches \in [Workers -> Dispatch \cup {Nobody}]
  BY DEF PushInv, PushTypeOK
<1>2. CASE Crash
  <2>1. /\ dispatches' \in [Workers -> Dispatch \cup {Nobody}]
        /\ \A v \in Workers : dispatches'[v] = Nobody
        /\ lost' = RolledBack(Workers)
        /\ UNCHANGED <<serving, log, rideMembers, ready, regs, delivered, sends, refused>>
    BY <1>2 DEF Crash
  <2> QED
    BY <2>1, RolledBackKeeps
<1>3. ASSUME NEW w \in Workers, FailDispatch(w) PROVE PushInv'
  <2>1. /\ dispatches' \in [Workers -> Dispatch \cup {Nobody}]
        /\ dispatches'[w] = Nobody
        /\ \A v \in Workers \ {w} : dispatches'[v] = dispatches[v]
        /\ lost' = RolledBack({w})
        /\ UNCHANGED <<serving, log, rideMembers, ready, regs, delivered, sends, refused>>
    BY <1>1, <1>3 DEF FailDispatch
  <2>2. {w} \in SUBSET Workers
    OBVIOUS
  <2> QED
    BY <2>1, <2>2, RolledBackKeeps
<1> QED
  BY <1>2, <1>3

LEMMA CommitKeeps ==
  ASSUME PushInv, NEW w \in Workers, CommitDispatch(w)
  PROVE  PushInv'
<1>1. /\ Sending(w)
      /\ dispatches \in [Workers -> Dispatch \cup {Nobody}]
      /\ dispatches[w] \in Dispatch
      /\ dispatches' = [dispatches EXCEPT ![w] = Nobody]
      /\ delivered' = delivered \cup dispatches[w].reserved
      /\ rideMembers' = dispatches[w].rideMembers
      /\ ready' = TRUE
      /\ UNCHANGED <<serving, log, sends, lost, refused>>
  BY DispatchShape DEF CommitDispatch, Sending, PushInv, PushTypeOK
<1>2. \A v \in Workers \ {w} : ~Sending(v) /\ \A p \in Pairs : ~Holds(v, p)
  BY <1>1 DEF PushInv, OneSender, AttemptInv
<1>3. regs' \in [Devices -> PushRegistration \cup {Nobody}]
  <2>1. \A d \in dispatches[w].invalid : regs[d] # Nobody
    BY <1>1 DEF PushInv, InvalidInv
  <2>2. regs \in [Devices -> PushRegistration \cup {Nobody}]
    BY DEF PushInv, PushTypeOK
  <2>3. \A d \in Devices :
          d \in dispatches[w].invalid =>
            [token |-> regs[d].token, wants |-> regs[d].wants, live |-> FALSE] \in PushRegistration
    BY <2>1, <2>2 DEF PushRegistration
  <2> QED
    BY <2>2, <2>3 DEF CommitDispatch
<1>4. PushTypeOK'
  BY <1>1, <1>3 DEF PushInv, PushTypeOK, Dispatch
<1>5. \A v \in Workers, p \in Pairs : ~Holds(v, p)' /\ (Holds(w, p) <=> p \in dispatches[w].reserved)
  BY <1>1, <1>2 DEF Holds, Sending
<1>6. AttemptInv'
  <2> SUFFICES ASSUME NEW p \in Pairs
               PROVE  /\ p \in delivered' => sends'[p] = 1 + lost'[p]
                      /\ p \notin delivered' => sends'[p] = lost'[p]
    BY <1>5 DEF AttemptInv
  <2>1. /\ p \in delivered \/ Holds(w, p) => sends[p] = 1 + lost[p]
        /\ p \notin delivered /\ ~Holds(w, p) => sends[p] = lost[p]
    BY <1>2 DEF PushInv, AttemptInv
  <2> QED
    BY <1>1, <1>5, <2>1
<1>7. ProjectionTrue'
  BY <1>1 DEF PushInv, ReadingInv, ProjectionTrue, Replayed
<1>8. {w} \in SUBSET Workers
  OBVIOUS
<1>9. dispatches'[w] = Nobody /\ \A v \in Workers \ {w} : dispatches'[v] = dispatches[v]
  BY <1>1
<1> QED
  BY <1>1, <1>2, <1>4, <1>6, <1>7, <1>8, <1>9, OverKeeps

LEMMA RegistrationKeeps ==
  ASSUME PushInv, NEW d \in Devices, RegisterPush(d) \/ RevokePush(d)
  PROVE  PushInv'
<1>1. /\ Arrival
      /\ regs \in [Devices -> PushRegistration \cup {Nobody}]
      /\ ServingTypeOK
      /\ UNCHANGED <<log, rideMembers, ready, delivered, dispatches, sends, lost, refused>>
  BY DEF RegisterPush, RevokePush, PushInv, PushTypeOK
<1>2. ServingTypeOK'
  BY <1>1, PushServing
<1>3. /\ regs' \in [Devices -> PushRegistration \cup {Nobody}]
      /\ \A c \in Devices : regs[c] # Nobody => regs'[c] # Nobody
  <2>1. CASE RegisterPush(d)
    <3>1. PICK wants \in BOOLEAN :
            regs' = [regs EXCEPT ![d] = [token |-> calls', wants |-> wants, live |-> TRUE]]
      BY <2>1 DEF RegisterPush
    <3>2. [token |-> calls', wants |-> wants, live |-> TRUE] \in PushRegistration
      BY <1>2, ServingAssumption DEF PushRegistration, ServingTypeOK
    <3> QED
      BY <1>1, <3>1, <3>2, PushAssumption
  <2>2. CASE RevokePush(d)
    <3>1. regs' = [regs EXCEPT ![d] = [regs[d] EXCEPT !.live = FALSE]]
      BY <2>2 DEF RevokePush
    <3>2. [regs[d] EXCEPT !.live = FALSE] \in PushRegistration
      BY <1>1, <2>2 DEF RevokePush, PushRegistration
    <3> QED
      BY <1>1, <3>1, <3>2, PushAssumption
  <2> QED
    BY <2>1, <2>2
<1>4. PushTypeOK'
  BY <1>1, <1>3 DEF PushInv, PushTypeOK
<1>5. \A v \in Workers : /\ Sending(v)' <=> Sending(v)
                         /\ \A p \in Pairs : Holds(v, p)' <=> Holds(v, p)
  BY <1>1 DEF Sending, Holds
<1>6. AttemptInv' /\ OneSender' /\ ProjectionTrue' /\ Len(log') <= MaxLog
  <2>1. AttemptInv'
    BY <1>1, <1>5 DEF PushInv, AttemptInv
  <2>2. OneSender' /\ ProjectionTrue' /\ Len(log') <= MaxLog
    BY <1>1, <1>5 DEF PushInv, OneSender, ProjectionTrue, Replayed
  <2> QED
    BY <2>1, <2>2
<1>7. ReadingInv'
  <2>1. \A v \in Workers : Sending(v) =>
          dispatches[v] \in Dispatch /\ \A p \in dispatches[v].due : p[2] \in Devices
    BY DispatchShape DEF PushInv, Sending, Dispatch, Pairs
  <2> QED
    BY <1>1, <1>3, <1>5, <2>1 DEF PushInv, ReadingInv, Replayed
<1>8. InvalidInv'
  <2> SUFFICES ASSUME NEW v \in Workers, Sending(v), NEW c \in dispatches[v].invalid
               PROVE  /\ regs'[c] # Nobody
                      /\ dispatches[v].tokens[c] \in refused
                      /\ c \in dispatches[v].stale \/ regs'[c].token = dispatches[v].tokens[c]
                      /\ \E p \in dispatches[v].reserved : p[2] = c
    BY <1>1, <1>5 DEF InvalidInv
  <2>1. /\ regs[c] # Nobody
        /\ dispatches[v].tokens[c] \in refused
        /\ c \in dispatches[v].stale \/ regs[c].token = dispatches[v].tokens[c]
        /\ \E p \in dispatches[v].reserved : p[2] = c
    BY DEF PushInv, InvalidInv
  <2>2. c \in Devices
    BY DispatchShape DEF PushInv, Sending, Dispatch
  <2>3. regs'[c].token = regs[c].token
    <3>1. CASE c # d
      BY <1>1, <2>2, <3>1 DEF RegisterPush, RevokePush
    <3>2. CASE c = d
      <4>1. ~RegisterPush(d)
        BY <2>1, <3>2 DEF RegisterPush, RowFree
      <4>2. regs' = [regs EXCEPT ![d] = [regs[d] EXCEPT !.live = FALSE]]
        BY <4>1 DEF RevokePush
      <4>3. regs[d] \in PushRegistration
        BY <1>1, <2>1, <3>2
      <4> QED
        BY <1>1, <3>2, <4>2, <4>3 DEF PushRegistration
    <3> QED
      BY <3>1, <3>2
  <2> QED
    BY <1>3, <2>1, <2>2, <2>3
<1> QED
  BY <1>2, <1>4, <1>6, <1>7, <1>8 DEF PushInv

LEMMA PushStepHolds == PushInv /\ [PushNext]_pushVars => PushInv'
<1> SUFFICES ASSUME PushInv, [PushNext]_pushVars PROVE PushInv'
  OBVIOUS
<1>1. ASSUME NEW w \in Workers, Upload(w) PROVE PushInv'
  BY <1>1, UploadKeeps
<1>2. ASSUME NEW w \in Workers, NothingToSend(w) PROVE PushInv'
  BY <1>2, NothingKeeps
<1>3. ASSUME NEW w \in Workers, LockRide(w) PROVE PushInv'
  BY <1>3, LockKeeps
<1>4. ASSUME NEW w \in Workers, CommitDispatch(w) PROVE PushInv'
  BY <1>4, CommitKeeps
<1>5. CASE Crash \/ \E w \in Workers : FailDispatch(w)
  BY <1>5, FailKeeps
<1>6. ASSUME NEW w \in Workers, NEW p \in Pairs, SkipDelivered(w, p) \/ Deliver(w, p)
      PROVE  PushInv'
  BY <1>6, WorkKeeps
<1>7. ASSUME NEW d \in Devices, RegisterPush(d) \/ RevokePush(d) PROVE PushInv'
  BY <1>7, RegistrationKeeps
<1>8. CASE (Elsewhere \/ UNCHANGED serving) /\ UNCHANGED pushState
  <2>1. ServingTypeOK'
    BY <1>8, PushServing DEF PushInv
  <2>2. /\ \A v \in Workers : Sending(v)' <=> Sending(v)
        /\ \A v \in Workers, p \in Pairs : Holds(v, p)' <=> Holds(v, p)
        /\ UNCHANGED <<log, rideMembers, ready, regs, delivered, dispatches, sends,
                       lost, refused>>
    BY <1>8 DEF pushState, Sending, Holds
  <2>3. PushTypeOK' /\ Len(log') <= MaxLog
    BY <2>2 DEF PushInv, PushTypeOK
  <2>4. AttemptInv'
    BY <2>2 DEF PushInv, AttemptInv
  <2>5. OneSender' /\ ProjectionTrue' /\ ReadingInv' /\ InvalidInv'
    BY <2>2 DEF PushInv, OneSender, ProjectionTrue, ReadingInv, InvalidInv, Replayed
  <2> QED
    BY <2>1, <2>3, <2>4, <2>5 DEF PushInv
<1> QED
  BY <1>1, <1>2, <1>3, <1>4, <1>5, <1>6, <1>7, <1>8 DEF PushNext, PushStep, pushVars

(* What holds of every state of the alerts. *)
LEMMA PushInvHolds == PushSpec => []PushInv
<1>1. PushInit /\ ServingInit => PushInv
  BY PushInitHolds
<1>2. PushInv /\ [PushNext]_pushVars => PushInv'
  BY PushStepHolds
<1> QED
  BY <1>1, <1>2, PTL DEF PushSpec

(* However often an event is uploaded again and however dispatches         *)
(* overlap, fail or are cut off by a restart, a registration is called for *)
(* it once, and once more for every dispatch that did not commit           *)
(* (PushDispatcher.dispatch, the unique constraint of PushDelivery).       *)
THEOREM OneAttemptEach == PushSpec => []OneAttempt
<1>1. PushInv => OneAttempt
  <2> SUFFICES ASSUME PushInv, NEW p \in Pairs PROVE sends[p] <= 1 + lost[p]
    BY DEF OneAttempt
  <2>1. sends[p] \in Nat /\ lost[p] \in Nat
    BY DEF PushInv, PushTypeOK
  <2>2. sends[p] = lost[p] \/ sends[p] = 1 + lost[p]
    BY DEF PushInv, AttemptInv
  <2> QED
    BY <2>1, <2>2
<1> QED
  BY <1>1, PushInvHolds, PTL

(* The rows of the members are what a replay of the stored events gives,   *)
(* whether they were kept up to date event by event or rebuilt by a        *)
(* dispatch (project_membership_events).                                   *)
THEOREM ProjectionReplays == PushSpec => []ProjectionTrue
<1>1. PushInv => ProjectionTrue
  BY DEF PushInv
<1> QED
  BY <1>1, PushInvHolds, PTL

(* Only a member that has not left is alerted: what the dispatch read of   *)
(* the members is still what the stored events say when it calls the       *)
(* provider, because no event is stored meanwhile.                         *)
THEOREM AlertsGoToMembers == PushSpec => OnlyMembersAlerted
<1>1. PushInv /\ [PushNext]_pushVars =>
        [\A p \in Pairs : sends'[p] # sends[p] =>
           /\ Replayed'[p[2]] # Nobody
           /\ ~Replayed'[p[2]].left]_pushVars
  <2> SUFFICES ASSUME PushInv, PushNext, NEW p \in Pairs, sends'[p] # sends[p]
               PROVE  Replayed'[p[2]] # Nobody /\ ~Replayed'[p[2]].left
    OBVIOUS
  <2>1. PICK w \in Workers, q \in Pairs : Deliver(w, q)
    BY DEF PushNext, PushStep, Crash, Upload, NothingToSend, LockRide, CommitDispatch,
           FailDispatch, SkipDelivered, RegisterPush, RevokePush, pushState
  <2>2. sends' = [sends EXCEPT ![q] = @ + 1] /\ log' = log
    BY <2>1 DEF Deliver
  <2>3. p = q /\ sends \in [Pairs -> Nat]
    BY <2>2 DEF PushInv, PushTypeOK
  <2>4. IsMember(Replayed, p[2])
    BY <2>1, <2>3 DEF Deliver, PushInv, ReadingInv
  <2>5. Replayed' = Replayed
    BY <2>2 DEF Replayed
  <2> QED
    BY <2>4, <2>5 DEF IsMember
<1> QED
  BY <1>1, PushInvHolds, PTL DEF PushSpec, OnlyMembersAlerted

(* A registration goes only with its device's word, with a refusal of its  *)
(* token, or where the token was replaced after the dispatch read it       *)
(* (revoke, _send).                                                        *)
THEOREM RevocationsHaveCause == PushSpec => RevokedForCause
<1>1. PushInv /\ [PushNext]_pushVars =>
        [\A d \in Devices :
           regs[d] # Nobody /\ regs[d].live /\ ~regs'[d].live =>
             \/ RevokePush(d)
             \/ regs[d].token \in refused
             \/ \E w \in Workers : CommitDispatch(w) /\ d \in dispatches[w].stale]_pushVars
  <2> SUFFICES ASSUME PushInv, PushNext, NEW d \in Devices,
                      regs[d] # Nobody, regs[d].live, ~regs'[d].live
               PROVE  \/ RevokePush(d)
                      \/ regs[d].token \in refused
                      \/ \E w \in Workers : CommitDispatch(w) /\ d \in dispatches[w].stale
    OBVIOUS
  <2>0. regs \in [Devices -> PushRegistration \cup {Nobody}]
    BY DEF PushInv, PushTypeOK
  <2>1. \/ \E w \in Workers : CommitDispatch(w)
        \/ \E c \in Devices : RegisterPush(c) \/ RevokePush(c)
    <3>1. regs' # regs
      OBVIOUS
    <3>2. ~UNCHANGED pushState
      BY <3>1 DEF pushState
    <3>3. ASSUME NEW w \in Workers
          PROVE  /\ ~Upload(w) /\ ~NothingToSend(w) /\ ~LockRide(w) /\ ~FailDispatch(w)
                 /\ \A p \in Pairs : ~SkipDelivered(w, p) /\ ~Deliver(w, p)
      <4>1. ~Upload(w)
        BY <3>1 DEF Upload
      <4>2. ~NothingToSend(w) /\ ~LockRide(w) /\ ~FailDispatch(w)
        BY <3>1 DEF NothingToSend, LockRide, FailDispatch
      <4>3. \A p \in Pairs : ~SkipDelivered(w, p) /\ ~Deliver(w, p)
        BY <3>1 DEF SkipDelivered, Deliver
      <4> QED
        BY <4>1, <4>2, <4>3
    <3>4. ~Crash
      BY <3>1 DEF Crash
    <3> QED
      BY <3>2, <3>3, <3>4 DEF PushNext, PushStep
  <2>2. ASSUME NEW w \in Workers, CommitDispatch(w)
        PROVE  regs[d].token \in refused \/ d \in dispatches[w].stale
    <3>1. d \in dispatches[w].invalid
      BY <2>2 DEF CommitDispatch
    <3> QED
      BY <2>2, <3>1 DEF CommitDispatch, PushInv, InvalidInv
  <2>3. ASSUME NEW c \in Devices, RegisterPush(c) PROVE FALSE
    <3>1. CASE c = d
      BY <2>0, <2>3, <3>1 DEF RegisterPush
    <3>2. CASE c # d
      BY <2>0, <2>3, <3>2 DEF RegisterPush
    <3> QED
      BY <3>1, <3>2
  <2>4. ASSUME NEW c \in Devices, RevokePush(c), c # d PROVE FALSE
    BY <2>0, <2>4 DEF RevokePush
  <2> QED
    BY <2>1, <2>2, <2>3, <2>4
<1> QED
  BY <1>1, PushInvHolds, PTL DEF PushSpec, RevokedForCause
=============================================================================
