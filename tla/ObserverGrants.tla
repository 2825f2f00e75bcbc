--------------------------- MODULE ObserverGrants ---------------------------
(***************************************************************************)
(* Observer grants of one ride (observer.py): a time-limited permission    *)
(* for somebody outside the ride to see where a rider, or the group, is.   *)
(* The rider's phone publishes snapshots into it, observers read it, and   *)
(* the rider revokes it.                                                   *)
(*                                                                         *)
(* Creating a grant counts the active ones under the ride's row lock,      *)
(* publishing merges under the grant's, revoking is one guarded UPDATE.    *)
(* A call reads the clock when it arrives, before it waits for a lock.     *)
(* A snapshot is told apart by its times: when it was generated, and when  *)
(* its status, its position and its call for assistance were recorded; 0   *)
(* is none.  The number of a call is the identity of the grant it creates. *)
(* The pilot's proof that a group grant needs is verified or not, here.    *)
(***************************************************************************)
EXTENDS Serving

CONSTANTS
  Clerks,          \* worker threads that serve observer calls
  Durations,       \* durationMinutes that may be asked for
  RideEnds,        \* the ride's delete_after
  MaxGrants,       \* maximum_observer_grants_per_ride
  Ahead,           \* how far in the future a phone's time may be
  NoGrant          \* no such row; a free thread; never read

GrantIds == 1..MaxCalls
Scopes == {"rider", "group"}
Fields == {"version", "status", "position", "assistance"}
Snapshot == [Fields -> Nat]
Grant == [scope : Scopes, expires : Nat, revoked : BOOLEAN, snapshot : Snapshot]
GrantCall == [kind : {"create"}, at : Nat, n : GrantIds, scope : Scopes,
           life : Durations, phase : {"asked", "counted"}]
PublishCall == [kind : {"publish"}, at : Nat, grant : GrantIds, scope : Scopes,
            snapshot : Snapshot, phase : {"asked", "read"}, current : Snapshot]

ASSUME ObserverAssumption ==
  /\ Durations \subseteq Nat \ {0}
  /\ RideEnds \in Nat /\ MaxGrants \in Nat /\ Ahead \in Nat
  /\ NoGrant \notin Grant \cup GrantCall \cup PublishCall \cup Snapshot

VARIABLES
  grants,      \* [GrantIds -> Grant \cup {NoGrant}]
  clerks,      \* [Clerks -> GrantCall \cup PublishCall \cup {NoGrant}]
  seen         \* history: [GrantIds -> what an observer was last shown]

observerState == <<grants, clerks, seen>>
observerVars == <<serving, observerState>>

Nothing == [f \in Fields |-> 0]

ObserverInit ==
  /\ grants = [g \in GrantIds |-> NoGrant]
  /\ clerks = [t \in Clerks |-> NoGrant]
  /\ seen = [g \in GrantIds |-> NoGrant]

Doing(t, kind, phase) ==
  /\ clerks[t] # NoGrant
  /\ clerks[t].kind = kind
  /\ clerks[t].phase = phase

(* A grant that exists, is not revoked and has not expired at a time. *)
Open(g, at) ==
  /\ grants[g] # NoGrant
  /\ ~grants[g].revoked
  /\ grants[g].expires > at

NoLocks(t) == TRUE               \* broken: neither the ride nor its lock is held
CountFree(t) == \A u \in Clerks : ~Doing(u, "create", "counted")

AnyGrant(g) == TRUE              \* broken: the grant is read without FOR UPDATE
GrantFree(g) ==
  \A u \in Clerks : Doing(u, "publish", "read") => clerks[u].grant # g

Close(t) == clerks' = [clerks EXCEPT ![t] = NoGrant]

-----------------------------------------------------------------------------
(***************************************************************************)
(* Creating                                                                *)
(***************************************************************************)
AskGrant(t) ==
  /\ clerks[t] = NoGrant
  /\ Arrival
  /\ \E scope \in Scopes, life \in Durations :
       clerks' = [clerks EXCEPT ![t] =
         [kind |-> "create", at |-> now, n |-> calls', scope |-> scope,
          life |-> life, phase |-> "asked"]]
  /\ UNCHANGED <<grants, seen>>

ActiveAt(at) == {g \in GrantIds : Open(g, at)}

(* Both locks are held; a pilot's proof is verified; there is room. *)
CountGrants(t) ==
  /\ Doing(t, "create", "asked")
  /\ CountFree(t)
  /\ Cardinality(ActiveAt(clerks[t].at)) < MaxGrants
  /\ clerks' = [clerks EXCEPT ![t].phase = "counted"]
  /\ UNCHANGED <<serving, grants, seen>>

(* 409: the limit is reached; 403: the proof is another device's.          *)
RefuseGrant(t) ==
  /\ Doing(t, "create", "asked")
  /\ CountFree(t)
  /\ \/ Cardinality(ActiveAt(clerks[t].at)) >= MaxGrants
     \/ clerks[t].scope = "group"
  /\ Close(t)
  /\ UNCHANGED <<serving, grants, seen>>

Sooner(a, b) == IF a <= b THEN a ELSE b

InsertGrant(t) ==
  /\ Doing(t, "create", "counted")
  /\ grants' = [grants EXCEPT ![clerks[t].n] =
       [scope |-> clerks[t].scope, revoked |-> FALSE, snapshot |-> Nothing,
        expires |-> Sooner(clerks[t].at + clerks[t].life, RideEnds)]]
  /\ Close(t)
  /\ UNCHANGED <<serving, seen>>

-----------------------------------------------------------------------------
(***************************************************************************)
(* Publishing                                                              *)
(***************************************************************************)
(* No time is further ahead than the phones' clocks may be, and a group's  *)
(* snapshot has no position and no call of a rider.                        *)
PublishObserverSnapshotRequest(scope) ==
  {s \in [Fields -> 0..(now + Ahead)] :
     /\ s["version"] > 0 /\ s["status"] > 0 /\ s["assistance"] > 0
     /\ scope = "group" => s["position"] = 0}

AskPublish(t) ==
  /\ clerks[t] = NoGrant
  /\ Arrival
  /\ \E g \in GrantIds, scope \in Scopes :
       /\ grants[g] # NoGrant
       /\ \E s \in PublishObserverSnapshotRequest(scope) :
            clerks' = [clerks EXCEPT ![t] =
              [kind |-> "publish", at |-> now, grant |-> g, scope |-> scope,
               snapshot |-> s, phase |-> "asked", current |-> Nothing]]
  /\ UNCHANGED <<grants, seen>>

Newer(t) ==
  grants[clerks[t].grant].snapshot["version"] < clerks[t].snapshot["version"]
Publishable(t) ==
  /\ Open(clerks[t].grant, clerks[t].at)
  /\ grants[clerks[t].grant].scope = clerks[t].scope
  /\ Newer(t)

(* The grant is locked, checked and its snapshot decrypted. *)
ReadGrant(t) ==
  /\ Doing(t, "publish", "asked")
  /\ GrantFree(clerks[t].grant)
  /\ Publishable(t)
  /\ clerks' = [clerks EXCEPT
       ![t].phase = "read",
       ![t].current = grants[clerks[t].grant].snapshot]
  /\ UNCHANGED <<serving, grants, seen>>

(* 404: revoked, expired or gone; 409: another scope, or an older snapshot.*)
RefusePublish(t) ==
  /\ Doing(t, "publish", "asked")
  /\ GrantFree(clerks[t].grant)
  /\ ~Publishable(t)
  /\ Close(t)
  /\ UNCHANGED <<serving, grants, seen>>

(* Each part is replaced if the new one is not older: phones deliver late. *)
Merged(current, s) ==
  [version |-> s["version"],
   status |-> IF s["status"] >= current["status"] THEN s["status"] ELSE current["status"],
   position |-> IF s["position"] # 0 /\ s["position"] >= current["position"]
                THEN s["position"] ELSE current["position"],
   assistance |-> IF s["assistance"] >= current["assistance"]
                  THEN s["assistance"] ELSE current["assistance"]]

(* The UPDATE repeats the check of the grant, which the lock keeps true.   *)
StoreSnapshot(t) ==
  LET g == clerks[t].grant IN
  /\ Doing(t, "publish", "read")
  /\ Open(g, clerks[t].at)
  /\ grants' = [grants EXCEPT ![g].snapshot = Merged(clerks[t].current, clerks[t].snapshot)]
  /\ Close(t)
  /\ UNCHANGED <<serving, seen>>

-----------------------------------------------------------------------------
(* Revoking empties the grant; it waits for a publication in progress.     *)
KeptSnapshot(g) == grants[g].snapshot    \* broken: the snapshot stays
ClearedSnapshot(g) == Nothing

RevokeGrant(g) ==
  /\ Arrival
  /\ GrantFree(g)
  /\ Open(g, now)
  /\ grants' = [grants EXCEPT
       ![g].revoked = TRUE, ![g].snapshot = ClearedSnapshot(g)]
  /\ UNCHANGED <<clerks, seen>>

(* An observer reads without a lock. *)
ReadSnapshot(g) ==
  /\ Open(g, now)
  /\ grants[g].snapshot # Nothing
  /\ seen' = [seen EXCEPT ![g] = grants[g].snapshot]
  /\ UNCHANGED <<serving, grants, clerks>>

(* The scheduled cleanup deletes what has expired, snapshot and all.       *)
PurgeGrant(g) ==
  /\ grants[g] # NoGrant
  /\ grants[g].expires <= now
  /\ GrantFree(g)
  /\ grants' = [grants EXCEPT ![g] = NoGrant]
  /\ UNCHANGED <<serving, clerks, seen>>

ObserverStep ==
  \/ \E t \in Clerks :
       \/ AskGrant(t) \/ CountGrants(t) \/ RefuseGrant(t) \/ InsertGrant(t)
       \/ AskPublish(t) \/ ReadGrant(t) \/ RefusePublish(t)
       \/ StoreSnapshot(t)
  \/ \E g \in GrantIds : RevokeGrant(g) \/ ReadSnapshot(g) \/ PurgeGrant(g)

ObserverNext == ObserverStep \/ (Elsewhere /\ UNCHANGED observerState)
ObserverSpec == ObserverInit /\ ServingInit /\ [][ObserverNext]_observerVars

-----------------------------------------------------------------------------
ObserverTypeOK ==
  /\ ServingTypeOK
  /\ grants \in [GrantIds -> Grant \cup {NoGrant}]
  /\ clerks \in [Clerks -> GrantCall \cup PublishCall \cup {NoGrant}]
  /\ seen \in [GrantIds -> Snapshot \cup {NoGrant}]

(* "Active observer limit reached": no more grants are active at a time    *)
(* than the limit, however creations overlap and though each judges by the *)
(* time it arrived.                                                        *)
GrantsBounded == Cardinality(ActiveAt(now)) <= MaxGrants

(* A revoked grant holds no snapshot: a publication that was under way     *)
(* leaves nothing behind.                                                  *)
RevokedIsEmpty ==
  \A g \in GrantIds :
    grants[g] # NoGrant /\ grants[g].revoked => grants[g].snapshot = Nothing

(* What observers are shown never goes back in time, in none of its parts, *)
(* though publications arrive out of order and overlap.                    *)
NeverGoesBack ==
  [][\A g \in GrantIds : seen[g] # NoGrant =>
       \A f \in Fields : seen'[g][f] >= seen[g][f]]_observerVars
=============================================================================
