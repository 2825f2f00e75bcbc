-------------------------- MODULE TrafficIncidents --------------------------
(***************************************************************************)
(* Live traffic incidents (traffic.py): a proxy for a paid provider, with  *)
(* a cache per area.  The requests are coroutines of one event loop.  Each *)
(* looks into the cache, waits for the one lock of the cache, looks again  *)
(* and calls the provider, whose answer may take any time and may be an    *)
(* error.  An entry is dated from before the call.                         *)
(***************************************************************************)
EXTENDS Serving

CONSTANTS
  Tasks,           \* requests in progress
  Areas,           \* quantised bounding boxes
  CacheLife,       \* traffic_incident_cache_seconds
  MaxCached,       \* the entries the cache keeps
  NoArea           \* a free task, or an area the cache does not hold

CacheEntry == [at : Nat]
TrafficTask == [area : Areas, at : Nat, phase : {"waiting", "fetching"}]

ASSUME TrafficAssumption ==
  /\ CacheLife \in Nat \ {0}
  /\ MaxCached \in Nat \ {0}
  /\ NoArea \notin CacheEntry \cup TrafficTask

VARIABLES
  cache,       \* [Areas -> CacheEntry \cup {NoArea}]
  tasks        \* [Tasks -> TrafficTask \cup {NoArea}]

trafficState == <<cache, tasks>>
trafficVars == <<serving, trafficState>>

TrafficInit ==
  /\ cache = [a \in Areas |-> NoArea]
  /\ tasks = [k \in Tasks |-> NoArea]

Fresh(a, at) == cache[a] # NoArea /\ at - cache[a].at < CacheLife
NoCacheLock == FALSE             \* broken: the provider is called unlocked
LockHeld == \E k \in Tasks : tasks[k] # NoArea /\ tasks[k].phase = "fetching"

(* A request that finds a fresh entry is answered at once. *)
AnswerFromCache(a) ==
  /\ Arrival
  /\ Fresh(a, now)
  /\ UNCHANGED trafficState

AskTraffic(k, a) ==
  /\ tasks[k] = NoArea
  /\ Arrival
  /\ ~Fresh(a, now)
  /\ tasks' = [tasks EXCEPT ![k] = [area |-> a, at |-> now, phase |-> "waiting"]]
  /\ UNCHANGED cache

(* The clock is read again once the lock is held. *)
AnswerFromOther(k) ==
  /\ tasks[k] # NoArea
  /\ tasks[k].phase = "waiting"
  /\ ~LockHeld
  /\ Fresh(tasks[k].area, now)
  /\ tasks' = [tasks EXCEPT ![k] = NoArea]
  /\ UNCHANGED <<serving, cache>>

StartFetch(k) ==
  /\ tasks[k] # NoArea
  /\ tasks[k].phase = "waiting"
  /\ ~LockHeld
  /\ ~Fresh(tasks[k].area, now)
  /\ tasks' = [tasks EXCEPT ![k] =
       [area |-> tasks[k].area, at |-> now, phase |-> "fetching"]]
  /\ UNCHANGED <<serving, cache>>

(* The 129th entry makes the oldest one go, possibly itself. *)
Unbounded(C) == {C}              \* broken: the cache grows
Bounded(C) ==
  IF Cardinality({a \in Areas : C[a] # NoArea}) <= MaxCached THEN {C}
  ELSE {[C EXCEPT ![a] = NoArea] :
          a \in {o \in Areas : /\ C[o] # NoArea
                               /\ \A b \in Areas : C[b] # NoArea => C[o].at <= C[b].at}}

Fetched(k) ==
  /\ tasks[k] # NoArea
  /\ tasks[k].phase = "fetching"
  /\ cache' \in Bounded([cache EXCEPT ![tasks[k].area] = [at |-> tasks[k].at]])
  /\ tasks' = [tasks EXCEPT ![k] = NoArea]
  /\ UNCHANGED serving

(* 503: the provider failed, limited us or answered nonsense; the next     *)
(* request that waits for the lock tries for itself.                       *)
FetchFailed(k) ==
  /\ tasks[k] # NoArea
  /\ tasks[k].phase = "fetching"
  /\ tasks' = [tasks EXCEPT ![k] = NoArea]
  /\ UNCHANGED <<serving, cache>>

ServeTraffic(k) == AnswerFromOther(k) \/ StartFetch(k) \/ Fetched(k) \/ FetchFailed(k)
TrafficStep ==
  \/ \E a \in Areas : AnswerFromCache(a)
  \/ \E k \in Tasks, a \in Areas : AskTraffic(k, a)
  \/ \E k \in Tasks : ServeTraffic(k)

TrafficNext == TrafficStep \/ (Elsewhere /\ UNCHANGED trafficState)
TrafficSpec == TrafficInit /\ ServingInit /\ [][TrafficNext]_trafficVars

-----------------------------------------------------------------------------
TrafficTypeOK ==
  /\ cache \in [Areas -> CacheEntry \cup {NoArea}]
  /\ Cardinality({a \in Areas : cache[a] # NoArea}) <= MaxCached
  /\ tasks \in [Tasks -> TrafficTask \cup {NoArea}]

(* The provider is not called for an area whose incidents the cache has:   *)
(* not by a request that waited while another one fetched them, and none   *)
(* fetches them while it is called.                                        *)
NoNeedlessCall ==
  \A k \in Tasks :
    /\ tasks[k] # NoArea /\ tasks[k].phase = "fetching"
    => ~Fresh(tasks[k].area, tasks[k].at)
=============================================================================
