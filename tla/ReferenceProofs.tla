-------------------------- MODULE ReferenceProofs ---------------------------
(***************************************************************************)
(* Theorems about what the relay hands out for reference: plans behind a   *)
(* code (RidePlans), traffic incidents (TrafficIncidents) and property     *)
(* extents (InspireCatalogue), and about the limiter in front of it        *)
(* (RequestLimits), for any number of codes, requests, areas, look-ups,    *)
(* builds and keys, and any limits.                                        *)
(***************************************************************************)
EXTENDS RidePlans, TrafficIncidents, InspireCatalogue, RequestLimits,
        FiniteSetTheorems, WellFoundedInduction, TLAPS

-----------------------------------------------------------------------------
(***************************************************************************)
(* Plans.  What is inductive is PlanCodeStands itself, with the types: a   *)
(* creation takes a code behind which there is no live plan, and a purge   *)
(* leaves the live ones alone.                                             *)
(***************************************************************************)
PlanInv ==
  /\ now \in Nat /\ calls \in Nat
  /\ plans \in [PlanCodes -> RidePlan \cup {NoPlan}]
  /\ given \subseteq [code : PlanCodes, call : Nat, expires : Nat]
  /\ PlanCodeStands

(* A live plan survives a purge. *)
LEMMA PurgedPlan ==
  ASSUME PlanInv, NEW g \in given, g.expires > now
  PROVE  /\ plans[g.code] = [call |-> g.call, expires |-> g.expires]
         /\ plans[g.code] # NoPlan
         /\ Purged[g.code] = plans[g.code]
<1>1. /\ g.code \in PlanCodes /\ g.call \in Nat /\ g.expires \in Nat /\ now \in Nat
  BY DEF PlanInv
<1>2. GetPlan(g.code) = [call |-> g.call, expires |-> g.expires]
  BY DEF PlanInv, PlanCodeStands
<1>3. [call |-> g.call, expires |-> g.expires] \in RidePlan
  BY <1>1 DEF RidePlan
<1>4. [call |-> g.call, expires |-> g.expires] # NoPlan
  BY <1>3, PlanAssumption
<1>5. plans[g.code] # NoPlan /\ plans[g.code].expires > now
  BY <1>2, <1>4 DEF GetPlan
<1>6. plans[g.code] = [call |-> g.call, expires |-> g.expires]
  BY <1>2, <1>5 DEF GetPlan
<1>7. ~(plans[g.code].expires <= now)
  BY <1>1, <1>6
<1> QED
  BY <1>1, <1>5, <1>6, <1>7 DEF Purged

LEMMA PurgedType ==
  ASSUME PlanInv
  PROVE  Purged \in [PlanCodes -> RidePlan \cup {NoPlan}]
BY DEF PlanInv, Purged

(* Whoever leaves the live plans where they are keeps the promise. *)
LEMMA PlansStay ==
  ASSUME PlanInv, now' \in Nat, now' >= now, calls' \in Nat, given' = given,
         plans' \in {plans, Purged}
  PROVE  PlanInv'
<1>1. plans' \in [PlanCodes -> RidePlan \cup {NoPlan}]
  BY PurgedType DEF PlanInv
<1>2. PlanCodeStands'
  <2> SUFFICES ASSUME NEW g \in given, g.expires > now'
               PROVE  /\ plans'[g.code] # NoPlan /\ plans'[g.code].expires > now'
                      /\ plans'[g.code] = [call |-> g.call, expires |-> g.expires]
    BY DEF PlanCodeStands, GetPlan
  <2>1. g.expires \in Nat /\ now \in Nat
    BY DEF PlanInv
  <2>2. g.expires > now
    BY <2>1
  <2>3. /\ plans'[g.code] = [call |-> g.call, expires |-> g.expires]
        /\ plans'[g.code] # NoPlan
    BY <2>2, PurgedPlan
  <2> QED
    BY <2>3
<1> QED
  BY <1>1, <1>2 DEF PlanInv

LEMMA PlansCreated ==
  ASSUME PlanInv, CreatePlan
  PROVE  PlanInv'
<1>1. PICK k \in 1..Attempts :
        \E draws \in [1..k -> PlanCodes] :
          /\ FirstFree(draws)
          /\ plans' = [Purged EXCEPT ![draws[k]] = [call |-> calls', expires |-> now + PlanLife]]
          /\ given' = given \cup {[code |-> draws[k], call |-> calls', expires |-> now + PlanLife]}
  BY DEF CreatePlan
<1>1a. PICK draws \in [1..k -> PlanCodes] :
        /\ FirstFree(draws)
        /\ plans' = [Purged EXCEPT ![draws[k]] = [call |-> calls', expires |-> now + PlanLife]]
        /\ given' = given \cup {[code |-> draws[k], call |-> calls', expires |-> now + PlanLife]}
  BY <1>1
<1> DEFINE c == draws[k]
<1> DEFINE row == [call |-> calls', expires |-> now + PlanLife]
<1>2. /\ now' = now /\ now \in Nat /\ calls' \in Nat /\ PlanLife \in Nat \ {0}
  BY PlanAssumption DEF CreatePlan, Arrival, PlanInv
<1>3. c \in PlanCodes /\ Purged[c] = NoPlan
  <2>1. k \in Nat /\ k >= 1
    BY PlanAssumption
  <2>2. Len(draws) = k
    BY <2>1
  <2> QED
    BY <1>1a, <2>1, <2>2 DEF FirstFree
<1>4. row \in RidePlan /\ row.expires = now + PlanLife
  BY <1>2 DEF RidePlan
<1>5. row # NoPlan
  BY <1>4, PlanAssumption
<1>6. plans' = [Purged EXCEPT ![c] = row]
  BY <1>1a
<1>7. given' = given \cup {[code |-> c, call |-> calls', expires |-> now + PlanLife]}
  BY <1>1a
<1>8. plans' \in [PlanCodes -> RidePlan \cup {NoPlan}]
  BY <1>4, <1>6, PurgedType
<1>9. given' \subseteq [code : PlanCodes, call : Nat, expires : Nat]
  BY <1>2, <1>3, <1>7 DEF PlanInv
<1>10. PlanCodeStands'
  <2> SUFFICES ASSUME NEW g \in given', g.expires > now
               PROVE  /\ plans'[g.code] # NoPlan /\ plans'[g.code].expires > now
                      /\ plans'[g.code] = [call |-> g.call, expires |-> g.expires]
    BY <1>2 DEF PlanCodeStands, GetPlan
  <2>1. CASE g \in given
    <3>1. /\ plans[g.code] = [call |-> g.call, expires |-> g.expires]
          /\ plans[g.code] # NoPlan
          /\ Purged[g.code] = plans[g.code]
      BY <2>1, PurgedPlan
    <3>2. g.code # c
      BY <1>3, <3>1
    <3>3. plans'[g.code] = Purged[g.code]
      BY <1>3, <1>6, <2>1, <3>2, PurgedType DEF PlanInv
    <3> QED
      BY <3>1, <3>3
  <2>2. CASE g = [code |-> c, call |-> calls', expires |-> now + PlanLife]
    <3>1. plans'[c] = row
      BY <1>3, <1>6, PurgedType
    <3>2. g.code = c /\ g.call = calls' /\ g.expires = now + PlanLife
      BY <2>2
    <3> QED
      BY <1>5, <3>1, <3>2
  <2> QED
    BY <1>7, <2>1, <2>2
<1> QED
  BY <1>2, <1>8, <1>9, <1>10 DEF PlanInv

LEMMA PlanInvHolds == PlanSpec => []PlanInv
<1>1. PlanInit /\ ServingInit => PlanInv
  BY DEF PlanInit, ServingInit, PlanInv, PlanCodeStands
<1>2. PlanInv /\ [PlanNext]_planVars => PlanInv'
  <2> SUFFICES ASSUME PlanInv, [PlanNext]_planVars PROVE PlanInv'
    OBVIOUS
  <2>1. now \in Nat /\ calls \in Nat
    BY DEF PlanInv
  <2>2. CASE RefusePlan \/ NoCodeLeft
    BY <2>1, <2>2, PlansStay DEF RefusePlan, NoCodeLeft, Arrival, planState
  <2>3. CASE PurgePlans
    BY <2>1, <2>3, PlansStay DEF PurgePlans, serving
  <2>4. CASE Elsewhere /\ UNCHANGED planState
    BY <2>4, PlansStay, ServingAssumption DEF Elsewhere, planState
  <2>5. CASE UNCHANGED planVars
    BY <2>1, <2>5, PlansStay DEF planVars, planState, serving
  <2> QED
    BY <2>2, <2>3, <2>4, <2>5, PlansCreated DEF PlanNext, PlanStep
<1> QED
  BY <1>1, <1>2, PTL DEF PlanSpec

(* A code that was handed out leads to its own plan until it expires,      *)
(* whatever create_plan draws later and whenever the cleanup runs.         *)
THEOREM PlansResolve == PlanSpec => []PlanCodeStands
<1>1. PlanInv => PlanCodeStands
  BY DEF PlanInv
<1> QED
  BY <1>1, PlanInvHolds, PTL

(* The rows of plans have the types of their table. *)
THEOREM PlanTypeCorrect == PlanSpec => []PlanTypeOK
<1>1. PlanInv => PlanTypeOK
  BY DEF PlanInv, PlanTypeOK
<1> QED
  BY <1>1, PlanInvHolds, PTL

-----------------------------------------------------------------------------
(***************************************************************************)
(* Traffic incidents: NoNeedlessCall and that one request at most is       *)
(* fetching, the lock being held as long as there is one.                  *)
(***************************************************************************)
Fetching(k) == tasks[k] # NoArea /\ tasks[k].phase = "fetching"
OneFetches == \A j, k \in Tasks : Fetching(j) /\ Fetching(k) => j = k
Cached(C) == {a \in Areas : C[a] # NoArea}
CacheInv ==
  /\ cache \in [Areas -> CacheEntry \cup {NoArea}]
  /\ IsFiniteSet(Cached(cache)) /\ Cardinality(Cached(cache)) <= MaxCached

TrafficInv ==
  /\ tasks \in [Tasks -> TrafficTask \cup {NoArea}]
  /\ now \in Nat
  /\ CacheInv
  /\ OneFetches
  /\ NoNeedlessCall

(* Every request stays, ends or starts to wait; none starts to fetch, and  *)
(* the cache stays as it is.                                               *)
LEMMA TrafficStays ==
  ASSUME TrafficInv, cache' = cache, now' \in Nat,
         tasks' \in [Tasks -> TrafficTask \cup {NoArea}],
         \A k \in Tasks : tasks'[k] = tasks[k] \/ tasks'[k] = NoArea
                            \/ tasks'[k].phase # "fetching"
  PROVE  TrafficInv'
BY DEF TrafficInv, CacheInv, OneFetches, Fetching, NoNeedlessCall, Fresh

(* A fetched entry is one more, and one goes when they are too many.       *)
LEMMA CacheKept ==
  ASSUME CacheInv, NEW a \in Areas, NEW e \in CacheEntry,
         cache' \in Bounded([cache EXCEPT ![a] = e])
  PROVE  CacheInv'
<1> DEFINE C == [cache EXCEPT ![a] = e]
<1> DEFINE n == Cardinality(Cached(cache))
<1>1. IsFiniteSet(Cached(cache)) /\ n <= MaxCached /\ n \in Nat /\ MaxCached \in Nat
  BY FS_CardinalityType, TrafficAssumption DEF CacheInv
<1>2. C \in [Areas -> CacheEntry \cup {NoArea}]
  BY DEF CacheInv
<1>3. Cached(C) = Cached(cache) \cup {a}
  BY TrafficAssumption DEF Cached, CacheInv
<1> HIDE DEF C
<1>4. IsFiniteSet(Cached(C)) /\ Cardinality(Cached(C)) <= n + 1
  <2>1. /\ IsFiniteSet(Cached(C))
        /\ Cardinality(Cached(C)) = IF a \in Cached(cache) THEN n ELSE n + 1
    BY <1>1, <1>3, FS_AddElement
  <2> HIDE DEF n
  <2> QED
    BY <1>1, <2>1
<1> HIDE DEF n
<1>5. Cardinality(Cached(C)) \in Nat
  BY <1>4, FS_CardinalityType
<1>6. CASE Cardinality(Cached(C)) <= MaxCached
  <2>1. cache' = C
    BY <1>6 DEF C, Bounded, Cached
  <2> QED
    BY <1>2, <1>4, <1>6, <2>1 DEF CacheInv
<1>7. CASE ~(Cardinality(Cached(C)) <= MaxCached)
  <2>1. PICK o \in Areas : C[o] # NoArea /\ cache' = [C EXCEPT ![o] = NoArea]
    BY <1>7 DEF C, Bounded, Cached
  <2>2. Cached(cache') = Cached(C) \ {o} /\ o \in Cached(C)
    BY <1>2, <2>1 DEF Cached
  <2>3. /\ IsFiniteSet(Cached(cache'))
        /\ Cardinality(Cached(cache')) = Cardinality(Cached(C)) - 1
    BY <1>4, <2>2, FS_RemoveElement
  <2>4. cache' \in [Areas -> CacheEntry \cup {NoArea}]
    BY <1>2, <2>1
  <2>5. Cardinality(Cached(cache')) <= MaxCached
    BY <1>1, <1>4, <1>5, <2>3
  <2> QED
    BY <2>3, <2>4, <2>5 DEF CacheInv
<1> QED
  BY <1>6, <1>7

LEMMA TrafficServes ==
  ASSUME TrafficInv, NEW k \in Tasks, ServeTraffic(k)
  PROVE  TrafficInv'
<1>1. tasks \in [Tasks -> TrafficTask \cup {NoArea}] /\ now \in Nat
  BY DEF TrafficInv
<1>2. CASE AnswerFromOther(k) \/ FetchFailed(k)
  <2>1. tasks' = [tasks EXCEPT ![k] = NoArea] /\ cache' = cache /\ now' = now
    BY <1>2 DEF AnswerFromOther, FetchFailed, serving
  <2> QED
    BY <1>1, <2>1, TrafficStays
<1>3. CASE StartFetch(k)
  <2> DEFINE t == [area |-> tasks[k].area, at |-> now, phase |-> "fetching"]
  <2>1. /\ tasks' = [tasks EXCEPT ![k] = t] /\ cache' = cache /\ now' = now
        /\ ~Fresh(tasks[k].area, now) /\ ~LockHeld /\ tasks[k] \in TrafficTask
    BY <1>1, <1>3 DEF StartFetch, serving
  <2>2. t \in TrafficTask /\ t.area = tasks[k].area /\ t.at = now
    BY <1>1, <2>1 DEF TrafficTask
  <2>3. \A j \in Tasks : ~Fetching(j)
    BY <2>1 DEF LockHeld, Fetching
  <2> HIDE DEF t
  <2>4. /\ tasks' \in [Tasks -> TrafficTask \cup {NoArea}]
        /\ tasks'[k] = t /\ \A j \in Tasks \ {k} : tasks'[j] = tasks[j]
    BY <1>1, <2>1, <2>2
  <2>5. OneFetches'
    BY <2>3, <2>4 DEF OneFetches, Fetching
  <2>6. NoNeedlessCall'
    BY <2>1, <2>2, <2>3, <2>4 DEF NoNeedlessCall, Fresh, Fetching
  <2> QED
    BY <1>1, <2>1, <2>4, <2>5, <2>6 DEF TrafficInv, CacheInv
<1>4. CASE Fetched(k)
  <2>1. tasks' = [tasks EXCEPT ![k] = NoArea] /\ now' = now /\ Fetching(k)
    BY <1>4 DEF Fetched, serving, Fetching
  <2>2. \A j \in Tasks : ~Fetching(j)'
    BY <1>1, <2>1 DEF TrafficInv, OneFetches, Fetching
  <2>3. tasks' \in [Tasks -> TrafficTask \cup {NoArea}]
    BY <1>1, <2>1
  <2>4. CacheInv'
    <3>1. tasks[k] \in TrafficTask
      BY <1>1, <1>4 DEF Fetched
    <3>2. tasks[k].area \in Areas /\ [at |-> tasks[k].at] \in CacheEntry
      BY <3>1 DEF TrafficTask, CacheEntry
    <3> QED
      BY <1>4, <3>2, CacheKept DEF Fetched, TrafficInv
  <2> QED
    BY <1>1, <2>1, <2>2, <2>3, <2>4 DEF TrafficInv, OneFetches, NoNeedlessCall, Fetching
<1> QED
  BY <1>2, <1>3, <1>4 DEF ServeTraffic

LEMMA TrafficInvHolds == TrafficSpec => []TrafficInv
<1>1. TrafficInit /\ ServingInit => TrafficInv
  <2> SUFFICES ASSUME TrafficInit, ServingInit PROVE TrafficInv
    OBVIOUS
  <2>1. Cached(cache) = {}
    BY DEF TrafficInit, Cached
  <2>2. CacheInv
    BY <2>1, FS_EmptySet, TrafficAssumption DEF TrafficInit, CacheInv
  <2> QED
    BY <2>2 DEF TrafficInit, ServingInit, TrafficInv, OneFetches, Fetching, NoNeedlessCall
<1>2. TrafficInv /\ [TrafficNext]_trafficVars => TrafficInv'
  <2> SUFFICES ASSUME TrafficInv, [TrafficNext]_trafficVars PROVE TrafficInv'
    OBVIOUS
  <2>1. tasks \in [Tasks -> TrafficTask \cup {NoArea}] /\ now \in Nat
    BY DEF TrafficInv
  <2>2. ASSUME NEW a \in Areas, AnswerFromCache(a) PROVE TrafficInv'
    BY <2>1, <2>2, TrafficStays DEF AnswerFromCache, Arrival, trafficState
  <2>3. ASSUME NEW k \in Tasks, NEW a \in Areas, AskTraffic(k, a) PROVE TrafficInv'
    <3> DEFINE t == [area |-> a, at |-> now, phase |-> "waiting"]
    <3>1. tasks' = [tasks EXCEPT ![k] = t] /\ cache' = cache /\ now' = now
      BY <2>3 DEF AskTraffic, Arrival
    <3>2. t \in TrafficTask /\ t.phase # "fetching"
      BY <2>1 DEF TrafficTask
    <3> HIDE DEF t
    <3> QED
      BY <2>1, <3>1, <3>2, TrafficStays
  <2>4. CASE Elsewhere /\ UNCHANGED trafficState
    BY <2>1, <2>4, TrafficStays DEF Elsewhere, trafficState
  <2>5. CASE UNCHANGED trafficVars
    BY <2>1, <2>5, TrafficStays DEF trafficVars, trafficState, serving
  <2> QED
    BY <2>2, <2>3, <2>4, <2>5, TrafficServes DEF TrafficNext, TrafficStep
<1> QED
  BY <1>1, <1>2, PTL DEF TrafficSpec

(* The provider is not called for incidents that the cache has: not by a   *)
(* request that waited for the lock while another one fetched them.        *)
THEOREM CallsAreNeeded == TrafficSpec => []NoNeedlessCall
<1>1. TrafficInv => NoNeedlessCall
  BY DEF TrafficInv
<1> QED
  BY <1>1, TrafficInvHolds, PTL

(* The cache of incidents never outgrows its bound.                        *)
THEOREM TrafficTypeCorrect == TrafficSpec => []TrafficTypeOK
<1>1. TrafficInv => TrafficTypeOK
  BY DEF TrafficInv, CacheInv, Cached, TrafficTypeOK
<1> QED
  BY <1>1, TrafficInvHolds, PTL

-----------------------------------------------------------------------------
(***************************************************************************)
(* The catalogue: only a complete file is installed, and a look-up holds   *)
(* the file whose date it has read.                                        *)
(***************************************************************************)
InspireInv ==
  /\ installed # NoFile => installed.whole
  /\ lookups \in [Readers -> Lookup \cup {NoFile}]
  /\ installed \in Edition \cup {NoFile}
  /\ builds \in [Builders -> Edition \cup {NoFile}]
  /\ calls \in Nat
  /\ \A r \in Readers : lookups[r] # NoFile =>
       lookups[r].file.whole /\ lookups[r].date = lookups[r].file.n
  /\ shown \subseteq [date : Nat, polygons : SUBSET Polygons, of : Nat, whole : BOOLEAN]
  /\ AnswersAreWhole

(* Only builds change. *)
LEMMA BuildsChange ==
  ASSUME InspireInv, UNCHANGED <<installed, lookups, shown>>,
         builds' \in [Builders -> Edition \cup {NoFile}], calls' \in Nat
  PROVE  InspireInv'
BY DEF InspireInv, AnswersAreWhole

LEMMA InspireBuilds ==
  ASSUME InspireInv, NEW b \in Builders,
         \/ StartBuild(b) \/ CompleteBuild(b) \/ AbandonBuild(b)
         \/ \E p \in Polygons : InsertPolygon(b, p)
  PROVE  InspireInv'
<1>1. builds \in [Builders -> Edition \cup {NoFile}] /\ calls \in Nat
  BY DEF InspireInv
<1>2. PICK f \in Edition \cup {NoFile} : builds' = [builds EXCEPT ![b] = f]
  <2>1. CASE StartBuild(b)
    <3> DEFINE f == [n |-> calls', polygons |-> {}, whole |-> FALSE]
    <3>1. builds' = [builds EXCEPT ![b] = f] /\ calls' \in Nat
      BY <1>1, <2>1 DEF StartBuild, Arrival
    <3>2. f \in Edition
      BY <3>1 DEF Edition
    <3> HIDE DEF f
    <3> QED
      BY <3>1, <3>2
  <2>2. CASE CompleteBuild(b)
    BY <1>1, <2>2 DEF CompleteBuild, Edition
  <2>3. CASE AbandonBuild(b)
    BY <2>3 DEF AbandonBuild
  <2>4. CASE \E p \in Polygons : InsertPolygon(b, p)
    BY <1>1, <2>4 DEF InsertPolygon, Edition
  <2> QED
    BY <2>1, <2>2, <2>3, <2>4
<1>3. UNCHANGED <<installed, lookups, shown>> /\ calls' \in Nat
  BY <1>1 DEF StartBuild, Arrival, CompleteBuild, AbandonBuild, InsertPolygon, serving
<1> QED
  BY <1>1, <1>2, <1>3, BuildsChange

LEMMA InspireReads ==
  ASSUME InspireInv, NEW r \in Readers, OpenCatalogue(r) \/ ReadPolygons(r)
  PROVE  InspireInv'
<1>1. /\ lookups \in [Readers -> Lookup \cup {NoFile}] /\ calls \in Nat
      /\ installed \in Edition \cup {NoFile}
  BY DEF InspireInv
<1>2. CASE OpenCatalogue(r)
  <2> DEFINE l == [file |-> installed, date |-> installed.n]
  <2>1. /\ lookups' = [lookups EXCEPT ![r] = l] /\ installed # NoFile
        /\ UNCHANGED <<installed, builds, shown>> /\ calls' \in Nat
    BY <1>1, <1>2 DEF OpenCatalogue, Arrival
  <2>2. l \in Lookup /\ l.file.whole /\ l.date = l.file.n
    BY <1>1, <2>1 DEF Lookup, Edition, InspireInv
  <2> HIDE DEF l
  <2>3. /\ lookups' \in [Readers -> Lookup \cup {NoFile}] /\ lookups'[r] = l
        /\ \A s \in Readers \ {r} : lookups'[s] = lookups[s]
    BY <1>1, <2>1, <2>2
  <2> QED
    BY <2>1, <2>2, <2>3 DEF InspireInv, AnswersAreWhole
<1>3. CASE ReadPolygons(r)
  <2> DEFINE s == [date |-> lookups[r].date, polygons |-> OpenFile(r).polygons,
                   of |-> OpenFile(r).n, whole |-> OpenFile(r).whole]
  <2>1. /\ lookups' = [lookups EXCEPT ![r] = NoFile] /\ lookups[r] # NoFile
        /\ shown' = shown \cup {s} /\ UNCHANGED <<installed, builds, calls>>
    BY <1>3 DEF ReadPolygons, serving
  <2>2. s.whole /\ s.date = s.of
    BY <2>1 DEF InspireInv, OpenFile
  <2>2a. lookups[r] \in Lookup
    BY <1>1, <2>1
  <2>2b. s \in [date : Nat, polygons : SUBSET Polygons, of : Nat, whole : BOOLEAN]
    BY <2>2a DEF Lookup, Edition, OpenFile
  <2> HIDE DEF s
  <2>3. /\ lookups' \in [Readers -> Lookup \cup {NoFile}] /\ lookups'[r] = NoFile
        /\ \A q \in Readers \ {r} : lookups'[q] = lookups[q]
    BY <1>1, <2>1
  <2> QED
    BY <2>1, <2>2, <2>2b, <2>3 DEF InspireInv, AnswersAreWhole
<1> QED
  BY <1>2, <1>3

LEMMA InspireInvHolds == InspireSpec => []InspireInv
<1>1. InspireInit /\ ServingInit => InspireInv
  BY DEF InspireInit, ServingInit, InspireInv, AnswersAreWhole
<1>2. InspireInv /\ [InspireNext]_inspireVars => InspireInv'
  <2> SUFFICES ASSUME InspireInv, [InspireNext]_inspireVars PROVE InspireInv'
    OBVIOUS
  <2>1. ASSUME NEW b \in Builders, ReplaceInstalled(b) PROVE InspireInv'
    <3>1. /\ installed' = builds[b] /\ builds[b].whole /\ builds' = [builds EXCEPT ![b] = NoFile]
          /\ UNCHANGED <<lookups, shown, calls>>
      BY <2>1 DEF ReplaceInstalled, Installable, serving
    <3>2. builds' \in [Builders -> Edition \cup {NoFile}] /\ installed' \in Edition \cup {NoFile}
      BY <3>1 DEF InspireInv
    <3> QED
      BY <3>1, <3>2 DEF InspireInv, AnswersAreWhole
  <2>2. CASE Elsewhere /\ UNCHANGED inspireState
    BY <2>2, BuildsChange, ServingAssumption DEF Elsewhere, inspireState, InspireInv
  <2>3. CASE UNCHANGED inspireVars
    BY <2>3, BuildsChange DEF inspireVars, inspireState, serving, InspireInv
  <2> QED
    BY <2>1, <2>2, <2>3, InspireBuilds, InspireReads DEF InspireNext, InspireStep
<1> QED
  BY <1>1, <1>2, PTL DEF InspireSpec

(* A look-up answers with the polygons and the date of one complete        *)
(* edition, whatever build replaces the file meanwhile.                    *)
THEOREM LookupsAreWhole == InspireSpec => []AnswersAreWhole
<1>1. InspireInv => AnswersAreWhole
  BY DEF InspireInv
<1> QED
  BY <1>1, InspireInvHolds, PTL

(* The catalogue, its builds and its look-ups are well typed.              *)
THEOREM InspireTypeCorrect == InspireSpec => []InspireTypeOK
<1>1. InspireInv => InspireTypeOK
  BY DEF InspireInv, InspireTypeOK
<1> QED
  BY <1>1, InspireInvHolds, PTL

-----------------------------------------------------------------------------
(***************************************************************************)
(* The limiter.  The history counts a key's admissions, the table keeps    *)
(* their times; what connects them is that above the edge of the window    *)
(* there are no more admissions than times.  It survives the popping of    *)
(* times and the eviction of keys because both only let go of what is      *)
(* below the edge, and for the eviction that takes sorted times.           *)
(***************************************************************************)
Held == {k \in Keys : table[k] # NoTimes}
After(k, s) == {a \in admitted : a.key = k /\ a.at > s}
Above(times, s) ==
  IF times = NoTimes THEN {} ELSE {i \in 1..Len(times) : times[i] > s}

Sorted(times) ==
  /\ \A i \in 1..Len(times) : times[i] <= now
  /\ \A i, j \in 1..Len(times) : i <= j => times[i] <= times[j]

LimitTyping ==
  /\ now \in Nat /\ calls \in Nat
  /\ table \in [Keys -> Seq(Nat) \cup {NoTimes}]
  /\ \A k \in Keys : table[k] # NoTimes => Len(table[k]) <= Limit /\ Sorted(table[k])
  /\ IsFiniteSet(Held) /\ Cardinality(Held) <= MaxKeys
  /\ admitted \subseteq [key : Keys, at : Nat, n : Nat]
  /\ IsFiniteSet(admitted)
  /\ \A a \in admitted : a.n <= calls /\ a.at <= now

Counted ==
  \A k \in Keys : \A s \in Int :
    s >= now - Window => Cardinality(After(k, s)) <= Cardinality(Above(table[k], s))

(* A window that reaches the present, from whenever. *)
OpenWindowsHeld ==
  \A k \in Keys : \A s \in Int :
    s >= now - Window =>
      IsFiniteSet(After(k, s)) /\ Cardinality(After(k, s)) <= Limit

LimitInv == LimitTyping /\ Counted /\ RateHeld

(* A set of numbers has a least one. *)
LEMMA LeastNumber ==
  ASSUME NEW T \in SUBSET Nat, T # {}
  PROVE  \E x \in T : \A y \in T : x <= y
<1>1. IsWellFoundedOn(OpToRel(<, Nat), Nat)
  BY NatLessThanWellFounded
<1>2. PICK x \in T : \A y \in T : ~(<<y, x>> \in OpToRel(<, Nat))
  BY <1>1, WFMin
<1>3. \A y \in T : ~(y < x)
  BY <1>2 DEF OpToRel
<1> QED
  BY <1>3

(* There is a number of times to let go of: all of them, or those before   *)
(* the first that is within the window.                                    *)
LEMMA LapsedIs ==
  ASSUME LimitTyping, NEW times \in Seq(Nat)
  PROVE  /\ Lapsed(times) \in 0..Len(times)
         /\ \A i \in 1..Lapsed(times) : Out(times[i])
<1> DEFINE P(n) == /\ \A i \in 1..n : Out(times[i])
                   /\ n < Len(times) => ~Out(times[n + 1])
<1> DEFINE T == {i \in 1..Len(times) : ~Out(times[i])}
<1>1. Len(times) \in Nat
  OBVIOUS
<1>2. \E n \in 0..Len(times) : P(n)
  <2>1. CASE T = {}
    <3>1. P(Len(times))
      BY <1>1, <2>1
    <3> QED
      BY <1>1, <3>1
  <2>2. CASE T # {}
    <3>1. T \in SUBSET Nat
      BY <1>1
    <3>2. PICK x \in T : \A y \in T : x <= y
      BY <2>2, <3>1, LeastNumber
    <3>3. x \in 1..Len(times) /\ ~Out(times[x])
      OBVIOUS
    <3>4. x - 1 \in 0..Len(times) /\ (x - 1) + 1 = x
      BY <1>1, <3>3
    <3>5. \A i \in 1..(x - 1) : Out(times[i])
      <4> SUFFICES ASSUME NEW i \in 1..(x - 1), ~Out(times[i]) PROVE FALSE
        OBVIOUS
      <4>1. i \in 1..Len(times) /\ i < x
        BY <1>1, <3>3
      <4>2. i \in T
        BY <4>1
      <4>3. x <= i
        BY <3>2, <4>2
      <4> QED
        BY <3>3, <4>1, <4>3
    <3>6. P(x - 1)
      BY <3>3, <3>4, <3>5
    <3> QED
      BY <3>4, <3>6
  <2> QED
    BY <2>1, <2>2
<1>3. Lapsed(times) = CHOOSE n \in 0..Len(times) : P(n)
  BY DEF Lapsed
<1> QED
  BY <1>2, <1>3

(* What is kept of a key's times: they are as well typed and sorted, and   *)
(* above the edge of the window none is missing.                           *)
LEMMA RecentIs ==
  ASSUME LimitTyping, NEW times \in Seq(Nat), Sorted(times), Len(times) <= Limit
  PROVE  /\ Recent(times) \in Seq(Nat)
         /\ Sorted(Recent(times)) /\ Len(Recent(times)) <= Limit
         /\ \A s \in Int :
              s >= now - Window =>
                Cardinality(Above(times, s)) <= Cardinality(Above(Recent(times), s))
<1> DEFINE l == Lapsed(times)
<1> DEFINE R == Recent(times)
<1>1. l \in 0..Len(times) /\ Len(times) \in Nat /\ \A i \in 1..l : Out(times[i])
  BY LapsedIs
<1>2. R = SubSeq(times, l + 1, Len(times))
  BY DEF Recent
<1> HIDE DEF l, R
<1>3. R \in Seq(Nat) /\ Len(R) = Len(times) - l
  BY <1>1, <1>2
<1>4. \A i \in 1..Len(R) : R[i] = times[i + l] /\ i + l \in 1..Len(times)
  BY <1>1, <1>2, <1>3
<1>5. Sorted(R)
  <2>1. \A i \in 1..Len(R) : R[i] <= now
    BY <1>4 DEF Sorted
  <2>2. ASSUME NEW i \in 1..Len(R), NEW j \in 1..Len(R), i <= j
        PROVE  R[i] <= R[j]
    <3>1. i + l <= j + l
      BY <1>1, <1>3, <2>2
    <3> QED
      BY <1>4, <3>1 DEF Sorted
  <2> QED
    BY <2>1, <2>2 DEF Sorted
<1>6. Len(R) <= Limit
  BY <1>1, <1>3, LimiterAssumption
<1>7. ASSUME NEW s \in Int, s >= now - Window
      PROVE  Cardinality(Above(times, s)) <= Cardinality(Above(R, s))
  <2> DEFINE A == Above(times, s)
  <2> DEFINE B == Above(R, s)
  <2>1. A = {i \in 1..Len(times) : times[i] > s} /\ B = {i \in 1..Len(R) : R[i] > s}
    BY <1>3, LimiterAssumption DEF Above
  <2>2. IsFiniteSet(B)
    <3>1. IsFiniteSet(1..Len(R))
      BY <1>3, FS_Interval
    <3> QED
      BY <2>1, <3>1, FS_Subset
  <2>3. \A i \in A : i - l \in B
    <3> SUFFICES ASSUME NEW i \in A PROVE i - l \in B
      OBVIOUS
    <3>1. i \in 1..Len(times) /\ times[i] > s /\ times[i] \in Nat
      BY <1>1, <2>1
    <3>2. ~Out(times[i])
      BY <1>7, <3>1, LimiterAssumption DEF Out, LimitTyping
    <3>3. i > l
      BY <1>1, <3>1, <3>2
    <3>4. i - l \in 1..Len(R) /\ (i - l) + l = i
      BY <1>1, <1>3, <3>1, <3>3
    <3>5. R[i - l] = times[i]
      BY <1>4, <3>4
    <3> QED
      BY <2>1, <3>1, <3>4, <3>5
  <2> HIDE DEF A, B
  <2> DEFINE f == [i \in A |-> i - l]
  <2>4. f \in Injection(A, B)
    <3>1. f \in [A -> B]
      BY <2>3
    <3>2. \A a, b \in A : f[a] = f[b] => a = b
      BY <1>1, <2>1
    <3> QED
      BY <3>1, <3>2 DEF Injection, IsInjective
  <2>5. Cardinality(A) <= Cardinality(B)
    BY <2>2, <2>4, FS_Injection
  <2> QED
    BY <2>5 DEF A, B
<1> QED
  BY <1>3, <1>5, <1>6, <1>7 DEF R

(* A part of a set is no larger than the set. *)
LEMMA SmallerSet ==
  ASSUME NEW S, IsFiniteSet(S), NEW T \in SUBSET S, NEW n \in Nat, Cardinality(S) <= n
  PROVE  IsFiniteSet(T) /\ Cardinality(T) <= n
<1>1. IsFiniteSet(T) /\ Cardinality(T) <= Cardinality(S)
  BY FS_Subset
<1>2. Cardinality(T) \in Nat /\ Cardinality(S) \in Nat
  BY <1>1, FS_CardinalityType
<1> QED
  BY <1>1, <1>2

(* A window's admissions are within the limit when it reaches the present. *)
LEMMA WindowHeld == LimitTyping /\ Counted => OpenWindowsHeld
<1> SUFFICES ASSUME LimitTyping, Counted, NEW k \in Keys, NEW s \in Int, s >= now - Window
             PROVE  IsFiniteSet(After(k, s)) /\ Cardinality(After(k, s)) <= Limit
  BY DEF OpenWindowsHeld
<1>1. IsFiniteSet(After(k, s))
  BY FS_Subset DEF LimitTyping, After
<1>2. IsFiniteSet(Above(table[k], s)) /\ Cardinality(Above(table[k], s)) <= Limit
  <2>1. CASE table[k] = NoTimes
    BY <2>1, FS_EmptySet, LimiterAssumption DEF Above
  <2>2. CASE table[k] # NoTimes
    <3>1. table[k] \in Seq(Nat) /\ Len(table[k]) \in Nat /\ Len(table[k]) <= Limit
      BY <2>2 DEF LimitTyping
    <3>2. Above(table[k], s) \in SUBSET (1..Len(table[k]))
      BY <2>2 DEF Above
    <3>3. IsFiniteSet(1..Len(table[k])) /\ Cardinality(1..Len(table[k])) = Len(table[k])
      <4> DEFINE n == Len(table[k])
      <4>1. n \in Nat
        BY <3>1
      <4> HIDE DEF n
      <4>2. IsFiniteSet(1..n) /\ Cardinality(1..n) = IF 1 > n THEN 0 ELSE n - 1 + 1
        BY <4>1, FS_Interval
      <4>3. IsFiniteSet(1..n) /\ Cardinality(1..n) = n
        BY <4>1, <4>2
      <4> QED
        BY <4>3 DEF n
    <3>4. /\ IsFiniteSet(Above(table[k], s))
          /\ Cardinality(Above(table[k], s)) <= Len(table[k])
      BY <3>2, <3>3, FS_Subset
    <3>5. Cardinality(Above(table[k], s)) \in Nat
      BY <3>4, FS_CardinalityType
    <3> QED
      BY <3>1, <3>4, <3>5, LimiterAssumption
  <2> QED
    BY <2>1, <2>2
<1>3. Cardinality(After(k, s)) \in Nat /\ Cardinality(Above(table[k], s)) \in Nat
  BY <1>1, <1>2, FS_CardinalityType
<1>4. Cardinality(After(k, s)) <= Cardinality(Above(table[k], s))
  BY DEF Counted
<1> QED
  BY <1>1, <1>2, <1>3, <1>4, LimiterAssumption

LEMMA WindowHeldNext == LimitTyping' /\ Counted' => OpenWindowsHeld'
BY WindowHeld, PTL

(* Whatever a step does, the limit holds after it when it held before, the *)
(* counts agree after it, and only admissions of the present are new.      *)
LEMMA RateStays ==
  ASSUME LimitInv, LimitTyping', Counted', now' >= now,
         \A a \in admitted' : a \in admitted \/ a.at = now'
  PROVE  LimitInv'
<1> SUFFICES ASSUME NEW k \in Keys, NEW t \in 0..now'
             PROVE  Cardinality(Within(k, t - Window, t)') <= Limit
  BY DEF LimitInv, RateHeld
<1>1. now \in Nat /\ now' \in Nat /\ t \in Nat /\ Window \in Nat /\ Limit \in Nat
  BY LimiterAssumption DEF LimitInv, LimitTyping
<1> DEFINE W == Within(k, t - Window, t)'
<1>2. CASE t < now'
  <2>1. W \in SUBSET Within(k, t - Window, t)
    <3> SUFFICES ASSUME NEW a \in W PROVE a \in Within(k, t - Window, t)
      OBVIOUS
    <3>1. a \in admitted' /\ a.key = k /\ a.at > t - Window /\ a.at <= t
      BY DEF Within
    <3>2. a.at \in Nat
      BY <3>1 DEF LimitTyping
    <3>3. a.at # now'
      BY <1>1, <1>2, <3>1, <3>2
    <3>4. a \in admitted
      BY <3>1, <3>3
    <3> QED
      BY <3>1, <3>4 DEF Within
  <2>2. /\ IsFiniteSet(Within(k, t - Window, t))
        /\ Cardinality(Within(k, t - Window, t)) <= Limit
    <3>1. CASE t <= now
      <4>1. IsFiniteSet(Within(k, t - Window, t))
        BY FS_Subset DEF LimitInv, LimitTyping, Within
      <4>2. t \in 0..now
        BY <1>1, <3>1
      <4> QED
        BY <4>1, <4>2 DEF LimitInv, RateHeld
    <3>2. CASE t > now
      <4>1. t - Window \in Int /\ t - Window >= now - Window
        BY <1>1, <3>2
      <4>2. /\ IsFiniteSet(After(k, t - Window))
            /\ Cardinality(After(k, t - Window)) <= Limit
        BY <4>1, WindowHeld DEF LimitInv, OpenWindowsHeld
      <4>3. Within(k, t - Window, t) \in SUBSET After(k, t - Window)
        BY DEF Within, After
      <4> QED
        BY <1>1, <4>2, <4>3, SmallerSet
    <3> QED
      BY <1>1, <3>1, <3>2
  <2> QED
    BY <1>1, <2>1, <2>2, SmallerSet
<1>3. CASE t = now'
  <2>1. LimitTyping' /\ Counted'
    OBVIOUS
  <2>1a. OpenWindowsHeld'
    BY <2>1, WindowHeldNext
  <2>2. t - Window = now' - Window /\ t - Window \in Int
    BY <1>1, <1>3
  <2>2a. t - Window >= now' - Window
    BY <2>2
  <2>3. IsFiniteSet(After(k, t - Window)') /\ Cardinality(After(k, t - Window)') <= Limit
    BY <2>1a, <2>2, <2>2a DEF OpenWindowsHeld, After
  <2>4. W \in SUBSET After(k, t - Window)'
    BY DEF Within, After
  <2> QED
    BY <1>1, <2>3, <2>4, SmallerSet
<1> QED
  BY <1>1, <1>2, <1>3

(* Making room lets go of keys, not of times that still count. *)
LEMMA RoomMade ==
  ASSUME LimitTyping, NEW key \in Keys
  PROVE  LET T == TableFor(key)
         IN  /\ T \in [Keys -> Seq(Nat) \cup {NoTimes}]
             /\ \A k \in Keys : T[k] # NoTimes => T[k] = table[k]
             /\ T[key] = table[key]
             /\ \A k \in Keys : \A s \in Int :
                  s >= now - Window => Above(T[k], s) = Above(table[k], s)
<1> DEFINE T == TableFor(key)
<1>1. CASE T = table
  BY <1>1 DEF LimitTyping
<1>2. CASE T # table
  <2>1. table[key] = NoTimes /\ T = Evicted(table)
    BY <1>2 DEF TableFor
  <2>2. T \in [Keys -> Seq(Nat) \cup {NoTimes}]
    BY <2>1 DEF Evicted, LimitTyping
  <2>3. \A k \in Keys : T[k] = table[k] \/ T[k] = NoTimes
    BY <2>1 DEF Evicted
  <2>4. ASSUME NEW k \in Keys, NEW s \in Int, s >= now - Window
        PROVE  Above(T[k], s) = Above(table[k], s)
    <3>1. CASE T[k] = table[k]
      BY <3>1
    <3>2. CASE T[k] # table[k]
      <4>1. T[k] = NoTimes /\ table[k] # NoTimes
        BY <2>3, <3>2
      <4>2. table[k] \in Seq(Nat) /\ Sorted(table[k]) /\ Len(table[k]) \in Nat
        BY <4>1 DEF LimitTyping
      <4>3. table[k] = <<>> \/ Out(table[k][Len(table[k])])
        BY <2>1, <4>1 DEF Evicted
      <4>4. ASSUME NEW i \in 1..Len(table[k])
            PROVE  ~(table[k][i] > s)
        <5>1. Len(table[k]) \in 1..Len(table[k]) /\ i <= Len(table[k])
          BY <4>2
        <5>2. table[k][i] <= table[k][Len(table[k])]
          BY <4>2, <5>1 DEF Sorted
        <5>3. table[k][Len(table[k])] <= now - Window
          BY <4>2, <4>3, <5>1 DEF Out
        <5>4. table[k][i] \in Nat /\ table[k][Len(table[k])] \in Nat
          BY <4>2, <5>1
        <5> QED
          BY <2>4, <5>2, <5>3, <5>4, LimiterAssumption DEF LimitTyping
      <4> QED
        BY <4>1, <4>4 DEF Above
    <3> QED
      BY <3>1, <3>2
  <2> QED
    BY <2>1, <2>2, <2>3, <2>4
<1> QED
  BY <1>1, <1>2

LEMMA TimesAre ==
  ASSUME LimitTyping, NEW key \in Keys
  PROVE  /\ Times(key) \in Seq(Nat)
         /\ Sorted(Times(key)) /\ Len(Times(key)) <= Limit
         /\ \A s \in Int :
              s >= now - Window =>
                Cardinality(Above(table[key], s)) <= Cardinality(Above(Times(key), s))
<1>1. CASE table[key] = NoTimes
  <2>0. <<>> \in Seq(Nat) /\ Len(<<>>) = 0
    OBVIOUS
  <2>1. Times(key) = <<>> /\ Len(<<>>) = 0 /\ <<>> # NoTimes
    BY <1>1, <2>0, LimiterAssumption DEF Times
  <2>2. \A s \in Int : Above(table[key], s) = {} /\ Above(Times(key), s) = {}
    BY <1>1, <2>1 DEF Above
  <2>3. \A s \in Int :
          Cardinality(Above(table[key], s)) <= Cardinality(Above(Times(key), s))
    BY <2>2, FS_EmptySet
  <2>4. Sorted(Times(key))
    BY <2>1 DEF Sorted
  <2> QED
    BY <2>1, <2>3, <2>4, LimiterAssumption
<1>2. CASE table[key] # NoTimes
  <2>1. table[key] \in Seq(Nat) /\ Sorted(table[key]) /\ Len(table[key]) <= Limit
    BY <1>2 DEF LimitTyping
  <2>2. Times(key) = Recent(table[key])
    BY <1>2 DEF Times
  <2> QED
    BY <2>1, <2>2, RecentIs
<1> QED
  BY <1>1, <1>2

(* A key that has its place gets its times and no other loses any that     *)
(* count.                                                                  *)
LEMMA Placed ==
  ASSUME LimitTyping, NEW key \in Keys, HasPlace(key), now' = now,
         NEW times \in Seq(Nat), Sorted(times), Len(times) <= Limit,
         table' = [TableFor(key) EXCEPT ![key] = times]
  PROVE  /\ table' \in [Keys -> Seq(Nat) \cup {NoTimes}]
         /\ \A k \in Keys : table'[k] # NoTimes => Len(table'[k]) <= Limit /\ Sorted(table[k])'
         /\ IsFiniteSet(Held') /\ Cardinality(Held') <= MaxKeys
         /\ table'[key] = times
         /\ \A k \in Keys \ {key} : \A s \in Int :
              s >= now - Window => Above(table'[k], s) = Above(table[k], s)
<1> DEFINE T == TableFor(key)
<1>1. /\ T \in [Keys -> Seq(Nat) \cup {NoTimes}]
      /\ \A k \in Keys : T[k] # NoTimes => T[k] = table[k]
      /\ T[key] = table[key]
      /\ \A k \in Keys : \A s \in Int :
           s >= now - Window => Above(T[k], s) = Above(table[k], s)
  BY RoomMade
<1>2. T[key] # NoTimes \/ Size(T) < MaxKeys
  BY DEF HasPlace
<1>3. table' = [T EXCEPT ![key] = times]
  OBVIOUS
<1> HIDE DEF T
<1>4. table'[key] = times /\ \A k \in Keys \ {key} : table'[k] = T[k]
  BY <1>1, <1>3
<1>5. table' \in [Keys -> Seq(Nat) \cup {NoTimes}]
  BY <1>1, <1>3
<1>6. ASSUME NEW k \in Keys, table'[k] # NoTimes
      PROVE  Len(table'[k]) <= Limit /\ Sorted(table[k])'
  <2>1. CASE k = key
    BY <1>4, <2>1 DEF Sorted
  <2>2. CASE k # key
    <3>1. table'[k] = table[k] /\ table[k] # NoTimes
      BY <1>1, <1>4, <1>6, <2>2
    <3>2. Len(table[k]) <= Limit /\ Sorted(table[k])
      BY <3>1 DEF LimitTyping
    <3> QED
      BY <3>1, <3>2 DEF Sorted
  <2> QED
    BY <2>1, <2>2
<1>7. IsFiniteSet(Held') /\ Cardinality(Held') <= MaxKeys
  <2> DEFINE H == {k \in Keys : T[k] # NoTimes}
  <2>1. H \in SUBSET Held
    BY <1>1 DEF Held
  <2>2. IsFiniteSet(H) /\ Cardinality(H) <= MaxKeys
    BY <2>1, SmallerSet, LimiterAssumption DEF LimitTyping
  <2>3. Held' = H \cup {key}
    BY <1>4, LimiterAssumption DEF Held
  <2>4. /\ IsFiniteSet(H \cup {key})
        /\ Cardinality(H \cup {key}) = IF key \in H THEN Cardinality(H) ELSE Cardinality(H) + 1
    BY <2>2, FS_AddElement
  <2>5. key \in H \/ Cardinality(H) < MaxKeys
    BY <1>2 DEF Size
  <2>6. Cardinality(H) \in Nat /\ MaxKeys \in Nat
    BY <2>2, FS_CardinalityType, LimiterAssumption
  <2> HIDE DEF H
  <2> QED
    BY <2>2, <2>3, <2>4, <2>5, <2>6
<1> QED
  BY <1>1, <1>4, <1>5, <1>6, <1>7

(* Its counts agree when those of the key agree. *)
LEMMA CountedAfter ==
  ASSUME LimitTyping, Counted, NEW key \in Keys, HasPlace(key), now' = now,
         NEW times \in Seq(Nat), Sorted(times), Len(times) <= Limit,
         table' = [TableFor(key) EXCEPT ![key] = times],
         \A k \in Keys \ {key} : \A s \in Int : After(k, s)' = After(k, s),
         \A s \in Int : s >= now - Window =>
           Cardinality(After(key, s)') <= Cardinality(Above(times, s))
  PROVE  Counted'
<1> SUFFICES ASSUME NEW k \in Keys, NEW s \in Int, s >= now - Window
             PROVE  Cardinality(After(k, s)') <= Cardinality(Above(table'[k], s))
  BY DEF Counted, After, Above
<1>1. CASE k = key
  BY <1>1, Placed
<1>2. CASE k # key
  <2>1. Above(table'[k], s) = Above(table[k], s)
    BY <1>2, Placed
  <2>2. After(k, s)' = After(k, s)
    BY <1>2
  <2> QED
    BY <2>1, <2>2 DEF Counted
<1> QED
  BY <1>1, <1>2

LEMMA Admits ==
  ASSUME LimitInv, NEW key \in Keys, Admit(key)
  PROVE  LimitInv'
<1> DEFINE old == Times(key)
<1> DEFINE new == Append(old, now)
<1> DEFINE a == [key |-> key, at |-> now, n |-> calls']
<1>1. /\ now' = now /\ now \in Nat /\ calls \in Nat /\ calls' = calls + 1
      /\ HasPlace(key) /\ Len(old) < Limit
      /\ table' = [TableFor(key) EXCEPT ![key] = new]
      /\ admitted' = admitted \cup {a}
  BY DEF Admit, Arrival, LimitInv, LimitTyping
<1>2. /\ old \in Seq(Nat) /\ Sorted(old) /\ Len(old) \in Nat
      /\ \A s \in Int :
           s >= now - Window =>
             Cardinality(Above(table[key], s)) <= Cardinality(Above(old, s))
  BY TimesAre DEF LimitInv
<1> HIDE DEF old
<1>3. /\ new \in Seq(Nat) /\ Len(new) = Len(old) + 1 /\ new[Len(old) + 1] = now
      /\ \A i \in 1..Len(old) : new[i] = old[i]
  BY <1>1, <1>2
<1> HIDE DEF new
<1>4. Sorted(new) /\ Len(new) <= Limit
  <2>1. \A i \in 1..Len(new) : i \in 1..Len(old) \/ i = Len(old) + 1
    BY <1>2, <1>3
  <2>2. ASSUME NEW i \in 1..Len(new)
        PROVE  new[i] <= now
    <3>1. CASE i = Len(old) + 1
      BY <1>1, <1>3, <3>1
    <3>2. CASE i \in 1..Len(old)
      BY <1>2, <1>3, <3>2 DEF Sorted
    <3> QED
      BY <2>1, <3>1, <3>2
  <2>3. ASSUME NEW i \in 1..Len(new), NEW j \in 1..Len(new), i <= j
        PROVE  new[i] <= new[j]
    <3>1. CASE j = Len(old) + 1
      BY <1>3, <2>2, <3>1
    <3>2. CASE j \in 1..Len(old)
      <4>1. i \in 1..Len(old)
        BY <1>2, <2>3, <3>2
      <4> QED
        BY <1>2, <1>3, <2>3, <3>2, <4>1 DEF Sorted
    <3> QED
      BY <2>1, <3>1, <3>2
  <2> QED
    BY <1>1, <1>2, <1>3, <2>2, <2>3, LimiterAssumption DEF Sorted
<1>5. a \notin admitted /\ a \in [key : Keys, at : Nat, n : Nat]
  <2>1. \A b \in admitted : b.n <= calls
    BY DEF LimitInv, LimitTyping
  <2>2. a.n = calls + 1
    BY <1>1
  <2> QED
    BY <1>1, <2>1, <2>2
<1>6. LimitTyping'
  <2>1. /\ table' \in [Keys -> Seq(Nat) \cup {NoTimes}]
        /\ \A k \in Keys : table'[k] # NoTimes => Len(table'[k]) <= Limit /\ Sorted(table[k])'
        /\ IsFiniteSet(Held') /\ Cardinality(Held') <= MaxKeys
    BY <1>1, <1>3, <1>4, Placed DEF LimitInv
  <2>2. IsFiniteSet(admitted')
    BY <1>1, FS_AddElement DEF LimitInv, LimitTyping
  <2>3. \A b \in admitted : b.n \in Nat /\ b.n <= calls /\ b.at <= now
    BY DEF LimitInv, LimitTyping
  <2>4. \A b \in admitted' : b.n <= calls' /\ b.at <= now'
    <3>1. a.n = calls' /\ a.at = now
      OBVIOUS
    <3> QED
      BY <1>1, <2>3, <3>1
  <2>5. admitted' \subseteq [key : Keys, at : Nat, n : Nat]
    BY <1>1, <1>5 DEF LimitInv, LimitTyping
  <2> QED
    BY <1>1, <2>1, <2>2, <2>4, <2>5 DEF LimitTyping
<1>7. Counted'
  <2>1. \A k \in Keys \ {key} : \A s \in Int : After(k, s)' = After(k, s)
    <3>1. a.key = key
      OBVIOUS
    <3> QED
      BY <1>1, <3>1 DEF After
  <2>2. ASSUME NEW s \in Int, s >= now - Window
        PROVE  Cardinality(After(key, s)') <= Cardinality(Above(new, s))
    <3> DEFINE A == After(key, s)
    <3> DEFINE B == Above(old, s)
    <3>1. B = {i \in 1..Len(old) : old[i] > s}
      BY <1>2, LimiterAssumption DEF Above
    <3>2. IsFiniteSet(A) /\ IsFiniteSet(B)
      <4>1. IsFiniteSet(A)
        BY FS_Subset DEF LimitInv, LimitTyping, After
      <4>2. IsFiniteSet(1..Len(old))
        BY <1>2, FS_Interval
      <4> QED
        BY <3>1, <4>1, <4>2, FS_Subset
    <3>3. Cardinality(A) \in Nat /\ Cardinality(B) \in Nat
      BY <3>2, FS_CardinalityType
    <3>4. Cardinality(A) <= Cardinality(B)
      <4>1. Cardinality(A) <= Cardinality(Above(table[key], s))
        BY <2>2 DEF LimitInv, Counted
      <4>2. Cardinality(Above(table[key], s)) <= Cardinality(B)
        BY <1>2, <2>2
      <4>3. Cardinality(Above(table[key], s)) \in Nat
        <5>1. CASE table[key] = NoTimes
          BY <5>1, FS_EmptySet DEF Above
        <5>2. CASE table[key] # NoTimes
          <6>1. Len(table[key]) \in Nat
            BY <5>2 DEF LimitInv, LimitTyping
          <6>2. IsFiniteSet(1..Len(table[key]))
            BY <6>1, FS_Interval
          <6>3. Above(table[key], s) \in SUBSET (1..Len(table[key]))
            BY <5>2 DEF Above
          <6> QED
            BY <6>2, <6>3, FS_Subset, FS_CardinalityType
        <5> QED
          BY <5>1, <5>2
      <4> QED
        BY <3>3, <4>1, <4>2, <4>3
    <3>5. Above(new, s) = {i \in 1..Len(new) : new[i] > s}
      BY <1>3, LimiterAssumption DEF Above
    <3>6. CASE now > s
      <4>1. After(key, s)' = A \cup {a} /\ a \notin A
        BY <1>1, <1>5, <3>6 DEF After
      <4>2. Above(new, s) = B \cup {Len(old) + 1} /\ Len(old) + 1 \notin B
        BY <1>2, <1>3, <3>1, <3>5, <3>6
      <4> HIDE DEF A, B
      <4>3. Cardinality(After(key, s)') = Cardinality(A) + 1
        BY <3>2, <4>1, FS_AddElement
      <4>4. Cardinality(Above(new, s)) = Cardinality(B) + 1
        BY <3>2, <4>2, FS_AddElement
      <4> QED
        BY <3>3, <3>4, <4>3, <4>4
    <3>7. CASE ~(now > s)
      <4>1. After(key, s)' = A
        BY <1>1, <3>7 DEF After
      <4>2. Above(new, s) = B
        BY <1>2, <1>3, <3>1, <3>5, <3>7
      <4> QED
        BY <3>4, <4>1, <4>2
    <3> QED
      BY <3>6, <3>7
  <2> QED
    BY <1>1, <1>3, <1>4, <2>1, <2>2, CountedAfter DEF LimitInv
<1>8. \A b \in admitted' : b \in admitted \/ b.at = now'
  BY <1>1
<1> QED
  BY <1>1, <1>6, <1>7, <1>8, RateStays

(* Counts are numbers, so that they can be compared along a chain. *)
LEMMA CountOfTimes ==
  ASSUME NEW times \in Seq(Nat) \cup {NoTimes}, NEW s \in Int
  PROVE  Cardinality(Above(times, s)) \in Nat
<1>1. CASE times = NoTimes
  BY <1>1, FS_EmptySet DEF Above
<1>2. CASE times # NoTimes
  <2>1. Len(times) \in Nat
    BY <1>2
  <2>2. IsFiniteSet(1..Len(times))
    BY <2>1, FS_Interval
  <2>3. Above(times, s) \in SUBSET (1..Len(times))
    BY <1>2 DEF Above
  <2> QED
    BY <2>2, <2>3, FS_Subset, FS_CardinalityType
<1> QED
  BY <1>1, <1>2

LEMMA RefusesBusy ==
  ASSUME LimitInv, NEW key \in Keys, RefuseBusy(key)
  PROVE  LimitInv'
<1> DEFINE kept == Times(key)
<1>1. /\ now' = now /\ now \in Nat /\ calls \in Nat /\ calls' = calls + 1
      /\ HasPlace(key) /\ admitted' = admitted
      /\ table' = [TableFor(key) EXCEPT ![key] = kept]
  BY DEF RefuseBusy, Arrival, LimitInv, LimitTyping
<1>2. /\ kept \in Seq(Nat) /\ Sorted(kept) /\ Len(kept) <= Limit
      /\ \A s \in Int :
           s >= now - Window =>
             Cardinality(Above(table[key], s)) <= Cardinality(Above(kept, s))
  BY TimesAre DEF LimitInv
<1> HIDE DEF kept
<1>3. LimitTyping'
  <2>1. /\ table' \in [Keys -> Seq(Nat) \cup {NoTimes}]
        /\ \A k \in Keys : table'[k] # NoTimes => Len(table'[k]) <= Limit /\ Sorted(table[k])'
        /\ IsFiniteSet(Held') /\ Cardinality(Held') <= MaxKeys
    BY <1>1, <1>2, Placed DEF LimitInv
  <2>2. \A b \in admitted : b.n \in Nat /\ b.n <= calls /\ b.at <= now
    BY DEF LimitInv, LimitTyping
  <2>3. \A b \in admitted' : b.n <= calls' /\ b.at <= now'
    BY <1>1, <2>2
  <2> QED
    BY <1>1, <2>1, <2>3 DEF LimitTyping, LimitInv
<1>4. Counted'
  <2>1. \A k \in Keys \ {key} : \A s \in Int : After(k, s)' = After(k, s)
    BY <1>1 DEF After
  <2>2. ASSUME NEW s \in Int, s >= now - Window
        PROVE  Cardinality(After(key, s)') <= Cardinality(Above(kept, s))
    <3>1. After(key, s)' = After(key, s)
      BY <1>1 DEF After
    <3>2. Cardinality(After(key, s)) <= Cardinality(Above(table[key], s))
      BY <2>2 DEF LimitInv, Counted
    <3>3. Cardinality(Above(table[key], s)) <= Cardinality(Above(kept, s))
      BY <1>2, <2>2
    <3>4. Cardinality(Above(table[key], s)) \in Nat /\ Cardinality(Above(kept, s)) \in Nat
      <4>1. table[key] \in Seq(Nat) \cup {NoTimes}
        BY DEF LimitInv, LimitTyping
      <4> QED
        BY <1>2, <4>1, CountOfTimes
    <3>5. IsFiniteSet(After(key, s))
      BY FS_Subset DEF LimitInv, LimitTyping, After
    <3>6. Cardinality(After(key, s)) \in Nat
      BY <3>5, FS_CardinalityType
    <3> QED
      BY <3>1, <3>2, <3>3, <3>4, <3>6
  <2> QED
    BY <1>1, <1>2, <2>1, <2>2, CountedAfter DEF LimitInv
<1> QED
  BY <1>1, <1>3, <1>4, RateStays

LEMMA RefusesFull ==
  ASSUME LimitInv, NEW key \in Keys, RefuseFull(key)
  PROVE  LimitInv'
<1>1. /\ now' = now /\ now \in Nat /\ calls \in Nat /\ calls' = calls + 1
      /\ admitted' = admitted /\ table' = TableFor(key)
  BY DEF RefuseFull, Arrival, LimitInv, LimitTyping
<1>2. /\ table' \in [Keys -> Seq(Nat) \cup {NoTimes}]
      /\ \A k \in Keys : table'[k] # NoTimes => table'[k] = table[k]
      /\ \A k \in Keys : \A s \in Int :
           s >= now - Window => Above(table'[k], s) = Above(table[k], s)
  BY <1>1, RoomMade DEF LimitInv
<1>3. LimitTyping'
  <2>1. Held' \in SUBSET Held
    BY <1>2 DEF Held
  <2>2. IsFiniteSet(Held') /\ Cardinality(Held') <= MaxKeys
    BY <2>1, SmallerSet, LimiterAssumption DEF LimitInv, LimitTyping
  <2>3. ASSUME NEW k \in Keys, table'[k] # NoTimes
        PROVE  Len(table'[k]) <= Limit /\ Sorted(table[k])'
    BY <1>1, <1>2, <2>3 DEF LimitInv, LimitTyping, Sorted
  <2>4. \A b \in admitted : b.n \in Nat /\ b.n <= calls /\ b.at <= now
    BY DEF LimitInv, LimitTyping
  <2>5. \A b \in admitted' : b.n <= calls' /\ b.at <= now'
    BY <1>1, <2>4
  <2> QED
    BY <1>1, <1>2, <2>2, <2>3, <2>5 DEF LimitTyping, LimitInv
<1>4. Counted'
  BY <1>1, <1>2 DEF Counted, LimitInv, After, Above
<1> QED
  BY <1>1, <1>3, <1>4, RateStays

LEMMA LimitElsewhere ==
  ASSUME LimitInv, Elsewhere \/ UNCHANGED serving, UNCHANGED limitState
  PROVE  LimitInv'
<1>1. /\ now \in Nat /\ now' \in Nat /\ now' >= now
      /\ calls \in Nat /\ calls' \in Nat /\ calls' >= calls
      /\ table' = table /\ admitted' = admitted
  BY ServingAssumption DEF LimitInv, LimitTyping, Elsewhere, serving, limitState
<1>2. LimitTyping'
  <2>1. \A b \in admitted : /\ b.n \in Nat /\ b.n <= calls
                            /\ b.at \in Nat /\ b.at <= now
    BY DEF LimitInv, LimitTyping
  <2>2. \A b \in admitted' : b.n <= calls' /\ b.at <= now'
    BY <1>1, <2>1
  <2>3. ASSUME NEW k \in Keys, table[k] # NoTimes
        PROVE  Len(table[k]) <= Limit /\ Sorted(table[k])'
    <3>1. table[k] \in Seq(Nat) /\ Len(table[k]) <= Limit /\ Sorted(table[k])
      BY <2>3 DEF LimitInv, LimitTyping
    <3>2. \A i \in 1..Len(table[k]) : table[k][i] \in Nat /\ table[k][i] <= now
      BY <3>1 DEF Sorted
    <3>3. \A i \in 1..Len(table[k]) : table[k][i] <= now'
      BY <1>1, <3>2
    <3> QED
      BY <1>1, <3>1, <3>3 DEF Sorted
  <2>4. Held' = Held
    BY <1>1 DEF Held
  <2> QED
    BY <1>1, <2>2, <2>3, <2>4 DEF LimitInv, LimitTyping
<1>3. Counted'
  <2>1. \A s \in Int : s >= now' - Window => s >= now - Window
    <3> SUFFICES ASSUME NEW a \in Nat, NEW b \in Nat, a <= b, NEW s \in Int, s >= b - Window
                 PROVE  s >= a - Window
      BY <1>1
    <3> QED
      BY LimiterAssumption
  <2> QED
    BY <1>1, <2>1 DEF LimitInv, Counted, After, Above
<1> QED
  BY <1>1, <1>2, <1>3, RateStays

LEMMA LimitInvHolds == LimitSpec => []LimitInv
<1>1. LimitInit /\ ServingInit => LimitInv
  <2> SUFFICES ASSUME LimitInit, ServingInit PROVE LimitInv
    OBVIOUS
  <2>1. now = 0 /\ calls = 0 /\ table = [k \in Keys |-> NoTimes] /\ admitted = {}
    BY DEF LimitInit, ServingInit
  <2>2. Held = {} /\ \A k \in Keys : table[k] = NoTimes
    BY <2>1 DEF Held
  <2>3. LimitTyping
    BY <2>1, <2>2, FS_EmptySet, LimiterAssumption DEF LimitTyping
  <2>4. Counted
    BY <2>1, <2>2, FS_EmptySet DEF Counted, After, Above
  <2>5. RateHeld
    <3> SUFFICES ASSUME NEW k \in Keys, NEW t \in 0..now
                 PROVE  Cardinality(Within(k, t - Window, t)) <= Limit
      BY DEF RateHeld
    <3>1. Within(k, t - Window, t) = {}
      BY <2>1 DEF Within
    <3>2. Cardinality({}) = 0
      BY FS_EmptySet
    <3>3. 0 <= Limit
      BY LimiterAssumption
    <3> QED
      BY <3>1, <3>2, <3>3
  <2> QED
    BY <2>3, <2>4, <2>5 DEF LimitInv
<1>2. LimitInv /\ [LimitNext]_limitVars => LimitInv'
  <2> SUFFICES ASSUME LimitInv, [LimitNext]_limitVars PROVE LimitInv'
    OBVIOUS
  <2>1. CASE LimitStep
    BY <2>1, Admits, RefusesBusy, RefusesFull DEF LimitStep
  <2>2. CASE Elsewhere /\ UNCHANGED limitState
    BY <2>2, LimitElsewhere
  <2>3. CASE UNCHANGED limitVars
    BY <2>3, LimitElsewhere DEF limitVars
  <2> QED
    BY <2>1, <2>2, <2>3 DEF LimitNext
<1> QED
  BY <1>1, <1>2, PTL DEF LimitSpec

(* No key is admitted more often than the limit in any window, whatever    *)
(* keys the full table has let go of in between: RateHeld, of              *)
(* SlidingWindowRateLimiter.check.                                         *)
THEOREM RateLimited == LimitSpec => []RateHeld
<1>1. LimitInv => RateHeld
  BY DEF LimitInv
<1> QED
  BY <1>1, LimitInvHolds, PTL

(* The limiter's rows have their types, a key never holds more times than  *)
(* the limit and the table never more keys than its bound.                 *)
THEOREM LimiterTypeCorrect == LimitSpec => []LimitTypeOK
<1>1. LimitInv => LimitTypeOK
  BY DEF LimitInv, LimitTyping, LimitTypeOK, Size, Held
<1> QED
  BY <1>1, LimitInvHolds, PTL
=============================================================================
