------------------------- MODULE RelayServicesProofs -------------------------
(***************************************************************************)
(* The services of the relay together: RelayServices implements each       *)
(* service's own specification, in which whatever the others do is time    *)
(* passing and calls being numbered (Elsewhere).  So what is proved of a   *)
(* service alone holds of it in the server.  And its threads: whoever      *)
(* waits for the lock or the event loop waits for a call that can go on.   *)
(***************************************************************************)
EXTENDS RelayServices, ServerThreads, MembershipProofs, AudienceProofs,
        ReferenceProofs

(* A step of a service takes a call in, or leaves the clock and the        *)
(* numbering alone.                                                        *)
Serves == Arrival \/ UNCHANGED serving

LEMMA CrewServes == CrewStep => Serves
<1> SUFFICES ASSUME NEW t \in Threads, AskCrew(t) \/ ServeCrew(t)
             PROVE  Serves
  BY DEF CrewStep
<1>1. CASE AskCrew(t)
  BY <1>1 DEF AskCrew, AskCreate, AskOpen, AskJoin, AskStart, AskList, AskRename,
              AskTransfer, AskRevoke, AskDelete, Ask, Serves
<1>2. CASE ServeCrew(t)
  <2>1. \/ ReadForCreate(t) \/ Read(t) \/ RefuseCall(t) \/ Fail(t)
        \/ \E kinds : Writing(t, kinds)
    BY <1>2 DEF ServeCrew, Create, OpenOrList, Join, Start, Rename, Transfer, Revoke, Delete
  <2> QED
    BY <2>1 DEF ReadForCreate, Read, RefuseCall, Fail, Writing, Serves
<1> QED
  BY <1>1, <1>2

LEMMA JoinServes == JoinStep => Serves
BY DEF JoinStep, AskRegister, ReadRide, RefuseRegister, Register, FailRegister,
       PurgeCodes, Serves

LEMMA PlanServes == PlanStep => Serves
BY DEF PlanStep, RefusePlan, CreatePlan, NoCodeLeft, PurgePlans, Serves

LEMMA LimitServes == LimitStep => Serves
BY DEF LimitStep, Admit, RefuseBusy, RefuseFull, Serves

LEMMA TrafficServesCalls == TrafficStep => Serves
BY DEF TrafficStep, AnswerFromCache, AskTraffic, ServeTraffic, AnswerFromOther,
       StartFetch, Fetched, FetchFailed, Serves

LEMMA InspireServes == InspireStep => Serves
BY DEF InspireStep, StartBuild, CompleteBuild, ReplaceInstalled, AbandonBuild,
       InsertPolygon, OpenCatalogue, ReadPolygons, Serves

LEMMA PushServes == PushStep => Serves
<1>1. ASSUME NEW w \in Workers
      PROVE  /\ Upload(w) \/ NothingToSend(w) \/ LockRide(w) => Serves
             /\ CommitDispatch(w) \/ FailDispatch(w) => Serves
  BY DEF Upload, NothingToSend, LockRide, CommitDispatch, FailDispatch, Serves
<1>2. ASSUME NEW w \in Workers, NEW p \in Pairs
      PROVE  SkipDelivered(w, p) \/ Deliver(w, p) => Serves
  BY DEF SkipDelivered, Deliver, Serves
<1>3. ASSUME NEW d \in Devices
      PROVE  RegisterPush(d) \/ RevokePush(d) => Serves
  BY DEF RegisterPush, RevokePush, Serves
<1>4. Crash => Serves
  BY DEF Crash, Serves
<1> QED
  BY <1>1, <1>2, <1>3, <1>4 DEF PushStep

LEMMA ObserverServes == ObserverStep => Serves
BY DEF ObserverStep, AskGrant, CountGrants, RefuseGrant, InsertGrant, AskPublish,
       ReadGrant, RefusePublish, StoreSnapshot, RevokeGrant, ReadSnapshot, PurgeGrant,
       Serves

(* To a service, the others' calls and the clock are Elsewhere.            *)
LEMMA ServesElsewhere ==
  ASSUME ServingTypeOK, Serves \/ Tick
  PROVE  Elsewhere /\ ServingTypeOK'
BY ServingAssumption DEF ServingTypeOK, Serves, Arrival, Tick, serving, Elsewhere

LEMMA ServicesServe ==
  ASSUME [Next]_vars
  PROVE  Serves \/ Tick
BY CrewServes, JoinServes, PlanServes, LimitServes, TrafficServesCalls, InspireServes,
   PushServes, ObserverServes
   DEF Next, Rooms, RideCodes, Plans, Limits, Traffic, Catalogue, Alerts, Observers,
       Pass, vars, Serves

LEMMA ServingTyped == Spec => []ServingTypeOK
<1>1. Init => ServingTypeOK
  BY ServingAssumption DEF Init, ServingInit, ServingTypeOK
<1>2. ServingTypeOK /\ [Next]_vars => ServingTypeOK'
  BY ServicesServe, ServesElsewhere
<1> QED
  BY <1>1, <1>2, PTL DEF Spec

-----------------------------------------------------------------------------
LEMMA CrewStepMaps ==
  ASSUME ServingTypeOK, [Next]_vars
  PROVE  [CrewNext]_crewVars
<1>1. Elsewhere
  BY ServicesServe, ServesElsewhere
<1>2. CASE Rooms
  BY <1>2 DEF Rooms, CrewNext
<1>3. ASSUME ~Rooms
      PROVE  UNCHANGED crewState
  BY <1>3 DEF Next, RideCodes, Plans, Limits, Traffic, Catalogue, Alerts, Observers, Pass, vars
<1> QED
  BY <1>1, <1>2, <1>3 DEF CrewNext

-----------------------------------------------------------------------------
LEMMA JoinStepMaps ==
  ASSUME ServingTypeOK, [Next]_vars
  PROVE  [JoinNext]_joinVars
<1>1. Elsewhere
  BY ServicesServe, ServesElsewhere
<1>2. CASE RideCodes
  BY <1>2 DEF RideCodes, JoinNext
<1>3. CASE Pass
  BY <1>1, <1>3 DEF Pass, JoinNext
<1>4. ASSUME Serves, UNCHANGED joinState
      PROVE  [JoinNext]_joinVars
  BY <1>1, <1>4 DEF Serves, Arrival, serving, JoinNext
<1>5. ASSUME \/ Rooms \/ Plans \/ Limits \/ Traffic \/ Catalogue \/ Alerts \/ Observers
             \/ UNCHANGED vars
      PROVE  Serves /\ UNCHANGED joinState
  BY <1>5, CrewServes, PlanServes, LimitServes, TrafficServesCalls, InspireServes,
     PushServes, ObserverServes
     DEF Rooms, Plans, Limits, Traffic, Catalogue, Alerts, Observers, vars, Serves
<1> QED
  BY <1>2, <1>3, <1>4, <1>5 DEF Next

-----------------------------------------------------------------------------
LEMMA PlanStepMaps ==
  ASSUME ServingTypeOK, [Next]_vars
  PROVE  [PlanNext]_planVars
<1>1. Elsewhere
  BY ServicesServe, ServesElsewhere
<1>2. CASE Plans
  BY <1>2 DEF Plans, PlanNext
<1>3. ASSUME ~Plans
      PROVE  UNCHANGED planState
  BY <1>3 DEF Next, Rooms, RideCodes, Limits, Traffic, Catalogue, Alerts, Observers, Pass, vars
<1> QED
  BY <1>1, <1>2, <1>3 DEF PlanNext

-----------------------------------------------------------------------------
LEMMA LimitStepMaps ==
  ASSUME ServingTypeOK, [Next]_vars
  PROVE  [LimitNext]_limitVars
<1>1. Elsewhere
  BY ServicesServe, ServesElsewhere
<1>2. CASE Limits
  BY <1>2 DEF Limits, LimitNext
<1>3. ASSUME ~Limits
      PROVE  UNCHANGED limitState
  BY <1>3 DEF Next, Rooms, RideCodes, Plans, Traffic, Catalogue, Alerts, Observers, Pass, vars
<1> QED
  BY <1>1, <1>2, <1>3 DEF LimitNext

-----------------------------------------------------------------------------
LEMMA TrafficStepMaps ==
  ASSUME ServingTypeOK, [Next]_vars
  PROVE  [TrafficNext]_trafficVars
<1>1. Elsewhere
  BY ServicesServe, ServesElsewhere
<1>2. CASE Traffic
  BY <1>2 DEF Traffic, TrafficNext
<1>3. ASSUME ~Traffic
      PROVE  UNCHANGED trafficState
  BY <1>3 DEF Next, Rooms, RideCodes, Plans, Limits, Catalogue, Alerts, Observers, Pass, vars
<1> QED
  BY <1>1, <1>2, <1>3 DEF TrafficNext

-----------------------------------------------------------------------------
LEMMA InspireStepMaps ==
  ASSUME ServingTypeOK, [Next]_vars
  PROVE  [InspireNext]_inspireVars
<1>1. Elsewhere
  BY ServicesServe, ServesElsewhere
<1>2. CASE Catalogue
  BY <1>2 DEF Catalogue, InspireNext
<1>3. ASSUME ~Catalogue
      PROVE  UNCHANGED inspireState
  BY <1>3 DEF Next, Rooms, RideCodes, Plans, Limits, Traffic, Alerts, Observers, Pass, vars
<1> QED
  BY <1>1, <1>2, <1>3 DEF InspireNext

-----------------------------------------------------------------------------
LEMMA PushStepMaps ==
  ASSUME ServingTypeOK, [Next]_vars
  PROVE  [PushNext]_pushVars
<1>1. Elsewhere
  BY ServicesServe, ServesElsewhere
<1>2. CASE Alerts
  BY <1>2 DEF Alerts, PushNext
<1>3. ASSUME ~Alerts
      PROVE  UNCHANGED pushState
  BY <1>3 DEF Next, Rooms, RideCodes, Plans, Limits, Traffic, Catalogue, Observers, Pass, vars
<1> QED
  BY <1>1, <1>2, <1>3 DEF PushNext

-----------------------------------------------------------------------------
LEMMA ObserverStepMaps ==
  ASSUME ServingTypeOK, [Next]_vars
  PROVE  [ObserverNext]_observerVars
<1>1. Elsewhere
  BY ServicesServe, ServesElsewhere
<1>2. CASE Observers
  BY <1>2 DEF Observers, ObserverNext
<1>3. ASSUME ~Observers
      PROVE  UNCHANGED observerState
  BY <1>3 DEF Next, Rooms, RideCodes, Plans, Limits, Traffic, Catalogue, Alerts, Pass, vars
<1> QED
  BY <1>1, <1>2, <1>3 DEF ObserverNext

-----------------------------------------------------------------------------
(* The server implements every service's own specification: the others'    *)
(* calls are the time and the numbers that pass Elsewhere.                 *)
THEOREM ServicesImplemented ==
  Spec => /\ CrewSpec /\ JoinSpec /\ PlanSpec /\ LimitSpec
          /\ TrafficSpec /\ InspireSpec /\ PushSpec /\ ObserverSpec
<1>1. Init => /\ ServingInit /\ CrewInit /\ JoinInit /\ PlanInit /\ LimitInit
              /\ TrafficInit /\ InspireInit /\ PushInit /\ ObserverInit
  BY DEF Init
<1>2. ServingTypeOK /\ [Next]_vars =>
        /\ [CrewNext]_crewVars /\ [JoinNext]_joinVars /\ [PlanNext]_planVars
        /\ [LimitNext]_limitVars /\ [TrafficNext]_trafficVars
        /\ [InspireNext]_inspireVars /\ [PushNext]_pushVars
        /\ [ObserverNext]_observerVars
  BY CrewStepMaps, JoinStepMaps, PlanStepMaps, LimitStepMaps, TrafficStepMaps,
     InspireStepMaps, PushStepMaps, ObserverStepMaps
<1> QED
  BY <1>1, <1>2, ServingTyped, PTL
     DEF Spec, CrewSpec, JoinSpec, PlanSpec, LimitSpec, TrafficSpec, InspireSpec,
         PushSpec, ObserverSpec

(* Every row has the type its table gives it and no table outgrows its     *)
(* limit, whichever services are called.                                   *)
THEOREM ServicesTypeCorrect == Spec => []TypeOK
<1>1. CrewInv => CrewTypeOK
  BY DEF CrewInv
<1>2. JoinInv => JoinTypeOK
  BY DEF JoinInv
<1>3. ObserverInv => ObserverTypeOK
  BY DEF ObserverInv
<1>4. PushInv => PushTypeOK
  BY DEF PushInv
<1>5. /\ CrewTypeOK /\ JoinTypeOK /\ PlanTypeOK /\ LimitTypeOK
      /\ TrafficTypeOK /\ InspireTypeOK /\ PushTypeOK /\ ObserverTypeOK
      => TypeOK
  BY DEF TypeOK
<1> QED
  BY <1>1, <1>2, <1>3, <1>4, <1>5, ServicesImplemented, CrewInvHolds, JoinInvHolds,
     PlanTypeCorrect, LimiterTypeCorrect, TrafficTypeCorrect, InspireTypeCorrect,
     PushInvHolds, ObserverInvHolds, PTL

(* What the services promise one by one, the server promises together:     *)
(* rooms and codes that lead where they should, one attempt per alert, no  *)
(* more grants and requests than allowed, no needless call to a provider.  *)
THEOREM PromisesKept ==
  Spec => [](/\ OneRoomPerAlias /\ NoSeatWithoutRoom /\ OwnerStands
             /\ PromisedResolves /\ PlanCodeStands /\ RateHeld
             /\ NoNeedlessCall /\ AnswersAreWhole
             /\ OneAttempt /\ ProjectionTrue
             /\ GrantsBounded /\ RevokedIsEmpty)
BY ServicesImplemented, AliasOpensOneRoom, SeatsGoWithRoom, OwnerCanOpen,
   CodesResolve, PlansResolve, RateLimited, CallsAreNeeded, LookupsAreWhole,
   OneAttemptEach, ProjectionReplays, GrantsLimited, RevokedStaysEmpty, PTL

(* And what no step of theirs may do, no step of the server does: bring an *)
(* invitation back or undo a revocation, change a ride's credential, alert *)
(* a device that has left, drop a registration without cause, or show an   *)
(* observer an earlier position again.                                     *)
THEOREM StepsKeepFaith ==
  Spec => /\ RevocationSticks /\ InvitesNeverReturn /\ CredentialStands
          /\ OnlyMembersAlerted /\ RevokedForCause /\ NeverGoesBack
BY ServicesImplemented, RevocationHolds, InvitesReplaced, CredentialKept,
   AlertsGoToMembers, RevocationsHaveCause, SeenGoesForward, PTL
-----------------------------------------------------------------------------
(***************************************************************************)
(* What the calls of all services wait for (ServerThreads), for any calls  *)
(* and any size of the pool.                                               *)
(*                                                                         *)
(* That the holder of the ride's lock has not passed its commit is not     *)
(* inductive: the dispatch of an upload must not have begun before the     *)
(* upload's answer starts it (AlertsWait).                                 *)
(***************************************************************************)
AlertsWait == \A c \in Uploads : stage[c] # "done" => stage[Alert(c)] = "new"

ThreadsInv == ThreadsTypeOK /\ LockNeedsNoLoop /\ AlertsWait

-----------------------------------------------------------------------------
(* A pool with room has room for one more. *)
LEMMA OneMoreConnection ==
  ASSUME ThreadsTypeOK, NEW j \in Jobs, PoolHasRoom(j)
  PROVE  Cardinality(pool \cup {j}) <= PoolSize
<1>1. IsFiniteSet(pool)
  BY FS_Subset, ThreadsAssumption DEF ThreadsTypeOK
<1>2. Cardinality(pool) \in Nat /\ Cardinality(pool) < PoolSize
  BY <1>1, FS_CardinalityType DEF PoolHasRoom
<1>3. Cardinality(pool \cup {j}) \in {Cardinality(pool), Cardinality(pool) + 1}
  BY <1>1, FS_AddElement
<1> QED
  BY <1>2, <1>3, ThreadsAssumption

LEMMA FewerConnections ==
  ASSUME ThreadsTypeOK, NEW j
  PROVE  Cardinality(pool \ {j}) <= PoolSize
<1>1. IsFiniteSet(pool)
  BY FS_Subset, ThreadsAssumption DEF ThreadsTypeOK
<1>2. /\ Cardinality(pool) \in Nat
      /\ Cardinality(pool \ {j}) \in Nat
      /\ Cardinality(pool \ {j}) <= Cardinality(pool)
  BY <1>1, FS_CardinalityType, FS_Subset
<1> QED
  BY <1>2, ThreadsAssumption DEF ThreadsTypeOK

(* An alert is neither a call nor another upload's alert. *)
LEMMA AlertsApart ==
  /\ \A c \in Uploads : /\ c \in Jobs /\ Alert(c) \in Jobs
                        /\ Alert(c) \notin Uploads \cup Writers \cup Queries
  /\ \A c, d \in Uploads : Alert(c) = Alert(d) => c = d
BY ThreadsAssumption DEF Alert, AlertJobs, Jobs

LEMMA ThreadsInitHolds == ThreadsInit => ThreadsInv
<1> SUFFICES ASSUME ThreadsInit PROVE ThreadsInv
  OBVIOUS
<1>1. Cardinality({}) = 0
  BY FS_EmptySet
<1>2. ThreadsTypeOK
  BY <1>1, ThreadsAssumption DEF ThreadsInit, ThreadsTypeOK, Stages
<1>3. AlertsWait
  BY AlertsApart DEF ThreadsInit, AlertsWait
<1> QED
  BY <1>2, <1>3 DEF ThreadsInit, ThreadsInv, LockNeedsNoLoop

-----------------------------------------------------------------------------
(* A step that moves one job, which is not a waiting alert and not the     *)
(* holder of the lock unless it has the lock after it too.                 *)
LEMMA OneJobMoves ==
  ASSUME ThreadsInv, ThreadsTypeOK', NEW j \in Jobs,
         \A i \in Jobs \ {j} : stage'[i] = stage[i],
         stage[j] # "done",
         j \in AlertJobs => stage[j] # "new",
         rideLock' = j => stage'[j] \in {"locked", "sent"},
         rideLock' \in {rideLock, j, Idle}
  PROVE  ThreadsInv'
<1>1. LockNeedsNoLoop'
  <2> SUFFICES ASSUME rideLock' # Idle, rideLock' # j
               PROVE  stage'[rideLock'] \in {"locked", "sent"}
    BY DEF LockNeedsNoLoop
  <2>1. rideLock' = rideLock /\ rideLock \in Jobs
    BY DEF ThreadsInv, ThreadsTypeOK, Locking, Jobs
  <2> QED
    BY <2>1 DEF ThreadsInv, LockNeedsNoLoop
<1>2. AlertsWait'
  <2> SUFFICES ASSUME NEW c \in Uploads, stage'[c] # "done"
               PROVE  stage'[Alert(c)] = "new"
    BY DEF AlertsWait, Alert
  <2>1. c \in Jobs /\ Alert(c) \in Jobs
    BY AlertsApart
  <2>2. stage[c] # "done"
    BY <2>1
  <2>3. stage[Alert(c)] = "new"
    BY <2>2 DEF ThreadsInv, AlertsWait
  <2>4. Alert(c) # j
    BY <2>3 DEF AlertJobs
  <2> QED
    BY <2>1, <2>3, <2>4
<1> QED
  BY <1>1, <1>2 DEF ThreadsInv

LEMMA JobStep ==
  ASSUME ThreadsInv, NEW j \in Jobs,
         RefuseUpload(j) \/ StartUpload(j) \/ StartThread(j) \/ ServeJob(j)
  PROVE  ThreadsInv'
<1> USE DEF ThreadsInv, ThreadsTypeOK, Stages, Moves
<1>a. j \in Uploads \cup Writers \cup Queries => j \notin AlertJobs
  BY ThreadsAssumption
<1>b. j # Idle
  BY ThreadsAssumption
<1>1. CASE RefuseUpload(j) \/ StartUpload(j) \/ StartThread(j)
           \/ FinishReading(j) \/ FinishUpload(j)
  <2> USE <1>1 DEF RefuseUpload, StartUpload, StartThread, FinishReading, FinishUpload
  <2>1. ThreadsTypeOK' /\ j \notin AlertJobs
    BY <1>a
  <2>2. \A i \in Jobs \ {j} : stage'[i] = stage[i]
    OBVIOUS
  <2>3. rideLock' = rideLock /\ rideLock # j /\ stage[j] # "done"
    BY <1>b DEF LockNeedsNoLoop
  <2> QED
    BY <2>1, <2>2, <2>3, OneJobMoves
<1>2. CASE Connect(j) \/ PoolTimeout(j)
  <2> USE <1>2 DEF Connect, PoolTimeout
  <2>1. ThreadsTypeOK'
    BY OneMoreConnection
  <2>2. \A i \in Jobs \ {j} : stage'[i] = stage[i]
    OBVIOUS
  <2>3. rideLock' = rideLock /\ rideLock # j /\ stage[j] = "started"
    BY <1>b DEF LockNeedsNoLoop
  <2> QED
    BY <2>1, <2>2, <2>3, OneJobMoves
<1>3. CASE LockRideRow(j) \/ CallProviders(j)
  <2> USE <1>3 DEF LockRideRow, CallProviders
  <2>1. ThreadsTypeOK'
    OBVIOUS
  <2>2. \A i \in Jobs \ {j} : stage'[i] = stage[i]
    OBVIOUS
  <2>3. rideLock' \in {rideLock, j} /\ stage[j] \in {"connected", "locked"}
        /\ stage'[j] \in {"locked", "sent"}
    OBVIOUS
  <2> QED
    BY <2>1, <2>2, <2>3, OneJobMoves
<1>4. CASE Commit(j) \/ CloseSession(j)
  <2> USE <1>4 DEF Commit, CloseSession, LockAfter
  <2>1. ThreadsTypeOK'
    BY FewerConnections
  <2>2. \A i \in Jobs \ {j} : stage'[i] = stage[i]
    OBVIOUS
  <2>3. rideLock' \in {rideLock, Idle} /\ rideLock' # j
    BY <1>b
  <2>4. stage[j] \in {"sent", "locked", "finished"}
    OBVIOUS
  <2> QED
    BY <2>1, <2>2, <2>3, <2>4, OneJobMoves
<1> QED
  BY <1>1, <1>2, <1>3, <1>4 DEF ServeJob

(* An upload's answer starts its dispatch, which has not begun before. *)
LEMMA AlertsStep ==
  ASSUME ThreadsInv, NEW c \in Uploads, StartAlerts(c)
  PROVE  ThreadsInv'
<1>1. c \in Jobs /\ Alert(c) \in Jobs /\ Alert(c) # c
  BY AlertsApart
<1>2. ThreadsTypeOK'
  BY <1>1 DEF ThreadsInv, ThreadsTypeOK, Stages, StartAlerts
<1>3. stage[Alert(c)] = "new" /\ stage[c] = "finished"
  BY DEF ThreadsInv, AlertsWait, StartAlerts
<1>4. \A i \in Jobs : i # c /\ i # Alert(c) => stage'[i] = stage[i]
  BY DEF ThreadsInv, ThreadsTypeOK, StartAlerts
<1>5. rideLock # Idle => rideLock \in Jobs /\ rideLock # c /\ rideLock # Alert(c)
  BY <1>3 DEF ThreadsInv, ThreadsTypeOK, Locking, Jobs, LockNeedsNoLoop
<1>6. LockNeedsNoLoop'
  BY <1>4, <1>5 DEF ThreadsInv, LockNeedsNoLoop, StartAlerts
<1>7. AlertsWait'
  <2> SUFFICES ASSUME NEW d \in Uploads, stage'[d] # "done"
               PROVE  stage'[Alert(d)] = "new"
    BY DEF AlertsWait, Alert
  <2>1. d # c
    BY <1>1 DEF ThreadsInv, ThreadsTypeOK, StartAlerts
  <2>2. /\ d \in Jobs /\ d # Alert(c)
        /\ Alert(d) \in Jobs /\ Alert(d) # c /\ Alert(d) # Alert(c)
    BY <2>1, AlertsApart
  <2> QED
    BY <2>1, <2>2, <1>4 DEF ThreadsInv, AlertsWait
<1> QED
  BY <1>2, <1>6, <1>7 DEF ThreadsInv

-----------------------------------------------------------------------------
LEMMA ThreadsInvHolds == ThreadsSpec => []ThreadsInv
<1>1. ThreadsInit => ThreadsInv
  BY ThreadsInitHolds
<1>2. ThreadsInv /\ [ThreadsStep]_threadState => ThreadsInv'
  <2> SUFFICES ASSUME ThreadsInv, [ThreadsStep]_threadState PROVE ThreadsInv'
    OBVIOUS
  <2>1. CASE UNCHANGED threadState
    BY <2>1 DEF threadState, ThreadsInv, ThreadsTypeOK, LockNeedsNoLoop, AlertsWait
  <2>2. CASE ThreadsStep
    BY <2>2, JobStep, AlertsStep DEF ThreadsStep
  <2> QED
    BY <2>1, <2>2
<1> QED
  BY <1>1, <1>2, PTL DEF ThreadsSpec

(* The loop, the pool and the lock are held by jobs, and no more jobs hold *)
(* a connection than the pool has.                                         *)
THEOREM ThreadsTypeCorrect == ThreadsSpec => []ThreadsTypeOK
BY ThreadsInvHolds, PTL DEF ThreadsInv

(* Whoever holds the ride's lock can let go of it without the event loop,  *)
(* for any number of calls of each kind and any size of the pool.          *)
THEOREM LocksNeedNoLoop == ThreadsSpec => []LockNeedsNoLoop
BY ThreadsInvHolds, PTL DEF ThreadsInv

-----------------------------------------------------------------------------
(***************************************************************************)
(* No circle of waits (ServerThreads).  The guards of the steps are        *)
(* written out, in the place of ENABLED.                                   *)
(*                                                                         *)
(* A job waits for the lock, for the loop, or for nothing: a job that asks *)
(* for a connection gets one or is timed out.  That a chain of waits ends  *)
(* after two links needs to know where a job that holds the loop may be    *)
(* (LoopInv), and that only writers lock and only a dispatch calls providers (StagesInv).          *)
(***************************************************************************)
Begun == {"started", "connected", "locked", "sent", "finished"}

LoopInv == loop # Idle => stage[loop] \in {"started", "connected", "locked"}
StageFits(j) ==
  /\ stage[j] = "locked" => j \in Locking
  /\ stage[j] = "sent" => j \in AlertJobs
  /\ stage[j] = "finished" => j \notin AlertJobs
StagesInv == \A j \in Jobs : StageFits(j)

WaitsInv == ThreadsInv /\ LoopInv /\ StagesInv

NeedsLock(j) == j \in Locking /\ stage[j] = "connected"
NeedsLoop(j) == stage[j] = "finished"

(* The guards of ServeJob, disjunct by disjunct. *)
MayGoOn(j) ==
  \/ stage[j] = "started" /\ (PoolHasRoom(j) \/ PoolExhausted(j))
  \/ NeedsLock(j) /\ rideLock = Idle
  \/ stage[j] = "locked" /\ j \in Locking
  \/ stage[j] = "sent" /\ j \in AlertJobs
  \/ stage[j] = "connected" /\ j \in Queries
  \/ NeedsLoop(j) /\ LoopFree /\ j \in Uploads \cup Writers \cup Queries

(* Whoever waits for the lock waits for a job that can go on at once.      *)
LockComesFree(j) == MayGoOn(j) \/ (NeedsLock(j) /\ rideLock \in Jobs /\ MayGoOn(rideLock))

(* Every call that was begun can go on, or waits for the holder of the     *)
(* lock, or for the holder of the loop, who can go on or in turn waits for *)
(* the holder of the lock: no chain of waits is longer, and none closes.   *)
WaitsAreShort ==
  \A j \in Jobs :
    stage[j] \in Begun =>
      \/ LockComesFree(j)
      \/ NeedsLoop(j) /\ loop \in Jobs /\ LockComesFree(loop)

-----------------------------------------------------------------------------
(* A step moves jobs forward along these stages, and nothing else.         *)
LaterStages ==
  [new       |-> {"started", "connected", "locked", "sent", "finished", "done"},
   started   |-> {"connected", "locked", "sent", "finished", "done"},
   connected |-> {"locked", "sent", "finished", "done"},
   locked    |-> {"sent", "finished", "done"},
   sent      |-> {"finished", "done"},
   finished  |-> {"done"},
   done      |-> {}]

(* What is still before the jobs, a finite set. *)
StillAhead == {p \in Jobs \X Stages : p[2] \in LaterStages[stage[p[1]]]}

(* Every step leaves less ahead, so calls are served in as many steps as   *)
(* there are stages and jobs at most: none goes round in a circle.         *)
EveryStepCounts ==
  [][/\ StillAhead' \subseteq StillAhead
     /\ Cardinality(StillAhead') < Cardinality(StillAhead)]_threadState

-----------------------------------------------------------------------------
LEMMA LoopStep ==
  ASSUME WaitsInv, ThreadsStep
  PROVE  LoopInv'
<1> USE ThreadsAssumption DEF LoopInv, WaitsInv, ThreadsInv, ThreadsTypeOK, Stages, Moves
<1>1. ASSUME NEW j \in Jobs, RefuseUpload(j) \/ StartUpload(j) \/ StartThread(j)
      PROVE  LoopInv'
  BY <1>1 DEF RefuseUpload, StartUpload, StartThread, LoopFree, Jobs
<1>2. ASSUME NEW j \in Jobs, ServeJob(j)
      PROVE  LoopInv'
  <2>0. loop # Idle => loop \in Jobs /\ loop \notin AlertJobs
    BY DEF Jobs
  <2>a. \A i \in Jobs : i # j => stage'[i] = stage[i]
    BY <1>2 DEF ServeJob, Connect, PoolTimeout, LockRideRow, CallProviders, Commit,
                FinishReading, CloseSession, FinishUpload
  <2>b. j # Idle
    OBVIOUS
  <2>1. CASE Connect(j) \/ PoolTimeout(j)
    <3>1. stage'[j] = "connected" \/ loop' # j
      BY <2>1, <2>b DEF Connect, PoolTimeout
    <3>2. loop' \in {loop, Idle}
      BY <2>1 DEF Connect, PoolTimeout
    <3> SUFFICES ASSUME loop' # Idle
                 PROVE  stage'[loop'] \in {"started", "connected", "locked"}
      OBVIOUS
    <3>3. loop' = loop /\ loop \in Jobs /\ stage[loop] \in {"started", "connected", "locked"}
      BY <3>2, <2>0
    <3>4. loop # j => stage'[loop] = stage[loop]
      BY <3>3, <2>a
    <3> QED
      BY ONLY <3>1, <3>3, <3>4
  <2>2. CASE LockRideRow(j) \/ FinishReading(j)
    <3>1. loop' = loop /\ (loop = j => stage'[j] = "locked")
      BY <2>2, <2>0 DEF LockRideRow, FinishReading
    <3> QED
      BY <3>1, <2>0, <2>a
  <2>3. CASE CallProviders(j)
    <3>1. loop # j
      BY <2>3, <2>0 DEF CallProviders
    <3> QED
      BY <2>3, <3>1 DEF CallProviders
  <2>4. CASE Commit(j)
    BY <2>4 DEF Commit
  <2>5. CASE CloseSession(j) \/ FinishUpload(j)
    BY <2>5 DEF CloseSession, FinishUpload, LoopFree
  <2> QED
    BY <1>2, <2>1, <2>2, <2>3, <2>4, <2>5 DEF ServeJob
<1>3. ASSUME NEW c \in Uploads, StartAlerts(c)
      PROVE  LoopInv'
  BY <1>3 DEF StartAlerts, LoopFree
<1> QED
  BY <1>1, <1>2, <1>3 DEF ThreadsStep

LEMMA StagesStep ==
  ASSUME WaitsInv, ThreadsStep
  PROVE  StagesInv'
<1>1. stage \in [Jobs -> Stages] /\ \A j \in Jobs : StageFits(j)
  BY DEF WaitsInv, ThreadsInv, ThreadsTypeOK, StagesInv
<1>2. Uploads \cap AlertJobs = {} /\ (Writers \cup Queries) \cap AlertJobs = {}
  BY ThreadsAssumption
<1>3. ASSUME NEW j \in Jobs, RefuseUpload(j) \/ StartUpload(j) \/ StartThread(j) \/ ServeJob(j)
      PROVE  StagesInv'
  <2>1. \A i \in Jobs : i # j => stage'[i] = stage[i]
    BY <1>1, <1>3 DEF RefuseUpload, StartUpload, StartThread, ServeJob, Connect, PoolTimeout,
                      LockRideRow, CallProviders, Commit, FinishReading, CloseSession,
                      FinishUpload, Moves
  <2>2. StageFits(j)'
    <3>1. CASE RefuseUpload(j) \/ StartUpload(j) \/ StartThread(j) \/ Connect(j) \/ PoolTimeout(j)
               \/ CloseSession(j) \/ FinishUpload(j)
      BY <3>1, <1>1 DEF RefuseUpload, StartUpload, StartThread, Connect, PoolTimeout,
                        CloseSession, FinishUpload, Moves, StageFits
    <3>2. CASE LockRideRow(j) \/ CallProviders(j)
      BY <3>2, <1>1 DEF LockRideRow, CallProviders, Moves, StageFits
    <3>3. CASE Commit(j)
      BY <3>3, <1>1 DEF Commit, StageFits
    <3>4. CASE FinishReading(j)
      BY <3>4, <1>1, <1>2 DEF FinishReading, Moves, StageFits
    <3> QED
      BY <1>3, <3>1, <3>2, <3>3, <3>4 DEF ServeJob
  <2> QED
    BY <2>1, <2>2, <1>1 DEF StagesInv, StageFits
<1>4. ASSUME NEW c \in Uploads, StartAlerts(c)
      PROVE  StagesInv'
  <2>1. c \in Jobs /\ Alert(c) \in Jobs
    BY AlertsApart
  <2>2. \A i \in Jobs : stage'[i] = stage[i] \/ stage'[i] \in {"started", "done"}
    BY <2>1, <1>1, <1>4 DEF StartAlerts
  <2> QED
    BY <2>2, <1>1 DEF StagesInv, StageFits
<1> QED
  BY <1>3, <1>4 DEF ThreadsStep

LEMMA WaitsInvHolds == ThreadsSpec => []WaitsInv
<1>1. ThreadsInit => LoopInv /\ StagesInv
  BY DEF ThreadsInit, LoopInv, StagesInv, StageFits
<1>2. WaitsInv /\ ThreadsInv' /\ [ThreadsStep]_threadState => (LoopInv /\ StagesInv)'
  <2> SUFFICES ASSUME WaitsInv, [ThreadsStep]_threadState PROVE (LoopInv /\ StagesInv)'
    OBVIOUS
  <2>1. CASE UNCHANGED threadState
    BY <2>1 DEF threadState, WaitsInv, LoopInv, StagesInv, StageFits
  <2> QED
    BY <2>1, LoopStep, StagesStep
<1> QED
  BY <1>1, <1>2, ThreadsInvHolds, PTL DEF ThreadsSpec, WaitsInv

(* A job that asks for a connection, holds the lock or the answer of the   *)
(* providers, or only reads, waits for nobody.                             *)
LEMMA OnlyTwoWaits ==
  ASSUME WaitsInv, NEW j \in Jobs, stage[j] \in Begun, ~MayGoOn(j)
  PROVE  (NeedsLock(j) /\ rideLock # Idle) \/ (NeedsLoop(j) /\ loop # Idle)
<1>1. Cardinality(pool) \in Nat
  <2>1. IsFiniteSet(pool)
    BY FS_Subset, ThreadsAssumption DEF WaitsInv, ThreadsInv, ThreadsTypeOK
  <2> QED
    BY <2>1, FS_CardinalityType
<1>2. PoolHasRoom(j) \/ PoolExhausted(j)
  BY <1>1, ThreadsAssumption DEF PoolHasRoom, PoolExhausted
<1> QED
  BY <1>2 DEF MayGoOn, WaitsInv, StagesInv, StageFits, Begun, NeedsLock, NeedsLoop, LoopFree,
                    Jobs, Locking

(* The holder of the lock can go on: it has not passed its commit. *)
LEMMA LockHolderGoesOn ==
  ASSUME WaitsInv, rideLock # Idle
  PROVE  rideLock \in Jobs /\ MayGoOn(rideLock)
<1>1. rideLock \in Jobs /\ rideLock \in Locking /\ stage[rideLock] \in {"locked", "sent"}
  BY DEF WaitsInv, ThreadsInv, ThreadsTypeOK, LockNeedsNoLoop, Locking, Jobs
<1>2. stage[rideLock] = "sent" => rideLock \in AlertJobs
  BY <1>1 DEF WaitsInv, StagesInv, StageFits
<1> QED
  BY <1>1, <1>2 DEF MayGoOn

(* So can its waiters, once it has. *)
LEMMA LockWaiterGoesOn ==
  ASSUME WaitsInv, NEW j \in Jobs, stage[j] \in Begun, ~NeedsLoop(j)
  PROVE  LockComesFree(j)
<1>1. MayGoOn(j) \/ (NeedsLock(j) /\ rideLock # Idle)
  BY OnlyTwoWaits
<1> QED
  BY <1>1, LockHolderGoesOn DEF LockComesFree

(* Every call that was begun can go on at once, or waits for the lock or   *)
(* for the loop, whose holder can go on at once or waits for the lock only *)
(* (app.py's coroutines that call the database on the loop): no calls wait *)
(* for each other, for any numbers of them and any size of the pool.       *)
THEOREM NoCircleOfWaits == ThreadsSpec => []WaitsAreShort
<1>1. WaitsInv => WaitsAreShort
  <2> SUFFICES ASSUME WaitsInv, NEW j \in Jobs, stage[j] \in Begun, ~LockComesFree(j)
               PROVE  NeedsLoop(j) /\ loop \in Jobs /\ LockComesFree(loop)
    BY DEF WaitsAreShort
  <2>1. NeedsLoop(j)
    BY LockWaiterGoesOn
  <2>2. ~MayGoOn(j)
    BY DEF LockComesFree
  <2>3. loop # Idle
    BY <2>1, <2>2, OnlyTwoWaits DEF NeedsLock, NeedsLoop
  <2>4. loop \in Jobs /\ stage[loop] \in Begun /\ ~NeedsLoop(loop)
    BY <2>3 DEF WaitsInv, ThreadsInv, ThreadsTypeOK, LoopInv, Begun, NeedsLoop, Jobs
  <2> QED
    BY <2>1, <2>4, LockWaiterGoesOn
<1> QED
  BY <1>1, WaitsInvHolds, PTL

-----------------------------------------------------------------------------
(* Later is transitive and never comes back. *)
LEMMA LaterIsAnOrder ==
  /\ \A a, b \in Stages : b \in LaterStages[a] => LaterStages[b] \subseteq LaterStages[a]
  /\ \A a \in Stages : a \notin LaterStages[a]
BY DEF Stages, LaterStages

LEMMA PairIsFinite ==
  ASSUME NEW a, NEW b
  PROVE  IsFiniteSet({a, b})
<1>1. {a, b} = {a} \cup {b} /\ IsFiniteSet({a}) /\ IsFiniteSet({b})
  BY FS_Singleton
<1> QED
  BY <1>1, FS_Union

(* Which jobs a step moves, and that it moves them forward. *)
LEMMA StepsGoForward ==
  ASSUME WaitsInv, ThreadsStep
  PROVE  /\ \A j \in Jobs : stage'[j] = stage[j] \/ stage'[j] \in LaterStages[stage[j]]
         /\ \E j \in Jobs : stage'[j] \in LaterStages[stage[j]]
<1>1. stage \in [Jobs -> Stages]
  BY DEF WaitsInv, ThreadsInv, ThreadsTypeOK
<1>2. ASSUME NEW j \in Jobs, RefuseUpload(j) \/ StartUpload(j) \/ StartThread(j) \/ ServeJob(j)
      PROVE  /\ stage'[j] \in LaterStages[stage[j]]
             /\ \A i \in Jobs : i # j => stage'[i] = stage[i]
  <2>1. \A i \in Jobs : i # j => stage'[i] = stage[i]
    BY <1>1, <1>2 DEF RefuseUpload, StartUpload, StartThread, ServeJob, Connect, PoolTimeout,
                      LockRideRow, CallProviders, Commit, FinishReading, CloseSession,
                      FinishUpload, Moves
  <2>2. \/ stage[j] = "new" /\ stage'[j] \in {"done", "started"}
        \/ stage[j] = "started" /\ stage'[j] \in {"connected", "done"}
        \/ stage[j] = "connected" /\ stage'[j] \in {"locked", "finished"}
        \/ stage[j] = "locked" /\ stage'[j] \in {"sent", "finished"}
        \/ stage[j] = "sent" /\ stage'[j] = "done"
        \/ stage[j] = "finished" /\ stage'[j] = "done"
    BY <1>1, <1>2 DEF RefuseUpload, StartUpload, StartThread, ServeJob, Connect, PoolTimeout,
                      LockRideRow, CallProviders, Commit, FinishReading, CloseSession,
                      FinishUpload, Moves
  <2> QED
    BY <2>1, <2>2 DEF LaterStages
<1>3. ASSUME NEW c \in Uploads, StartAlerts(c)
      PROVE  /\ stage'[c] \in LaterStages[stage[c]]
             /\ \A i \in Jobs : stage'[i] = stage[i] \/ stage'[i] \in LaterStages[stage[i]]
  <2>1. c \in Jobs /\ Alert(c) \in Jobs /\ Alert(c) # c
    BY AlertsApart
  <2>2. stage[Alert(c)] = "new" /\ stage[c] = "finished"
    BY <1>3 DEF WaitsInv, ThreadsInv, AlertsWait, StartAlerts
  <2>3. /\ stage'[c] = "done" /\ stage'[Alert(c)] = "started"
        /\ \A i \in Jobs : i # c /\ i # Alert(c) => stage'[i] = stage[i]
    BY <2>1, <1>1, <1>3 DEF StartAlerts
  <2> QED
    BY <2>1, <2>2, <2>3 DEF LaterStages
<1> QED
  BY <1>2, <1>3 DEF ThreadsStep, Jobs

(* Calls are served in as many steps as there are stages before the jobs   *)
(* at most: every step, whichever call it belongs to, leaves less ahead    *)
(* and takes no call back.  With NoCircleOfWaits this is what EveryCallEnds*)
(* rests on besides fairness.                                              *)
THEOREM CallsRunDown == ThreadsSpec => EveryStepCounts
<1> DEFINE Counts == /\ StillAhead' \subseteq StillAhead
                     /\ Cardinality(StillAhead') < Cardinality(StillAhead)
<1>1. WaitsInv /\ WaitsInv' /\ [ThreadsStep]_threadState => [Counts]_threadState
  <2> SUFFICES ASSUME WaitsInv, WaitsInv', ThreadsStep PROVE Counts
    OBVIOUS
  <2>1. stage \in [Jobs -> Stages] /\ stage' \in [Jobs -> Stages]
    BY DEF WaitsInv, ThreadsInv, ThreadsTypeOK
  <2>2. StillAhead' \subseteq StillAhead
    <3> SUFFICES ASSUME NEW p \in Jobs \X Stages, p[2] \in LaterStages[stage'[p[1]]]
                 PROVE  p[2] \in LaterStages[stage[p[1]]]
      BY DEF StillAhead
    <3>1. p[1] \in Jobs
      OBVIOUS
    <3>2. \/ stage'[p[1]] = stage[p[1]]
          \/ LaterStages[stage'[p[1]]] \subseteq LaterStages[stage[p[1]]]
      BY <3>1, <2>1, StepsGoForward, LaterIsAnOrder
    <3> QED
      BY <3>2
  <2>3. PICK j \in Jobs : stage'[j] \in LaterStages[stage[j]]
    BY StepsGoForward
  <2>4. <<j, stage'[j]>> \in StillAhead /\ <<j, stage'[j]>> \notin StillAhead'
    BY <2>1, <2>3, LaterIsAnOrder DEF StillAhead
  <2>5. IsFiniteSet(StillAhead)
    <3>1. IsFiniteSet(Stages)
      <4>1. Stages = {"new", "started"} \cup {"connected", "locked"}
                     \cup {"sent", "finished"} \cup {"done"}
        BY DEF Stages
      <4>2. /\ IsFiniteSet({"new", "started"}) /\ IsFiniteSet({"connected", "locked"})
            /\ IsFiniteSet({"sent", "finished"}) /\ IsFiniteSet({"done"})
        BY PairIsFinite, FS_Singleton
      <4> QED
        BY <4>1, <4>2, FS_Union
    <3>2. IsFiniteSet(Jobs \X Stages)
      BY <3>1, FS_Product, ThreadsAssumption
    <3> QED
      BY <3>2, FS_Subset DEF StillAhead
  <2> QED
    BY <2>2, <2>4, <2>5, FS_Subset, FS_CardinalityType
<1> QED
  BY <1>1, WaitsInvHolds, PTL DEF ThreadsSpec, EveryStepCounts
=============================================================================
