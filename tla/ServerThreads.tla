--------------------------- MODULE ServerThreads ---------------------------
(***************************************************************************)
(* What the relay's calls wait for (app.py, database.py): the one event    *)
(* loop, the pool of database connections, and the row lock of a ride.     *)
(*                                                                         *)
(* The endpoints of uploads, live presence, plans and traffic are          *)
(* coroutines that call the database without awaiting it, so the loop      *)
(* stands still for as long as one of them waits.  All other endpoints     *)
(* run in worker threads, and the dispatch of an upload's alerts too; but  *)
(* it is the loop that starts them, takes their answer and closes their    *)
(* session.  A call that commits gives its connection back at once; one    *)
(* that only reads keeps it until its session is closed.                   *)
(***************************************************************************)
EXTENDS Naturals, FiniteSets

CONSTANTS
  Uploads,         \* calls served on the loop that write a ride
  Writers,         \* calls served in a thread that lock the ride
  Queries,         \* calls served in a thread that write nothing
  PoolSize,        \* connections: pool_size + max_overflow
  Idle             \* nobody holds the loop, or the lock

Alert(c) == <<c, "alert">>
AlertJobs == {Alert(c) : c \in Uploads}
Jobs == Uploads \cup Writers \cup Queries \cup AlertJobs
Locking == Uploads \cup Writers \cup AlertJobs

ASSUME ThreadsAssumption ==
  /\ PoolSize \in Nat \ {0}
  /\ Idle \notin Jobs
  /\ IsFiniteSet(Jobs)
  /\ AlertJobs \cap (Uploads \cup Writers \cup Queries) = {}
  /\ Uploads \cap (Writers \cup Queries) = {} /\ Writers \cap Queries = {}

VARIABLES
  stage,       \* [Jobs -> Stages]
  loop,        \* the job the event loop is held by
  pool,        \* the jobs that hold a connection
  rideLock     \* the job that holds the ride's row lock

threadState == <<stage, loop, pool, rideLock>>

Stages == {"new", "started", "connected", "locked", "sent", "finished", "done"}

ThreadsInit ==
  /\ stage = [j \in Jobs |-> "new"]
  /\ loop = Idle
  /\ pool = {}
  /\ rideLock = Idle

LoopFree == loop = Idle
Moves(j, from, to) == stage[j] = from /\ stage' = [stage EXCEPT ![j] = to]

-----------------------------------------------------------------------------
(* A request that is too long, not JSON, without a credential or a key,    *)
(* over a rate limit, malformed or from a client that is too old is        *)
(* answered before the database is asked for anything.                     *)
RefuseUpload(j) ==
  /\ j \in Uploads
  /\ LoopFree
  /\ Moves(j, "new", "done")
  /\ UNCHANGED <<loop, pool, rideLock>>

(* Having read the request, an upload keeps the loop until it is answered. *)
StartUpload(j) ==
  /\ j \in Uploads
  /\ LoopFree
  /\ Moves(j, "new", "started")
  /\ loop' = j
  /\ UNCHANGED <<pool, rideLock>>

(* The loop hands a call to a thread; a dispatch follows its upload, which *)
(* may have been refused or have nothing to tell.                          *)
StartThread(j) ==
  /\ j \in Writers \cup Queries
  /\ LoopFree
  /\ Moves(j, "new", "started")
  /\ UNCHANGED <<loop, pool, rideLock>>

StartAlerts(c) ==
  /\ c \in Uploads
  /\ LoopFree
  /\ stage[c] = "finished"
  /\ stage' = [stage EXCEPT ![c] = "done", ![Alert(c)] = "started"]
  /\ UNCHANGED <<loop, pool, rideLock>>

(* A connection from the pool, ...                                         *)
PoolHasRoom(j) == Cardinality(pool) < PoolSize

Connect(j) ==
  /\ PoolHasRoom(j)
  /\ Moves(j, "started", "connected")
  /\ pool' = pool \cup {j}
  /\ UNCHANGED <<loop, rideLock>>

(* ... or, after 30 seconds of waiting for one, status 500.                *)
NeverTimesOut(j) == FALSE        \* broken: the pool is waited for for ever
PoolExhausted(j) == Cardinality(pool) >= PoolSize

PoolTimeout(j) ==
  /\ PoolExhausted(j)
  /\ Moves(j, "started", "done")
  /\ loop' = IF loop = j THEN Idle ELSE loop
  /\ UNCHANGED <<pool, rideLock>>

(* SELECT ... FOR UPDATE. *)
LockRideRow(j) ==
  /\ j \in Locking
  /\ rideLock = Idle
  /\ Moves(j, "connected", "locked")
  /\ rideLock' = j
  /\ UNCHANGED <<loop, pool>>

(* The providers answer, or time out, with the ride locked. *)
CallProviders(j) ==
  /\ j \in AlertJobs
  /\ Moves(j, "locked", "sent")
  /\ UNCHANGED <<loop, pool, rideLock>>

(* The commit, or the rollback of an error, ends the transaction in the    *)
(* thread it ran in; an upload lets go of the loop.                        *)
UntilClosed(j) == rideLock       \* broken: the transaction stays open
LockAfter(j) == IF rideLock = j THEN Idle ELSE rideLock

Commit(j) ==
  /\ j \in Locking
  /\ stage[j] = IF j \in AlertJobs THEN "sent" ELSE "locked"
  /\ stage' = [stage EXCEPT ![j] = IF j \in AlertJobs THEN "done" ELSE "finished"]
  /\ rideLock' = LockAfter(j)
  /\ pool' = pool \ {j}
  /\ loop' = IF loop = j THEN Idle ELSE loop

(* A reader has its answer; its session is still open. *)
FinishReading(j) ==
  /\ j \in Queries
  /\ Moves(j, "connected", "finished")
  /\ UNCHANGED <<loop, pool, rideLock>>

(* The loop takes the answer and has the session closed. *)
CloseSession(j) ==
  /\ j \in Writers \cup Queries
  /\ LoopFree
  /\ Moves(j, "finished", "done")
  /\ pool' = pool \ {j}
  /\ rideLock' = IF rideLock = j THEN Idle ELSE rideLock
  /\ UNCHANGED loop

(* A position that was exchanged, or an upload without events, has no      *)
(* dispatch after it.                                                      *)
FinishUpload(j) ==
  /\ j \in Uploads
  /\ LoopFree
  /\ Moves(j, "finished", "done")
  /\ UNCHANGED <<loop, pool, rideLock>>

ServeJob(j) ==
  \/ Connect(j) \/ PoolTimeout(j) \/ LockRideRow(j) \/ CallProviders(j)
  \/ Commit(j) \/ FinishReading(j) \/ CloseSession(j) \/ FinishUpload(j)

ThreadsStep ==
  \/ \E j \in Jobs : RefuseUpload(j) \/ StartUpload(j) \/ StartThread(j) \/ ServeJob(j)
  \/ \E c \in Uploads : StartAlerts(c)

(* The operating system schedules the threads and the loop, the database   *)
(* grants a free lock, the pool keeps its time, and a provider answers or  *)
(* its timeout passes.                                                     *)
ThreadsSpec ==
  ThreadsInit /\ [][ThreadsStep]_threadState /\ \A j \in Jobs : WF_threadState(ServeJob(j))

-----------------------------------------------------------------------------
ThreadsTypeOK ==
  /\ stage \in [Jobs -> Stages]
  /\ loop \in Uploads \cup {Idle}
  /\ pool \subseteq Jobs /\ Cardinality(pool) <= PoolSize
  /\ rideLock \in Locking \cup {Idle}

(* Whoever holds the ride's lock can let go of it without the loop, which  *)
(* may be standing still for that very lock.                               *)
LockNeedsNoLoop ==
  rideLock # Idle => stage[rideLock] \in {"locked", "sent"}

(* Every call that was begun ends, though the loop waits for a connection  *)
(* that only the loop can give back: it is the timeout of the pool that    *)
(* breaks that circle.                                                     *)
EveryCallEnds ==
  \A j \in Jobs : stage[j] = "started" ~> stage[j] = "done"
=============================================================================
