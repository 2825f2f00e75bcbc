SPECIFICATION ThreadsSpec
CONSTANTS
  Uploads = {u1, u2}
  Writers = {o1, o2}
  Queries = {r1, r2}
  PoolSize = 2
  Idle = Idle
CHECK_DEADLOCK FALSE
INVARIANT LockNeedsNoLoop
PROPERTY EveryCallEnds
