SPECIFICATION Spec
CONSTANTS
  t1 = t1
  t2 = t2
  p = p
  q = q
  x = x
  y = y
  k = k
  m = m
  MaxNow = 3
  MaxCalls = 6
  CallBound <- MCCallBound
  TimeBound <- MCTimeBound
  Threads = {t1, t2}
  Phones = {p, q}
  Aliases = {x, y}
  NoRow = NoRow
  Registrars = {t1, t2}
  Rides = {p, q}
  Secrets = {x, y}
  Roots = {p, q}
  Codes = {x, y}
  NoRoot = NoRoot
  NoEntry = NoEntry
  CodeLife = 1
  PlanCodes = {x, y}
  Attempts = 2
  MaxPlanPoints = 1
  PlanLife = 2
  NoPlan = NoPlan
  Keys = {p, q, k}
  Limit = 2
  Window = 2
  MaxKeys = 2
  NoTimes = NoTimes
  Tasks = {t1, t2}
  Areas = {x, y}
  CacheLife = 2
  MaxCached = 1
  NoArea = NoArea
  Readers = {t1, t2}
  Builders = {p, q}
  Polygons = {x, y}
  NoFile = NoFile
  Devices = {k, m}
  Workers = {t1, t2}
  Bodies <- MCBodies
  MaxBatch = 1
  MaxLog = 3
  ExpireAfter = 1
  Nobody = Nobody
  Clerks = {t1, t2}
  Durations = {1, 3}
  RideEnds = 2
  MaxGrants = 1
  Ahead = 1
  NoGrant = NoGrant
SYMMETRY Symmetry
CHECK_DEADLOCK FALSE
INVARIANTS TypeOK OneRoomPerAlias NoSeatWithoutRoom OwnerStands
   PlanCodeStands RateHeld NoNeedlessCall AnswersAreWhole
  OneAttempt  GrantsBounded RevokedIsEmpty
PROPERTIES  InvitesNeverReturn CredentialStands
  OnlyMembersAlerted RevokedForCause 
