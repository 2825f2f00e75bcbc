SPECIFICATION Spec
CONSTANTS
  a = a
  b = b
  c = c
  Devices = {a, b}
  Links <- Pair
  Events = {1, 2}
  Origin <- FromA
  Priority <- Equal
  Size <- Equal
  MaxFrame = 2
  MaxEventsPerFrame = 2
  MaxHops = 1
  MaxQueued = 1
  Disturbances = {"kill", "expire", "reconnect"}
  MaxDisturbances = 2
CHECK_DEADLOCK FALSE
INVARIANTS TypeOK AckedIsJournaled
