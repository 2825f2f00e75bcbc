SPECIFICATION FairSpec
CONSTANTS
  a = a
  b = b
  c = c
  Devices = {a, b}
  Links <- Pair
  Events = {1, 2}
  Origin <- FromA
  Priority <- Equal
  Size <- Equal
  MaxFrame = 1
  MaxEventsPerFrame = 2
  MaxHops = 2
  MaxQueued = 2
  Disturbances = {}
  MaxDisturbances = 0
CHECK_DEADLOCK FALSE
PROPERTY Delivered
