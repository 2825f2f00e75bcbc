SPECIFICATION Spec
CONSTANTS
  a = a
  b = b
  Devices = {a, b}
  Events = {1, 2}
  Author <- TwoAuthor
  Poison = {}
  Unsupported = {}
  MaxUpload = 2
  MaxDownload = 1
  Disturbances = {"garble"}
  MaxDisturbances = 2
  NearbyPath = FALSE
CHECK_DEADLOCK FALSE
INVARIANT OnlyOffendersQuarantined
