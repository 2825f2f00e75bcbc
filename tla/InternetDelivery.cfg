SPECIFICATION FairSpec
CONSTANTS
  a = a
  b = b
  Devices = {a, b}
  Events = {1, 2}
  Author <- OneAuthor
  Poison = {1}
  Unsupported = {}
  MaxUpload = 2
  MaxDownload = 1
  Disturbances = {"kill", "restart", "late"}
  MaxDisturbances = 1
  NearbyPath = FALSE
CHECK_DEADLOCK FALSE
INVARIANT OnlyOffendersQuarantined
PROPERTY Delivered
