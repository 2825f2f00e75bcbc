SPECIFICATION Spec
CONSTANTS
  a = a
  b = b
  Devices = {a, b}
  Events = {1, 2}
  Author <- TwoAuthor
  Poison = {}
  Unsupported = {}
  MaxUpload = 2
  MaxDownload = 1
  Disturbances = {"kill", "restart", "late", "rekey", "forget", "garble", "full"}
  MaxDisturbances = 1
  NearbyPath = TRUE
CHECK_DEADLOCK FALSE
INVARIANTS  NeverUnscheduled AckedWasStored
PROPERTIES HandedOnce JournalSpec
