SPECIFICATION Spec
CONSTANTS
  started = started
  ended = ended
  reopened = reopened
  note = note
  chat = chat
  Handlers = {h1}
  Devices = {}
  Tokens = {t1}
  Events <- MCEvents
  EventType <- MCEventType
  EventRetention <- MCEventRetention
  ClientExpiry <- MCClientExpiry
  Batches <- LifecycleBatches
  RideRetention = 3
  EndedGrace = 1
  ReplayRetention = 1
  MaxEvents = 3
  MaxReplays = 2
  MaxDownload = 1
  MaxPresence = 1
  MaxNow = 4
  MaxRequests = 4
  NoRide = NoRide
  NotEnded = NotEnded
CHECK_DEADLOCK FALSE
PROPERTY ReopenedRideKeepsRunning
