SPECIFICATION Spec
CONSTANTS
  started = started
  ended = ended
  reopened = reopened
  note = note
  chat = chat
  Handlers = {h1, h2}
  Devices = {d1}
  Tokens = {t1}
  Events <- MCEvents
  EventType <- MCEventType
  EventRetention <- MCEventRetention
  ClientExpiry <- MCClientExpiry
  Batches <- RideBatches
  RideRetention = 3
  EndedGrace = 1
  ReplayRetention = 1
  MaxEvents = 3
  MaxReplays = 2
  MaxDownload = 1
  MaxPresence = 1
  MaxNow = 3
  MaxRequests = 3
  NoRide = NoRide
  NotEnded = NotEnded
CHECK_DEADLOCK FALSE
SYMMETRY HandlerSymmetry
INVARIANTS TypeOK OneRowPerEvent NoCallStuck
PROPERTIES EndedRideHasNoPositions CursorNeverSkips AcceptedIsKept JournalSpec
