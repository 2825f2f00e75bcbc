SPECIFICATION Spec
CONSTANTS
  a = a
  b = b
  c = c
  Devices = {a, b, c}
  Root = a
  Offset <- InStep
  OfferLife = 1
  MaxSkew = 1
  MaxNow = 2
  MaxEvents = 4
  MaxRevokes = 1
CHECK_DEADLOCK FALSE
SYMMETRY Crew
INVARIANT OneAuthorityUnlessStale
