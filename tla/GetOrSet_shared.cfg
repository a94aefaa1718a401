SPECIFICATION Spec
CONSTANTS
  p = p
  q = q
  a = a
  b = b
  f1 = f1
  f2 = f2
  Caches = {p, q}
  Callers = {a, b}
  Home <- SplitHome
  Flights = {f1, f2}
  None = None
  NoResult = NoResult
  TTLs = {2}
  CallTimeouts = {0}
  Minute = 4
  Faults = {"panic"}
  Foreign = {"garbage"}
  Invalidations = TRUE
  Remember = FALSE
  Instants <- MCInstants
  MaxTime = 3
  MaxLag = 1
  DefaultTTL = 0
  StaleTTL = 1
  NegativeTTL = 0
  TTLJitter = 40
  EarlyRefreshBeta = 1
  MaxSpread = 1
  Milli = 2
SYMMETRY Symmetry
INVARIANTS
  ExpiryMatchesEnvelope
PROPERTIES
  ImplementsGroup
