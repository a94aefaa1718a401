SPECIFICATION HistorySpec
CONSTANTS
  p = p
  q = q
  a = a
  b = b
  f1 = f1
  f2 = f2
  Caches = {p}
  Callers = {a, b}
  Home <- SharedHome
  Flights = {f1, f2}
  None = None
  NoResult = NoResult
  TTLs = {1}
  CallTimeouts = {0}
  Minute = 4
  Faults = {"panic", "cancel"}
  Foreign = {}
  Invalidations = FALSE
  Remember = FALSE
  Instants <- MCInstants
  MaxTime = 5
  MaxLag = 1
  DefaultTTL = 0
  StaleTTL = 1
  NegativeTTL = 0
  TTLJitter = 0
  EarlyRefreshBeta = 0
  MaxSpread = 0
  Milli = 1
INVARIANTS
  FailedRefreshVisible
