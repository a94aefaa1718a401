SPECIFICATION Spec
CONSTANTS
  p = p
  q = q
  a = a
  b = b
  f1 = f1
  f2 = f2
  Caches = {p}
  Callers = {a, b}
  Home <- SharedHome
  Flights = {f1, f2}
  None = None
  NoResult = NoResult
  TTLs = {2}
  CallTimeouts = {0}
  Minute = 4
  Faults = {"cancel", "notfound"}
  Foreign = {}
  Invalidations = FALSE
  Remember = TRUE
  Instants <- MCInstants
  MaxTime = 6
  MaxLag = 1
  DefaultTTL = 0
  StaleTTL = 2
  NegativeTTL = 2
  TTLJitter = 0
  EarlyRefreshBeta = 0
  MaxSpread = 0
  Milli = 1
SYMMETRY CallerSymmetry
INVARIANTS
  OneLoaderPerCache
  NoWastedLoad
  CancelStaysPrivate
PROPERTIES
  MonotonicReads
  StoreNeverGoesBack
