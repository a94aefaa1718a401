SPECIFICATION HistorySpec
CONSTANTS
  p = p
  q = q
  a = a
  b = b
  f1 = f1
  f2 = f2
  Caches = {p}
  Callers = {a, b}
  Home <- SharedHome
  Flights = {f1, f2}
  None = None
  NoResult = NoResult
  TTLs = {0}
  CallTimeouts = {0}
  Minute = 4
  Faults = {"get", "delete", "notfound", "panic"}
  Foreign = {"garbage", "plain", "env"}
  Invalidations = TRUE
  Remember = TRUE
  Instants <- MCInstants
  MaxTime = 3
  MaxLag = 1
  DefaultTTL = 1
  StaleTTL = 1
  NegativeTTL = 1
  TTLJitter = 0
  EarlyRefreshBeta = 0
  MaxSpread = 0
  Milli = 1
SYMMETRY CallerSymmetry
INVARIANTS
  TypeOK
  ResultDecodes
  FailedRefreshVisible
