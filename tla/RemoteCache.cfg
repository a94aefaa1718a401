SPECIFICATION FairSpec
CONSTANTS
  k1 = k1
  k2 = k2
  c1 = c1
  None = None
  Keys = {k1, k2}
  Clients = {c1}
  Vals <- MCVals
  TTLs = {2}
  Batches = {{k1, k2}}
  Backends <- MCBackends
  OpTimeout = 1
  CtxTimeouts = {0}
  MaxWire = 2
  MaxTime = 4
  DefaultTTL = 1
  StaleTTL = 0
  NegativeTTL = 0
  TTLJitter = 50
  EarlyRefreshBeta = 0
  MaxSpread = 0
  Milli = 2
INVARIANTS
  TypeOK
  HooksBalance
  EverythingExpires
PROPERTIES
  ImplementsStore
  OperationsEnd
