SPECIFICATION FairSpec
CONSTANTS
  k1 = k1
  k2 = k2
  c1 = c1
  c2 = c2
  Keys = {k1, k2}
  Clients = {c1, c2}
  Vals <- MCVals
  TTLs = {1}
  Batches = {{k1, k2}}
  MaxTime = 2
  None = None
  DefaultTTL = 1
  StaleTTL = 1
  NegativeTTL = 0
  TTLJitter = 0
  EarlyRefreshBeta = 0
  MaxSpread = 0
  Milli = 1
PROPERTIES
  ImplementsStore
  OperationsReturn
