SPECIFICATION Spec
CONSTANTS
  k1 = k1
  k2 = k2
  a = a
  b = b
  Keys = {k1, k2}
  Callers = {a, b}
  KeyLists <- MCKeyLists
  TTLs = {1}
  Batched = {TRUE}
  Volatile = {k2}
  Faults = {}
  Foreign = FALSE
  MaxTime = 4
  MaxLag = 1
  DefaultTTL = 0
  StaleTTL = 1
  NegativeTTL = 1
  TTLJitter = 0
  EarlyRefreshBeta = 0
  MaxSpread = 0
  Milli = 1
SYMMETRY Symmetry
INVARIANTS
  AbsenceJustified
  ExpiryMatchesEnvelope
