SPECIFICATION Spec
CONSTANTS
  k1 = k1
  k2 = k2
  a = a
  b = b
  Keys = {k1, k2}
  Callers = {a}
  KeyLists <- MCKeyLists
  TTLs = {0}
  Batched = {TRUE, FALSE}
  Volatile = {k2}
  Faults = {"get", "set", "delete", "loader", "encode"}
  Foreign = TRUE
  MaxTime = 8
  MaxLag = 1
  DefaultTTL = 2
  StaleTTL = 2
  NegativeTTL = 1
  TTLJitter = 0
  EarlyRefreshBeta = 0
  MaxSpread = 0
  Milli = 2
SYMMETRY Symmetry
INVARIANTS
  TypeOK
  AbsenceJustified
  StalenessBounded
