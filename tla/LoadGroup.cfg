SPECIFICATION FairSpec
CONSTANTS
  k1 = k1
  k2 = k2
  c1 = c1
  c2 = c2
  f1 = f1
  f2 = f2
  f3 = f3
  v = v
  w = w
  Keys = {k1, k2}
  Callers = {c1, c2}
  Flights = {f1, f2, f3}
  Results = {v, w}
  NoResult = NoResult
  None = None
INVARIANTS
  TypeOK
  OneFlightPerKey
  WaitersAttached
PROPERTIES
  NoJoinAfterForget
  EveryDoReturns
