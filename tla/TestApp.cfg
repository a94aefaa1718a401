SPECIFICATION Spec
CONSTANTS
  k1 = k1
  k2 = k2
  h1 = h1
  h2 = h2
  f1 = f1
  f2 = f2
  demoKeys <- MCDemoKeys
  Unstable = {k2}
  Main = Main
  Handlers = {h1, h2}
  Flights = {f1, f2}
  NoResult = NoResult
  None = None
SYMMETRY Symmetry
INVARIANTS
  TypeOK
  LoadsOnlyWhatWasLost
  FailuresExplained
