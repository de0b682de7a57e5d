SPECIFICATION Spec
CONSTANTS
  Concurrency = 3
  NumTargets = 4
INVARIANTS
  SlotsAreSafe
PROPERTIES
  OrderedReturns
  KeepsWave
CHECK_DEADLOCK FALSE
