SPECIFICATION Spec
CONSTANTS
  Concurrency = 2
  InCap = 2
  NumTargets = 3
INVARIANTS
  NoSendOnClosed
PROPERTIES
  CancelCloses
  KeepsPromise
CHECK_DEADLOCK FALSE
