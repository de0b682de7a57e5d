SPECIFICATION Spec
CONSTANTS
  Concurrency = 2
  NumTargets = 4
PROPERTIES
  NoOrphans
  KeepsWave
CHECK_DEADLOCK FALSE
