SPECIFICATION DiffSpec
CONSTANTS
  Files <- SomeFiles
  Results <- SomeResults
INVARIANTS
  DiffIsExact
CHECK_DEADLOCK FALSE
