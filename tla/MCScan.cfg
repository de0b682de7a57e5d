SPECIFICATION Spec
CONSTANTS
  Retries = 2
  Errors <- ScanErrors
INVARIANTS
  KindIsTrue
  KindFitsRetry
  RetriesUsed
  AttemptsPaid
PROPERTIES
  RetryJustified
  CancelReturns
CHECK_DEADLOCK FALSE
