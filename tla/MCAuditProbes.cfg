SPECIFICATION Spec
CONSTANTS
  Ciphers <- FourCiphers
  Default <- Offered
  Configurable <- Chosen
  Weak <- Severity
  Servers <- SomeServers
  Leaves <- SomeLeaves
  Day = 2
  MaxDuration = 600
  CipherConcurrency = 2
  Modern = TRUE
INVARIANTS
  NoFalseAlarm
  NothingMissed
  PassIsEarned
PROPERTIES
  AuditEnds
CHECK_DEADLOCK FALSE
