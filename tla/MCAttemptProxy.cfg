SPECIFICATION Spec
CONSTANTS
  Timeout = 3
  Proxies = {"http"}
  Protocols = {"none", "smtp"}
  MaxLines = 3
  Horizon = 7
INVARIANTS
  NoEscape
CHECK_DEADLOCK FALSE
