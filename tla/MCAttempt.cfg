SPECIFICATION Spec
CONSTANTS
  Timeout = 3
  Proxies = {"none", "socks5", "http", "https"}
  Protocols <- AllProtocols
  MaxLines = 2
  Horizon = 7
INVARIANTS
  NoLeak
  TimeLimit
  CancelReaches
  ReasonIsTrue
  DialoguesMesh
PROPERTIES
  AttemptEnds
CHECK_DEADLOCK FALSE
