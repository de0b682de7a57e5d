SPECIFICATION ParseSpec
CONSTANTS
  Base = 4
  Bytes = 3
  Limit = 8
  MaxPort = 9
  MaxRange = 4
  PortLists <- SomeLists
  SNILists <- SomeNames
  HostNames <- SomeHosts
  Ascii <- LowerCase
  Networks <- SomeNetworks
INVARIANTS
  ParseIsExact
PROPERTIES
  ParseEnds
CHECK_DEADLOCK FALSE
