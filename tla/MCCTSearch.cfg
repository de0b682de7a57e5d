SPECIFICATION SearchSpec
CONSTANTS
  Inputs <- Lists
  Ascii <- LowerCase
  PublicSuffixes <- SuffixNames
  RawNames <- AllNames
  Ids = {1, 2, 3, 4}
  Pages <- PagesOf
  Circular <- CircularDomains
  ConfigRetries = 0
INVARIANTS
  FindingsAreWritten
  PrintedOnce
PROPERTIES
  SearchEnds
CHECK_DEADLOCK FALSE
