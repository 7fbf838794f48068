SPECIFICATION HarnessSpec
CONSTANTS
  p1 = p1
  p2 = p2
  c1 = c1
  key2 = key2
  key3 = key3
  NoKey = NoKey
  NoUnit = NoUnit
  NoFilter = NoFilter
  NoExit = NoExit
  Tests <- MCTests
  KeyOf <- MCKeyOf
  PendingList <- MCPendingList
  Filters <- MCFilters
  LiveCases = {"a live case", "another live case"}
  Modules = {"src/lib.npk"}
  Roots = {"src/lib.npk"}
  TreeChecks <- MCTreeChecks
INVARIANTS
  ExitTellsFailure
PROPERTIES
  GreenIsEarned
  JudgedAfterSelfCheck
  RunEnds
CHECK_DEADLOCK FALSE
