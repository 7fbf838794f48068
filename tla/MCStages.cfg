SPECIFICATION StagesSpec
CONSTANTS
  p1 = p1
  p2 = p2
  p3 = p3
  p4 = p4
  c1 = c1
  c2 = c2
  c3 = c3
  T7 = T7
  L1 = L1
  at1 = at1
  at2 = at2
  s1 = s1
  s2 = s2
  DEF1 = DEF1
  NotSeen = NotSeen
  Hang = Hang
  NoArgument = NoArgument
  NoFilter = NoFilter
  Files <- MCFiles
  Codes = {T7, L1}
  FamilyCodes = {L1}
  Sites = {at1, at2}
  Symbols = {s1, s2}
  Labels = {DEF1}
  Exits = {0, 7}
  Stresses = {1, 2}
  Caps = {64}
  Tests <- MCTests
  Expect <- MCExpect
  PendingList <- MCPendingList
  Filters <- MCFilters
  Outputs <- MCOutputs
INVARIANTS
  ProgramOwed
  DiagnosticsOwed
  StaleIsMet
  FloorFirst
  SeenIsJudged
PROPERTIES
  JudgesInOrder
  Ends
CHECK_DEADLOCK FALSE
