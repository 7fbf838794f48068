SPECIFICATION MutantsSpec
CONSTANTS
  Pool = 3
  Rows <- MCRows
  Order <- MCOrder
  Trees <- MCTrees
  Asks <- MCAsks
  Exits = {"exit 0", "exit 1"}
INVARIANTS
  OwnEditsAlone
  StopsForCause
  EndIsWhole
PROPERTIES
  PoolEnds
CHECK_DEADLOCK FALSE
