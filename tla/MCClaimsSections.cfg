SPECIFICATION ClaimsSpec
CONSTANTS
  Declaring = "nparse.npk"
  Module = "nparse"
  SpecNames <- MCSpecNames
  SourceTrees <- MCSourceTrees
  PathsOf <- MCPathsOf
  Tasks <- MCTasks
INVARIANTS
  CarriedInItsSection
CHECK_DEADLOCK FALSE
