SPECIFICATION RoadmapSpec
CONSTANTS
  Plans <- MCPlans
  Accepted <- MCAccepted
  MaxDay = 3
  MaxCrashes = 2
  Declaring = "nparse.npk"
  Module = "nparse"
  SpecNames <- MCSpecNames
  SourceTrees <- MCSourceTrees
  PathsOf <- MCPathsOf
  Tasks <- MCTasks
INVARIANTS
  OneDateWhileRecorded
  LabelsHeld
  RefusedForCause
  ClaimsAsWritten
  StaleIsUnheld
  ExitIsTrue
  OneDeclarer
CHECK_DEADLOCK FALSE
