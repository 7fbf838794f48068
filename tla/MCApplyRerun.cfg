SPECIFICATION Spec
CONSTANTS
  Plans <- MCPlans
  Accepted <- MCAccepted
  MaxDay = 3
  MaxCrashes = 0
INVARIANTS
  RerunIsAlready
CHECK_DEADLOCK FALSE
