SPECIFICATION Spec
CONSTANTS
  Plans <- MCPlans
  Accepted <- MCAccepted
  MaxDay = 3
  MaxCrashes = 1
INVARIANTS
  OneDate
CHECK_DEADLOCK FALSE
