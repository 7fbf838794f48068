SPECIFICATION Spec
CONSTANTS
  Names <- MCNames
  Sources <- MCSources
INVARIANT SelfCallsReported
CHECK_DEADLOCK FALSE
