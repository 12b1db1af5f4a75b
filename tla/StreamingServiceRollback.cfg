CONSTANTS
  MaxStarts = 1
  MaxMishaps = 1
  MaxTries = 1
  MaxCalls = 1
SPECIFICATION Spec
INVARIANT FailedStartLeavesNothing
CHECK_DEADLOCK FALSE
