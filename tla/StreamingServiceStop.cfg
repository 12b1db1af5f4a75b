CONSTANTS
  MaxStarts = 1
  MaxMishaps = 0
  MaxTries = 1
  MaxCalls = 1
SPECIFICATION Spec
INVARIANT StoppedCompletely
CHECK_DEADLOCK FALSE
