CONSTANTS
  MaxStarts = 1
  MaxMishaps = 1
  MaxTries = 1
  MaxCalls = 1
SPECIFICATION Spec
INVARIANTS TypeOK NoUseAfterDestroy NoCloseWhileOpening
PROPERTIES StartAnswered MainReturns
CHECK_DEADLOCK FALSE
