SPECIFICATION Spec
CONSTANTS
  Pins = {1, 2}
  MAX_ATTEMPTS = 2
  MaxConns = 2
  MaxSessions = 2
  MaxQueue = 1
  MaxDrops = 1
INVARIANT ReconnectIsSafe
CHECK_DEADLOCK FALSE
