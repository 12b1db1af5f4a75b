SPECIFICATION Spec
CONSTANTS
  Pins = {1, 2}
  MAX_ATTEMPTS = 1
  MaxConns = 2
  MaxSessions = 2
  MaxQueue = 1
  MaxDrops = 1
INVARIANTS TypeOK NeverPlaintext PairedMeansAgreed AnswersAreCurrent DisconnectIsFinal
PROPERTIES CallsReturn ImplementsKeyAgreement
CHECK_DEADLOCK FALSE
