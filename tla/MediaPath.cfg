SPECIFICATION Spec
CONSTANTS
  kWindow = 2
  kMaxPending = 1
  MaxPackets = 4
  MaxFrames = 2
  MaxAudio = 1
  FragCounts = {2}
  MaxKey = 2
  MaxClears = 2
  MaxSessions = 2
INVARIANTS TypeOK PendingIsUseful FrameIntegrity
PROPERTIES AcceptedOnce KeyframeFirst NoJitterInversion
CHECK_DEADLOCK FALSE
