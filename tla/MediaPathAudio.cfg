SPECIFICATION Spec
CONSTANTS
  kWindow = 2
  kMaxPending = 1
  MaxPackets = 3
  MaxFrames = 1
  MaxAudio = 2
  FragCounts = {1}
  MaxKey = 1
  MaxClears = 1
  MaxSessions = 1
INVARIANT VideoFramesHoldVideo
CHECK_DEADLOCK FALSE
