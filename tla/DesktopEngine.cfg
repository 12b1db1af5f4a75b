\* The engine is built and taken down twice under a running stream.
SPECIFICATION Spec
CONSTANTS
  MaxInits = 2
  maxQueueFrames = 2
INVARIANTS TypeOK NoUseAfterFree QuietAfterShutdown
PROPERTIES CallsReturn
CHECK_DEADLOCK FALSE
