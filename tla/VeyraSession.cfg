\* A short stream, a few calls and link changes.
SPECIFICATION Spec
CONSTANTS
  usb = usb
  wifi = wifi
  wifi2 = wifi2
  Links <- MCLinks
  TypeOf <- MCTypeOf
  Penalties = {0, 15}
  MaxLinkChanges = 2
  maxQueueFrames = 4
  MaxFrames = 3
  MaxCalls = 4
SYMMETRY MCSymmetry
INVARIANTS TypeOK StartsWithKeyframe BacklogIsShort ShownInOrder NeverPlaintext LiveAfterEvaluation
CHECK_DEADLOCK FALSE
