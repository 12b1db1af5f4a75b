CONSTANTS
  Capacity = 3
  MaxPushes = 6
  MaxClears = 1
SPECIFICATION Spec
INVARIANTS TypeOK PoppedInOrder NewestKept LossesAreCounted
