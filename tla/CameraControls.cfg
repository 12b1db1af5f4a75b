\* A stream from its start through a few events of screen, users and heat.
SPECIFICATION Spec
CONSTANTS
  TierRate <- MCTierRate
  StartRate = 45
  CommandRates = {25}
  MaxEvents = 3
INVARIANTS TypeOK EncoderFed  
CHECK_DEADLOCK FALSE
