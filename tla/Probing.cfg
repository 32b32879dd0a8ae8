CONSTANTS
  Setups <- MCSetups
  Pings = 3
  Step = 4
SPECIFICATION Spec
INVARIANTS TypeOK SampleIsOwn LossIsReal RoundBounded 
CHECK_DEADLOCK FALSE
