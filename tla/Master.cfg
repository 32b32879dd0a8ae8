CONSTANTS
  Setups <- MCSetups
  ChanCap = 2
  MaxBatch = 2
  FeedCap = 2
SPECIFICATION Spec
INVARIANTS TypeOK  SinksAccount
PROPERTIES  SinksRecover
CHECK_DEADLOCK FALSE
