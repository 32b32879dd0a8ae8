CONSTANTS
  MaxRounds = 4
  ChanCap = 1
  MaxBuffer = 3
  BodyLimit = 2
  MaxLoops = 2
  MaxOutages = 1
  MaxLate = 1
SPECIFICATION FairSpec
INVARIANTS TypeOK NothingVanishes RetriesKeepOrder
PROPERTIES DeliveredUnlessTooBig
CHECK_DEADLOCK FALSE
