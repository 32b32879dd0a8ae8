CONSTANTS
  MaxRounds = 3
  ChanCap = 1
  MaxBuffer = 2
  BodyLimit = 1
  MaxLoops = 1
  MaxOutages = 0
  MaxLate = 1
SPECIFICATION FairSpec
PROPERTIES Delivered
CHECK_DEADLOCK FALSE
