CONSTANTS
  U = U
  burst = burst
  dead = dead
  AlertNames = {burst, dead}
  Kind <- TwoKinds
  Pat <- TwoPatterns
  Repeat <- RepeatBurst
  NotifyClear <- BothClear
  Receivers <- TwoAndOne
  Samples <- Outcomes
  MinHistory = 1
  MaxRounds = 5
  MaxTasks = 2
  MaxStarts = 2
SPECIFICATION Spec
INVARIANTS TypeOK RaisedIsMeant LastWordIsTrue
PROPERTIES StillRaisedIsRepeated
CHECK_DEADLOCK FALSE
