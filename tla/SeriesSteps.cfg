CONSTANTS
  Rras <- RawAndMean
  Values = {4}
  NaN = NaN
  Empty = Empty
  Absent = Absent
  MinTime = 3
  MaxTime = 6
  MaxKills = 2
SPECIFICATION StepSpec
INVARIANTS KillSpoilsTwoWindows
PROPERTIES ImplementsSeries
