CONSTANTS
  Rras <- FourArchives
  Values = {1, 4}
  NaN = NaN
  Empty = Empty
  Absent = Absent
  MinTime = 4
  MaxTime = 9
  Budgets = {0, 2}
  MaxFetchPoints = 5
  LookBack = 2
  Day = 2
  DayPoints = 2
SPECIFICATION Spec
INVARIANTS TypeOK RowsFaithful RowsRetained FetchExact ViewsExact
 
