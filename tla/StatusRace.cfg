CONSTANTS
  t1 = t1
  t2 = t2
  c1 = c1
  c2 = c2
  Targets = {t1, t2}
  Components <- OneComponent
  Watches <- PairWatch
  IncidentAt <- OneAt
  Admin = Admin
  Nobody = Nobody
  MaxEvents = 4
  MaxFaults = 0
SPECIFICATION Spec
INVARIANTS RecoveredIsResolved
CHECK_DEADLOCK FALSE
