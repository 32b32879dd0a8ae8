CONSTANTS
  t1 = t1
  t2 = t2
  c1 = c1
  c2 = c2
  Targets = {t1, t2}
  Components <- TwoComponents
  Watches <- Overlapping
  IncidentAt <- TwoAt
  Admin = Admin
  Nobody = Nobody
  MaxEvents = 4
  MaxFaults = 1
SPECIFICATION Spec
INVARIANTS TypeOK   ResolvedWhenAlone
PROPERTIES ImplementsBook
CHECK_DEADLOCK FALSE
