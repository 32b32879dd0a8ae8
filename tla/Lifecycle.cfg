CONSTANTS
  Configs = {c1, c2}
  Targets = {t1, t2}
  MaxEdits = 2
  MaxFaults = 1
SPECIFICATION LifecycleSpec
INVARIANTS LifecycleTypeOK OneGeneration
PROPERTIES  StopsWhenTold FollowsSource
CHECK_DEADLOCK FALSE
