CONSTANTS
  Targets <- Apart
  Threads = {h1, h2}
  Layouts = {l1, l2}
  MaxStores = 2
  MaxFaults = 1
SPECIFICATION Spec
INVARIANTS TypeOK OneMapping WorksOnReady
PROPERTIES RefusalsExplained
CHECK_DEADLOCK FALSE
