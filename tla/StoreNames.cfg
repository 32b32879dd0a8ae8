CONSTANTS
  Targets <- Domains
  Threads = {h1, h2}
  Layouts = {l1}
  MaxStores = 1
  MaxFaults = 0
SPECIFICATION Spec
INVARIANTS MappingsGuarded
CHECK_DEADLOCK FALSE
