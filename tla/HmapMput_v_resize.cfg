\* what test4b.c checks of hmap_mput, of a map that may grow
SPECIFICATION Spec
CONSTANTS
  k1 = k1
  k2 = k2
  k3 = k3
  Keys = {k1, k2, k3}
  Inputs <- SomeTriples
  Hashes = {2, 3}
  MinSize = 2
  MaxSize = 0
  LOW_WATER_MARK = 20
  HIGH_WATER_MARK = 50
  MAX_GROWTH_STEP = 1048576
  NumAtOnce = 2
  NumProcs = 2
  TeamSize = 2
  MaxCalls = 2
INVARIANTS AggregatesExact
CHECK_DEADLOCK FALSE
