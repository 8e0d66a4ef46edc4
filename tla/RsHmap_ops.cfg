SPECIFICATION Spec
CONSTANTS
  k1 = k1
  k2 = k2
  k3 = k3
  k4 = k4
  zero = zero
  va = va
  vb = vb
  Keys = {k1, k2, k3, k4}
  ZeroKey = zero
  Vals = {va, vb}
  Sources <- TwoPairs
  Hashes = {0, 1154}
  MinSize = 2
  MaxSize = 7
  LOW_WATER_MARK = 58
  IDEAL_WATER_MARK = 59
  HIGH_WATER_MARK = 60
  MAX_GROWTH_STEP = 1048576
SYMMETRY KeySymmetry

INVARIANTS ChkPasses RobinHood GetAgrees
PROPERTIES ImplementsMap
