SPECIFICATION Spec
CONSTANTS
  NonceKey = {k1, k2}
  Skew = 2
  Drift = 1
  MaxTime = 7
SYMMETRY KeySymmetry
INVARIANTS
  NoReplay
  QueueMatchesTable
PROPERTIES
  HistoryBounded
CHECK_DEADLOCK FALSE
