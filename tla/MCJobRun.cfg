SPECIFICATION Spec
CONSTANTS
  Runners = {r1, r2}
  NoRunner = NoRunner
  N = 2
  Uncomposable = {}
  Lease = 2
  Delay = 0
  MaxRetries = 0
  MaxRun = 1
  MaxClaims = 2
SYMMETRY RunnerSymmetry
INVARIANTS AtMostOnce SummaryTruth
PROPERTY TakeoverOnlyExpired
CHECK_DEADLOCK FALSE
