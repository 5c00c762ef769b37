SPECIFICATION Spec
CONSTANTS
  Runners = {r1, r2}
  NoRunner = NoRunner
  N = 2
  Uncomposable = {2}
  Lease = 2
  Delay = 0
  MaxRetries = 0
  MaxRun = 1
  MaxClaims = 2
INVARIANT StoppedUnsent
CHECK_DEADLOCK FALSE
