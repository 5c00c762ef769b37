SPECIFICATION FairSpec
CONSTANTS
  Runners = {r1, r2}
  NoRunner = NoRunner
  N = 1
  Uncomposable = {}
  Lease = 2
  Delay = 1
  MaxRetries = 1
  MaxRun = 2
  MaxClaims = 2
INVARIANTS TypeOK MarkerTruth UnsentUnlessTakenOver
PROPERTIES SettledIsFinal JobGoesOn
CHECK_DEADLOCK FALSE
