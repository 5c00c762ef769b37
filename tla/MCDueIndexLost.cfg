SPECIFICATION SettledSpec
CONSTANTS
  r1 = r1
  r2 = r2
  Jobs = {j1}
  Writers = {w1, w2}
  Runners = {r1, r2}
  NoRunner = NoRunner
  Fleets <- TwoThatFail
  DueTimes = {0}
  BucketLen = 1
  RetryDelay = 5
  MaxMoves = 2
  MaxTime = 1
CHECK_DEADLOCK FALSE
INVARIANT JobReachable
SYMMETRY Symmetry
