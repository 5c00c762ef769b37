SPECIFICATION EitherFairSpec
CONSTANTS
  r1 = r1
  r2 = r2
  Jobs = {j1}
  Writers = {w1}
  Runners = {r1, r2}
  NoRunner = NoRunner
  Fleets <- OneFailsOrTwoDoNot
  DueTimes = {0, 2}
  BucketLen = 2
  RetryDelay = 1
  MaxMoves = 1
  MaxTime = 2
CHECK_DEADLOCK FALSE
PROPERTY NoJobLost
