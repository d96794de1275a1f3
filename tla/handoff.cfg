CONSTANTS
  Rounds = 5
  Number <- Numbers
SPECIFICATION SemFairSpec
INVARIANT NothingLost
PROPERTY BothFinish
CHECK_DEADLOCK FALSE
