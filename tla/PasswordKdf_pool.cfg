SPECIFICATION KdfFairSpec
CONSTANTS
  Calls = {c1, c2, c3, c4, c5}
  MAX_CONCURRENCY = 4
  NoCaller = nobody
INVARIANTS NeverWider DrainedForGood
PROPERTY ShutdownEnds
CHECK_DEADLOCK FALSE
