CONSTANTS
  Frames = {f1, f2, f3}
  RetryBucket = FALSE
  DefaultPath = TRUE
  MaxFaults = 0
SPECIFICATION Spec
INVARIANT NothingLost
CHECK_DEADLOCK FALSE
