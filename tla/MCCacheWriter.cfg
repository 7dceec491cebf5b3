CONSTANTS
  Frames = {f1, f2, f3, f4}
  RetryBucket = TRUE
  DefaultPath = TRUE
  MaxFaults = 2
SPECIFICATION FairSpec
INVARIANTS TypeOK SkippedWereSent NoRepeatWithoutFault
PROPERTY ReplayEnds
CHECK_DEADLOCK FALSE
