CONSTANTS
  Workers = {w1, w2}
  Monitor = monitor
  Frames = {f1, f2}
  Fds = {s1, s2}
  NoFd = NoFd
  NoFrame = NoFrame
  Free = Free
  LostLimit = 3
  RetryBucket = TRUE
  HasCache = TRUE
SPECIFICATION FairSpec
INVARIANTS TypeOK ConnectionsOwned FramesAccounted
PROPERTIES NoCloseUnderSender LossDetected
CHECK_DEADLOCK FALSE
