CONSTANTS
  Workers = {w1}
  Monitor = monitor
  Frames = {f1}
  Fds = {s1, s2}
  NoFd = NoFd
  NoFrame = NoFrame
  Free = Free
  LostLimit = 3
  RetryBucket = FALSE
  HasCache = TRUE
SPECIFICATION FairSpec
PROPERTY ReplayFollowsReconnect
CHECK_DEADLOCK FALSE
