CONSTANTS
  Workers = {w1, w2}
  Monitor = monitor
  StatsThread = stats
  Ticker = ticker
  CleanerThread = cleaner
  Free = Free
  Throttled = FALSE
  RetryBucket = TRUE
SPECIFICATION Spec
INVARIANT NoCircle
