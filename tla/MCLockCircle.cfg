CONSTANTS
  Workers = {w1}
  Monitor = monitor
  StatsThread = stats
  Ticker = ticker
  CleanerThread = cleaner
  Free = Free
  Throttled = TRUE
  RetryBucket = FALSE
SPECIFICATION FairSpec
PROPERTY StatsGoOn
CHECK_DEADLOCK FALSE
