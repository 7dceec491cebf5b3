CONSTANTS
  w1 = w1
  w2 = w2
  Workers <- TwoWorkers
  Q1Cap = 2
  Q2Cap = 2
  Batch = 2
  Supply = 2
  Burst = 2
  Rate = 1
  Cost = 1
  Absent = {"sim", "tcp"}
  MayFail = {"cleaner", "bucket", w1, w2}
SPECIFICATION CollectorFairSpec
INVARIANTS CollectorTypeOK OnlyStatsOutlive
PROPERTIES WorkersDrain ShutdownEnds
CHECK_DEADLOCK FALSE
