CONSTANTS
  w1 = w1
  w2 = w2
  Workers <- OneWorker
  Q1Cap = 2
  Q2Cap = 2
  Batch = 2
  Supply = 2
  Burst = 2
  Rate = 1
  Cost = 3
  Absent = {"tcp"}
  MayFail = {}
SPECIFICATION CollectorFairSpec
PROPERTY ShutdownEnds
CHECK_DEADLOCK FALSE
