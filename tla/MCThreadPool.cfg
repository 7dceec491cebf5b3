CONSTANTS
  up1 = up1
  down1 = down1
  down2 = down2
  t1 = t1
  t2 = t2
  t3 = t3
  Capacity = 1
  BatchMax = 1
  Frames <- MCFrames
  Alarms <- Commands
  NoFrame = NoFrame
  Submitters = {s1, s2}
  Poppers = {w1, w2}
  Cleaners = {}
  Pushers <- Threads
  UpCommands <- Ups
  DownCommands <- Downs
  MinWorkers = 1
  MaxWorkers = 2
  HighThreshold = 2
SPECIFICATION PoolFairSpec
INVARIANTS PoolTypeOK OverrunNeedsCommands PoolSize TasksAccounted LostToCommands
PROPERTIES SubmitCompletes TasksServed DestroyReturns
CHECK_DEADLOCK FALSE
