CONSTANTS
  s1 = s1
  s2 = s2
  Frames <- MCFrames
  MaxFrames = 6
  AllocFails = 1
  Window = 2
  StashSize = 2
  MaxGap = 2
  SecModulus = 16
  MaxValue = 50
  Int16Max = 31
SPECIFICATION Spec
INVARIANTS TypeOK EachFrameOnce Reconciled OnlyStashGoesBack WindowIsRecent
CHECK_DEADLOCK FALSE
