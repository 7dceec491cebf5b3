CONSTANTS
  a1 = a1
  a2 = a2
  a3 = a3
  n1 = n1
  n2 = n2
  n3 = n3
  Capacity = 2
  BatchMax = 1
  Frames <- MCFrames
  Alarms <- MCAlarms
  NoFrame = NoFrame
  Poppers = {c1, w1, w2}
  Cleaners = {c1}
SPECIFICATION FairSpec
INVARIANTS TypeOK RingInv Conservation NoLostWakeup
PROPERTIES ImplementsFrameQueue AlarmsDelivered ConsumersLeave
CHECK_DEADLOCK FALSE
