SPECIFICATION FairSpec
CONSTANTS
  QueueSize = 2
  SkipFrames = 0
  MaxFrames = 3
  MaxCalls = 0
PROPERTY LossIsNotified
CHECK_DEADLOCK FALSE
