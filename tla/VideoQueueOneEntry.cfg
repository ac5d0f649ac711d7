SPECIFICATION Spec
CONSTANTS
  QueueSize = 1
  SkipFrames = 0
  MaxFrames = 2
  MaxCalls = 0
INVARIANT
  SignalTracked
CHECK_DEADLOCK FALSE
