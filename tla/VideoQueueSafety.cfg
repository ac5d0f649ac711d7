SPECIFICATION FairSpec
CONSTANTS
  QueueSize = 2
  SkipFrames = 1
  MaxFrames = 4
  MaxCalls = 1
INVARIANTS
  TypeOK
  BufferHasOneOwner
  NoMissedWakeup
  SignalTracked
  GapAnnounced
PROPERTIES
  FifoSpec
  FramesLeave
  UnlockUnblocks
CHECK_DEADLOCK FALSE
