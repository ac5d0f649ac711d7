SPECIFICATION Spec
CONSTANTS
  QueueSize = 2
  Rate = 2
  Second = 5
  Frame = 5
  Offsets = {0, 8}
  Counts = {2}
  Threshold = 5
  DiscontWait = 6
  TimeMod = 1000
  SkipPackets = 1
  MaxPackets = 6
  MaxFlushes = 1
  MaxRestarts = 1
INVARIANTS
  TypeOK
  BuffersAccounted
  DriftBounded
  GapAnnounced
PROPERTIES
  Contiguous
  FifoSpec
CHECK_DEADLOCK FALSE
