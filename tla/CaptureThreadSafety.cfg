SPECIFICATION FairSpec
CONSTANTS
  CounterMod = 3
  LossLimit = 2
  MaxFrames = 3
  MaxDrops = 5
  MaxRuns = 2
INVARIANTS
  TypeOK
  DropsCounted
  ThreadWithinRun
PROPERTIES
  StreamSpec
  QuitReturns
  StallReported
CHECK_DEADLOCK FALSE
