CONSTANTS
  Blocks = {b1, b2, b3}
  Threads = {t1}
  NumPrealloc = 1
  KeepFree = 1
  MaxSubs = 2
SPECIFICATION FairPoolSpec
CHECK_DEADLOCK FALSE
INVARIANTS
  PoolTypeOK
  BlocksHaveOnePlace
  CountIsExact
  CaptureWritesAlone
  CloseFreesAll
PROPERTIES
  CleanReturns
  LastFreesAll
