CONSTANTS
  WindowSize = 2
  MaxSkip = 3
  MaxDiff = 2
  Far = 4
  SkipFrames = 1
  MaxOffset = 2
  MaxRate = 1
  MaxJumps = 3
SPECIFICATION Spec
CHECK_DEADLOCK FALSE
INVARIANTS
  TypeOK
  AudioMatchesVideo
  FreshMapping
PROPERTIES
  Locks
