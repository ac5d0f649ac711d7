CONSTANTS
  WithAudio = TRUE
  Resume = TRUE
  MaxChanges = 15
  MaxRuns = 2
  MaxFailures = 2
SPECIFICATION FairSpec
CHECK_DEADLOCK FALSE
INVARIANTS
  TypeOK
  InputInPlace
  StreamsFollowStates
PROPERTY
  QuitKeptByLockOnly
