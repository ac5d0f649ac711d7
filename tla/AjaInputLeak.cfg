CONSTANTS
  WithAudio = FALSE
  Resume = FALSE
  MaxChanges = 6
  MaxRuns = 2
  MaxFailures = 0
SPECIFICATION Spec
CHECK_DEADLOCK FALSE
INVARIANT
  StoppedThenDestroyed
