CONSTANTS
  WithAudio = TRUE
  Resume = FALSE
  MaxChanges = 9
  MaxRuns = 1
  MaxFailures = 0
SPECIFICATION FairSpec
CHECK_DEADLOCK FALSE
PROPERTY
  QuitReturns
