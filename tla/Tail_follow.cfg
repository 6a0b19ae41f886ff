SPECIFICATION FairSpec
CONSTANTS
  Lines = 1
  Retry = TRUE
  WatchPid = TRUE
  Modes <- BothModes
  MaxRecords = 4
  MaxFiles = 3
INVARIANTS InOrder NothingSkipped
PROPERTIES CaughtUp
CHECK_DEADLOCK FALSE
