SPECIFICATION FairSpec
CONSTANTS
  Lines = 1
  Retry = TRUE
  WatchPid = FALSE
  Modes <- Rotation
  MaxRecords = 3
  MaxFiles = 2
PROPERTIES EveryRecord
CHECK_DEADLOCK FALSE
