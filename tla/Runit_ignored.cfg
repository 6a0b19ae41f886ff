SPECIFICATION RunitFairSpec
CONSTANTS
  NoDir = NoDir
  Dirs = {web}
  Runsvs = {r1}
  Manual = {}
  Scenarios <- Faultless
  Commands = {"u", "d"}
  MaxStarts = 1
PROPERTIES DownStops
CHECK_DEADLOCK FALSE
