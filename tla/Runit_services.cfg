SPECIFICATION RunitFairSpec
CONSTANTS
  NoDir = NoDir
  Dirs = {web, db}
  Runsvs = {r1, r2, r3}
  Manual = {r3}
  Scenarios <- Scenes
  Commands = {"d"}
  MaxStarts = 2
INVARIANTS FilesTellTruth ChildIsAwaited
PROPERTIES ServicesStayUp
CHECK_DEADLOCK FALSE
