\* Files of at most as many chunks as there are block numbers; a pool of two for two clients.
CONSTANTS
  BlockNumbers = 3
  Contents <- ThreeContents
  TftpScenarios = {{}, {"lose", "duplicate", "reorder", "deadline", "refuse"}}
  MaxCopies = 2
  c1 = c1
  c2 = c2
  Clients = {c1, c2}
  Addresses = 8
  Start = 2
  End = 3
  Scenarios <- ThreeScenes
  MaxDiscovers = 4
  MaxDups = 1
SPECIFICATION DatagramsSpec
CHECK_DEADLOCK FALSE
INVARIANTS
  Intact
  LeasesAreSound
PROPERTIES
  Completes
  AllServed
