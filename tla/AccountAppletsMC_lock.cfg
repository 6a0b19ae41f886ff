CONSTANTS
  Procs = {p1, p2}
  Names = {a, b}
  a = a
  b = b
  h1 = h1
  h2 = h2
  sh = sh
  bash = bash
  p1 = p1
  p2 = p2
  Hashes = {h1, h2}
  NoHash = NoHash
  Shells = {sh, bash}
  DefaultShell = sh
  NoGroup = NoGroup
  NoJob = NoJob
  Nobody = Nobody
  FirstId = 1
  LastId = 2
  Jobs <- PasswdJobs
  AbortChoices = {TRUE}
  MayMissLock = FALSE
  MaxJobs = 3
SPECIFICATION PasswdSpec
CHECK_DEADLOCK FALSE
PROPERTY ShadowIsStore
PROPERTY LockNeverLeaks
