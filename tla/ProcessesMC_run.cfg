\* Two start-stop-daemons and two flocks; two CPUs.
CONSTANTS
  XargsInputs <- MCXargsInputs
  NumCPU = 2
  TimeoutInputs <- MCTimeoutInputs
  Flockers = {p1, p2, p3}
  FlockOptions <- MCFlockOptions
  Admins = {a1, a2}
  MaxDaemons = 3
  MaxStops = 2
  Scripts <- MCScripts
  Chunks = 2
  Capacity = 1
  Sessions <- MCSessions
  Buffer = 1
  Launches <- MCLaunches
  Callers <- MCCallers
  PasswdLines <- MCPasswdLines
  GroupLines <- MCGroupLines
  Online = {0, 1, 2, 3, 4, 5}
  Registry <- MCRegistry
  Letters <- MCLetters
  Calls <- MCCalls
  Directories <- MCDirectories
  Intruders <- MCIntruders
  Wrap = 7
  MaxSuggested = 1
  MaxCalls = 2
  MaxTampered = 1
SPECIFICATION ProcessesSpec
CHECK_DEADLOCK FALSE
INVARIANTS
  XargsRunsAll
  LimitIsReported
  ProgramsAreRight
  ParsesGrammar
  RelaysDeliver
PROPERTIES
  CommandsAreGuarded
  EveryoneEnds
