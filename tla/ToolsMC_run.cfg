\* One line of context for three; five keys; bytes of two bits, codes of up to four.
CONSTANTS
  Keyboards <- MCKeyboards
  Texts <- MCTexts
  MaxKeys = 5
  Pairs <- MCPairs
  ContextLines = 1
  Dashed = {"-- x"}
  Plussed = {"++ x"}
  W = 2
  MaxBits = 4
  Alphabet = {0, 1}
  MaxLength = 7
  MaxCommands = 3
  PrintFiles = {f1, f2, f3}
  MaxLpds = 3
  SortJobs <- MCSortJobs
  CommJobs <- MCCommJobs
  TsortJobs <- MCTsortJobs
  SplitJobs <- MCSplitJobs
  DdJobs <- MCDdJobs
  SedJobs <- MCSedJobs
  TrJobs <- MCTrJobs
  CutJobs <- MCCutJobs
  GrepJobs <- MCGrepJobs
  CatJobs <- MCCatJobs
  NlJobs <- MCNlJobs
  TacJobs <- MCTacJobs
  HeadJobs <- MCHeadJobs
  CmpJobs <- MCCmpJobs
  TabJobs <- MCTabJobs
  FoldJobs <- MCFoldJobs
  FmtJobs <- MCFmtJobs
  PasteJobs <- MCPasteJobs
  DumpJobs <- MCDumpJobs
  WrapJobs <- MCWrapJobs
  UuJobs <- MCUuJobs
  RowSize = 4
  ExprJobs <- MCExprJobs
  TestJobs <- MCTestJobs
  BcJobs <- MCBcJobs
  DcJobs <- MCDcJobs
  GetoptJobs <- MCGetoptJobs
  SeqJobs <- MCSeqJobs
  IpJobs <- MCIpJobs
  PrintfJobs <- MCPrintfJobs
  EdJobs <- MCEdJobs
  IntBits = 7
  Octets = 4
  Octet = 2
  FileTests = {}
SPECIFICATION ToolsSpec
CHECK_DEADLOCK FALSE
INVARIANTS
  CursorInside
  PatchesAreRight
  NothingLost
  JobsKept
  ResultsAreRight
PROPERTIES
  NothingIsLost
