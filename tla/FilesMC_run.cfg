\* Two block numbers stand for 256; three invocations of add-shell or remove-shell.
CONSTANTS
  Letters <- MCLetters
  Mounted <- MCMounted
  Trees <- MCTrees
  FileJobs <- MCFileJobs
  File <- MCFile
  MaxNum = 1
  MaxRepeats = 1
  FtpFile <- MCFile
  Clients <- MCClients
  CanServe = {TRUE, FALSE}
  Calendar <- MCCalendar
  Tables <- MCTables
  TicksPerMinute = 2
  MaxTick = 7
  LogLines <- MCLogLines
  MaxSize = 4
  MaxLine = 3
  Ahead = 2
  ShellProcs = {s1, s2, s3}
  ShellJobs <- MCShellJobs
  ListedFirst <- MCListed
  MaxMail = 2
  MaxPops = 2
  TarJobs <- MCTarJobs
  UnpackJobs <- MCUnpackJobs
  ControlJobs <- MCControlJobs
  CpioJobs <- MCCpioJobs
  ArJobs <- MCArJobs
  LzopJobs <- MCLzopJobs
  RpmJobs <- MCRpmJobs
  MimeJobs <- MCMimeJobs
  Order <- MCOrder
  NameField = 3
  MimeLine = 4
  ChmodJobs <- MCChmodJobs
  OwnerJobs <- MCOwnerJobs
  LnJobs <- MCLnJobs
  InstallJobs <- MCInstallJobs
  LinkCpJobs <- MCLinkCpJobs
  TouchJobs <- MCTouchJobs
  SizeJobs <- MCSizeJobs
  ShredJobs <- MCShredJobs
  DirJobs <- MCDirJobs
  TempJobs <- MCTempJobs
  DeviceJobs <- MCDeviceJobs
  TeeJobs <- MCTeeJobs
  Now = 3
  MaxLinks = 4
  SizeBits = 8
  LsJobs <- MCLsJobs
  DuJobs <- MCDuJobs
  FindJobs <- MCFindJobs
  TreeJobs <- MCTreeJobs
  PathJobs <- MCPathJobs
  WhichJobs <- MCWhichJobs
  MountJobs <- MCMountJobs
  StatJobs <- MCStatJobs
  DfJobs <- MCDfJobs
  SddfJobs <- MCSddfJobs
  VersionJobs <- MCVersions
  HiddenNames <- MCHidden
  CharsOf <- MCCharsOf
  ExtensionOf <- MCExtensionOf
  DirSize = 6
  Block = 4
  WordBits = 16
SPECIFICATION FilesSpec
CHECK_DEADLOCK FALSE
INVARIANTS
  NoDataLost
  CrondIsPunctual
  LogKept
  ShellsKept
  MailKept
  FilesAreRight
PROPERTIES
  
  FtpServes
