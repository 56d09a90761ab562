SPECIFICATION HostSpec
CONSTANTS
  Focuses = {"disks", "battery", "pacing", "input", "capture", "settings"}
  Files <- MCFiles
  Whole <- OneWhole
  CommandLines <- NoneOrTwo
  Selections <- DiskOrOddFile
  UserActions = {"swap","toggle","eject","reset","power","exit"}
  Failures = {"refused","torn"}
  MaxWrites = 1
  NoAnswer = NoAnswer
  FmPacs = {"pac", "pac2"}
  Games = {"game"}
  Users = {"one", "careful"}
  Autoload = "pac"
  MaxSaves = 2
  ClockHz = 7
  SampleHz = 2
  FrameLength = 9
  LastInstruction = 3
  LowWater = 3
  QueueLimit = 7
  MaxElapsed = 90
  KeyNames = {"A"}
  FrameTarget = 2
  StepLengths = {1, 2}
  Scripts <- HandWritten
  Disks = 2
  Shifts = {0, 1}
  Budget = 2
  SessionActions = {"swap","reset","menu"}
  MaxSteps = 3
  MaxEvents = 2
  RingCapacity = 2
  SnapshotInterval = 2
  MaxRows = 2
  HeaderBytes = 54
  RowBytes = 59
  BusEvents <- SomeEvents
  Windows <- WatchedFrames
  MaxFrames = 1
  MaxRetired = 3
  MaxBusEvents = 2
  Defaults <- BuiltIn
  Valid <- Accepted
  Paths <- SomePaths
  EmptyPath = 0
  Absolute <- AbsolutePaths
  Relative <- RelativePaths
  DisplayWidth = 4
  DisplayScale = 2
  Assets <- SomeAssets
  HandEdits <- SomeDocuments
  Legacies <- OldDocuments
  Flags <- SomeFlags
  CutPoints = {0, 18}
  MaxStarts = 2
  MaxChanges = 1
INVARIANTS
  DisksKept
  DialogStands
  CarefulSavesSurvive
  PacerFollowsClock
  ReplayExact
  CaptureComplete
  SettingsKept
PROPERTIES
  TakenOutIsSaved
  MailboxFreed
  SaveStaysWhole
  EndsWithTail
