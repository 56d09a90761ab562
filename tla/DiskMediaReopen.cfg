SPECIFICATION HostSpec
CONSTANTS
  Focuses = {"disks"}
  Files <- MCFiles
  Whole <- MCFiles
  CommandLines <- NoneOrTwo
  Selections <- TwoDisks
  UserActions = {"swap","reset","open"}
  Failures = {}
  MaxWrites = 2
  NoAnswer = NoAnswer
  FmPacs = {"pac", "pac2"}
  Games = {}
  Users = {"careful"}
  Autoload = "pac"
  MaxSaves = 2
  ClockHz = 7
  SampleHz = 2
  FrameLength = 9
  LastInstruction = 3
  LowWater = 3
  QueueLimit = 7
  MaxElapsed = 90
  KeyNames = {"A"}
  FrameTarget = 2
  StepLengths = {1, 2}
  Scripts <- HandWritten
  Disks = 2
  Shifts = {0, 1}
  Budget = 2
  SessionActions = {"swap","reset","menu"}
  MaxSteps = 3
  MaxEvents = 2
  RingCapacity = 2
  SnapshotInterval = 2
  MaxRows = 2
  HeaderBytes = 54
  RowBytes = 59
  BusEvents <- SomeEvents
  Windows <- WatchedFrames
  MaxFrames = 1
  MaxRetired = 3
  MaxBusEvents = 2
  Defaults <- BuiltIn
  Valid <- Accepted
  Paths <- SomePaths
  EmptyPath = 0
  Absolute <- AbsolutePaths
  Relative <- RelativePaths
  DisplayWidth = 4
  DisplayScale = 2
  Assets <- SomeAssets
  HandEdits <- SomeDocuments
  Legacies <- OldDocuments
  Flags <- SomeFlags
  CutPoints = {0, 18}
  MaxStarts = 2
  MaxChanges = 1
PROPERTIES
  SavesPersist
