SPECIFICATION SceneSpec
CONSTANTS
  Tracks = 1
  SectorsPerTrack = 1
  SectorSize = 2
  ByteRange = 8
  IndexPeriod = 2
  IndexPulseWidth = 1
  MotorOffCycles = 2
  CyclesPerByte = 1
  FastCyclesPerByte = 1
  HeaderBytes = 0
  FastHeaderBytes = 1
  StepCycles <- MCStepCycles
  FastStepCycles = 1
  SettleCycles = 2
  FastSettleCycles = 1
  HldIdleCycles = 3
  RestorePulses = 3
  TrackLength = 6
  IdCrc <- MCIdCrc
  GapByte = 4
  A1Mark = 5
  IdMark = 6
  DataMarks <- MCDataMarks
  CrcMark = 7
  Commands <- TransferCommands
  DataValues = {1}
  TrackValues = {0}
  SectorValues = {}
  SideValues = {}
  DriveValues = {}
  Media <- MCOneMedium
  Protection = {TRUE,FALSE}
  FastDiskConfig = FALSE
  UserActions = {"insert","fast","eject","reset"}
  MaxTime = 9
  LastAccess = 2
INVARIANT ChipConsistent
PROPERTY CommandsComeToEnd
