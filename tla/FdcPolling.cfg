SPECIFICATION PSpec
CONSTANTS
  Tracks = 1
  SectorsPerTrack = 1
  SectorSize = 3
  ByteRange = 8
  IndexPeriod = 2
  IndexPulseWidth = 1
  MotorOffCycles = 2
  CyclesPerByte = 1
  FastCyclesPerByte = 1
  HeaderBytes = 0
  FastHeaderBytes = 1
  StepCycles <- MCStepCycles
  FastStepCycles = 1
  SettleCycles = 2
  FastSettleCycles = 1
  HldIdleCycles = 3
  RestorePulses = 3
  TrackLength = 14
  IdCrc <- MCIdCrc
  GapByte = 4
  A1Mark = 5
  IdMark = 6
  DataMarks <- MCDataMarks
  CrcMark = 7
  Commands <- SingleCommands
  DataValues = {1}
  TrackValues = {0}
  SectorValues = {2}
  SideValues = {1}
  DriveValues <- MCDriveNone
  Media <- MCOneMedium
  Protection = {FALSE}
  FastDiskConfig = FALSE
  UserActions = {}
  MaxTime = 6
  LastAccess = 2
INVARIANT PollingInvisible
