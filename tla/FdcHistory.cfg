SPECIFICATION HSpec
CONSTANTS
  Tracks = 1
  SectorsPerTrack = 2
  SectorSize = 2
  ByteRange = 8
  IndexPeriod = 2
  IndexPulseWidth = 1
  MotorOffCycles = 2
  CyclesPerByte = 1
  FastCyclesPerByte = 1
  HeaderBytes = 0
  FastHeaderBytes = 1
  StepCycles <- MCStepCycles
  FastStepCycles = 1
  SettleCycles = 2
  FastSettleCycles = 1
  HldIdleCycles = 3
  RestorePulses = 3
  TrackLength = 12
  IdCrc <- MCIdCrc
  GapByte = 4
  A1Mark = 5
  IdMark = 6
  DataMarks <- MCDataMarks
  CrcMark = 7
  Commands <- SectorCommands
  DataValues = {1,2}
  TrackValues = {0}
  SectorValues = {}
  SideValues = {1}
  DriveValues <- MCDriveNone
  Media <- MCNumberedMedium
  Protection = {FALSE}
  FastDiskConfig = FALSE
  UserActions = {"insert"}
  MaxTime = 4
  LastAccess = 4
INVARIANTS
  WrittenAsSent
  ReadAsStored
  ChangeNeverMissed
PROPERTIES
  WritesWholeSectors
