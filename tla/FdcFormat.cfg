SPECIFICATION HSpec
CONSTANTS
  Tracks = 1
  SectorsPerTrack = 1
  SectorSize = 1
  ByteRange = 8
  IndexPeriod = 2
  IndexPulseWidth = 1
  MotorOffCycles = 2
  CyclesPerByte = 1
  FastCyclesPerByte = 1
  HeaderBytes = 1
  FastHeaderBytes = 1
  StepCycles <- MCStepCycles
  FastStepCycles = 1
  SettleCycles = 2
  FastSettleCycles = 1
  HldIdleCycles = 3
  RestorePulses = 3
  TrackLength = 10
  IdCrc <- MCIdCrc
  GapByte = 4
  A1Mark = 5
  IdMark = 6
  DataMarks <- MCDataMarks
  CrcMark = 7
  Commands <- FormatCommands
  DataValues = {1,3,5,6,7}
  TrackValues = {}
  SectorValues = {}
  SideValues = {1}
  DriveValues = {}
  Media <- MCOneMedium
  Protection = {FALSE}
  FastDiskConfig = FALSE
  UserActions = {}
  MaxTime = 0
  LastAccess = 0
PROPERTY WritesWholeSectors
