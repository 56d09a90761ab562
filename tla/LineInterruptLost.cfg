SPECIFICATION MachineSpec
CONSTANTS
  Focuses = {"interrupts"}
  CyclesPerLine = 2
  LinesPerFrame = 6
  Border212 = 2
  Border192 = 3
  StepCycles = {1, 2}
  PausedCycles = 1
  Ops = {"Other"}
  RegWrites <- LineWrites
  PeriodFrames = 3
  InitialLevel = 0
  UserActions = {}
  Z80Programs <- MCPrograms
  PortInput = 165
  AddressWait = 3
  DataWait = 8
  NativeCycles = 6
  RamSegments = 4
  SramOffsets = {0}
  Scenes <- MCScenes
  TicksPerSecond = 2
  MaxUnread = 10195200
  PortScenes <- MCPortScenes
  MaxPrinted = 3
  GeneratorCycles = 3
  ClockHz = 7
  SampleHz = 2
  ClickUnit = 16
  DcShift = 4
  DcTau = 2
  MaxEdges = 3
  InstructionCycles = {2, 5}
  SoundEnd = 8
  Guests <- MCGuests
  Screens <- MCScreens
PROPERTIES
  FiresAtFirstBoundary
