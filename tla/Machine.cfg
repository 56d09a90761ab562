SPECIFICATION MachineSpec
CONSTANTS
  Focuses = {"interrupts", "cpu", "memory", "ports", "sound", "screen"}
  CyclesPerLine = 2
  LinesPerFrame = 6
  Border212 = 2
  Border192 = 3
  StepCycles = {1, 2}
  PausedCycles = 1
  Ops <- AllOps
  RegWrites <- InterruptWrites
  PeriodFrames = 3
  InitialLevel = 0
  UserActions = {"pause", "speed", "reset"}
  Z80Programs <- MCPrograms
  PortInput = 165
  AddressWait = 3
  DataWait = 8
  NativeCycles = 6
  RamSegments = 4
  SramOffsets = {0}
  Scenes <- MCScenes
  TicksPerSecond = 2
  MaxUnread = 10195200
  PortScenes <- MCPortScenes
  MaxPrinted = 3
  GeneratorCycles = 3
  ClockHz = 7
  SampleHz = 2
  ClickUnit = 16
  DcShift = 4
  DcTau = 2
  MaxEdges = 3
  InstructionCycles = {2, 5}
  SoundEnd = 9
  Guests <- MCGuests
  Screens <- MCScreens
INVARIANTS
  InterruptLineExact
  OpcodesExact
  InterruptsExact
  ClockExact
  PortsExact
  SoundExact
  PictureExact
  StatusExact
PROPERTIES
  LineInterruptExact
  HaltWakes
  MapExact
  StreamsExact
  CollisionsAhead
CHECK_DEADLOCK FALSE
