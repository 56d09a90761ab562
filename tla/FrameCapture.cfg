SPECIFICATION DrawingSpec
CONSTANTS
  Focuses = {"rows"}
  MaxRows = 4
  ScreenModes = {"G4", "G7"}
  Traits <- MCTraits
  ByteBits = 2
  VramSize = 8
  CoordRange = 8
  AccessTime = 2
  Ticks <- MCTicks
  LineTicks <- MCLineTicks
  LineMinorTicks = 1
  Ratio = 4
  Regimes = {1, 2}
  SlotsOff = 2
  LineCycles = 4
  Blocks <- MCBlocks
  Commands <- MCCommands
  Colours44 = {1, 2}
  Writes <- MCWrites
  Pictures <- MCPictures
  MaxAccesses = 4
  MaxUnits = 4
  MaxBusy = 12
  CyclesPerLine = 1
  LinesPerFrame = 5
  Border212 = 1
  Border192 = 3
  Displays = {boot, p1}
  PowerOn = boot
  NoSprites = NoSprites
  NoRow = NoRow
  DestRows <- RowsOfCommands
  MaxCommandRows = 2
INVARIANT CaptureKeepsAccumulation
