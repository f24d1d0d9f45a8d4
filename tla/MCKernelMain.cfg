SPECIFICATION Spec
CONSTANTS
  Machines <- AllMachines
  Madts <- Tables
  MAX_CPUS = 3
  CALIBRATE_MS = 2
  TicksPerMs = 4
  MaxDev = 2
  MaxFunc = 2
  MaxDepth = 3
  WordMod = 32
  FsPerUs = 4
  Periods <- SomePeriods
  MaxGap = 2
  MaxElapsed = 32
  Sleeps <- SomeSleeps
  MacValues = {m1, m2}
  ZeroMac = zero
  FeatureBytes = features
  Device = {d1, d2, d3}
  Names = {n1, n2, n3}
  MAX_DEVICES = 2
  NULL = NULL
  Screens <- SomeScreens
  GlyphWidth = 2
  GlyphHeight = 2
  FirstCode = 2
  LastCode = 6
  CoordMod = 32
  Codes = {1, 3}
  Rects <- SomeRects
  Scrolls = {1}
INVARIANTS
  AllCoresActive
  QuietStartIsSound
  ScanExact
  SleepsLongEnough
  RegistryExact
  TextShown
PROPERTIES
  
  SleepEnds
CHECK_DEADLOCK FALSE
