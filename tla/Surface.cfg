CONSTANTS
  TextLength = 4
  AgentRoom = 2
  KindRoom = 1
  FieldRoom = 1
  MaxEventTokens = 2
  MaxInt = 4
  Width = 4
  Block = 2
  HistoryLen = 4
  DurationBits = 6
  RateWindow = 4
  MaxFlags = 3
  MaxEnv = 2
  NameLength = 5
SPECIFICATION SurfaceSpec
INVARIANTS WireSound ChartsFaithful DrawnAsMeasured FramesFit NothingIgnored MeantForIt
CHECK_DEADLOCK FALSE
