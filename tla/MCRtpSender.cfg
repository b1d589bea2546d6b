SPECIFICATION Spec
CONSTANTS
  Budget = 4
  CacheSize = 4
  SeqSpace = 8
  Ours = 1
  MaxNacks = 4
  MaskBits = 3
  ClockSpace = 16
  UnitsPerSecond = 4
  MsPerSecond = 3
  Tolerance = 2
  UsPerSecond = 6
  FracSpace = 16
  SecSpace = 8
  Epoch = 5
  TickNum = 2
  TickDen = 3
  TickSpace = 9
  FrameGap = 7
  Delays = {3, 5}
  WallOffset = 3
  CountSpace = 3
  Units <- MCUnits
  Arrivals <- MCArrivals
  MaxUnits = 3
  MaxFailures = 1
CHECK_DEADLOCK FALSE
INVARIANTS ReassemblesExactly AnswersWhatWasAsked ReportsAreTrue
