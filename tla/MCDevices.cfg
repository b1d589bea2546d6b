SPECIFICATION FairSpec
CONSTANTS
  FrameSize = 2
  PipeSize = 3
  FirstTimeout = 7
  FrameTimeout = 5
  TermTries = 3
  ReapTries = 2
  Buffers = {"b0", "b1", "b2"}
  FatalErrors = 3
  MaxRefused = 2
  MaxGlitches = 3
  Inputs = {"i0", "i1"}
  Captures = 3
  MaxErrors = 3
  HaveForceKey = TRUE
  MaxFaults = 2
  MaxSlow = 2
  DeviceBuffers = 3
  StreamonAttempts = 3
  Bitrates = {1, 500}
  Buffers264 <- MCBuffers264
  ParamMax = 7
  Period = 4
  MaxLate = 11
  Word = 65536
  Frames <- MCFrames
CHECK_DEADLOCK FALSE
INVARIANTS HandlesAreExact ClosesCleanly KeyframeRemembered IdrIsSelfContained
INVARIANT PatternIsSteady
PROPERTIES StopGetsThrough GoneIsNoticed
