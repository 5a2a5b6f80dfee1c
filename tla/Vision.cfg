SPECIFICATION Spec
CONSTANTS
  Paths = {"video0"}
  Places = {0, 1, 3}
  Tolerance = 1
  StableCount = 3
  StableWait = 4
  SampleCount = 2
  CaptureWait = 2
  StaleAfter = 1
  WarmupFrames = 2
  MaxFrames = 3
  DetectEvery = 2
  WindowSize = 2
  StaleThreshold = 2
  LongestMotion = 2
  QueueDepth = 2
  MaxTime = 6
  MaxImages = 3
CHECK_DEADLOCK FALSE
INVARIANTS
  StoodStill
  EachFrameOnce
  GoalIsFresh
PROPERTIES
  TriggerEnds
  LatestFrameIsSeen
