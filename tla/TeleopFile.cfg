SPECIFICATION Spec
CONSTANTS
  MaxEpisodes = 2
  MaxItems = 2
  MaxSessions = 2
  MaxRequests = 2
  HbTimeout = 2
  HbNeeded = 2
  MaxImages = 2
  QueueSize = 1
  Cameras = {"head", "wrist"}
  MaxSamples = 3
  MaxCycles = 4
CHECK_DEADLOCK FALSE
INVARIANT FileClosedOnce
