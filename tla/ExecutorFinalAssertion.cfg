SPECIFICATION SafetySpec
CONSTANTS
  RampSteps = 2
  SubSteps = 2
  Depth = 1
  AutoReturn = FALSE
  Messages <- ReachMessages
  BodyPoses = {0}
  LimitLo = 0
  LimitHi = 4
  NoPose = NoPose
INVARIANTS
  FinalAssertionIsRedundant
CHECK_DEADLOCK FALSE
