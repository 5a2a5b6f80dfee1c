SPECIFICATION Spec
CONSTANTS
  RampSteps = 2
  SubSteps = 2
  Depth = 1
  AutoReturn = FALSE
  Messages <- OddMessages
  BodyPoses = {0}
  LimitLo = 0
  LimitHi = 4
  NoPose = NoPose
INVARIANTS
  NoCallbackFindsBusy
  HandoverIsContinuous
  ReleasedAtExit
PROPERTIES
  HoldsUntilAsked
  ImplementsArmControl
  ShutdownCompletes
  ReturnIsServed
CHECK_DEADLOCK FALSE
