SPECIFICATION Spec
CONSTANTS
  Retractions = 2
  Distances = {3, 5}
  TooClose = 2
  RandomTries = 1
  Budget = 4
  GoalWait = 1
  LinkWait = 1
  IkTime = 1
  SolveTime = 1
  Chain <- ArmChain
  SkipPairs <- ConfiguredPairs
  Body = {"leg"}
  Postures <- SomePostures
  Joints = {"pitch", "roll"}
  Lower = 0
  Upper = 1
  Slow <- JointSpeeds
  Angles <- WithinLimits
  MinStep = 3
  Grain = 2
  MaxPoints = 3
INVARIANT EndsClearOfBody
CHECK_DEADLOCK FALSE
