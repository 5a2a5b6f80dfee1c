SPECIFICATION Spec
CONSTANTS
  MaxPose = 4
  Steps = 8
  HomeSteps = 4
  MaxAttempts = 4
  MaxLate = 2
  HoldSteps = 2
  ReadyTicks = 12
  FadeTicks = 2
  MaxHand = 3
  MaxRuns = 3
  ContactConsec = 2
INVARIANTS
  HandedBack
  LockKeepsPose
  RunsJoin
  GripIsHeld
\* The programs end.
CHECK_DEADLOCK FALSE
