CONSTANTS
  PlanTimes = {1, 90}
  MoveTimes = {1, 40}
  HoldTime = 20
  RampTime = 60
  Late = 2
  MayFail = TRUE
  AutoReturn = FALSE
  MaxGoals = 7
  WaitTimeout = 100
  Buffer = 16
  RampWait = 70
  HandTimes = {20, 80}
  Gap = 7
SPECIFICATION Spec
INVARIANTS PressesAtRest
PROPERTIES StartIsCurrent CompleteMeansStanding
