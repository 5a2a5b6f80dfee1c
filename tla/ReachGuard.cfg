CONSTANTS
  PlanTimes = {1, 90}
  MoveTimes = {1, 40}
  HoldTime = 20
  RampTime = 60
  Late = 2
  MayFail = FALSE
  AutoReturn = TRUE
  MaxGoals = 4
  Margin = 20
  CaptureTimes = {12, 40}
SPECIFICATION SafetySpec
INVARIANT GuardMeansAtRest
