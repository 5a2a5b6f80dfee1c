CONSTANTS
  PlanTimes = {1, 90}
  MoveTimes = {1, 40}
  HoldTime = 20
  RampTime = 60
  Late = 2
  MayFail = TRUE
  AutoReturn = FALSE
  MaxGoals = 4
  Margin = 20
  CaptureTimes = {12, 40}
SPECIFICATION Spec
INVARIANTS GoalsNeverQueue GuardMeansAtRest
PROPERTIES StartIsCurrent GuardReopens
