SPECIFICATION Spec
CONSTANTS
  MaxPresses = 2
  MaxSignals = 2
  DryRun = FALSE
INVARIANTS
  OneSequence
  OrderlySequence
  OwnPlan
  AbandonedOnlyInSequence
PROPERTIES
  BusyIsReleased
  ShutdownEnds
CHECK_DEADLOCK FALSE
