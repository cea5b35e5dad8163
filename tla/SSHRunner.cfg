SPECIFICATION FairSpec
CONSTANTS
  Assocs = {linux}
  MaxDials = 3
  MaxFaults = 2
INVARIANTS
  NoneLeftBehind
PROPERTIES
  FailureEndsWait
  KeepsServing
  CancelEndsAll
CHECK_DEADLOCK FALSE
