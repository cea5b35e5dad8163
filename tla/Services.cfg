SPECIFICATION FairSpec
CONSTANTS
  db = db
  app = app
  op = op
  Starts <- MCStarts
  Op = op
  Parent <- MCParent
INVARIANTS
  TypeOK
  CheckedBeforeUse
  NothingLeftGoing
  StopReachesAll
PROPERTIES
  OperationReturns
  FailedStartsEnd
CHECK_DEADLOCK FALSE
