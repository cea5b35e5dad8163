SPECIFICATION FairSpec
CONSTANTS
  Tasks = {t1, t2}
  Readers = {r1}
  Main = main
  NoTask = none
INVARIANTS
  TypeOK
  StopReachesRuns
  WaitIsComplete
  PanicNeedsReader
CHECK_DEADLOCK FALSE
PROPERTIES
  ErrorsAccounted
  StopAndWaitReturns
