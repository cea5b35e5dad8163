SPECIFICATION FairSpec
CONSTANTS
  Tasks = {t1}
  Readers = {}
  Main = main
  NoTask = none
PROPERTY WaitCallReturns
CHECK_DEADLOCK FALSE
