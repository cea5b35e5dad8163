SPECIFICATION FairSpec
CONSTANTS
  N = 3
  MaxLength = 3
  MaxInterrupts = 1
INVARIANT TypeOK
PROPERTIES
  KeepsPromise
  ReachesEnd
