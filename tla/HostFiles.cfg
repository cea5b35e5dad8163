SPECIFICATION Spec
CONSTANTS
  w1 = w1
  w2 = w2
  c1 = c1
  c2 = c2
  Writers = {w1, w2}
  Cachers = {c1, c2}
  Old = old
  NoFile = nofile
  Hole = hole
  Length <- MCLength
INVARIANTS
  TypeOK
  CacheIsWhole
  LastWriteStays
CHECK_DEADLOCK FALSE
