SPECIFICATION Spec
CONSTANTS
  w1 = w1
  w2 = w2
  c1 = c1
  c2 = c2
  Writers = {w1, w2}
  Cachers = {}
  Old = old
  NoFile = nofile
  Hole = hole
  Length <- MCLength
INVARIANT WritesAreAtomic
CHECK_DEADLOCK FALSE
