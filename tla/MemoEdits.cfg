SPECIFICATION EditsSpec
CONSTANTS
  m1 = m1
  m2 = m2
  b1 = b1
  b2 = b2
  i1 = i1
  i2 = i2
  old = old
  new = new
  NoOutput = none
  MaxResults = 3
  MaxEdits = 2
  Modules <- MCModules
  Bindings <- MCBindings
  Inputs <- MCInputs
  Outputs <- MCOutputs
  Contents <- MCContents
INVARIANTS
  EditsFollowTable
  UniqueStays
CHECK_DEADLOCK FALSE
