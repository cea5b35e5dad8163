SPECIFICATION FairSpec
CONSTANTS
  h1 = h1
  p1 = p1
  p2 = p2
  t1 = t1
  t2 = t2
  t3 = t3
  m1 = m1
  b1 = b1
  i1 = i1
  i2 = i2
  null = null
  v1 = v1
  Modules = {m1}
  Bindings = {b1}
  Inputs = {i1}
  Outputs = {null, v1}
  NoOutput = none
  Falsy = {null}
  NoThread = nobody
  NoReq = noreq
  Failed = failed
  Procs = {p1}
  Threads = {t1, t2, t3}
  Handles = {h1}
  ProcOf <- MCAllInOne
  HandleOf <- MCOneLockfile
  Contents <- MCEmpty
  MaxOps = 1
  MaxFaults = 0
INVARIANTS
  WriterExclusive
PROPERTIES
  Linearizable
  OperationsEnd
CHECK_DEADLOCK FALSE
