SPECIFICATION FairSpec
CONSTANTS
  h1 = h1
  p1 = p1
  p2 = p2
  t1 = t1
  t2 = t2
  t3 = t3
  m1 = m1
  b1 = b1
  i1 = i1
  i2 = i2
  null = null
  v1 = v1
  Modules = {m1}
  Bindings = {b1}
  Inputs = {i1, i2}
  Outputs = {null, v1}
  NoOutput = none
  Falsy = {null}
  NoThread = nobody
  NoReq = noreq
  Failed = failed
  Procs = {p1}
  Threads = {t1}
  Handles = {t1}
  ProcOf <- MCAlone
  HandleOf <- MCOwnLockfiles
  Contents <- MCEmpty
  MaxOps = 2
  MaxFaults = 0
PROPERTY HitsAreNotComputed
CHECK_DEADLOCK FALSE
