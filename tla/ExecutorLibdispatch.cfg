SPECIFICATION Spec
CHECK_DEADLOCK FALSE
CONSTANTS
  x = x
  b1 = b1
  t1 = t1
  a1 = a1
  a2 = a2
  a3 = a3
  None = None
  Tasks = {x}
  Backoffs = {b1}
  Others = {t1}
  Delay = 2
  Addresses = {a1, a2, a3}
  MaxQueue = 1
  InitialDelay = 2
  MaxDelay = 3
SYMMETRY MCAddressSymmetry
PROPERTIES
  CancelledNeverRuns
  AttemptsAreSpaced
