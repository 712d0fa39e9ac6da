SPECIFICATION Spec
SYMMETRY MCKeySymmetry
CHECK_DEADLOCK FALSE
CONSTANTS
  q1 = q1
  q2 = q2
  k1 = k1
  k2 = k2
  None = None
  Keys = {k1, k2}
  Queries = {q1, q2}
  Contents <- MCContents
  Percentile = 50
  MaxCollected = 10
  MaxInputs = 6
INVARIANTS
  OnlyActiveQueriesPin
  ResumableTargetsAreComplete
PROPERTIES
  OnlyStraysAreLeaked
  PinnedIsKept
