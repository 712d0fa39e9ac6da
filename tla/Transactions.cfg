SPECIFICATION FairSpec
CHECK_DEADLOCK FALSE
CONSTANTS
  Docs = {1, 2}
  Existing = {1}
  kRetries = 1
  MaxOps = 4
  MaxOthers = 1
  MaxFaults = 1
INVARIANT
  ResultIsThatOfTheCommit
PROPERTIES
  CommitsSeeTheirReads
  TransactionEnds
