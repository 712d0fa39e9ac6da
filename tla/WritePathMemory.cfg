SPECIFICATION Spec
SYMMETRY UserSymmetry
CHECK_DEADLOCK FALSE
CONSTANTS
  u1 = u1
  u2 = u2
  Users = {u1, u2}
  NoUser = NoUser
  kMaxPendingWrites = 3
  Durable = FALSE
  WriteMayFailFirst = TRUE
  BadWrites = {2}
  MaxWrites = 3
  MaxFaults = 1
  MaxAuthEvents = 2
  MaxToggles = 1
  MaxRestarts = 0
INVARIANTS
  OnlyGracefulEndAborts
  PipelineIsQueuePrefix
  InFlightIsPipeline
  BlocksMatchQueue
  CredentialsNeverCross
PROPERTIES
  NotResentAfterCallback
