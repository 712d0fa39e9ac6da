SPECIFICATION FairSpec
CHECK_DEADLOCK FALSE
CONSTANTS
  u1 = u1
  u2 = u2
  Users = {u1, u2}
  NoUser = NoUser
  kMaxPendingWrites = 2
  Durable = TRUE
  WriteMayFailFirst = FALSE
  BadWrites = {2}
  MaxWrites = 3
  MaxFaults = 1
  MaxAuthEvents = 1
  MaxToggles = 1
  MaxRestarts = 1
INVARIANTS
  SuccessWasCommitted
  ErrorWasRefused
PROPERTIES
  ImplementsWriteQueue
  QueueDrains
