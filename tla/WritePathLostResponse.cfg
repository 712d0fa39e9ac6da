SPECIFICATION Spec
CHECK_DEADLOCK FALSE
CONSTANTS
  u1 = u1
  Users = {u1}
  NoUser = NoUser
  kMaxPendingWrites = 3
  Durable = FALSE
  WriteMayFailFirst = TRUE
  BadWrites = {2}
  MaxWrites = 3
  MaxFaults = 0
  MaxAuthEvents = 0
  MaxToggles = 0
  MaxRestarts = 0
INVARIANT ErrorWasRefused
