SPECIFICATION Spec
SYMMETRY WatchSymmetry
CHECK_DEADLOCK FALSE
CONSTANTS
  t1 = t1
  t2 = t2
  d1 = d1
  Targets = {t1, t2}
  Docs = {d1}
  kResumeTokenMaxAge = 2
  MaxLag = 1
  MaxVersions = 2
  MaxListens = 2
  MaxFaults = 1
  MaxElisions = 0
  MaxResets = 0
  MaxErrors = 0
  MaxToggles = 0
  MaxRestarts = 1
  MaxInFlight = 2
INVARIANTS
  OnlyGracefulEndAborts
  CurrentViewsAreSnapshots
  OutstandingIsInFlight
  SavedTokenMissesNothing
