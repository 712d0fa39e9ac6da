SPECIFICATION Spec
CHECK_DEADLOCK FALSE
CONSTANTS
  t1 = t1
  d1 = d1
  Targets = {t1}
  Docs = {d1}
  kResumeTokenMaxAge = 2
  MaxLag = 0
  MaxVersions = 2
  MaxListens = 2
  MaxFaults = 0
  MaxElisions = 1
  MaxResets = 0
  MaxErrors = 0
  MaxToggles = 0
  MaxRestarts = 0
  MaxInFlight = 2
INVARIANT CurrentViewsAreSnapshots
