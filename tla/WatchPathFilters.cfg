SPECIFICATION FairSpec
CHECK_DEADLOCK FALSE
CONSTANTS
  t1 = t1
  d1 = d1
  Targets = {t1}
  Docs = {d1}
  kResumeTokenMaxAge = 2
  MaxLag = 0
  MaxVersions = 2
  MaxListens = 1
  MaxFaults = 1
  MaxElisions = 1
  MaxResets = 1
  MaxErrors = 1
  MaxToggles = 2
  MaxRestarts = 0
  MaxInFlight = 2
INVARIANTS
  OnlineStateMatchesStream
  CurrentViewsAreSnapshots
PROPERTY ListenersCatchUp
