SPECIFICATION FairSpec
CHECK_DEADLOCK FALSE
CONSTANTS
  everything = everything
  ones = ones
  l1 = l1
  l2 = l2
  NoDoc = NoDoc
  None = None
  NoLimit = NoLimit
  Keys = {1, 2}
  Values = {1, 2}
  Matches <- MCMatches
  Queries = {everything, ones}
  LimitOf <- MCLimitOne
  Listeners = {l1, l2}
  OptionsOf <- MCOptionsOf
  Cached = {2}
  Stored = {NoDoc, 1}
  MaxInputs = 3
INVARIANTS
  NoHardAssertFails
  ViewIsQueryResult
  EventsAddUpToView
  FirstEventIsNotMissed
  LimboBooksAgree
PROPERTY
  ListenersConverge
