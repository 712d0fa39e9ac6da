SPECIFICATION FairSpec
CHECK_DEADLOCK FALSE
CONSTANTS
  c1 = c1
  c2 = c2
  Calls = {c1, c2}
  KindsOf <- MCKindsOf
  MaxBuffered = 1
  MaxMessages = 1
  MaxNetworkChanges = 1
INVARIANTS
  NoHardAssertFails
  CompletionsAreTracked
  WaitsOnlyForDoomedCalls
  CallsFollowGrpcRules
PROPERTIES
  WorkerReturns
  EndIsReported
