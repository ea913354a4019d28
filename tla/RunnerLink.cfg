CONSTANTS
  CodecId = "binary"
  Features = {"typed"}
  RequiredFeatures = {"typed"}
  run1 = run1
  run2 = run2
  manage1 = manage1
  r1 = r1
  i1 = i1
  i2 = i2
  LocalLimits <- MCLimits
  Offers <- MCOffers
  RequestIds = {1, 2, 3}
  RunnerIds = {r1}
  Invocations = {i1, i2}
  Calls = {run1, run2, manage1}
  MaxPendingCancels = 1
  Wanted <- MCWanted
  Unwritable = {run2, manage1}
SPECIFICATION Spec
CHECK_DEADLOCK FALSE
INVARIANTS
  Correlated
  OnlyRunsRefused
PROPERTIES
  CancelledRunAnswered
  ImplementsLedger
