CONSTANTS
  r1 = r1
  r2 = r2
  None = None
  Ids = {r1, r2}
  Kinds <- MCKinds
  Requests <- MCRequests
  Expiries <- MCExpiries
  MaxVersion = 3
  MaxTokens = 2
  MaxStep = 1
SPECIFICATION Spec
INVARIANTS
  TypeOK
  ExportedBytes
  TornIsLeased
  SnapshotOfItsVersion
  RequestEndsWhole
PROPERTY
  ImplementsLeasedStore
