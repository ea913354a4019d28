SPECIFICATION Spec
CONSTANTS
  RunnerIds = {r1, r2}
  Invocations = {i1, i2}
  Calls = {c1, c2, c3, c4}
  MaxPendingCancels = 1
  MaxInstances = 2
SYMMETRY Symmetry
CHECK_DEADLOCK FALSE
INVARIANTS
  TypeOK
  ActiveMarksLiveRuns
  PendingBounded
  PendingIsLatched
  AnsweredCancelReachedRun
PROPERTIES
  RunSeesExactlyItsCancels
  RefusalsChangeNothing
