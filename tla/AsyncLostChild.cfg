SPECIFICATION Spec
CONSTANTS
  Tasks = {t1, t2}
  Invocations = {i1, i2, unnamed}
  Unnamed = unnamed
  MaxEntries = 2
  MaxAttempts <- MCAttempts
  Calls <- MCCalls
  Faults = {"structured", "other"}
SYMMETRY Symmetry
CHECK_DEADLOCK FALSE
INVARIANTS
  ChildReachesCore
