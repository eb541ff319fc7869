SPECIFICATION Spec
CONSTANTS
  Entries = 2
  Faults = {"missingDir"}
INVARIANT SuccessMeansComplete
CHECK_DEADLOCK FALSE
