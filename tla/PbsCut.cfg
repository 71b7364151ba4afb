\* A chunk that ends between the entry of a file and its payload.
SPECIFICATION Spec
CONSTANTS
  Walk <- MCWalk
  Cuts <- MCCutEntry
  Sizes = {1}
  SkipAccess = TRUE
  MaxRuns = 1
  MaxEvents = 0
INVARIANTS Restorable
CHECK_DEADLOCK FALSE
