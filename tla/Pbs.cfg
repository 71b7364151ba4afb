\* Two files, two runs, any two events, four ways to cut.
SPECIFICATION Spec
CONSTANTS
  Walk <- MCWalk
  Cuts <- MCCuts
  Sizes = {1, 2}
  SkipAccess = TRUE
  MaxRuns = 2
  MaxEvents = 2
INVARIANTS ChunksThere KnownWasStored SequentialIsExact IndexedIsExact GrownIsRefused ReuseIsCurrent InterruptedIsListed
CHECK_DEADLOCK FALSE
