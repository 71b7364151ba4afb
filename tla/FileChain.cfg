\* Two files, three archives, three changes or faults.
SPECIFICATION Spec
CONSTANTS
  f = f
  g = g
  Files <- MCFiles
  MaxArchives = 3
  MaxEvents = 3
  SkipAccess = TRUE
  SkipRatio = 1
SYMMETRY Symmetry
INVARIANTS SnapshotFaithful  IndexRestorable IndexAgrees
PROPERTIES SnapshotImmutable
CHECK_DEADLOCK FALSE
