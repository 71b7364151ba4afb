SPECIFICATION FairSpec
CONSTANTS
  Procs = {p1, p2}
  Absent = Absent
  Torn = Torn
  FailFast = FALSE
  MaxAttempts = 2
  Hazards <- Everything
CHECK_DEADLOCK FALSE
INVARIANT TypeOK
PROPERTIES StaleLockCleared AgedLockRenewed
