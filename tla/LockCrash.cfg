SPECIFICATION Spec
CONSTANTS
  Procs = {p1, p2, p3}
  Absent = Absent
  Torn = Torn
  FailFast = TRUE
  MaxAttempts = 3
  Hazards <- Crashes
CHECK_DEADLOCK FALSE
INVARIANTS MutualExclusion
