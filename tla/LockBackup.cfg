SPECIFICATION Spec
CONSTANTS
  Procs = {p1, p2, p3, p4}
  Absent = Absent
  Torn = Torn
  FailFast = TRUE
  MaxAttempts = 3
  Hazards <- NoHazard
SYMMETRY Symmetry
INVARIANTS MutualExclusion HeldIsVisible 
