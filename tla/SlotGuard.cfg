SPECIFICATION Spec
CONSTANTS
  gui = gui  svc = svc  g1 = g1  s1 = s1  s2 = s2
  None = None  Gone = Gone  Other = Other
  Procs <- Programs  Service = svc
  Workers = {g1, s1}  Owner <- OwnerOf
  MaxSlot = 1  MaxOther = 1  MaxFails = 1  MaxExits = 1  MaxEdits = 0
  SkipOptions = {TRUE, FALSE}  ConfigFails = TRUE
INVARIANTS  OneRunPerSlot 
CHECK_DEADLOCK FALSE
