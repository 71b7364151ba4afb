SPECIFICATION FairSpec
CONSTANTS
  gui = gui  svc = svc  g1 = g1  s1 = s1  s2 = s2
  None = None  Gone = Gone  Other = Other
  Procs <- ServiceOnly  Service = svc
  Workers = {s1, s2}  Owner <- OwnerOf
  MaxSlot = 1  MaxOther = 1  MaxFails = 1  MaxExits = 1  MaxEdits = 1
  SkipOptions = {TRUE, FALSE}  ConfigFails = FALSE
PROPERTY CatchUp
CHECK_DEADLOCK FALSE
