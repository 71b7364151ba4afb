SPECIFICATION Spec
CONSTANTS
  gui = gui  svc = svc
  g1 = g1  g2 = g2  s1 = s1
  man1 = man1  slotA = slotA  slotB = slotB  slot = slot
  NoKey = NoKey  None = None  Stale = Stale
  Procs <- Programs
  Threads <- TwoThreads
  Owner <- OwnerOf
  Items <- MixedItems
  Key <- KeyOf
  MaxQueueItems = 2
  Retries = 1
  MaxCrashes = 0
SYMMETRY TwinSymmetry
INVARIANT TypeOK
 
