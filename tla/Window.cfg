SPECIFICATION WindowSpec
CONSTANTS
  v1 = v1  v2 = v2  Views = {v1, v2}
  Ticker = Ticker  Nobody = Nobody  NoFile = NoFile
  Born = {"none", "files", "legacy", "cred"}
  Corrupts <- MCCorrupts
  MaxCalls = 2  MaxFaults = 1
  j1 = j1  j2 = j2  Jobs = {j1, j2}  FileJobs = {j2}  NoJob = NoJob
  MaxRuns = 2  MaxAsks = 2  MaxMishaps = 1
  Restores = {1, 2, 3}  MaxStops = 2
  JobSources <- MCSources  Disk <- MCDisk  Roots <- MCRoots
  Destinations = {"zip", "pbs"}  MaxSelected = 2  MaxSecond = 1
  DayLen = 8  CatchUpGrace = 2  MonthLen = 30  WeeksInYear = 52
  Schedules <- MCSchedules
  Shifts <- MCShifts  ChangeAt = 82  LastDay = 33
SYMMETRY Symmetry
INVARIANTS NoUpdateLost SignatureMatches SecretSurvives     Complete NothingLost AskedFirst  DueExactly 
CHECK_DEADLOCK FALSE
