SPECIFICATION FairSpec
CONSTANTS
  k1 = k1
  k2 = k2
  Keys = {k1}
  Procs = {p1, p2}
  None = none
  Cmds <- OverwritingCmds
  Policy = "everysec"
  DiskFails = TRUE
  TornWrites = TRUE
  MaxLog = 3
  MaxCrashes = 1
  MaxTime = 4
  MaxDrift = 0
  MaxDur = 7
  IntMax = 1
  MaxValLen = 2
  TicksPerSec = 1
  TicksPerMs = 1
INVARIANTS LogFollowsMutations ReplayExact
 
