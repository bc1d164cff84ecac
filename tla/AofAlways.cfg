SPECIFICATION Spec
CONSTANTS
  k1 = k1
  k2 = k2
  Keys = {k1, k2}
  Procs = {p1, p2}
  None = none
  Cmds <- AllCmds
  Policy = "always"
  DiskFails = FALSE
  TornWrites = TRUE
  MaxLog = 3
  MaxCrashes = 2
  MaxTime = 4
  MaxDrift = 1
  MaxDur = 7
  IntMax = 1
  MaxValLen = 2
  TicksPerSec = 6
  TicksPerMs = 2
INVARIANTS TypeOK LogFollowsMutations  
SYMMETRY Clients
