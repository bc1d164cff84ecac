SPECIFICATION Spec
CONSTANTS
  k1 = k1
  k2 = k2
  Keys = {k1}
  Procs = {p1}
  None = none
  Cmds <- RefreshCmds
  Policy = "always"
  DiskFails = FALSE
  TornWrites = FALSE
  MaxLog = 3
  MaxCrashes = 1
  MaxTime = 4
  MaxDrift = 0
  MaxDur = 7
  IntMax = 1
  MaxValLen = 2
  TicksPerSec = 1
  TicksPerMs = 1
INVARIANT ReplayExact
SYMMETRY Clients
