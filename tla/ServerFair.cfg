SPECIFICATION FairSpec
CONSTANTS
  Conns = {c1, c2}
  MaxConn = 2
  MaxCmds = 2
  RequirePass = FALSE
  IdleTimeout = FALSE
  TLS = FALSE
  Panics = FALSE
  None = None

CHECK_DEADLOCK FALSE
PROPERTIES MeetsContract ShutdownEnds GoneReleased 
