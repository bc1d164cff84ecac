SPECIFICATION Spec
CONSTANTS
  Conns = {c1, c2, c3}
  MaxConn = 2
  MaxCmds = 2
  RequirePass = TRUE
  IdleTimeout = TRUE
  TLS = FALSE
  Panics = TRUE
  None = None
CHECK_DEADLOCK FALSE
SYMMETRY Symmetric
INVARIANTS TypeOK SlotsExact RangeMissesNobody
PROPERTY KeepsContract
