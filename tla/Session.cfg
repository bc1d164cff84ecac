SPECIFICATION FairSpec
CONSTANTS
  Clis = {c1, c2}
  Main = main
  Other = other
  None = none
  Ports = {1, 2, 3, 4, 5}
  Taken = {2}
  Envs <- SomeEnvs
  Args <- SomeArgs
  MaxRetries = 2
  PlainPort = 1
  TLSPort = 2
CHECK_DEADLOCK FALSE
INVARIANTS TypeOK SessionScoped  StartupSurvives
PROPERTIES  NoCliHangs
