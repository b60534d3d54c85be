CONSTANTS
  cleanup = cleanup
  purge = purge
  a1 = a1
  a2 = a2
  r1 = r1
  r2 = r2
  Name = {cleanup, purge}
  Default = {cleanup}
  Janitor = {purge}
  Admin = {a1}
  Runner = {r1}
  Sweeps = {"file-gc"}
  None = None
  Threshold = 1
  CronModes = {TRUE}
  MaxId = 2
  MaxLog = 1
  MaxOpen = 2
  MaxBoot = 2
  MaxFaults = 1
SPECIFICATION Spec
CHECK_DEADLOCK FALSE
INVARIANTS
  TimersAgree
  RunningIsInFlight
  NothingUnderClosedDb
PROPERTIES
  ShutdownEnds
