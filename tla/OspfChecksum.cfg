\* No faults; the databases differ in the checksum of one LSA.
CONSTANTS
  NULL = NULL
  MaxHeaders = 2
  Foreign <- Restarted
  Restartable = {}
  MaxFaults = 0
  MaxForeign = 1
SPECIFICATION Spec
INVARIANT NothingForgotten
CHECK_DEADLOCK FALSE
