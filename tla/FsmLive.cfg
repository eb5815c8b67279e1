\* One side is passive; the other has two connections, which may overlap, and one
\* fault may happen at any point.
CONSTANTS
  Router <- TwoRouters
  LowId = "a"
  ConnOf <- TwoFromB
  Passive = {"a"}
  MayDrop = {}
  Tables = 1
  MaxFaults = 1
  MaxEvents = 2
SPECIFICATION LiveSpec
INVARIANTS IdleIsClean WatchdogSet
PROPERTY SessionComesUp
