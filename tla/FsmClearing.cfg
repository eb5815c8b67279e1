\* Two faults, so that the neighbour connects twice while routes are cleared.
CONSTANTS
  Router <- TwoRouters
  LowId = "a"
  ConnOf <- TwoFromB
  Passive = {"a"}
  MayDrop = {}
  Tables = 1
  MaxFaults = 2
  MaxEvents = 2
SPECIFICATION Spec
PROPERTY ClearingHolds
