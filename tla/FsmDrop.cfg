\* The side that connects drops the other.
CONSTANTS
  Router <- TwoRouters
  LowId = "a"
  ConnOf <- TwoFromB
  Passive = {"a"}
  MayDrop = {"b"}
  Tables = 1
  MaxFaults = 0
  MaxEvents = 2
SPECIFICATION LiveSpec
PROPERTIES DropIsFinal DropTakesDown
