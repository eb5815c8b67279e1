\* Both routers connect: every pair of connections collides.  One connection
\* each way at a time; no faults, so that every step is a legal race.
CONSTANTS
  Router <- TwoRouters
  LowId = "a"
  ConnOf <- OneEach
  Passive = {}
  MayDrop = {}
  Tables = 2
  MaxFaults = 0
  MaxEvents = 3
SPECIFICATION Spec
INVARIANTS TypeOK NoFdLeak SessionsAgree UpdateInEstablished
