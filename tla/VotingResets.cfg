\* The router in AS 1 may drop its link, and one session may be lost.
SPECIFICATION FairSpec
CONSTANTS
  a = a
  b = b
  c = c
  Node <- MCNode
  Links <- MCLinks
  AsOf <- MCAsOf
  InTrust <- MCInTrust
  MaxAS = 4
  NoPeer = NoPeer
  TrustCodes = {50}
  MaxQueue = 1
  MaxBusy = 2
  Fragile <- MCLinks
  MaxResets = 1
INVARIANTS
  VotesAuthentic
  PoolsComplete
PROPERTIES
  DropStarvesPool
  PoolPromise
  PoolsKeepComing
