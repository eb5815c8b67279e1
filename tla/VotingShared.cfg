SPECIFICATION FairSpec
CONSTANTS
  a = a
  b = b
  c = c
  Node <- MCNode
  Links <- MCLinks
  AsOf <- SharedAsOf
  InTrust <- MCInTrust
  MaxAS = 4
  NoPeer = NoPeer
  TrustCodes = {61}
  MaxQueue = 1
  MaxBusy = 2
  Fragile <- MCLinks
  MaxResets = 1
INVARIANTS
  TrustInRange
  SharedAsNeverPools
PROPERTIES
  TrustSettles
