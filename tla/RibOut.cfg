CONSTANTS
  x = x
  y = y
  z = z
  Peer <- ThreePeers
  MyAS = 1
  AsOf <- ThreeAs
  RemoteId <- ThreeId
  Attr <- FourRoutes
  NULL = NULL
  InTrust <- ThreeTrust
  Prefix <- TwoNodes
  MaxNlri = 2
  Out = y
  Sends <- Announcements
  Filtered <- OnlyLooped
  Hidden <- OnlySecret
  Repeats = FALSE
  ObsTrusts = {80}
  Pools <- OnePool
  MaxOps = 3
  MaxFaults = 1
  MaxQueue = 2
SPECIFICATION FairSpec
INVARIANTS PrefixCount SettledNode SettledOut AdvertisesSelected
PROPERTIES SelectionIsBest MirrorSpec NeighbourLearns
