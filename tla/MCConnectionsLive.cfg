SPECIFICATION FairSpec
CONSTANTS
  NoPeer = NoPeer
  None = None
  Peers <- TwoPeers
  Address <- MCAddress
  AppThreads <- Apps
  PoolSize = 1
  Scenarios <- LiveScenarios
  MaxConnections = 3
PROPERTIES StopEnds SendsEnd
CHECK_DEADLOCK FALSE
