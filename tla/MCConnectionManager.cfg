SPECIFICATION Spec
CONSTANTS
  NoPeer = NoPeer
  None = None
  Peers <- TwoPeers
  Address <- MCAddress
  AppThreads <- Apps
  PoolSize = 1
  Scenarios <- AllScenarios
  MaxConnections = 3
INVARIANTS ChecksHold NothingLost FirstPeerWins SettledAgree KnownPeersJoined
CHECK_DEADLOCK FALSE
