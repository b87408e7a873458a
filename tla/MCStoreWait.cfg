CONSTANTS
  a = a
  b = b
  Peers <- MCPeers
  LateCreation = TRUE
  MaxTransactions = 1
  MaxCalls = 3
  MaxElsewhere = 1
SPECIFICATION FairSpec
PROPERTY WaitEnds
CHECK_DEADLOCK FALSE
