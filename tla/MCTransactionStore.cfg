CONSTANTS
  a = a
  b = b
  Peers <- MCPeers
  LateCreation = FALSE
  MaxTransactions = 3
  MaxCalls = 3
  MaxElsewhere = 0
SYMMETRY Symmetry
SPECIFICATION Spec
INVARIANTS ReplicasAgree NoUnnoticedGap RejectionsSettled OwnTransactionsSeen
CHECK_DEADLOCK FALSE
