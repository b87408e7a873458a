------------------------- MODULE MCTransactionStore -------------------------
EXTENDS TransactionStore, TLC

CONSTANTS a, b

MCPeers == {a, b}
Symmetry == Permutations(MCPeers)
=============================================================================
