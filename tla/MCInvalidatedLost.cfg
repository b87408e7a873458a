CONSTANTS
  a = a
  b = b
  Peers <- MCPeers
  local_peer_ = a
  MaxId = 4
SPECIFICATION Spec
INVARIANT InvalidatedExcluded
