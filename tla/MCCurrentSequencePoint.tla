----------------------- MODULE MCCurrentSequencePoint -----------------------
(* The local peer and a remote one; four IDs give two intervals with a gap *)
(* and every way to join them.                                             *)
EXTENDS CurrentSequencePoint

CONSTANTS a, b

MCPeers == {a, b}
=============================================================================
