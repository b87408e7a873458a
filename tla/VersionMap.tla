----------------------------- MODULE VersionMap -----------------------------
(***************************************************************************)
(* MaxVersionMap (src/engine/version_map.h, max_version_map.h): for each   *)
(* peer, the newest transaction known.  A version map is a function whose  *)
(* domain is the set of peers that have an entry.                          *)
(***************************************************************************)
EXTENDS Integers

CONSTANT Peers

EmptyVersionMap == [p \in {} |-> 1]

(* TransactionIdGreaterThanFunction.                                       *)
CompareFunction(a, b) == a > b

HasPeerTransactionId(map, peer, id) ==
  peer \in DOMAIN map /\ ~CompareFunction(id, map[peer])

AddPeerTransactionId(map, peer, id) ==
  [p \in DOMAIN map \cup {peer} |->
     IF p = peer /\ (p \in DOMAIN map => CompareFunction(id, map[p])) THEN id ELSE map[p]]

VersionMapIsLessThanOrEqual(a, b) ==
  \A p \in DOMAIN a : p \in DOMAIN b /\ ~(a[p] > b[p])

(* The entries of b are added to a copy of a.                              *)
GetVersionMapUnion(a, b) ==
  [p \in DOMAIN a \cup DOMAIN b |->
     IF p \in DOMAIN b /\ (p \in DOMAIN a => CompareFunction(b[p], a[p])) THEN b[p] ELSE a[p]]
=============================================================================
