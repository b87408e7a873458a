---------------------------- MODULE SequencePoint ----------------------------
(***************************************************************************)
(* SequencePointImpl (src/engine/sequence_point_impl.cc): which            *)
(* transactions a peer takes into account.  A sequence point is a record   *)
(* of the newest transaction seen from each peer, the invalidated ranges   *)
(* of transactions of each peer (PeerExclusionMap), and the transactions   *)
(* of each peer that were rejected and not invalidated yet.                *)
(***************************************************************************)
EXTENDS IntervalSet, VersionMap

EmptySequencePoint ==
  [version_map_ |-> EmptyVersionMap,
   peer_exclusion_map_ |-> [p \in {} |-> [s \in {} |-> 0]],
   rejected_peers_ |-> [p \in {} |-> {}]]

(* map_[origin_peer] of PeerExclusionMap, default constructed if absent.   *)
ExcludedRanges(map, peer) ==
  IF peer \in DOMAIN map THEN map[peer] ELSE [s \in {} |-> 0]

AddExcludedRange(map, peer, start, end) ==
  [p \in DOMAIN map \cup {peer} |->
     IF p = peer THEN AddInterval(ExcludedRanges(map, p), start, end) ELSE map[p]]

IsTransactionExcluded(map, peer, id) ==
  peer \in DOMAIN map /\ Contains(map[peer], id)

SequencePointHas(sp, peer, id) ==
  /\ HasPeerTransactionId(sp.version_map_, peer, id)
  /\ ~IsTransactionExcluded(sp.peer_exclusion_map_, peer, id)
  /\ peer \in DOMAIN sp.rejected_peers_ => id < Min(sp.rejected_peers_[peer])

(* UpdateCurrentSequencePoint of TransactionStore adds an ID to the        *)
(* version map of current_sequence_point_.                                 *)
UpdateCurrentSequencePoint(sp, peer, id) ==
  [sp EXCEPT !.version_map_ = AddPeerTransactionId(@, peer, id)]

-----------------------------------------------------------------------------
(* Mutated forms, used to test the properties.                             *)

InvalidateKeepsEmpty(sp, peer, start, end) ==
  [sp EXCEPT
     !.peer_exclusion_map_ = AddExcludedRange(@, peer, start, end),
     !.rejected_peers_ = [p \in DOMAIN @ |->
        IF p = peer THEN {t \in @[p] : ~(start <= t /\ t < end)} ELSE @[p]]]

InvalidateClearsAll(sp, peer, start, end) ==
  [sp EXCEPT !.peer_exclusion_map_ = AddExcludedRange(@, peer, start, end),
             !.rejected_peers_ = [p \in DOMAIN @ \ {peer} |-> @[p]]]

-----------------------------------------------------------------------------
(* The invalidated range is excluded, and the rejections in it are settled; *)
(* a peer with no rejection left has no entry.                             *)
AddInvalidatedRange(sp, peer, start, end) ==
  LET Left(p) == IF p = peer THEN {t \in sp.rejected_peers_[p] : ~(start <= t /\ t < end)}
                 ELSE sp.rejected_peers_[p]
  IN [sp EXCEPT
        !.peer_exclusion_map_ = AddExcludedRange(@, peer, start, end),
        !.rejected_peers_ = [p \in {p \in DOMAIN @ : Left(p) # {}} |-> Left(p)]]

AddRejectedPeer(sp, peer, start) ==
  [sp EXCEPT !.rejected_peers_ =
     [p \in DOMAIN @ \cup {peer} |->
        (IF p \in DOMAIN @ THEN @[p] ELSE {}) \cup (IF p = peer THEN {start} ELSE {})]]
=============================================================================
