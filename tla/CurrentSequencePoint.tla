------------------------ MODULE CurrentSequencePoint ------------------------
(***************************************************************************)
(* current_sequence_point_ of TransactionStore under the calls that change *)
(* it.  Each call is made with current_sequence_point_mu_ held, by the     *)
(* recording thread or by a thread that handles a message.                 *)
(***************************************************************************)
EXTENDS SequencePoint

CONSTANTS
  local_peer_,
  MaxId         \* bound: transaction IDs

ASSUME LocalAssumption == local_peer_ \in Peers
ASSUME MaxIdAssumption == MaxId \in Nat \ {0}

VARIABLES
  current_sequence_point_,
  received,     \* the end of the last range received from each peer
  handling,     \* the peers whose range was added and whose ID was not
  invalidated   \* history: the IDs of each peer in some range

vars == <<current_sequence_point_, received, handling, invalidated>>

Ids == 1..MaxId
exclusions == current_sequence_point_.peer_exclusion_map_
rejections == current_sequence_point_.rejected_peers_

(* The constructor adds a first ID of its own peer.                        *)
Init ==
  /\ current_sequence_point_ = UpdateCurrentSequencePoint(EmptySequencePoint, local_peer_, 1)
  /\ received = [p \in Peers |-> 0]
  /\ handling = {}
  /\ invalidated = [p \in Peers |-> {}]

(* The loop of RejectTransactions, one rejected transaction per step.  The *)
(* threads that reject get their new ID from the sequencer before they     *)
(* take the mutex, so the ends of local ranges come in any order.          *)
RejectTransactions(rejected_peer, id, new) ==
  /\ \/ /\ rejected_peer = local_peer_
        /\ id < new
        /\ current_sequence_point_' =
             AddInvalidatedRange(current_sequence_point_, local_peer_, id, new)
        /\ invalidated' = [invalidated EXCEPT ![local_peer_] = @ \cup id..(new - 1)]
     \/ /\ rejected_peer # local_peer_
        /\ current_sequence_point_' =
             AddRejectedPeer(current_sequence_point_, rejected_peer, id)
        /\ UNCHANGED invalidated
  /\ UNCHANGED <<received, handling>>

(* A peer sends its INVALIDATE messages in the order of their ends, some   *)
(* of them twice.  The handler adds the range, gives the mutex back and    *)
(* takes it again to add the ID.                                           *)
HandleInvalidateTransactionsMessage(remote_peer, start, end) ==
  /\ remote_peer \notin handling \cup {local_peer_}
  /\ start < end /\ received[remote_peer] <= end
  /\ current_sequence_point_' =
       AddInvalidatedRange(current_sequence_point_, remote_peer, start, end)
  /\ received' = [received EXCEPT ![remote_peer] = end]
  /\ handling' = handling \cup {remote_peer}
  /\ invalidated' = [invalidated EXCEPT ![remote_peer] = @ \cup start..(end - 1)]

HandleInvalidateUpdate(remote_peer) ==
  /\ remote_peer \in handling
  /\ current_sequence_point_' =
       UpdateCurrentSequencePoint(current_sequence_point_, remote_peer, received[remote_peer])
  /\ handling' = handling \ {remote_peer}
  /\ UNCHANGED <<received, invalidated>>

(* The local ID released after a transaction or a message, or the ID a     *)
(* REJECT message of a remote peer carries.                                *)
SeeTransaction(peer, id) ==
  /\ current_sequence_point_' = UpdateCurrentSequencePoint(current_sequence_point_, peer, id)
  /\ UNCHANGED <<received, handling, invalidated>>

Next ==
  \/ \E p \in Peers, t \in Ids :
       \/ SeeTransaction(p, t)
       \/ \E new \in Ids :
            \/ RejectTransactions(p, t, new)
            \/ HandleInvalidateTransactionsMessage(p, t, new)
  \/ \E p \in Peers : HandleInvalidateUpdate(p)

Spec == Init /\ [][Next]_vars

-----------------------------------------------------------------------------
(* Only transactions in a range that was invalidated are excluded.         *)
OnlyInvalidatedExcluded ==
  \A p \in Peers, t \in Ids : IsTransactionExcluded(exclusions, p, t) => t \in invalidated[p]

(* Joining intervals never brings an invalidated transaction back.         *)
ExclusionGrows ==
  [][\A p \in Peers, t \in Ids :
       IsTransactionExcluded(exclusions, p, t) => IsTransactionExcluded(exclusions', p, t)]_vars

(* A rejection hides the later transactions of its peer until a range that *)
(* holds the rejected one is invalidated: a range elsewhere leaves it.     *)
RejectionStands ==
  [][\A p \in DOMAIN rejections, t \in Ids :
       /\ t \in rejections[p]
       /\ ~\E start \in 1..t, end \in (t + 1)..MaxId :
             HandleInvalidateTransactionsMessage(p, start, end)
       => \A u \in t..MaxId : ~SequencePointHas(current_sequence_point_', p, u)]_vars

(* peer_exclusion_map.h: "The excluded range is [start_transaction_id,     *)
(* end_transaction_id)."  Every transaction in an added range is excluded. *)
InvalidatedExcluded ==
  \A p \in Peers : \A t \in invalidated[p] : IsTransactionExcluded(exclusions, p, t)
=============================================================================
