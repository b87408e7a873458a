--------------------------- MODULE TransactionStore ---------------------------
(***************************************************************************)
(* TransactionStore (src/engine/transaction_store.cc) on every peer of a   *)
(* network, for one named object that the programs of the peers share.     *)
(* The recording thread of a peer creates the object, calls its methods in *)
(* transactions and commits them; the threads of the connection manager    *)
(* handle the messages of the other peers.                                 *)
(*                                                                         *)
(* A transaction gets an even ID.  Every handler reserves an ID too, to    *)
(* mark the point in the local order where it ran; such IDs are only       *)
(* compared with transactions of the same peer, so the ones between two    *)
(* transactions are a single odd ID.                                       *)
(***************************************************************************)
EXTENDS ObjectContent

Shared == INSTANCE SharedObject

CONSTANTS
  LateCreation,     \* may peers be connected before they have the object?
  MaxTransactions,  \* bound: transactions in the network
  MaxCalls,         \* bound: method calls in the network, with the rewound ones
  MaxElsewhere      \* bound: conflicts in other objects

ASSUME BoundsAssumption ==
  /\ LateCreation \in BOOLEAN
  /\ MaxTransactions \in Nat /\ MaxCalls \in Nat /\ MaxElsewhere \in Nat

VARIABLES
  connected,   \* pairs of connected peers
  net,         \* net[p][q]: messages on the way from p to q
  outbox,      \* outbox[p][q]: held by the sequencer of p until T is released
  shared,      \* has p the SharedObject?
  named,       \* is it in named_objects_?
  shared_object,
  current_sequence_point_,
  last,        \* the last ID p reserved
  rejected_transaction_id_,
  serving,     \* serving[p][q]: version map read to answer a GET of q
  pc,          \* where the recording thread of p is
  is_new,      \* is the object in new_objects_ of the thread?
  sequence_point_,  \* of the pending transaction
  live,        \* the live object of the pending transaction
  committing,  \* T, the ID of the transaction that is being committed
  calls,       \* number of method calls
  elsewhere    \* number of conflicts in other objects

thread == <<pc, is_new, sequence_point_, live, committing, calls>>
store == <<shared, named, shared_object, current_sequence_point_, last, rejected_transaction_id_>>
vars == <<connected, net, outbox, store, serving, thread, elsewhere>>

(* The transactions of the object that p knows.                            *)
Committed(p) == shared_object[p].object_content_.committed_versions_

TransactionIds == {2 * k : k \in 1..MaxTransactions}

-----------------------------------------------------------------------------
(* The constructor notes an ID of the local peer as seen.                  *)
InitialSequencePoint(p) == UpdateCurrentSequencePoint(EmptySequencePoint, p, 1)

Init ==
  /\ connected = {}
  /\ net = [p \in Peers |-> [q \in Peers |-> <<>>]]
  /\ outbox = [p \in Peers |-> [q \in Peers |-> <<>>]]
  /\ shared = [p \in Peers |-> FALSE]
  /\ named = [p \in Peers |-> FALSE]
  /\ shared_object = [p \in Peers |-> Shared!NewSharedObject]
  /\ current_sequence_point_ = [p \in Peers |-> InitialSequencePoint(p)]
  /\ last = [p \in Peers |-> 1]
  /\ rejected_transaction_id_ = [p \in Peers |-> 0]
  /\ serving = [p \in Peers |-> [q \in Peers |-> EmptyVersionMap]]
  /\ pc = [p \in Peers |-> "idle"]
  /\ is_new = [p \in Peers |-> FALSE]
  /\ sequence_point_ = [p \in Peers |-> InitialSequencePoint(p)]
  /\ live = [p \in Peers |-> NoObject]
  /\ committing = [p \in Peers |-> 0]
  /\ calls = [p \in Peers |-> 0]
  /\ elsewhere = 0

-----------------------------------------------------------------------------
(* Messages, and how the sequencer sends them.                             *)

GetObjectMessage == [type |-> "GET_OBJECT"]
StoreObjectMessage(transactions, version_map, interested) ==
  [type |-> "STORE_OBJECT", transactions |-> transactions, version_map |-> version_map,
   interested |-> interested]
ApplyTransactionMessage(id, transaction) ==
  [type |-> "APPLY_TRANSACTION", id |-> id, transaction |-> transaction]
RejectTransactionMessage(rejected, new) ==
  [type |-> "REJECT_TRANSACTION", rejected |-> rejected, new |-> new]
InvalidateTransactionsMessage(start, end) ==
  [type |-> "INVALIDATE_TRANSACTIONS", start |-> start, end |-> end]

(* What a broadcast of the given messages puts on each channel of p.       *)
Broadcast(p, messages) ==
  [q \in Peers |-> IF {p, q} \in connected THEN messages ELSE <<>>]

Joined(a, b) == [q \in Peers |-> a[q] \o b[q]]

(* FlushMessages_Locked sends the messages of the transaction at the front *)
(* again for each one that is queued, and when the transaction is released.*)
Flushed(messages) ==
  IF Len(messages) = 2
  THEN <<messages[1], messages[1], messages[2], messages[1], messages[2]>>
  ELSE messages \o messages

(* Messages under an ID reserved after T wait until T is released.         *)
Holding(p) == pc[p] \in {"insert", "send"}

(* p sends unsequenced messages at once and sequenced ones in turn; n is   *)
(* the state of the channels before.                                       *)
SendMessages(n, p, unsequenced, sequenced) ==
  /\ net' = [n EXCEPT ![p] =
       Joined(Joined(@, unsequenced),
              [q \in Peers |-> IF Holding(p) THEN <<>> ELSE Flushed(sequenced[q])])]
  /\ outbox' = [outbox EXCEPT ![p] =
       [q \in Peers |-> IF Holding(p) THEN @[q] \o sequenced[q] ELSE @[q]]]

Silence == [q \in Peers |-> <<>>]

-----------------------------------------------------------------------------
(* Rejecting transactions.                                                 *)

(* ReserveTransaction, in a handler.                                       *)
NewId(p) == IF last[p] % 2 = 0 THEN last[p] + 1 ELSE last[p]

(* The transactions of a set of IDs, with their origins.                   *)
TransactionsToReject(object, ids) ==
  {[peer |-> object.object_content_.committed_versions_[id].origin_peer, id |-> id] : id \in ids}

(* RejectTransactions on the current sequence point: a local transaction   *)
(* is invalidated with all that followed it up to new, one of another peer *)
(* is rejected until that peer invalidates it.                             *)
RejectInSequencePoint(sp, p, to_reject, new) ==
  LET Add(r, rest) == IF r.peer = p THEN AddInvalidatedRange(rest, p, r.id, new)
                      ELSE AddRejectedPeer(rest, r.peer, r.id)
  IN MapThenFoldSet(Add, sp, LAMBDA r : r,
                    LAMBDA S : CHOOSE r \in S : \A s \in S : s.id <= r.id, to_reject)

(* What every operation that may reject transactions ends with: reserve an *)
(* ID, reject, release, and note the IDs now seen.  REJECT messages are    *)
(* not forwarded.                                                          *)
RejectTransactions(n, p, unsequenced, to_reject, forward, seen, sees_own) ==
  LET new == NewId(p)
      mine == {r.id : r \in {r \in to_reject : r.peer = p}}
      theirs == {r \in to_reject : r.peer # p}
      sp == RejectInSequencePoint(current_sequence_point_[p], p, to_reject, new)
      version_map == GetVersionMapUnion(sp.version_map_, seen)
  IN /\ last' = [last EXCEPT ![p] = new]
     /\ current_sequence_point_' = [current_sequence_point_ EXCEPT ![p] =
          [sp EXCEPT !.version_map_ =
             IF sees_own THEN AddPeerTransactionId(version_map, p, new) ELSE version_map]]
     /\ rejected_transaction_id_' = [rejected_transaction_id_ EXCEPT ![p] =
          IF mine = {} THEN @ ELSE Min(mine)]
     /\ SendMessages(n, p, unsequenced, Broadcast(p,
          (IF mine = {} THEN <<>> ELSE <<InvalidateTransactionsMessage(Min(mine), new)>>) \o
          (IF forward /\ theirs # {} THEN <<RejectTransactionMessage(theirs, new)>> ELSE <<>>)))

-----------------------------------------------------------------------------
(* Handling messages.  m is the first message on the channel from q to p;  *)
(* n is what the channels hold without it.                                 *)

(* A transaction for an object this peer does not have is ignored.         *)
HandleApplyTransactionMessage(p, q, m, n) ==
  LET inserted == Shared!InsertTransaction(shared_object[p], q, m.id, m.transaction, FALSE)
  IN /\ shared_object' = [shared_object EXCEPT ![p] = IF shared[p] THEN inserted.object ELSE @]
     /\ RejectTransactions(n, p, Silence,
          IF shared[p] THEN TransactionsToReject(inserted.object, inserted.rejected) ELSE {},
          TRUE, EmptyVersionMap, TRUE)
     /\ UNCHANGED <<shared, named, serving>>

(* Mutated form of the next action.                                        *)
HandleGetForgetsInterest(p, q, m, n) ==
  /\ shared[p]
  /\ serving' = [serving EXCEPT ![p][q] = current_sequence_point_[p].version_map_]
  /\ net' = n
  /\ UNCHANGED <<outbox, store>>

(* A peer that does not have the object answers at once with an empty      *)
(* message.  One that has it notes that q is interested and what it has    *)
(* seen; ReplyToGetObject then answers.                                    *)
HandleGetObjectMessage(p, q, m, n) ==
  /\ IF shared[p]
     THEN /\ shared_object' = [shared_object EXCEPT ![p] = Shared!AddInterestedPeer(@, q)]
          /\ serving' = [serving EXCEPT ![p][q] = current_sequence_point_[p].version_map_]
          /\ net' = n
     ELSE /\ net' = [n EXCEPT ![p][q] =
               Append(@, StoreObjectMessage([id \in {} |-> 0], EmptyVersionMap, {}))]
          /\ UNCHANGED <<shared_object, serving>>
  /\ UNCHANGED <<outbox, shared, named, current_sequence_point_, last,
                 rejected_transaction_id_>>

HandleStoreObjectMessage(p, q, m, n) ==
  LET stored == Shared!StoreTransactions(shared_object[p], q, m.transactions, m.version_map)
      Add(interested_peer, object) == Shared!AddInterestedPeer(object, interested_peer)
  IN /\ shared' = [shared EXCEPT ![p] = TRUE]
     /\ shared_object' = [shared_object EXCEPT ![p] = FoldSet(Add, stored.object, m.interested)]
     /\ RejectTransactions(n, p, Silence, TransactionsToReject(stored.object, stored.rejected),
          TRUE, EmptyVersionMap, FALSE)
     /\ UNCHANGED <<named, serving>>

HandleRejectTransactionMessage(p, q, m, n) ==
  /\ RejectTransactions(n, p, Silence, m.rejected, FALSE, [r \in {q} |-> m.new], TRUE)
  /\ UNCHANGED <<shared, named, shared_object, serving>>

HandleInvalidateTransactionsMessage(p, q, m, n) ==
  /\ current_sequence_point_' = [current_sequence_point_ EXCEPT ![p] =
       UpdateCurrentSequencePoint(AddInvalidatedRange(@, q, m.start, m.end), q, m.end)]
  /\ net' = n
  /\ UNCHANGED <<outbox, shared, named, shared_object, last,
                 rejected_transaction_id_, serving>>

HandleMessageFromRemotePeer(p, q) ==
  /\ net[q][p] # <<>>
  /\ serving[p][q] = EmptyVersionMap
  /\ LET m == Head(net[q][p])
         n == [net EXCEPT ![q][p] = Tail(@)]
     IN \/ m.type = "APPLY_TRANSACTION" /\ HandleApplyTransactionMessage(p, q, m, n)
        \/ m.type = "GET_OBJECT" /\ HandleGetObjectMessage(p, q, m, n)
        \/ m.type = "STORE_OBJECT" /\ HandleStoreObjectMessage(p, q, m, n)
        \/ m.type = "REJECT_TRANSACTION" /\ HandleRejectTransactionMessage(p, q, m, n)
        \/ m.type = "INVALIDATE_TRANSACTIONS" /\ HandleInvalidateTransactionsMessage(p, q, m, n)
  /\ UNCHANGED <<elsewhere, connected, thread>>

(* The rest of HandleGetObjectMessage: the transactions and the effective  *)
(* version are read after q was noted as interested.                       *)
ReplyToGetObject(p, q) ==
  /\ serving[p][q] # EmptyVersionMap
  /\ net' = [net EXCEPT ![p][q] = Append(@,
       LET reply == Shared!GetTransactions(shared_object[p], serving[p][q])
       IN StoreObjectMessage(reply.transactions, reply.effective_version,
                             shared_object[p].interested_peers_))]
  /\ serving' = [serving EXCEPT ![p][q] = EmptyVersionMap]
  /\ UNCHANGED <<elsewhere, connected, outbox, store, thread>>

(* NotifyNewConnection, on both sides of a new connection.                 *)
NotifyNewConnection(p, q) ==
  /\ p # q /\ {p, q} \notin connected
  /\ LateCreation \/ (named[p] /\ named[q])
  /\ connected' = connected \cup {{p, q}}
  /\ net' = [net EXCEPT
       ![p][q] = IF named[p] THEN Append(@, GetObjectMessage) ELSE @,
       ![q][p] = IF named[q] THEN Append(@, GetObjectMessage) ELSE @]
  /\ UNCHANGED <<elsewhere, outbox, store, serving, thread>>

(* A conflict in another object: p rejects a transaction of a peer that    *)
(* does not share this one, and tells the other peers.                     *)
RejectElsewhere(p) ==
  LET new == NewId(p)
  IN /\ elsewhere < MaxElsewhere
     /\ elsewhere' = elsewhere + 1
     /\ last' = [last EXCEPT ![p] = new]
     /\ current_sequence_point_' = [current_sequence_point_ EXCEPT ![p] =
          UpdateCurrentSequencePoint(@, p, new)]
     /\ SendMessages(net, p, Silence, Broadcast(p, <<RejectTransactionMessage({}, new)>>))
     /\ UNCHANGED <<connected, shared, named, shared_object,
                    rejected_transaction_id_, serving, thread>>

-----------------------------------------------------------------------------
(* The recording thread.                                                   *)

(* GetLiveObjectAtSequencePoint for the pending transaction of p.          *)
WorkingVersion(p) ==
  Shared!GetWorkingVersion(shared_object[p], current_sequence_point_[p].version_map_,
                           sequence_point_[p])

(* What it does once it has an answer, or at the first attempt without     *)
(* one: the object is requested from the other peers.                      *)
FinishGetLiveObject(p, unsequenced) ==
  RejectTransactions(net, p, unsequenced,
    TransactionsToReject(shared_object[p], WorkingVersion(p).rejected), TRUE, EmptyVersionMap, TRUE)

RequestIfMissing(p) ==
  IF WorkingVersion(p).live = NoObject THEN Broadcast(p, <<GetObjectMessage>>) ELSE Silence

(* PendingTransaction::IsObjectKnown.                                      *)
IsObjectKnown(p) == WorkingVersion(p).live # NoObject

(* The program creates the named object.  The thread takes it for a new    *)
(* one if this peer has no version of it at the sequence point.            *)
CreateObject(p) ==
  /\ pc[p] = "idle" /\ ~named[p]
  /\ shared' = [shared EXCEPT ![p] = TRUE]
  /\ named' = [named EXCEPT ![p] = TRUE]
  /\ is_new' = [is_new EXCEPT ![p] = ~IsObjectKnown(p)]
  /\ FinishGetLiveObject(p, RequestIfMissing(p))
  /\ UNCHANGED <<elsewhere, connected, serving, shared_object, pc,
                 sequence_point_, live, committing, calls>>

(* GetLiveObjectAtSequencePoint with wait: a version that is missing is    *)
(* requested before the thread waits for it.                               *)
RequestLiveObject(p) ==
  \/ /\ WorkingVersion(p).live = NoObject
     /\ net' = [net EXCEPT ![p] = Joined(@, Broadcast(p, <<GetObjectMessage>>))]
     /\ pc' = [pc EXCEPT ![p] = "wait"]
     /\ UNCHANGED <<live, outbox, store>>
  \/ /\ WorkingVersion(p).live # NoObject
     /\ live' = [live EXCEPT ![p] = WorkingVersion(p).live]
     /\ pc' = [pc EXCEPT ![p] = "commit"]
     /\ FinishGetLiveObject(p, Silence)
     /\ UNCHANGED <<shared, named, shared_object>>

(* The program calls a method of the object in a transaction.              *)
(* PendingTransaction::GetLiveObject has an object that the transaction    *)
(* created and gets any other one from the store.                          *)
CallMethod(p) ==
  /\ pc[p] = "idle" /\ named[p]
  /\ MapThenSumSet(LAMBDA q : calls[q], Peers) < MaxCalls
  /\ rejected_transaction_id_[p] = 0
  /\ calls' = [calls EXCEPT ![p] = @ + 1]
  /\ \/ /\ is_new[p]
        /\ live' = [live EXCEPT ![p] = NewObject]
        /\ pc' = [pc EXCEPT ![p] = "commit"]
        /\ UNCHANGED <<net, outbox, store>>
     \/ ~is_new[p] /\ RequestLiveObject(p)
  /\ UNCHANGED <<elsewhere, connected, serving, is_new, sequence_point_, committing>>

GetLiveObject(p) ==
  /\ pc[p] = "wait"
  /\ WorkingVersion(p).live # NoObject
  /\ live' = [live EXCEPT ![p] = WorkingVersion(p).live]
  /\ pc' = [pc EXCEPT ![p] = "commit"]
  /\ FinishGetLiveObject(p, Silence)
  /\ UNCHANGED <<elsewhere, connected, serving, shared, named, shared_object,
                 is_new, sequence_point_, committing, calls>>

(* EndTransaction, unless a rewind is requested: CreateTransaction         *)
(* reserves T.  The clocks of the peers are not synchronized.              *)
ReserveTransaction(p, id) ==
  /\ pc[p] = "commit"
  /\ rejected_transaction_id_[p] = 0
  /\ last[p] < id
  /\ \A q \in Peers : id \notin DOMAIN Committed(q) \cup {committing[q]}
  /\ committing' = [committing EXCEPT ![p] = id]
  /\ last' = [last EXCEPT ![p] = id]
  /\ pc' = [pc EXCEPT ![p] = "insert"]
  /\ UNCHANGED <<elsewhere, connected, net, outbox, shared, named, shared_object,
                 current_sequence_point_, rejected_transaction_id_, serving, is_new,
                 sequence_point_, live, calls>>

(* ApplyTransaction, for a local transaction whose method may have         *)
(* returned what it saw.                                                   *)
ApplyTransaction(p, returns) ==
  LET inserted == Shared!InsertTransaction(shared_object[p], p, committing[p],
                    SharedObjectTransaction(p, is_new[p], returns, live[p]), TRUE)
  IN /\ pc[p] = "insert"
     /\ shared_object' = [shared_object EXCEPT ![p] = inserted.object]
     /\ RejectTransactions(net, p, Silence,
          TransactionsToReject(inserted.object, inserted.rejected), TRUE, EmptyVersionMap, TRUE)
     /\ pc' = [pc EXCEPT ![p] = "send"]
     /\ UNCHANGED <<elsewhere, connected, serving, shared, named, is_new,
                    sequence_point_, live, committing, calls>>

(* The end of CreateTransaction: the live object is cached for the version *)
(* that the transaction was based on, with the transaction.                *)
CacheModifiedObject(p, id) ==
  shared_object' = [shared_object EXCEPT ![p] =
    Shared!SetCachedLiveObject(@, Append(live[p], id),
                               UpdateCurrentSequencePoint(sequence_point_[p], p, id))]

(* SendMessageToAffectedPeers and ReleaseTransaction: T goes to the peers  *)
(* that are interested by now, then whatever the sequencer held back.  The *)
(* live object is cached and the next pending transaction begins.          *)
SendMessageToAffectedPeers(p) ==
  LET id == committing[p]
      apply == Flushed(<<ApplyTransactionMessage(id, Committed(p)[id])>>)
  IN /\ pc[p] = "send"
     /\ net' = [net EXCEPT ![p] = [q \in Peers |->
          @[q] \o (IF q \in shared_object[p].interested_peers_ \ {p} THEN apply ELSE <<>>) \o outbox[p][q]]]
     /\ outbox' = [outbox EXCEPT ![p] = Silence]
     /\ CacheModifiedObject(p, id)
     /\ sequence_point_' = [sequence_point_ EXCEPT ![p] = current_sequence_point_[p]]
     /\ is_new' = [is_new EXCEPT ![p] = FALSE]
     /\ live' = [live EXCEPT ![p] = NoObject]
     /\ committing' = [committing EXCEPT ![p] = 0]
     /\ pc' = [pc EXCEPT ![p] = "idle"]
     /\ UNCHANGED <<elsewhere, connected, serving, shared, named,
                    current_sequence_point_, last, rejected_transaction_id_, calls>>

(* The thread notices the rewind at its next operation, discards the       *)
(* pending transaction and runs the method again from the sequence point   *)
(* that is current then (module RecordingThread has the details).          *)
Rewind(p) ==
  /\ pc[p] \in {"idle", "commit"}
  /\ rejected_transaction_id_[p] # 0
  /\ rejected_transaction_id_' = [rejected_transaction_id_ EXCEPT ![p] = 0]
  /\ sequence_point_' = [sequence_point_ EXCEPT ![p] = current_sequence_point_[p]]
  /\ live' = [live EXCEPT ![p] = NoObject]
  /\ pc' = [pc EXCEPT ![p] = "idle"]
  /\ UNCHANGED <<elsewhere, connected, net, outbox, shared, named, shared_object,
                 current_sequence_point_, last, serving, is_new, committing, calls>>

-----------------------------------------------------------------------------
ThreadStep(p) ==
  \/ CreateObject(p)
  \/ CallMethod(p)
  \/ GetLiveObject(p)
  \/ \E id \in TransactionIds : ReserveTransaction(p, id)
  \/ \E returns \in BOOLEAN : ApplyTransaction(p, returns)
  \/ SendMessageToAffectedPeers(p)
  \/ Rewind(p)

Next ==
  \E p \in Peers :
    \/ ThreadStep(p)
    \/ RejectElsewhere(p)
    \/ \E q \in Peers :
         \/ HandleMessageFromRemotePeer(p, q)
         \/ ReplyToGetObject(p, q)
         \/ NotifyNewConnection(p, q)

Spec == Init /\ [][Next]_vars

(* The connection threads go on handling messages, and the condition       *)
(* variable of GetLiveObjectAtSequencePoint wakes the recording thread.    *)
FairSpec ==
  /\ Spec
  /\ \A p \in Peers : WF_vars(GetLiveObject(p))
  /\ \A p, q \in Peers :
       WF_vars(HandleMessageFromRemotePeer(p, q)) /\ WF_vars(ReplyToGetObject(p, q))

-----------------------------------------------------------------------------
(* No message is on the way and no thread is busy.                         *)
Quiet ==
  /\ \A p, q \in Peers : net[p][q] = <<>> /\ outbox[p][q] = <<>>
                         /\ serving[p][q] = EmptyVersionMap
  /\ \A p \in Peers : pc[p] = "idle" /\ rejected_transaction_id_[p] = 0

(* Connected peers that share the object know the same transactions.       *)
ReplicasAgree ==
  Quiet => \A p, q \in Peers : {p, q} \in connected /\ named[p] /\ named[q] =>
             Committed(p) = Committed(q)

(* The messages on the way from p to q, and the ones held back.            *)
OnTheWay(p, q) == {net[p][q][i] : i \in DOMAIN net[p][q]}

Carries(m, id) ==
  \/ m.type = "APPLY_TRANSACTION" /\ m.id = id
  \/ m.type = "STORE_OBJECT" /\ id \in DOMAIN m.transactions

(* A peer never believes to be up to date with a transaction it will not   *)
(* get: what the effective version covers is known, or on its way.         *)
NoUnnoticedGap ==
  \A p, q \in Peers : \A id \in DOMAIN Committed(q) :
    /\ Committed(q)[id].origin_peer = q
    /\ HasPeerTransactionId(
         Shared!GetTransactions(shared_object[p],
                                current_sequence_point_[p].version_map_).effective_version, q, id)
    => \/ id \in DOMAIN Committed(p)
       \/ committing[q] = id \/ serving[q][p] # EmptyVersionMap
       \/ \E m \in OnTheWay(q, p) : Carries(m, id)

(* Every rejection is settled by the peer whose transaction it was.        *)
RejectionsSettled ==
  Quiet => \A p \in Peers : current_sequence_point_[p].rejected_peers_
                             = EmptySequencePoint.rejected_peers_

(* A program that goes on has its own transactions before it, except the   *)
(* ones that were invalidated.                                             *)
OwnTransactionsSeen ==
  \A p \in Peers : pc[p] = "insert" =>
    \A id \in DOMAIN Committed(p) :
      \/ Committed(p)[id].origin_peer # p
      \/ \E i \in DOMAIN live[p] : live[p][i] = id
      \/ IsTransactionExcluded(current_sequence_point_[p].peer_exclusion_map_, p, id)

(* A thread that waits for the object does not wait forever.               *)
WaitEnds == \A p \in Peers : (pc[p] = "wait") ~> (pc[p] # "wait")
=============================================================================
