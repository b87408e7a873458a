---------------------------- MODULE ObjectContent ----------------------------
(***************************************************************************)
(* ObjectContent (src/engine/object_content.cc): the committed             *)
(* transactions a peer knows for one shared object, and the replay that    *)
(* turns them into a live object.                                          *)
(*                                                                         *)
(* A transaction calls one method of the object, which appends the ID of   *)
(* the transaction to the object; it may also create the object first, and *)
(* its method may return what it saw.  The live object is the sequence of  *)
(* the IDs it has been given, after a 0 for its initial version.           *)
(***************************************************************************)
EXTENDS SequencePoint, Sequences, Folds

NoObject == <<>>   \* null
NewObject == <<0>>

(* The events of a SharedObjectTransaction: OBJECT_CREATION if creates,    *)
(* METHOD_CALL, and METHOD_RETURN, whose value is what was seen if returns.*)
SharedObjectTransaction(origin_peer, creates, returns, seen) ==
  [origin_peer |-> origin_peer, creates |-> creates, returns |-> returns,
   seen |-> IF returns THEN seen ELSE NoObject]

EmptyContent ==
  [committed_versions_ |-> [id \in {} |-> 0], version_map_ |-> EmptyVersionMap,
   up_to_date_peers_ |-> {}, max_requested_transaction_id_ |-> 0,
   cached_live_object_ |-> NoObject, cached_sequence_point_ |-> EmptySequencePoint]

-----------------------------------------------------------------------------
(* HasNextEvent: an object that does not exist yet is created by an        *)
(* OBJECT_CREATION event and skips the other events; one that exists skips *)
(* OBJECT_CREATION.                                                        *)
Created(transaction, object) ==
  IF object = NoObject /\ transaction.creates THEN NewObject ELSE object

(* PlaybackThread replays one transaction.  A return value other than the  *)
(* recorded one is a conflict.                                             *)
ReplayTransaction(id, transaction, working) ==
  LET object == Created(transaction, working.live)
  IN CASE object = NoObject -> working
       [] object # NoObject /\ transaction.returns /\ transaction.seen # object ->
            [working EXCEPT !.rejected = @ \cup {id}]
       [] OTHER -> [working EXCEPT !.live = Append(object, id)]

(* GetWorkingVersion_Locked: the transactions in the desired version, in   *)
(* the order of their IDs.  The loop starts over after a conflict without  *)
(* the conflicting transaction.  The part before it replays as it did, as  *)
(* no transaction here creates an object without a name (see module        *)
(* PlaybackThread), so one pass that skips the conflicting ones has the    *)
(* same result.                                                            *)
GetWorkingVersion_Locked(content, desired_version) ==
  LET committed == content.committed_versions_
      Replay(id, working) == ReplayTransaction(id, committed[id], working)
  IN MapThenFoldSet(Replay, [live |-> NoObject, rejected |-> {}], LAMBDA id : id, Max,
       {id \in DOMAIN committed :
          HasPeerTransactionId(desired_version, committed[id].origin_peer, id)})

ComputeEffectiveVersion(content, store_version_map) ==
  GetVersionMapUnion(content.version_map_,
    [p \in DOMAIN store_version_map \cap content.up_to_date_peers_ |-> store_version_map[p]])

GetTransactions(content, store_version_map) ==
  [transactions |-> content.committed_versions_,
   effective_version |-> ComputeEffectiveVersion(content, store_version_map)]

(* Every transaction has a METHOD_RETURN or an OBJECT_CREATION event, so   *)
(* one that the requested version adds makes the cached object stale.      *)
CanUseCachedLiveObject(content, sequence_point) ==
  LET requested == sequence_point.version_map_
      cached == content.cached_sequence_point_.version_map_
      committed == content.committed_versions_
  IN /\ content.cached_live_object_ # NoObject
     /\ VersionMapIsLessThanOrEqual(cached, requested)
     /\ \A id \in DOMAIN committed :
          LET origin == committed[id].origin_peer
          IN HasPeerTransactionId(requested, origin, id) =>
               HasPeerTransactionId(cached, origin, id)
     /\ sequence_point.peer_exclusion_map_ = content.cached_sequence_point_.peer_exclusion_map_
     /\ sequence_point.rejected_peers_ = content.cached_sequence_point_.rejected_peers_

(* The live object at a sequence point, null if the content does not reach *)
(* it, and the transactions that conflict.                                 *)
GetWorkingVersion(content, store_version_map, sequence_point) ==
  CASE ~VersionMapIsLessThanOrEqual(sequence_point.version_map_,
                                    ComputeEffectiveVersion(content, store_version_map)) ->
         [live |-> NoObject, rejected |-> {}]
    [] OTHER ->
         IF CanUseCachedLiveObject(content, sequence_point)
         THEN [live |-> content.cached_live_object_, rejected |-> {}]
         ELSE GetWorkingVersion_Locked(content, sequence_point.version_map_)

-----------------------------------------------------------------------------
(* The content after a change, and the transactions that conflict in the   *)
(* replay it calls for.                                                    *)
Replayed(content, replay) ==
  [content |-> content,
   rejected |-> IF replay THEN GetWorkingVersion_Locked(content, content.version_map_).rejected
                ELSE {}]

(* Mutated forms of the operations below, used to test the properties.     *)
StoreForgetsUpToDate(content, remote_peer, transactions, version_map) ==
  LET old == content.committed_versions_
  IN Replayed([content EXCEPT
       !.committed_versions_ = [id \in DOMAIN old \cup DOMAIN transactions |->
                                  IF id \in DOMAIN old THEN old[id] ELSE transactions[id]],
       !.version_map_ = GetVersionMapUnion(@, version_map)], FALSE)

InsertIgnoresOld(content, origin_peer, id, transaction, is_local) ==
  LET old == content.committed_versions_
      replay == id <= content.max_requested_transaction_id_
  IN IF replay THEN Replayed(content, TRUE)
     ELSE Replayed([content EXCEPT
            !.committed_versions_ = [i \in DOMAIN old \cup {id} |->
                                       IF i \in DOMAIN old THEN old[i] ELSE transaction],
            !.version_map_ = AddPeerTransactionId(@, origin_peer, id),
            !.up_to_date_peers_ = @ \cup {origin_peer},
            !.max_requested_transaction_id_ = IF is_local THEN id ELSE @], FALSE)

CacheBeforeTransaction(content, live_object, sequence_point) ==
  [content EXCEPT !.cached_live_object_ = SubSeq(live_object, 1, Len(live_object) - 1),
                  !.cached_sequence_point_ = sequence_point]

-----------------------------------------------------------------------------
StoreTransactions(content, remote_peer, transactions, version_map) ==
  LET old == content.committed_versions_
      newest == [p \in {transactions[id].origin_peer : id \in DOMAIN transactions} |->
                   Max({id \in DOMAIN transactions : transactions[id].origin_peer = p})]
      stored == [content EXCEPT
        !.committed_versions_ = [id \in DOMAIN old \cup DOMAIN transactions |->
                                   IF id \in DOMAIN old THEN old[id] ELSE transactions[id]],
        !.version_map_ = GetVersionMapUnion(GetVersionMapUnion(@, newest), version_map),
        !.up_to_date_peers_ = @ \cup {remote_peer}]
  IN Replayed(stored, \E id \in DOMAIN transactions \ DOMAIN old :
                        id <= content.max_requested_transaction_id_)

InsertTransaction(content, origin_peer, id, transaction, is_local) ==
  LET old == content.committed_versions_
      replay == id <= content.max_requested_transaction_id_
      inserted == [content EXCEPT
        !.committed_versions_ = [i \in DOMAIN old \cup {id} |->
                                   IF i \in DOMAIN old THEN old[i] ELSE transaction],
        !.version_map_ = AddPeerTransactionId(@, origin_peer, id),
        !.up_to_date_peers_ = @ \cup {origin_peer},
        !.max_requested_transaction_id_ = IF ~replay /\ is_local THEN id ELSE @]
  IN Replayed(inserted, replay)

SetCachedLiveObject(content, live_object, sequence_point) ==
  [content EXCEPT !.cached_live_object_ = live_object,
                  !.cached_sequence_point_ = sequence_point]
=============================================================================
