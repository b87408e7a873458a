----------------------------- MODULE SharedObject -----------------------------
(***************************************************************************)
(* SharedObject (src/engine/shared_object.cc): the peers that are          *)
(* interested in an object, and its content, which does not exist before   *)
(* the first transaction is stored.                                        *)
(***************************************************************************)
EXTENDS FiniteSets

CONSTANT Peers

LOCAL Content == INSTANCE ObjectContent

(* object_content_ is null.                                                *)
NoContent == [committed_versions_ |-> [id \in {} |-> 0]]

NewSharedObject == [interested_peers_ |-> {}, object_content_ |-> NoContent]

AddInterestedPeer(shared_object, interested_peer) ==
  [shared_object EXCEPT !.interested_peers_ = @ \cup {interested_peer}]

GetOrCreateObjectContent(shared_object) ==
  IF shared_object.object_content_ = NoContent THEN Content!EmptyContent
  ELSE shared_object.object_content_

GetWorkingVersion(shared_object, store_version_map, sequence_point) ==
  IF shared_object.object_content_ = NoContent
  THEN [live |-> Content!NoObject, rejected |-> {}]
  ELSE Content!GetWorkingVersion(shared_object.object_content_, store_version_map,
                                 sequence_point)

GetTransactions(shared_object, store_version_map) ==
  IF shared_object.object_content_ = NoContent
  THEN [transactions |-> NoContent.committed_versions_,
        effective_version |-> Content!EmptyVersionMap]
  ELSE Content!GetTransactions(shared_object.object_content_, store_version_map)

(* The shared object with the content that an operation of ObjectContent   *)
(* leaves, and the transactions that the operation rejects.                *)
WithContent(shared_object, result) ==
  [object |-> [shared_object EXCEPT !.object_content_ = result.content],
   rejected |-> result.rejected]

StoreTransactions(shared_object, remote_peer, transactions, version_map) ==
  WithContent(shared_object,
    Content!StoreTransactions(GetOrCreateObjectContent(shared_object), remote_peer,
                              transactions, version_map))

InsertTransaction(shared_object, origin_peer, id, transaction, is_local) ==
  WithContent(shared_object,
    Content!InsertTransaction(GetOrCreateObjectContent(shared_object), origin_peer, id,
                              transaction, is_local))

SetCachedLiveObject(shared_object, live_object, sequence_point) ==
  IF shared_object.object_content_ = NoContent THEN shared_object
  ELSE [shared_object EXCEPT !.object_content_ =
          Content!SetCachedLiveObject(@, live_object, sequence_point)]
===============================================================================
