------------------------------ MODULE QuotaQueue ------------------------------
(***************************************************************************)
(* QuotaQueue (src/util/quota_queue.h): per-service quotas on top of a     *)
(* ProducerConsumerQueue (src/util/producer_consumer_queue.h).             *)
(*                                                                         *)
(* A queue is a record.  Each operator is what one critical section does:  *)
(* the quota side has its own mutex and draining_ flag, the inner queue    *)
(* has another pair, and a Push or a Drain that has left the first section *)
(* may be overtaken before it enters the second.                           *)
(***************************************************************************)
EXTENDS Integers, Sequences

CONSTANTS
  Services,   \* service IDs
  Quota,      \* Quota[s]: max_item_count of service s, -1 for no limit
  MaxSize     \* max_size of the inner queue, -1 for no limit

NewQueue ==
  [item_count |-> [s \in Services |-> 0], draining_ |-> FALSE,
   items |-> <<>>, inner_draining |-> FALSE]

ServiceFull_Locked(q, s) == Quota[s] > 0 /\ q.item_count[s] >= Quota[s]

QueueFull_Locked(q) == MaxSize > 0 /\ Len(q.items) >= MaxSize

(* Push, first half: wait for quota only if asked to, fail if draining,    *)
(* otherwise count the item.                                               *)
PushWaits(q, s, wait) == wait /\ ~q.draining_ /\ ServiceFull_Locked(q, s)

PushFails(q) == q.draining_

PushCount(q, s) == [q EXCEPT !.item_count[s] = @ + 1]

(* Push, second half: the inner queue's Push.                              *)
InnerPushWaits(q, wait) == wait /\ ~q.inner_draining /\ QueueFull_Locked(q)

InnerPushFails(q) == q.inner_draining

InnerPush(q, item, s) == [q EXCEPT !.items = Append(@, <<item, s>>)]

(* Pop takes the oldest item and gives its quota back.  The code does the  *)
(* two under different locks: in between the count is only higher, which   *)
(* nobody sees but a Push that waits for quota, and SendMessage, the only  *)
(* caller, pushes without waiting.                                         *)
PopFails(q) == q.items = <<>>

PopItem(q) == Head(q.items)[1]

Pop(q) ==
  [q EXCEPT !.items = Tail(@), !.item_count[Head(q.items)[2]] = @ - 1]

(* Drain sets the two flags one after the other.                           *)
DrainQuota(q) == [q EXCEPT !.draining_ = TRUE]

DrainInner(q) == [q EXCEPT !.inner_draining = TRUE]
================================================================================
