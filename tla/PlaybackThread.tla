---------------------------- MODULE PlaybackThread ----------------------------
(***************************************************************************)
(* PlaybackThread (src/engine/playback_thread.cc): how a peer turns the    *)
(* committed transactions of a shared object into a live object.  Two      *)
(* threads take part.  The storing thread (ObjectContent) queues the       *)
(* events of one transaction after the other and waits until they have     *)
(* been replayed; the replay thread runs the methods of the object and     *)
(* compares what they do with the events.  They meet in a StateVariable    *)
(* and an EventQueue.  A third thread may ask for a reference to the       *)
(* object meanwhile.                                                       *)
(*                                                                         *)
(* The object is a counter.  A method is a sequence of operations: "add"   *)
(* changes the counter, "create" and "open" get a reference to another     *)
(* object, "call" calls a method of that object or of the object itself,   *)
(* "begin" and "end" delimit a transaction.                                *)
(***************************************************************************)
EXTENDS Naturals, Sequences, Functions

CONSTANTS
  Null, Object,
  Named,       \* a shared object with a name
  Methods,     \* Methods[m] = [ops, result], result in {"void", "count", "made"}
  Histories,   \* committed transactions to replay: [transactions, calls, owner]
  MaxReplays   \* bound: calls of GetWorkingVersion

(* A transaction has events, and an event is never the null pointer.       *)
CommittedEvents ==
  UNION {UNION {Range(h.transactions[i]) : i \in DOMAIN h.transactions} : h \in Histories}

ASSUME HistoriesAssumption ==
  /\ Null \notin CommittedEvents
  /\ \A h \in Histories : h.transactions \in Seq(Seq(CommittedEvents) \ {<<>>})

VARIABLES
  history,                    \* committed_versions_ up to the desired version
  store_pc, transaction, at,  \* the storing thread, at event `at' of `transaction'
  transactions_to_reject, new_object_references_,
  results,                    \* what the calls of GetWorkingVersion returned
  state_, events_, next_event_, end_of_sequence_,
  replay_pc, stack,           \* the replay thread and its method calls, outermost first
  conflict_detected_, unbound_object_references_,
  node_, ref_count_,          \* live_object_: its counter, Null if there is none
  object_references_,         \* object_references_[S], in the order they were added
  shared_object_,             \* shared_object_[r] of the object reference r
  other_pc, other_ref         \* the third thread

stored == <<history, store_pc, transaction, at, transactions_to_reject, results>>
queue == <<state_, events_, next_event_, end_of_sequence_>>
live == <<node_, ref_count_>>
matching == <<new_object_references_, unbound_object_references_>>
references == <<object_references_, shared_object_>>
other == <<other_pc, other_ref>>
vars == <<stored, queue, replay_pc, stack, conflict_detected_, live, matching, references, other>>

-----------------------------------------------------------------------------
(* Values.  A committed value names shared objects, a pending one object   *)
(* references.                                                             *)
EmptyValue == [type |-> "EMPTY", of |-> 0]
Int64Value(n) == [type |-> "INT64", of |-> n]
ObjectValue(o) == [type |-> "OBJECT_REFERENCE", of |-> o]

(* The value that a method passes or returns, where `what' is one of       *)
(* "void", "count" and "made".                                             *)
ValueOf(what, count, made) ==
  CASE what = "void" -> EmptyValue
    [] what = "count" -> Int64Value(count)
    [] OTHER -> ObjectValue(made)

-----------------------------------------------------------------------------
SharedObjects == {Object, Named} \cup {history.calls[i].fresh : i \in DOMAIN history.calls}

Transitions == {<<"NOT_STARTED", "STARTING">>, <<"STARTING", "RUNNING">>,
                <<"RUNNING", "PAUSED">>, <<"PAUSED", "RUNNING">>,
                <<"PAUSED", "STOPPING">>, <<"STOPPING", "STOPPED">>}
State == INSTANCE StateVariable WITH current_state_ <- state_, state_transitions_ <- Transitions

NoReferences == [S \in {} |-> 0]

(* A method call, and ReplayEvents at the bottom of the stack: the rest of *)
(* the body, the copy of the object it works on, its references to the     *)
(* object and to others, and its return value.                             *)
Frame(kind, label, method, self) ==
  [kind |-> kind, at |-> label, method |-> method, ops |-> <<>>, local |-> Null, self |-> self,
   made |-> Null, opened |-> Null, return_value |-> EmptyValue]
ReplayFrame(label) == Frame("replay", label, Null, Null)

(* A new PlaybackThread.                                                   *)
FreshThread ==
  /\ state_ = "NOT_STARTED" /\ events_ = <<>> /\ next_event_ = Null
  /\ end_of_sequence_ = FALSE
  /\ replay_pc = "none" /\ stack = <<ReplayFrame("loop")>>
  /\ conflict_detected_ = FALSE /\ unbound_object_references_ = {}
  /\ node_ = Null /\ ref_count_ = 0

Init ==
  /\ history \in Histories
  /\ store_pc = "start" /\ transaction = 1 /\ at = 1
  /\ transactions_to_reject = {} /\ new_object_references_ = NoReferences
  /\ results = <<>>
  /\ FreshThread
  /\ object_references_ = [S \in SharedObjects |-> <<>>]
  /\ shared_object_ = <<>>
  /\ other_pc = "idle" /\ other_ref = Null

-----------------------------------------------------------------------------
(* The storing thread: ObjectContent::GetWorkingVersion_Locked.            *)

(* Mutated forms of the operations below, used to test the properties.     *)
FlushEventsWaitRejects(rejected) ==
  /\ store_pc = "flush_wait" /\ state_ = "PAUSED"
  /\ IF conflict_detected_
     THEN /\ transactions_to_reject' = transactions_to_reject \cup {rejected}
          /\ store_pc' = "stop" /\ UNCHANGED transaction
     ELSE /\ transaction' = transaction + 1
          /\ store_pc' = "apply" /\ UNCHANGED transactions_to_reject
  /\ UNCHANGED <<history, at, results, queue, replay_pc, stack, conflict_detected_, live, matching,
                 references, other>>
FlushEventsWaitRejectsPrevious ==
  FlushEventsWaitRejects(IF transaction - 1 \in transactions_to_reject \cup {0}
                         THEN transaction ELSE transaction - 1)

NoEndOfSequence == UNCHANGED events_

ConflictIgnored == conflict_detected_' = TRUE /\ UNCHANGED stack
OwnReference(ref) == ref

-----------------------------------------------------------------------------
(* EventQueue.                                                             *)
Push(event) == events_' = Append(events_, event)

FetchNext ==
  /\ next_event_ = Null /\ ~end_of_sequence_ /\ events_ # <<>>
  /\ events_' = Tail(events_) /\ end_of_sequence_' = (events_[1] = Null)

GetNext == next_event_' = Null

NextThread ==
  /\ state_' = "NOT_STARTED" /\ events_' = <<>> /\ next_event_' = Null
  /\ end_of_sequence_' = FALSE
  /\ replay_pc' = "none" /\ stack' = <<ReplayFrame("loop")>>
  /\ conflict_detected_' = FALSE /\ unbound_object_references_' = {}
  /\ node_' = Null /\ ref_count_' = 0

ChangePausedToRunning == State!Mutate("PAUSED", "RUNNING")

StoreGoes(from, to) == store_pc = from /\ store_pc' = to
NotStore == UNCHANGED <<replay_pc, stack, conflict_detected_, live, matching, references, other>>
KeepWork == UNCHANGED <<history, transaction, at, transactions_to_reject, results>>

(* PlaybackThread::Start creates the thread before it reaches RUNNING.     *)
Start ==
  /\ StoreGoes("start", "started")
  /\ State!ChangeState("STARTING") /\ replay_pc' = "starting"
  /\ KeepWork
  /\ UNCHANGED <<events_, next_event_, end_of_sequence_, stack, conflict_detected_, live,
                 matching, references, other>>

Started ==
  /\ StoreGoes("started", "apply")
  /\ State!ChangeState("RUNNING")
  /\ KeepWork /\ NotStore /\ UNCHANGED <<events_, next_event_, end_of_sequence_>>

FindTransactionIdInVector(transactions, id) == id \in transactions

(* ApplyTransactionsToWorkingVersion_Locked.                               *)
Apply ==
  /\ store_pc = "apply"
  /\ IF transaction > Len(history.transactions)
     THEN store_pc' = "stop" /\ UNCHANGED transaction
     ELSE IF FindTransactionIdInVector(transactions_to_reject, transaction)
     THEN transaction' = transaction + 1 /\ UNCHANGED store_pc
     ELSE store_pc' = "queue" /\ UNCHANGED transaction
  /\ at' = 1
  /\ NotStore /\ UNCHANGED <<history, transactions_to_reject, results, queue>>

QueueEvent ==
  /\ StoreGoes("queue", "queue_push")
  /\ ChangePausedToRunning
  /\ KeepWork /\ NotStore /\ UNCHANGED <<events_, next_event_, end_of_sequence_>>

QueueEventPush ==
  /\ store_pc = "queue_push"
  /\ Push(history.transactions[transaction][at])
  /\ at' = at + 1
  /\ store_pc' = IF at < Len(history.transactions[transaction]) THEN "queue" ELSE "flush"
  /\ NotStore
  /\ UNCHANGED <<history, transaction, transactions_to_reject, results, state_, next_event_,
                 end_of_sequence_>>

(* SetEndOfSequence pushes a null.                                         *)
SetEndOfSequence == Push(Null)

FlushEvents ==
  /\ StoreGoes("flush", "flush_push")
  /\ ChangePausedToRunning
  /\ KeepWork /\ NotStore /\ UNCHANGED <<events_, next_event_, end_of_sequence_>>

FlushEventsPush ==
  /\ StoreGoes("flush_push", "flush_wait")
  /\ SetEndOfSequence
  /\ KeepWork /\ NotStore /\ UNCHANGED <<state_, next_event_, end_of_sequence_>>

(* The transaction of a conflict is rejected, and the replay starts over   *)
(* without it in a new thread, with the same new_object_references.        *)
FlushEventsWait ==
  /\ store_pc = "flush_wait" /\ State!WaitForState({"PAUSED"})
  /\ IF conflict_detected_
     THEN /\ transactions_to_reject' = transactions_to_reject \cup {transaction}
          /\ store_pc' = "stop" /\ UNCHANGED transaction
     ELSE /\ transaction' = transaction + 1
          /\ store_pc' = "apply" /\ UNCHANGED transactions_to_reject
  /\ NotStore /\ UNCHANGED <<history, at, results, queue>>

Stop ==
  /\ StoreGoes("stop", "stop_push")
  /\ ChangePausedToRunning
  /\ KeepWork /\ NotStore /\ UNCHANGED <<events_, next_event_, end_of_sequence_>>

StopPush ==
  /\ StoreGoes("stop_push", "stop_wait")
  /\ SetEndOfSequence
  /\ KeepWork /\ NotStore /\ UNCHANGED <<state_, next_event_, end_of_sequence_>>

WaitForPausedAndChangeToStopping ==
  /\ StoreGoes("stop_wait", "join")
  /\ State!WaitForState({"PAUSED"}) /\ State!ChangeState("STOPPING")
  /\ KeepWork /\ NotStore /\ UNCHANGED <<events_, next_event_, end_of_sequence_>>

(* The end of Stop, after pthread_join.                                    *)
StopJoin ==
  /\ StoreGoes("join", "stopped")
  /\ replay_pc = "done"
  /\ State!ChangeState("STOPPED")
  /\ KeepWork /\ NotStore /\ UNCHANGED <<events_, next_event_, end_of_sequence_>>

(* A replay with a conflict is done again, in a new PlaybackThread.        *)
Stopped ==
  /\ store_pc = "stopped"
  /\ IF conflict_detected_
     THEN /\ NextThread
          /\ store_pc' = "start" /\ transaction' = 1
          /\ UNCHANGED <<results, new_object_references_>>
     ELSE /\ results' = Append(results, [count |-> node_, rejected |-> transactions_to_reject])
          /\ store_pc' = "returned"
          /\ UNCHANGED <<transaction, queue, replay_pc, stack, conflict_detected_, live, matching>>
  /\ UNCHANGED <<history, at, transactions_to_reject, references, other>>

(* GetWorkingVersion is called with an empty map.                          *)
InitialReferences == NoReferences

SetSharedObjectIfUnset(ref, S) == IF shared_object_[ref] = Null THEN S ELSE shared_object_[ref]

AddObjectReference(refs, new_object_reference) == Append(refs, new_object_reference)

(* TransactionStore::CreateNewObjectReferences, after which the working    *)
(* version may be asked for again.                                         *)
CreateNewObjectReferences ==
  /\ store_pc = "returned"
  /\ object_references_' =
       [S \in SharedObjects |-> IF S \in DOMAIN new_object_references_
                                THEN AddObjectReference(object_references_[S],
                                                        new_object_references_[S])
                                ELSE object_references_[S]]
  /\ shared_object_' =
       [r \in DOMAIN shared_object_ |->
          IF \E S \in DOMAIN new_object_references_ : new_object_references_[S] = r
          THEN SetSharedObjectIfUnset(r, CHOOSE S \in DOMAIN new_object_references_ :
                                           new_object_references_[S] = r)
          ELSE shared_object_[r]]
  /\ IF Len(results) < MaxReplays
     THEN /\ NextThread
          /\ store_pc' = "start" /\ transaction' = 1
          /\ new_object_references_' = InitialReferences /\ transactions_to_reject' = {}
     ELSE /\ store_pc' = "finished"
          /\ UNCHANGED <<transaction, transactions_to_reject, queue, replay_pc, stack,
                         conflict_detected_, live, matching>>
  /\ UNCHANGED <<history, at, results, other>>

-----------------------------------------------------------------------------
(* The replay thread.  Its methods are the frames of the stack; a frame is *)
(* at a call of HasNextEvent, or at the next operation of its body.        *)

NotReplay == UNCHANGED <<stored, state_, events_, end_of_sequence_, other>>

Top == stack[Len(stack)]
HasObjectReference(S, ref) == ref \in Range(object_references_[S])
LastReference(S) == object_references_[S][Len(object_references_[S])]
Callee ==
  CASE Top.ops[1].on = "self" -> Top.self
    [] Top.ops[1].on = "made" -> Top.made
    [] OTHER -> Top.opened
CalleeIsSelf == HasObjectReference(Object, Callee)
Count == IF Top.local = Null THEN node_ ELSE Top.local
SetTop(frame) == stack' = [stack EXCEPT ![Len(stack)] = frame]

Waits ==
  \/ Top.at \in {"loop", "called", "more", "sub", "return", "discard"}
  \/ Top.at = "body" /\ Top.ops # <<>> /\ Top.ops[1].op \in {"begin", "end", "call"}

(* ReplayEvents starts with WaitForNotState(NOT_STARTED | STARTING).       *)
ReplayEvents ==
  /\ replay_pc = "starting" /\ State!WaitForNotState({"NOT_STARTED", "STARTING"})
  /\ replay_pc' = "run"
  /\ NotReplay /\ UNCHANGED <<next_event_, stack, conflict_detected_, live, matching, references>>

(* LiveObject::Clone: another live object with the same node, which the    *)
(* OBJECT_CREATION event made.                                             *)
NewRefCount == 1
IncrementRefCount(ref_count) == ref_count + 1
Clone(count) == node_' = count /\ ref_count_' = IncrementRefCount(NewRefCount)

(* HasNextEvent takes an event from the queue.  OBJECT_CREATION makes the  *)
(* object if there is none, a clone that shares its node with the event;   *)
(* without an object all other events are skipped.                         *)
HasNextEvent ==
  /\ replay_pc = "run" /\ Waits
  /\ FetchNext
  /\ LET event == events_[1]
     IN /\ IF event # Null /\ event.type = "OBJECT_CREATION" /\ node_ = Null
           THEN Clone(0) ELSE UNCHANGED live
        /\ next_event_' = IF event # Null /\ event.type # "OBJECT_CREATION" /\ node_ # Null
                          THEN event ELSE Null
  /\ UNCHANGED <<stored, state_, replay_pc, stack, conflict_detected_, matching, references, other>>

ChangeToPausedAndWaitForRunning ==
  /\ replay_pc = "run" /\ Waits
  /\ next_event_ = Null /\ end_of_sequence_
  /\ State!Mutate("RUNNING", "PAUSED")
  /\ replay_pc' = "paused"
  /\ UNCHANGED <<stored, events_, next_event_, end_of_sequence_, stack, conflict_detected_, live,
                 matching, references, other>>

MoveToNextSequence ==
  /\ replay_pc = "paused" /\ State!WaitForState({"RUNNING"})
  /\ end_of_sequence_' = FALSE
  /\ replay_pc' = "run"
  /\ UNCHANGED <<stored, state_, events_, next_event_, stack, conflict_detected_, live, matching,
                 references, other>>

(* HasNextEvent returns false and every method in progress returns.  The   *)
(* copy that the outermost one works on, if any, becomes the live object.  *)
StopReplay ==
  /\ replay_pc = "paused" /\ State!WaitForState({"STOPPING"})
  /\ node_' = IF Len(stack) > 1 /\ stack[2].local # Null THEN stack[2].local ELSE node_
  /\ replay_pc' = "done"
  /\ unbound_object_references_' = {}
  /\ NotReplay
  /\ UNCHANGED <<next_event_, stack, conflict_detected_, ref_count_, new_object_references_,
                 references>>

-----------------------------------------------------------------------------
(* A step of the replay thread with an event at hand.                      *)
Replays == replay_pc = "run" /\ NotReplay /\ UNCHANGED replay_pc
NextIs(type) == next_event_ # Null /\ next_event_.type = type

(* SetConflictDetected: every method in progress returns, and the rest of  *)
(* the events are discarded.                                               *)
SetConflictDetected ==
  conflict_detected_' = TRUE /\ stack' = <<ReplayFrame("discard")>>

(* The type of event that the code at the top of the stack asks for in     *)
(* CheckNextEventType.                                                     *)
ActualEventTypes ==
  CASE Top.at = "loop" -> {"METHOD_CALL"}
    [] Top.at = "sub" -> {"METHOD_CALL", "SUB_METHOD_RETURN"}
    [] Top.at = "return" ->
         {IF Top.kind = "self" THEN "SELF_METHOD_RETURN" ELSE "METHOD_RETURN"}
    [] Top.at = "body" /\ Waits ->
         {CASE Top.ops[1].op = "begin" -> "BEGIN_TRANSACTION"
            [] Top.ops[1].op = "end" -> "END_TRANSACTION"
            [] OTHER -> IF CalleeIsSelf THEN "SELF_METHOD_CALL" ELSE "SUB_METHOD_CALL"}
    [] OTHER -> {}

CheckNextEventTypeFails ==
  /\ Replays
  /\ next_event_ # Null /\ ActualEventTypes # {} /\ next_event_.type \notin ActualEventTypes
  /\ SetConflictDetected
  /\ UNCHANGED <<next_event_, live, matching, references>>

(* A method call from another object, or from the callee of a sub method   *)
(* call of this one.                                                       *)
DoMethodCall ==
  /\ Replays
  /\ Top.at \in {"loop", "sub"} /\ NextIs("METHOD_CALL")
  /\ stack' = Append(stack, Frame("method", "called", next_event_.method, Null))
  /\ GetNext
  /\ UNCHANGED <<conflict_detected_, live, matching, references>>

(* LiveObjectNode::InvokeMethod works on a copy of a node that is shared.  *)
Invoked(frame, self) ==
  [frame EXCEPT !.at = "body", !.ops = Methods[frame.method].ops, !.self = self,
                !.local = IF ref_count_ > 1 THEN node_ ELSE Null]

(* A new ObjectReferenceImpl, the last one; it has no shared object.       *)
CreateUnboundObjectReference == Append(shared_object_, Null)
NewReference == Len(CreateUnboundObjectReference)

(* GetOrCreateObjectReference looks for a reference under the lock, makes  *)
(* one without it, and looks again.                                        *)
BoundReference(S) ==
  shared_object_' = [CreateUnboundObjectReference EXCEPT ![NewReference] = S]
InsertedReference(ref) ==
  object_references_' = [object_references_ EXCEPT ![Object] = IF @ = <<>> THEN <<ref>> ELSE @]
ChosenReference(ref) ==
  IF object_references_[Object] = <<>> THEN ref ELSE LastReference(Object)

InvokeMethod ==
  /\ Replays
  /\ Top.at = "called" /\ next_event_ # Null
  /\ Top.kind = "self" \/ object_references_[Object] # <<>>
  /\ SetTop(Invoked(Top, IF Top.kind = "self" THEN Top.self ELSE LastReference(Object)))
  /\ UNCHANGED <<next_event_, conflict_detected_, live, matching, references>>

InvokeMethodCreate ==
  /\ Replays
  /\ Top.at = "called" /\ Top.kind = "method" /\ next_event_ # Null
  /\ object_references_[Object] = <<>>
  /\ BoundReference(Object)
  /\ SetTop([Top EXCEPT !.at = "insert", !.self = NewReference])
  /\ UNCHANGED <<next_event_, conflict_detected_, live, matching, object_references_>>

InvokeMethodInsert ==
  /\ Replays
  /\ Top.at = "insert"
  /\ InsertedReference(Top.self)
  /\ SetTop(Invoked(Top, ChosenReference(Top.self)))
  /\ UNCHANGED <<next_event_, conflict_detected_, live, matching, shared_object_>>

-----------------------------------------------------------------------------
(* ObjectMatches, for one pair after the other: a shared object that is    *)
(* new with an unbound reference binds the two, once.                      *)
ObjectMatches(found, S, ref, new_objects) ==
  IF S \in new_objects /\ ref \in found.unbound
  THEN IF S \in DOMAIN found.new THEN [found EXCEPT !.ok = FALSE]
       ELSE [found EXCEPT !.new = [T \in DOMAIN @ \cup {S} |-> IF T = S THEN ref ELSE @[T]],
                          !.unbound = @ \ {ref}]
  ELSE IF S \in DOMAIN found.new /\ found.new[S] = ref THEN found
  ELSE [found EXCEPT !.ok = @ /\ HasObjectReference(S, ref)]

ValueMatches(found, committed, pending, new_objects) ==
  IF committed.type # pending.type THEN [found EXCEPT !.ok = FALSE]
  ELSE IF committed.type = "OBJECT_REFERENCE"
  THEN ObjectMatches(found, committed.of, pending.of, new_objects)
  ELSE [found EXCEPT !.ok = @ /\ committed.of = pending.of]

NothingFound == [ok |-> TRUE, new |-> new_object_references_, unbound |-> unbound_object_references_]

MethodCallMatches(S, event, ref, method, parameter) ==
  LET found == ObjectMatches(NothingFound, S, ref, event.new_objects)
  IN IF found.ok /\ event.method = method
     THEN ValueMatches(found, event.values[1], parameter, event.new_objects)
     ELSE [found EXCEPT !.ok = FALSE]

Bind(found) ==
  /\ new_object_references_' = found.new
  /\ unbound_object_references_' = found.unbound

-----------------------------------------------------------------------------
(* The body of a method.                                                   *)

AtOp(op) == Replays /\ Top.at = "body" /\ Top.ops # <<>> /\ Top.ops[1].op = op
RestOfBody(label) == [Top EXCEPT !.at = label, !.ops = Tail(@)]

(* The interpreter changes the object: its own copy, or the shared node.   *)
Modify ==
  /\ AtOp("add")
  /\ IF Top.local = Null
     THEN node_' = node_ + 1 /\ SetTop(RestOfBody("body"))
     ELSE UNCHANGED node_ /\ SetTop([RestOfBody("body") EXCEPT !.local = @ + 1])
  /\ UNCHANGED <<next_event_, conflict_detected_, ref_count_, matching, references>>

(* CreateObject without a name, and with one.                              *)
CreateObject ==
  /\ AtOp("create")
  /\ shared_object_' = CreateUnboundObjectReference
  /\ unbound_object_references_' = unbound_object_references_ \cup {NewReference}
  /\ SetTop([RestOfBody("body") EXCEPT !.made = NewReference])
  /\ UNCHANGED <<next_event_, conflict_detected_, live, new_object_references_, object_references_>>

(* CreateBoundObjectReference.  No other thread asks for the named object, *)
(* so that looking for a reference and adding one is a single step.        *)
CreateNamedObject ==
  /\ AtOp("open")
  /\ IF object_references_[Named] = <<>>
     THEN /\ BoundReference(Named)
          /\ object_references_' = [object_references_ EXCEPT ![Named] = <<NewReference>>]
          /\ SetTop([RestOfBody("body") EXCEPT !.opened = NewReference])
     ELSE /\ SetTop([RestOfBody("body") EXCEPT !.opened = LastReference(Named)])
          /\ UNCHANGED references
  /\ UNCHANGED <<next_event_, conflict_detected_, live, matching>>

BeginTransaction ==
  /\ AtOp("begin") /\ NextIs("BEGIN_TRANSACTION")
  /\ GetNext /\ SetTop(RestOfBody("more"))
  /\ UNCHANGED <<conflict_detected_, live, matching, references>>

EndTransaction ==
  /\ AtOp("end") /\ NextIs("END_TRANSACTION")
  /\ GetNext /\ SetTop(RestOfBody("more"))
  /\ UNCHANGED <<conflict_detected_, live, matching, references>>

(* CallMethod through a reference of the object itself.                    *)
DoSelfMethodCall ==
  /\ AtOp("call") /\ CalleeIsSelf /\ NextIs("SELF_METHOD_CALL")
  /\ GetNext
  /\ LET method == Top.ops[1].method
         found == MethodCallMatches(Object, next_event_, Callee, method,
                                    ValueOf(Top.ops[1].with, Count, Top.made))
     IN /\ Bind(found)
        /\ IF found.ok
           THEN /\ stack' = Append([stack EXCEPT ![Len(stack)] = RestOfBody("more")],
                                   Frame("self", "called", method, Callee))
                /\ UNCHANGED conflict_detected_
           ELSE SetConflictDetected
  /\ UNCHANGED <<live, references>>

(* CallMethod of another object.  The method of the callee is not run: its *)
(* result is the recorded one.                                             *)
DoSubMethodCall ==
  /\ AtOp("call") /\ ~CalleeIsSelf /\ NextIs("SUB_METHOD_CALL")
  /\ GetNext
  /\ LET callee == next_event_.object
         found == MethodCallMatches(callee, next_event_, Callee, Top.ops[1].method,
                                    ValueOf(Top.ops[1].with, Count, Top.made))
     IN /\ IF callee = Object THEN UNCHANGED matching ELSE Bind(found)
        /\ IF callee # Object /\ found.ok
           THEN SetTop(RestOfBody("sub")) /\ UNCHANGED conflict_detected_
           ELSE SetConflictDetected
  /\ UNCHANGED <<live, references>>

SubMethodReturn ==
  /\ Replays
  /\ Top.at = "sub" /\ NextIs("SUB_METHOD_RETURN")
  /\ GetNext /\ SetTop([Top EXCEPT !.at = "more"])
  /\ UNCHANGED <<conflict_detected_, live, matching, references>>

(* The operations above return true when there is another event.           *)
Continue ==
  /\ Replays
  /\ Top.at = "more" /\ next_event_ # Null
  /\ SetTop([Top EXCEPT !.at = "body"])
  /\ UNCHANGED <<next_event_, conflict_detected_, live, matching, references>>

(* Mutated form, used to test RecordedIsReplayed.                          *)
MethodEndsDropsCopy ==
  /\ Replays
  /\ Top.at = "body" /\ Top.ops = <<>>
  /\ SetTop([Top EXCEPT !.at = "return", !.local = Null,
                        !.return_value = ValueOf(Methods[Top.method].result, Count, Top.made)])
  /\ UNCHANGED <<next_event_, conflict_detected_, live, matching, references>>

(* The end of a method: LiveObject::InvokeMethod makes the copy, if there  *)
(* is one, the node of the live object.                                    *)
MethodEnds ==
  /\ Replays
  /\ Top.at = "body" /\ Top.ops = <<>>
  /\ node_' = Count
  /\ ref_count_' = IF Top.local = Null THEN ref_count_ ELSE NewRefCount
  /\ SetTop([Top EXCEPT !.at = "return", !.local = Null,
                        !.return_value = ValueOf(Methods[Top.method].result, Count, Top.made)])
  /\ UNCHANGED <<next_event_, conflict_detected_, matching, references>>

(* What the method returned is compared with the event.                    *)
CheckReturnValue ==
  /\ GetNext
  /\ LET found == ValueMatches(NothingFound, next_event_.values[1], Top.return_value,
                               next_event_.new_objects)
     IN /\ Bind(found)
        /\ IF found.ok THEN stack' = SubSeq(stack, 1, Len(stack) - 1) /\ UNCHANGED conflict_detected_
           ELSE SetConflictDetected
  /\ UNCHANGED <<live, references>>

(* The end of DoMethodCall, and of DoSelfMethodCall.                       *)
MethodReturn ==
  Replays /\ Top.at = "return" /\ Top.kind = "method" /\ NextIs("METHOD_RETURN")
  /\ CheckReturnValue

SelfMethodReturn ==
  Replays /\ Top.at = "return" /\ Top.kind = "self" /\ NextIs("SELF_METHOD_RETURN")
  /\ CheckReturnValue

(* ReplayEvents after a conflict.                                          *)
DiscardEvent ==
  /\ Replays
  /\ Top.at = "discard" /\ next_event_ # Null
  /\ GetNext
  /\ UNCHANGED <<stack, conflict_detected_, live, matching, references>>

-----------------------------------------------------------------------------
(* The third thread calls GetOrCreateObjectReference.                      *)
NotOther == UNCHANGED <<stored, queue, replay_pc, stack, conflict_detected_, live, matching>>

OtherLooks ==
  /\ other_pc = "idle"
  /\ IF object_references_[Object] # <<>>
     THEN /\ other_ref' = LastReference(Object) /\ other_pc' = "done"
          /\ UNCHANGED shared_object_
     ELSE /\ BoundReference(Object)
          /\ other_ref' = NewReference /\ other_pc' = "insert"
  /\ NotOther /\ UNCHANGED object_references_

OtherInserts ==
  /\ other_pc = "insert"
  /\ InsertedReference(other_ref)
  /\ other_ref' = ChosenReference(other_ref) /\ other_pc' = "done"
  /\ NotOther /\ UNCHANGED shared_object_

-----------------------------------------------------------------------------
StoreStep ==
  \/ Start \/ Started \/ Apply \/ QueueEvent \/ QueueEventPush
  \/ FlushEvents \/ FlushEventsPush \/ FlushEventsWait
  \/ Stop \/ StopPush \/ WaitForPausedAndChangeToStopping \/ StopJoin \/ Stopped
  \/ CreateNewObjectReferences

ReplayStep ==
  \/ ReplayEvents \/ HasNextEvent \/ ChangeToPausedAndWaitForRunning \/ MoveToNextSequence
  \/ StopReplay \/ CheckNextEventTypeFails \/ DoMethodCall
  \/ InvokeMethod \/ InvokeMethodCreate \/ InvokeMethodInsert
  \/ Modify \/ CreateObject \/ CreateNamedObject \/ BeginTransaction \/ EndTransaction
  \/ DoSelfMethodCall \/ DoSubMethodCall \/ SubMethodReturn \/ Continue
  \/ MethodEnds \/ MethodReturn \/ SelfMethodReturn \/ DiscardEvent

OtherStep == OtherLooks \/ OtherInserts

Next == StoreStep \/ ReplayStep \/ OtherStep

Spec == Init /\ [][Next]_vars

(* The threads are POSIX threads that the scheduler runs.                  *)
FairSpec == Spec /\ WF_vars(StoreStep) /\ WF_vars(ReplayStep) /\ WF_vars(OtherStep)

-----------------------------------------------------------------------------
(* Properties.                                                             *)

(* What the CHECKs on the state of the two threads demand.                 *)
StateChecks ==
  /\ replay_pc = "paused" /\ state_ = "RUNNING" => next_event_ = Null /\ end_of_sequence_
  /\ store_pc = "stopped" => State!CheckState({"NOT_STARTED", "STOPPED"})
  /\ conflict_detected_ => Top.at = "discard"
  /\ \A S \in DOMAIN new_object_references_ :
       /\ shared_object_[new_object_references_[S]] \in {Null, S}
       /\ \A T \in DOMAIN new_object_references_ :
            new_object_references_[S] = new_object_references_[T] => S = T

(* No CHECK of the two threads fails: MoveToNextSequence finds the         *)
(* sequence at its end, a PlaybackThread is stopped when it is destroyed,  *)
(* a conflict is detected once, a reference that a replay bound to a new   *)
(* object is bound to no other one, and each thread may change the state   *)
(* that it finds to the new one, whatever the other one did to it between  *)
(* two of its operations (ChangeState).                                    *)
ChecksHold ==
  [][/\ StateChecks /\ StateChecks'
     /\ state_' # state_ /\ store_pc' # "start" => State!AllowedChange]_vars

(* A reference that GetOrCreateObjectReference returns is one that         *)
(* HasObjectReference finds, whatever other thread makes one at the same   *)
(* time: otherwise a call of the object itself would pass for a call of    *)
(* another object.                                                         *)
ReferencesFound ==
  /\ other_pc = "done" => HasObjectReference(Object, other_ref)
  /\ \A i \in DOMAIN stack :
       stack[i].kind # "replay" /\ stack[i].at \notin {"called", "insert"} =>
         HasObjectReference(Object, stack[i].self)

(* GetWorkingVersion always returns: no wait of the two threads for each   *)
(* other lasts, in the middle of a method call, after a conflict and in    *)
(* Stop included.                                                          *)
ReplayEnds == <>(store_pc = "finished")
=============================================================================
