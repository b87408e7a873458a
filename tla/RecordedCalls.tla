----------------------------- MODULE RecordedCalls -----------------------------
(***************************************************************************)
(* The histories that PlaybackThread is given: what RecordingThread        *)
(* (src/engine/recording_thread.cc) records when it calls a method of the  *)
(* object, and how it cuts the events into transactions.                   *)
(***************************************************************************)
EXTENDS PlaybackThread, FiniteSets, SequencesExt

CommittedEvent(type, object, method, values, new_objects) ==
  [type |-> type, object |-> object, method |-> method, values |-> values,
   new_objects |-> new_objects]
SimpleEvent(type) == CommittedEvent(type, Null, Null, <<>>, {})

-----------------------------------------------------------------------------
(* What RecordingThread::CallMethod records on the peer that made a call.  *)
(* `made' is the object that a method got last, `new' that no event has    *)
(* named it yet, `level' the number of open transactions.                  *)
(*                                                                         *)
(* The live object of the pending transaction has a node, `node', that the *)
(* method changes in place unless another live object, `sharer', has the   *)
(* same one: the OBJECT_CREATION event, the version that ObjectContent has *)
(* cached, or the method that makes a nested call.  Then it changes a      *)
(* copy, `local'.                                                          *)

NewIn(run, uses) == IF run.new /\ "made" \in uses THEN {run.made} ELSE {}

CountIn(run) == IF run.local = Null THEN run.node ELSE run.local

(* Outside a transaction the first event is committed, and its live object *)
(* takes the place of the cached one.                                      *)
SharerNow(call, run) ==
  IF run.sharer = "cache" /\ ~call.whole /\ run.events # <<>> THEN "none" ELSE run.sharer

RECURSIVE RecordBody(_, _, _, _, _)
(* In a transaction a nested call of the object itself gets the live       *)
(* object of the method that makes it (PendingTransaction::GetLiveObject). *)
(* Outside, the SELF_METHOD_CALL is committed, and it gets a clone.        *)
RecordBody(call, method, node, sharer, level) ==
  LET Step(run, op) ==
        CASE op.op = "add" -> IF run.local = Null THEN [run EXCEPT !.node = @ + 1]
                              ELSE [run EXCEPT !.local = @ + 1]
          [] op.op = "create" -> [run EXCEPT !.made = call.fresh, !.new = TRUE]
          [] op.op = "open" -> run
          [] op.op = "begin" ->
               [run EXCEPT !.level = @ + 1,
                           !.events = Append(@, SimpleEvent("BEGIN_TRANSACTION"))]
          [] op.op = "end" ->
               [run EXCEPT !.level = @ - 1,
                           !.events = Append(@, SimpleEvent("END_TRANSACTION"))]
          [] op.op = "call" /\ op.on # "self" ->
               [run EXCEPT
                 !.new = @ /\ "made" \notin {op.on, op.with},
                 !.events = @ \o
                   <<CommittedEvent("SUB_METHOD_CALL",
                                    IF op.on = "made" THEN run.made ELSE Named, op.method,
                                    <<ValueOf(op.with, CountIn(run), run.made)>>,
                                    NewIn(run, {op.on, op.with})),
                     CommittedEvent("SUB_METHOD_RETURN", Null, Null, <<EmptyValue>>, {})>>]
          [] op.op = "call" /\ op.on = "self" ->
               LET same == call.whole \/ run.level > 0
                   inner == RecordBody(call, op.method, run.node,
                                       IF same THEN SharerNow(call, run) ELSE "caller", run.level)
               IN [run EXCEPT
                    !.node = IF same THEN CountIn(inner) ELSE @,
                    !.sharer = IF same THEN "none" ELSE @,
                    !.cloned = @ \/ ~same \/ inner.cloned,
                    !.events = @ \o
                      <<CommittedEvent("SELF_METHOD_CALL", Null, op.method,
                                       <<ValueOf(op.with, CountIn(run), run.made)>>, {})>> \o
                      inner.events \o
                      <<CommittedEvent("SELF_METHOD_RETURN", Null, Null,
                                       <<ValueOf(Methods[op.method].result, CountIn(inner),
                                                 inner.made)>>, {})>>]
  IN FoldLeft(Step, [node |-> node, sharer |-> sharer, level |-> level,
                     local |-> IF sharer = "none" THEN Null ELSE node,
                     made |-> Null, new |-> FALSE, cloned |-> FALSE, events |-> <<>>],
              Methods[method].ops)

(* The events of a call, the counter after it, and whether nested calls    *)
(* worked on a clone.                                                      *)
Record(call) ==
  LET start == CommittedEvent("METHOD_CALL", Null, call.method, <<EmptyValue>>, {})
      Return(run) == CommittedEvent("METHOD_RETURN", Null, Null,
                       <<ValueOf(Methods[call.method].result, CountIn(run), run.made)>>,
                       NewIn(run, {Methods[call.method].result}))
      Whole(run) == [count |-> CountIn(run), cloned |-> run.cloned,
                     events |-> <<start>> \o run.events \o <<Return(run)>>]
  IN Whole(RecordBody(call, call.method, call.seen, call.sharer, 0))

(* AddTransactionEvents commits after every event outside a transaction,   *)
(* but not after the METHOD_CALL of the program itself, which creates the  *)
(* object.                                                                 *)
Commits(call, events, i) ==
  LET NumberOf(type) == Cardinality({j \in 1..i : events[j].type = type})
  IN /\ NumberOf("BEGIN_TRANSACTION") <= NumberOf("END_TRANSACTION") + 1
     /\ events[i].type # "BEGIN_TRANSACTION" =>
          NumberOf("BEGIN_TRANSACTION") = NumberOf("END_TRANSACTION")
     /\ events[i].type # "OBJECT_CREATION"
     /\ events[i].type = "METHOD_CALL" => ~call.creates

(* The transactions of a call: one when the caller is in a transaction.    *)
(* The first use of an object by the peer that creates it starts with an   *)
(* OBJECT_CREATION event.                                                  *)
ObjectCreationEvents(call) ==
  IF call.creates THEN <<SimpleEvent("OBJECT_CREATION")>> ELSE <<>>

TransactionsOf(call) ==
  LET Cut(events, i, parts) ==
        LET open == Append(parts.open, events[i])
        IN IF Commits(call, events, i) THEN [done |-> Append(parts.done, open), open |-> <<>>]
           ELSE [parts EXCEPT !.open = open]
      Parts(events) ==
        IF call.whole THEN <<events>>
        ELSE FoldLeft(LAMBDA parts, i : Cut(events, i, parts), [done |-> <<>>, open |-> <<>>],
                      [i \in 1..Len(events) |-> i]).done
  IN Parts(ObjectCreationEvents(call) \o Record(call).events)

-----------------------------------------------------------------------------
(* Properties.                                                             *)

(* The method calls the object itself only before it changes it, and only  *)
(* to read.                                                                *)
ReadsFirst(method) ==
  LET ops == Methods[method].ops
  IN \A i \in DOMAIN ops :
       ops[i].on = "self" => /\ \A j \in 1..i : ops[j].op # "add"
                             /\ Methods[ops[i].method].ops = <<>>

(* The replay changes a copy in the first method after OBJECT_CREATION and *)
(* works in place in the others, on one live object throughout.  The call  *)
(* was recorded that way, or its nested calls cannot tell.                 *)
NestsAsReplayed(i) ==
  LET call == history.calls[i]
  IN \/ ReadsFirst(call.method)
     \/ ~Record(call).cloned /\ (call.sharer # "none" <=> i = 1)

(* Calls that were recorded one after the other, each on the result of the *)
(* one before.                                                             *)
Sequential ==
  /\ history.sequential
  /\ \A i \in DOMAIN history.calls :
       history.calls[i].seen = IF i = 1 THEN 0 ELSE Record(history.calls[i - 1]).count

(* Calls that were recorded in sequence replay without a conflict and give *)
(* the recorded object, provided that their nested calls of the object     *)
(* itself met a copy where the replay makes one, and the object itself     *)
(* where it works in place.  The recording thread does not see to that:    *)
(* LiveObjectNode::InvokeMethod copies a node that the cache shares, and a *)
(* nested call outside a transaction works on a clone.                     *)
RecordedIsReplayed ==
  \A i \in DOMAIN results :
    Sequential /\ (\A j \in DOMAIN history.calls : NestsAsReplayed(j)) =>
      /\ results[i].rejected = {}
      /\ results[i].count = Record(Last(history.calls)).count

(* The transactions of a call are not rejected if no other call had a      *)
(* transaction before or between them and its nested calls are replayed as *)
(* recorded, except in one case: a later transaction was rejected, and the *)
(* replay that GetWorkingVersion starts over still has the binding of a    *)
(* new object that the call made in the replay before, so that             *)
(* ObjectMatches fails.                                                    *)
FirstCallKept ==
  \A i \in DOMAIN results : \A t \in results[i].rejected :
    NestsAsReplayed(1) =>
      \/ \E u \in 1..t : history.owner[u] # history.owner[1]
      \/ /\ \E u \in results[i].rejected : u > t
         /\ \E u \in 1..t : \E e \in Range(history.transactions[u]) : e.new_objects # {}
================================================================================
