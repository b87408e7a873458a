---------------------------- MODULE RecordingThread ----------------------------
(***************************************************************************)
(* RecordingThread (src/engine/recording_thread.cc) runs the interpreted   *)
(* program of a peer, one PendingTransaction at a time, against the rewind *)
(* state of TransactionStore (rejected_transaction_id_).  Any other thread *)
(* of the peer may reject a committed local transaction at any moment; the *)
(* recording thread notices at its next operation, returns from methods    *)
(* until it is back before the rejected transaction, and runs the method   *)
(* it has reached again.                                                   *)
(*                                                                         *)
(* The interpreted program is arbitrary: a running method may call a       *)
(* method, begin or end a transaction, create an object or return.  As     *)
(* method_context.h demands, it returns at once when an operation fails,   *)
(* and it ends the transactions it began.  A local transaction ID is its   *)
(* rank in commit order; 0 is MIN_TRANSACTION_ID.  What the objects contain *)
(* (modified_objects_ and its CHECKs) is left out.                         *)
(***************************************************************************)
EXTENDS Integers

CONSTANTS
  Linger,       \* the linger argument of RunProgram
  MaxDepth,     \* bound: nested method calls
  MaxOps,       \* bound: operations the interpreted program performs
  MaxRejects,   \* bound: rejections
  MaxObjects    \* bound: objects the program creates

ASSUME ConstantsAssumption ==
  /\ Linger \in BOOLEAN
  /\ MaxDepth \in Nat \ {0}
  /\ MaxOps \in Nat /\ MaxRejects \in Nat /\ MaxObjects \in Nat \ {0}

VARIABLES
  rejected_transaction_id_,  \* TransactionStore: the requested rewind
  last,          \* the last local transaction ID committed
  base_transaction_id_,  \* of *pending_transaction_
  transaction_level_,    \* of *pending_transaction_
  empty,                 \* has *pending_transaction_ no events?
  pending_new_objects,   \* new_objects_ of *pending_transaction_
  new_objects_,  \* objects created but in no committed transaction yet
  depth,         \* number of method calls in progress
  method_base,   \* method_base[d]: method_base_transaction_id of call d
  opened,        \* opened[d]: transactions the method at depth d has begun
  pc,            \* where the thread is
  ok,            \* did the method that returned last run to its end?
  created,       \* number of objects created
  ops,           \* operations performed
  line,          \* history: transactions of the execution as it stands
  failed_for,    \* history: the rejection that the last failed operation met
  rejects,       \* history: the transactions rejected
  superseded,    \* history: those whose pending rejection a later one replaced
  rejections     \* number of rejections

calls == <<depth, method_base, opened>>
pending == <<base_transaction_id_, transaction_level_, empty, pending_new_objects>>
commits == <<last, pending, new_objects_, line>>
program == <<created, ops>>
result == <<ok, failed_for>>
rejected == <<rejects, superseded, rejections>>
vars == <<rejected_transaction_id_, calls, commits, pc, result, program, rejected>>

Depths == 1..MaxDepth
TransactionId == Nat

TypeOK ==
  /\ rejected_transaction_id_ \in TransactionId
  /\ last \in TransactionId
  /\ base_transaction_id_ \in TransactionId
  /\ transaction_level_ \in Nat
  /\ empty \in BOOLEAN
  /\ pending_new_objects \subseteq Nat
  /\ new_objects_ \subseteq 1..created
  /\ depth \in 0..MaxDepth
  /\ method_base \in [Depths -> TransactionId]
  /\ opened \in [Depths -> Nat]
  /\ pc \in {"program", "record_call", "body", "record_begin", "record_end",
             "returned", "record_return", "linger", "done", "crashed"}
  /\ ok \in BOOLEAN
  /\ created \in Nat
  /\ ops \in Nat
  /\ line \subseteq TransactionId
  /\ failed_for \in TransactionId
  /\ rejects \subseteq TransactionId
  /\ superseded \subseteq TransactionId
  /\ rejections \in 0..MaxRejects

(* RunProgram has created the program object.                              *)
Init ==
  /\ rejected_transaction_id_ = 0
  /\ last = 0
  /\ base_transaction_id_ = 0
  /\ transaction_level_ = 0
  /\ empty = TRUE
  /\ pending_new_objects = {}
  /\ new_objects_ = {1}
  /\ depth = 0
  /\ method_base = [d \in Depths |-> 0]
  /\ opened = [d \in Depths |-> 0]
  /\ pc = "program"
  /\ ok = TRUE
  /\ created = 1
  /\ ops = 0
  /\ line = {}
  /\ failed_for = 0
  /\ rejects = {}
  /\ superseded = {}
  /\ rejections = 0

-----------------------------------------------------------------------------
(* Mutated forms of the definitions below, used to test the properties.    *)

PhaseKeepsRejectedBase(base) ==
  IF rejected_transaction_id_ = 0 THEN "NORMAL"
  ELSE IF base > rejected_transaction_id_ THEN "REWIND"
  ELSE "RESUME"

ClearAtOnce(base) == rejected_transaction_id_' = 0

ClearNever(base) == rejected_transaction_id_' = rejected_transaction_id_

CommitsInsideTransaction(has_prev) == ~empty \/ has_prev

RecordKeepsNewObjects(objects, commit, level) ==
  /\ last' = IF commit THEN last + 1 ELSE last
  /\ line' = IF commit THEN line \cup {last + 1} ELSE line
  /\ new_objects_' = IF commit THEN new_objects_ \ (pending_new_objects \cup objects)
                     ELSE new_objects_
  /\ base_transaction_id_' = IF commit THEN last + 1 ELSE base_transaction_id_
  /\ transaction_level_' = level
  /\ empty' = commit
  /\ pending_new_objects' = pending_new_objects \cup objects

BeginRaisesLevelFirst ==
  /\ pc = "record_begin"
  /\ transaction_level_' = transaction_level_ + 1
  /\ empty' = FALSE
  /\ opened' = [opened EXCEPT ![depth] = @ + 1]
  /\ pc' = "body"
  /\ UNCHANGED <<rejected_transaction_id_, last, base_transaction_id_, pending_new_objects,
                 new_objects_, line, depth, method_base, result, program, rejected>>

-----------------------------------------------------------------------------
(* The rewind state of TransactionStore.                                   *)

GetExecutionPhase(base) ==
  IF rejected_transaction_id_ = 0 THEN "NORMAL"
  ELSE IF base >= rejected_transaction_id_ THEN "REWIND"
  ELSE "RESUME"

(* GetExecutionPhase clears the rewind state when it answers RESUME.       *)
ClearOnResume(base) ==
  rejected_transaction_id_' =
    IF GetExecutionPhase(base) = "RESUME" THEN 0 ELSE rejected_transaction_id_

(* RejectTransactions on another thread, for local transaction t: a newer  *)
(* request overwrites an older one.                                        *)
RejectTransactions(t) ==
  /\ rejections < MaxRejects
  /\ rejected_transaction_id_' = t
  /\ rejects' = rejects \cup {t}
  /\ superseded' = IF rejected_transaction_id_ = 0 THEN superseded
                   ELSE superseded \cup {s \in rejects : s < t}
  /\ rejections' = rejections + 1
  /\ UNCHANGED <<calls, commits, pc, result, program>>

-----------------------------------------------------------------------------
(* Recording events.                                                       *)

(* Events that mention new objects are added to the pending transaction,   *)
(* which is then committed or stays open at the given level.               *)
(* CommitTransaction leaves the objects to the store and starts the next   *)
(* pending transaction.  The live objects in modified_objects_ are data    *)
(* that no step here depends on.                                           *)
RecordEvents(objects, commit, level) ==
  /\ last' = IF commit THEN last + 1 ELSE last
  /\ line' = IF commit THEN line \cup {last + 1} ELSE line
  /\ new_objects_' = IF commit THEN new_objects_ \ (pending_new_objects \cup objects)
                     ELSE new_objects_
  /\ base_transaction_id_' = IF commit THEN last + 1 ELSE base_transaction_id_
  /\ transaction_level_' = level
  /\ empty' = commit
  /\ pending_new_objects' = IF commit THEN {} ELSE pending_new_objects \cup objects

(* AddTransactionEvents: outside a transaction every event is committed,   *)
(* except the METHOD_CALL of the program itself, which has no caller.      *)
Commits(has_prev) == transaction_level_ = 0 /\ (~empty \/ has_prev)

AddTransactionEvents(objects, has_prev) ==
  RecordEvents(objects, Commits(has_prev), transaction_level_)

-----------------------------------------------------------------------------
(* The operation fails: RunProgram tries again, a method returns.          *)
Fail(d) ==
  /\ pc' = IF d = 0 THEN "program" ELSE "returned"
  /\ ok' = FALSE
  /\ failed_for' = rejected_transaction_id_

(* Rewinding(), at the start of an operation that goes on at next.         *)
Rewinding(next) ==
  /\ ClearOnResume(base_transaction_id_)
  /\ IF GetExecutionPhase(base_transaction_id_) = "NORMAL"
     THEN pc' = next /\ UNCHANGED result
     ELSE Fail(depth)

(* CallMethod, from RunProgram or from a method.                           *)
CallMethod ==
  /\ pc \in {"program", "body"}
  /\ depth < MaxDepth
  /\ pc = "body" => ops < MaxOps
  /\ Rewinding("record_call")
  /\ ops' = IF pc = "body" THEN ops + 1 ELSE ops
  /\ UNCHANGED <<calls, commits, created, rejected>>

(* CallMethod records METHOD_CALL with the new objects it mentions, and    *)
(* CallMethodHelper invokes the method.                                    *)
RecordMethodCall(objects) ==
  /\ pc = "record_call"
  /\ AddTransactionEvents(objects, depth > 0)
  /\ depth' = depth + 1
  /\ method_base' = [method_base EXCEPT ![depth + 1] = base_transaction_id_']
  /\ opened' = [opened EXCEPT ![depth + 1] = 0]
  /\ pc' = "body"
  /\ UNCHANGED <<rejected_transaction_id_, result, program, rejected>>

BeginTransaction ==
  /\ pc = "body"
  /\ ops < MaxOps
  /\ Rewinding("record_begin")
  /\ ops' = ops + 1
  /\ UNCHANGED <<calls, commits, created, rejected>>

(* The BEGIN_TRANSACTION event is committed before the level rises.        *)
RecordBeginTransaction ==
  /\ pc = "record_begin"
  /\ RecordEvents({}, Commits(TRUE), transaction_level_ + 1)
  /\ opened' = [opened EXCEPT ![depth] = @ + 1]
  /\ pc' = "body"
  /\ UNCHANGED <<rejected_transaction_id_, depth, method_base, result, program, rejected>>

EndTransaction ==
  /\ pc = "body"
  /\ opened[depth] > 0
  /\ Rewinding("record_end")
  /\ UNCHANGED <<calls, commits, program, rejected>>

(* DecrementTransactionLevel CHECKs that the level is positive; the        *)
(* outermost EndTransaction commits.                                       *)
RecordEndTransaction ==
  /\ pc = "record_end"
  /\ IF transaction_level_ = 0
     THEN /\ pc' = "crashed"
          /\ UNCHANGED <<commits, opened>>
     ELSE /\ RecordEvents({}, transaction_level_ = 1, transaction_level_ - 1)
          /\ opened' = [opened EXCEPT ![depth] = @ - 1]
          /\ pc' = "body"
  /\ UNCHANGED <<rejected_transaction_id_, depth, method_base, result, program, rejected>>

CreateObject ==
  /\ pc = "body"
  /\ created < MaxObjects /\ ops < MaxOps
  /\ created' = created + 1 /\ ops' = ops + 1
  /\ new_objects_' = new_objects_ \cup {created + 1}
  /\ UNCHANGED <<rejected_transaction_id_, calls, last, pending, line, pc, result, rejected>>

(* The interpreted method runs to its end.                                 *)
ReturnFromMethod ==
  /\ pc = "body"
  /\ opened[depth] = 0
  /\ pc' = "returned"
  /\ ok' = TRUE
  /\ UNCHANGED <<rejected_transaction_id_, calls, commits, failed_for, program, rejected>>

(* CallMethodHelper, after InvokeMethod.  RESUME runs the method again on  *)
(* a fresh pending transaction with the base it had; the transactions      *)
(* after that base are no longer part of the execution.                    *)
CallMethodHelper ==
  /\ pc = "returned"
  /\ ClearOnResume(method_base[depth])
  /\ \/ /\ GetExecutionPhase(method_base[depth]) = "NORMAL"
        /\ pc' = "record_return"
        /\ UNCHANGED <<calls, commits, result>>
     \/ /\ GetExecutionPhase(method_base[depth]) = "REWIND"
        /\ depth' = depth - 1
        /\ Fail(depth - 1)
        /\ UNCHANGED <<method_base, opened, commits>>
     \/ /\ GetExecutionPhase(method_base[depth]) = "RESUME"
        /\ base_transaction_id_' = method_base[depth]
        /\ transaction_level_' = 0
        /\ empty' = TRUE
        /\ pending_new_objects' = {}
        /\ opened' = [opened EXCEPT ![depth] = 0]
        /\ line' = {t \in line : t <= method_base[depth]}
        /\ pc' = "body"
        /\ UNCHANGED <<depth, method_base, last, new_objects_, result>>
  /\ UNCHANGED <<program, rejected>>

(* CallMethod records METHOD_RETURN and returns true.                      *)
RecordMethodReturn(objects) ==
  /\ pc = "record_return"
  /\ AddTransactionEvents(objects, TRUE)
  /\ depth' = depth - 1
  /\ pc' = IF depth > 1 THEN "body" ELSE IF Linger THEN "linger" ELSE "done"
  /\ UNCHANGED <<rejected_transaction_id_, method_base, opened, result, program, rejected>>

(* WaitForRewind; then RunProgram calls the program's method once more.    *)
WaitForRewind ==
  /\ pc = "linger"
  /\ rejected_transaction_id_ # 0
  /\ rejected_transaction_id_' = 0
  /\ line' = {}
  /\ pc' = "program"
  /\ UNCHANGED <<calls, last, pending, new_objects_, result, program, rejected>>

ThreadStep ==
  \/ CallMethod
  \/ \E objects \in SUBSET new_objects_ : RecordMethodCall(objects)
  \/ BeginTransaction \/ RecordBeginTransaction
  \/ EndTransaction \/ RecordEndTransaction
  \/ CreateObject
  \/ ReturnFromMethod
  \/ CallMethodHelper
  \/ \E objects \in SUBSET new_objects_ : RecordMethodReturn(objects)
  \/ WaitForRewind

Next == ThreadStep \/ \E t \in 1..last : RejectTransactions(t)

Spec == Init /\ [][Next]_vars

(* The recording thread is a thread the scheduler runs, and the program    *)
(* terminates (MaxOps bounds its operations).                              *)
FairSpec == Spec /\ WF_vars(ThreadStep)

-----------------------------------------------------------------------------
(* Each method in progress was called after its caller, and nothing in the *)
(* execution is newer than the base of the pending transaction: rewinding  *)
(* to a method never leaves a later transaction of an outer method behind. *)
StackMonotone ==
  /\ \A d, e \in 1..depth : d <= e => method_base[d] <= method_base[e]
  /\ \A d \in 1..depth : method_base[d] <= base_transaction_id_
  /\ \A t \in line : t <= base_transaction_id_
  /\ base_transaction_id_ <= last

(* The CHECK of CommitTransaction: an object the pending transaction       *)
(* creates is still recorded as new, also after a rewind has discarded the *)
(* transaction that was to create it.                                      *)
NewObjectsTracked == pending_new_objects \subseteq new_objects_

(* transaction_store.h: all transactions starting with the rejected one    *)
(* have been rejected, and the thread rewinds past the first.  Once the    *)
(* rewind state is cleared, no rejected transaction is part of the         *)
(* execution any more, however rejections overlap and however late they    *)
(* come, unless a rejection of a later transaction replaced it while it    *)
(* was pending.                                                            *)
RewindComplete == rejected_transaction_id_ = 0 => line \cap rejects \subseteq superseded

(* method_context.h and local_object.h: a method that returned because an  *)
(* operation failed has not succeeded.  CallMethod does not record its     *)
(* return while the transaction whose rejection made it fail is part of    *)
(* the execution; it does record it when that one was rewound before.      *)
AbortedNotCompleted == pc = "record_return" /\ ~ok => failed_for \notin line

(* DecrementTransactionLevel's CHECK_GT holds for a program that ends the  *)
(* transactions it begins.                                                 *)
LevelCheckHolds == pc # "crashed"

NoTransactionOpen == \A d \in 1..depth : opened[d] = 0

(* method_context.h: method calls executed within a transaction are not    *)
(* propagated until the outermost transaction is committed.  No step       *)
(* commits while a method in progress has a transaction open, except the   *)
(* one that begins it (its event is committed on its own) or ends it.      *)
TransactionAtomic ==
  [][last' # last => NoTransactionOpen \/ NoTransactionOpen']_vars

(* transaction_store.h: the recording thread rewinds and then resumes.  In *)
(* linger mode a requested rewind does not stay pending forever, wherever  *)
(* in the program the rejection reaches the thread, unless RunProgram      *)
(* meets one that names a transaction of an earlier run of the program.    *)
RewindHappens ==
  (rejected_transaction_id_ # 0) ~>
    (rejected_transaction_id_ = 0 \/ (pc = "program" /\ rejected_transaction_id_ \notin line))

(* The same comment without that exception: the rewind state is cleared    *)
(* again.                                                                  *)
RewindEnds == (rejected_transaction_id_ # 0) ~> (rejected_transaction_id_ = 0)

=============================================================================
