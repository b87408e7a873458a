------------------------ MODULE RecordingThread_proofs ------------------------
(***************************************************************************)
(* Proofs about RecordingThread, for every interpreted program, every      *)
(* bound and every pattern of rejections.                                  *)
(***************************************************************************)
EXTENDS RecordingThread, TLAPS

InMethod == {"body", "record_begin", "record_end", "returned", "record_return"}

(* Where the thread can be, and with how many calls in progress.           *)
PcInv ==
  /\ pc \in InMethod => depth > 0
  /\ pc \in {"program", "linger", "done"} => depth = 0
  /\ pc = "record_call" => depth < MaxDepth
  /\ pc = "record_end" => opened[depth] > 0

(* Only committed transactions are rejected.                               *)
RejectedCommitted ==
  /\ rejected_transaction_id_ <= last
  /\ \A t \in rejects : t <= last

BaseInv == TypeOK /\ PcInv /\ StackMonotone /\ RejectedCommitted /\ NewObjectsTracked

LEMMA BaseInit == Init => BaseInv
BY ConstantsAssumption DEF Init, BaseInv, TypeOK, PcInv, StackMonotone, RejectedCommitted,
   NewObjectsTracked, TransactionId, Depths, InMethod

(* An operation that starts with Rewinding() and changes nothing else.     *)
LEMMA BaseRewinding ==
  ASSUME BaseInv, NEW next \in {"record_call", "record_begin", "record_end"},
         Rewinding(next), UNCHANGED <<calls, commits, created, rejected>>,
         ops' \in Nat,
         pc \in {"program", "body"},
         pc = "program" => next = "record_call",
         next = "record_call" => depth < MaxDepth,
         next = "record_end" => opened[depth] > 0
  PROVE  BaseInv'
<1> USE ConstantsAssumption
<1>1. TypeOK'
  BY Zenon DEF BaseInv, TypeOK, Rewinding, ClearOnResume, GetExecutionPhase, Fail, calls, commits,
         pending, result, rejected, TransactionId, Depths
<1>2. PcInv'
  BY DEF BaseInv, TypeOK, PcInv, Rewinding, Fail, calls, InMethod
<1>3. StackMonotone' /\ NewObjectsTracked'
  BY DEF BaseInv, StackMonotone, NewObjectsTracked, calls, commits, pending
<1>4. RejectedCommitted'
  BY DEF BaseInv, TypeOK, RejectedCommitted, Rewinding, ClearOnResume, commits, rejected, TransactionId
<1> QED BY <1>1, <1>2, <1>3, <1>4 DEF BaseInv

(* What recording events does to the pending transaction and the commits.  *)
Recorded ==
  /\ last' \in TransactionId /\ base_transaction_id_' \in TransactionId
  /\ transaction_level_' \in Nat /\ empty' \in BOOLEAN
  /\ pending_new_objects' \subseteq Nat /\ new_objects_' \subseteq 1..created'
  /\ line' \subseteq TransactionId
  /\ NewObjectsTracked' /\ RejectedCommitted'
  /\ base_transaction_id_ <= base_transaction_id_'
  /\ base_transaction_id_' <= last'
  /\ \A t \in line' : t <= base_transaction_id_'

LEMMA BaseRecord ==
  ASSUME BaseInv, NEW commit \in BOOLEAN, NEW objects \in SUBSET new_objects_,
         NEW level \in Nat, RecordEvents(objects, commit, level),
         UNCHANGED <<created, rejected_transaction_id_, rejects>>
  PROVE  Recorded
<1>1. /\ last \in Nat /\ base_transaction_id_ \in Nat
      /\ base_transaction_id_ <= last
      /\ line \subseteq Nat /\ (\A t \in line : t <= base_transaction_id_)
      /\ new_objects_ \subseteq 1..created /\ created \in Nat
      /\ pending_new_objects \subseteq new_objects_
      /\ rejected_transaction_id_ \in Nat /\ rejected_transaction_id_ <= last
      /\ rejects \subseteq Nat /\ (\A t \in rejects : t <= last)
  BY DEF BaseInv, TypeOK, TransactionId, StackMonotone, RejectedCommitted, NewObjectsTracked
<1>2. CASE commit
  <2>1. /\ last' = last + 1 /\ base_transaction_id_' = last + 1
        /\ line' = line \cup {last + 1}
        /\ new_objects_' = new_objects_ \ (pending_new_objects \cup objects)
        /\ transaction_level_' = level /\ empty' = TRUE /\ pending_new_objects' = {}
    BY <1>2 DEF RecordEvents
  <2> QED BY <1>1, <2>1 DEF Recorded, TransactionId, NewObjectsTracked, RejectedCommitted
<1>3. CASE ~commit
  <2>1. /\ last' = last /\ base_transaction_id_' = base_transaction_id_
        /\ line' = line /\ new_objects_' = new_objects_
        /\ transaction_level_' = level /\ empty' = FALSE
        /\ pending_new_objects' = pending_new_objects \cup objects
    BY <1>3 DEF RecordEvents
  <2>2. pending_new_objects' \subseteq Nat /\ new_objects_' \subseteq 1..created'
    BY <1>1, <2>1
  <2>3. NewObjectsTracked' /\ RejectedCommitted'
    BY <1>1, <2>1 DEF NewObjectsTracked, RejectedCommitted
  <2>4. /\ last' \in Nat /\ base_transaction_id_' \in Nat /\ line' \subseteq Nat
        /\ transaction_level_' \in Nat
        /\ base_transaction_id_ <= base_transaction_id_' /\ base_transaction_id_' <= last'
        /\ \A t \in line' : t <= base_transaction_id_'
    BY <1>1, <2>1
  <2>5. empty' \in BOOLEAN
    BY <2>1, Zenon
  <2> QED BY <2>2, <2>3, <2>4, <2>5 DEF Recorded, TransactionId
<1> QED BY <1>2, <1>3

LEMMA BaseRecordMethodCall ==
  ASSUME BaseInv, NEW objects \in SUBSET new_objects_, RecordMethodCall(objects)
  PROVE  BaseInv'
<1> USE ConstantsAssumption DEF RecordMethodCall
<1>1. RecordEvents(objects, Commits(depth > 0), transaction_level_)
  BY DEF AddTransactionEvents
<1>2. Commits(depth > 0) \in BOOLEAN /\ transaction_level_ \in Nat
  BY DEF Commits, BaseInv, TypeOK
<1>3. UNCHANGED <<created, ops, ok, failed_for, rejected_transaction_id_, rejects, superseded,
                  rejections>>
  BY DEF program, result, rejected
<1>4. Recorded
  BY <1>1, <1>2, <1>3, BaseRecord
<1>5. depth' = depth + 1 /\ depth + 1 \in Depths
  BY DEF BaseInv, TypeOK, PcInv, Depths
<1>6. TypeOK'
  BY <1>3, <1>4, <1>5 DEF BaseInv, TypeOK, Recorded, Depths
<1>7. PcInv'
  BY <1>5 DEF BaseInv, TypeOK, PcInv, InMethod
<1>8. StackMonotone'
  <2>1. /\ depth \in Nat /\ depth' = depth + 1
        /\ \A d \in 1..depth : method_base'[d] = method_base[d] /\ method_base[d] \in Nat
        /\ method_base'[depth + 1] = base_transaction_id_'
    BY <1>5 DEF BaseInv, TypeOK, Depths, TransactionId
  <2>2. /\ \A d, e \in 1..depth : d <= e => method_base[d] <= method_base[e]
        /\ \A d \in 1..depth : method_base[d] <= base_transaction_id_
    BY DEF BaseInv, StackMonotone
  <2>3. base_transaction_id_ \in Nat /\ base_transaction_id_' \in Nat
        /\ base_transaction_id_ <= base_transaction_id_'
    BY <1>4 DEF BaseInv, TypeOK, Recorded, TransactionId
  <2>4. \A d \in 1..depth' : method_base'[d] <= base_transaction_id_'
    BY <2>1, <2>2, <2>3
  <2>5. \A d, e \in 1..depth' : d <= e => method_base'[d] <= method_base'[e]
    BY <2>1, <2>2, <2>3, <2>4
  <2> QED BY <1>4, <2>4, <2>5 DEF StackMonotone, Recorded
<1> QED BY <1>4, <1>6, <1>7, <1>8 DEF BaseInv, Recorded

(* Recording an event when the calls in progress stay the same or the      *)
(* innermost one ends.                                                     *)
LEMMA BaseStackKept ==
  ASSUME BaseInv, Recorded, UNCHANGED method_base, depth' \in 0..depth
  PROVE  StackMonotone'
<1>1. 1..depth' \subseteq 1..depth
  BY DEF BaseInv, TypeOK
<1>2. /\ \A d \in 1..depth : method_base[d] \in Nat /\ method_base[d] <= base_transaction_id_
      /\ base_transaction_id_ \in Nat /\ base_transaction_id_' \in Nat
      /\ base_transaction_id_ <= base_transaction_id_'
  BY ConstantsAssumption
     DEF BaseInv, TypeOK, StackMonotone, Recorded, Depths, TransactionId
<1> QED BY <1>1, <1>2 DEF BaseInv, StackMonotone, Recorded

LEMMA BaseRecordBegin ==
  ASSUME BaseInv, RecordBeginTransaction
  PROVE  BaseInv'
<1> USE ConstantsAssumption DEF RecordBeginTransaction
<1>1. RecordEvents({}, Commits(TRUE), transaction_level_ + 1)
  BY Zenon
<1>2. Commits(TRUE) \in BOOLEAN /\ transaction_level_ + 1 \in Nat /\ {} \in SUBSET new_objects_
  BY DEF Commits, BaseInv, TypeOK
<1>3. UNCHANGED <<created, ops, ok, failed_for, rejected_transaction_id_, rejects, superseded,
                  rejections>>
  BY DEF program, result, rejected
<1>4. Recorded
  BY <1>1, <1>2, <1>3, BaseRecord, Zenon
<1>5. depth \in Depths /\ depth' \in 0..depth
  BY DEF BaseInv, TypeOK, PcInv, InMethod, Depths
<1>6. TypeOK'
  BY <1>3, <1>4, <1>5 DEF BaseInv, TypeOK, Recorded, Depths
<1>7. PcInv'
  BY <1>5 DEF BaseInv, TypeOK, PcInv, InMethod, Depths
<1> QED BY <1>4, <1>5, <1>6, <1>7, BaseStackKept DEF BaseInv, Recorded

LEMMA BaseRecordEnd ==
  ASSUME BaseInv, RecordEndTransaction, transaction_level_ > 0
  PROVE  BaseInv'
<1> USE ConstantsAssumption DEF RecordEndTransaction
<1>2. /\ (transaction_level_ = 1) \in BOOLEAN /\ transaction_level_ - 1 \in Nat
      /\ {} \in SUBSET new_objects_
  BY DEF BaseInv, TypeOK
<1>3. UNCHANGED <<created, ops, ok, failed_for, rejected_transaction_id_, rejects, superseded,
                  rejections>>
  BY DEF program, result, rejected
<1>4. Recorded
  <2>1. RecordEvents({}, transaction_level_ = 1, transaction_level_ - 1)
    BY DEF BaseInv, TypeOK
  <2> QED BY <1>2, <1>3, <2>1, BaseRecord, Zenon
<1>5. depth \in Depths /\ depth' \in 0..depth /\ opened[depth] \in Nat \ {0}
  BY DEF BaseInv, TypeOK, PcInv, InMethod, Depths
<1>6. opened' = [opened EXCEPT ![depth] = @ - 1] /\ pc' = "body"
  BY DEF BaseInv, TypeOK
<1>7. TypeOK'
  BY <1>3, <1>4, <1>5, <1>6 DEF BaseInv, TypeOK, Recorded, Depths
<1>8. PcInv'
  BY <1>5, <1>6 DEF BaseInv, TypeOK, PcInv, InMethod, Depths
<1> QED BY <1>4, <1>5, <1>7, <1>8, BaseStackKept DEF BaseInv, Recorded

LEMMA BaseRecordMethodReturn ==
  ASSUME BaseInv, NEW objects \in SUBSET new_objects_, RecordMethodReturn(objects)
  PROVE  BaseInv'
<1> USE ConstantsAssumption DEF RecordMethodReturn
<1>1. RecordEvents(objects, Commits(TRUE), transaction_level_)
  BY Zenon DEF AddTransactionEvents
<1>2. Commits(TRUE) \in BOOLEAN /\ transaction_level_ \in Nat
  BY DEF Commits, BaseInv, TypeOK
<1>3. UNCHANGED <<created, ops, ok, failed_for, rejected_transaction_id_, rejects, superseded,
                  rejections>>
  BY DEF program, result, rejected
<1>4. Recorded
  BY <1>1, <1>2, <1>3, BaseRecord, Zenon
<1>5. depth \in Depths /\ depth' = depth - 1 /\ depth' \in 0..depth
  BY DEF BaseInv, TypeOK, PcInv, InMethod, Depths
<1>6. TypeOK'
  BY <1>3, <1>4, <1>5 DEF BaseInv, TypeOK, Recorded, Depths
<1>7. PcInv'
  BY <1>5 DEF BaseInv, TypeOK, PcInv, InMethod, Depths
<1> QED BY <1>4, <1>5, <1>6, <1>7, BaseStackKept DEF BaseInv, Recorded

LEMMA BaseCallMethodHelper ==
  ASSUME BaseInv, CallMethodHelper
  PROVE  BaseInv'
<1> USE ConstantsAssumption DEF CallMethodHelper
<1>1. /\ depth \in Depths /\ method_base[depth] \in Nat /\ method_base[depth] <= last
      /\ method_base[depth] <= base_transaction_id_
      /\ rejected_transaction_id_' \in Nat /\ rejected_transaction_id_' <= rejected_transaction_id_
      /\ UNCHANGED <<created, ops, rejects, superseded, rejections>>
  BY DEF BaseInv, TypeOK, PcInv, InMethod, Depths, TransactionId, StackMonotone, ClearOnResume,
         program, result, rejected
<1>2. CASE GetExecutionPhase(method_base[depth]) = "NORMAL"
  <2>1. pc' = "record_return" /\ UNCHANGED <<calls, commits, result>>
    BY <1>2
  <2>2. UNCHANGED <<last, base_transaction_id_, transaction_level_, empty, pending_new_objects,
                    new_objects_, line, depth, method_base, opened, ok, failed_for>>
    BY <2>1 DEF calls, commits, pending, result
  <2>3. TypeOK'
    BY <1>1, <2>1, <2>2 DEF BaseInv, TypeOK, TransactionId
  <2>4. PcInv'
    BY <1>1, <2>1, <2>2 DEF PcInv, InMethod, Depths
  <2>5. StackMonotone' /\ NewObjectsTracked' /\ RejectedCommitted'
    BY <1>1, <2>2 DEF BaseInv, TypeOK, StackMonotone, NewObjectsTracked, RejectedCommitted,
       TransactionId
  <2> QED BY <2>3, <2>4, <2>5 DEF BaseInv
<1>3. CASE GetExecutionPhase(method_base[depth]) = "REWIND"
  <2>1. depth' = depth - 1 /\ Fail(depth - 1) /\ UNCHANGED <<method_base, opened, commits>>
    BY <1>3
  <2>2. UNCHANGED <<last, base_transaction_id_, transaction_level_, empty, pending_new_objects,
                    new_objects_, line>>
    BY <2>1 DEF commits, pending
  <2>3. depth' \in 0..MaxDepth /\ 1..depth' \subseteq 1..depth
    BY <1>1, <2>1 DEF Depths
  <2>4. TypeOK'
    BY <1>1, <2>1, <2>2, <2>3, Zenon DEF BaseInv, TypeOK, Fail, TransactionId
  <2>5. PcInv'
    BY <1>1, <2>1, <2>3 DEF PcInv, Fail, InMethod, Depths
  <2>6. StackMonotone' /\ NewObjectsTracked' /\ RejectedCommitted'
    BY <1>1, <2>1, <2>2, <2>3 DEF BaseInv, TypeOK, StackMonotone, NewObjectsTracked,
       RejectedCommitted, TransactionId
  <2> QED BY <2>4, <2>5, <2>6 DEF BaseInv
<1>4. CASE GetExecutionPhase(method_base[depth]) = "RESUME"
  <2>1. /\ base_transaction_id_' = method_base[depth]
        /\ transaction_level_' = 0 /\ empty' = TRUE /\ pending_new_objects' = {}
        /\ opened' = [opened EXCEPT ![depth] = 0]
        /\ line' = {t \in line : t <= method_base[depth]}
        /\ pc' = "body"
        /\ UNCHANGED <<depth, method_base, last, new_objects_, result>>
    BY <1>4
  <2>2. TypeOK'
    BY <1>1, <2>1, Zenon DEF BaseInv, TypeOK, TransactionId, result
  <2>3. PcInv'
    BY <1>1, <2>1 DEF PcInv, InMethod, Depths
  <2>4. StackMonotone' /\ NewObjectsTracked' /\ RejectedCommitted'
    BY <1>1, <2>1 DEF BaseInv, TypeOK, StackMonotone, NewObjectsTracked, RejectedCommitted,
       TransactionId, Depths
  <2> QED BY <2>2, <2>3, <2>4 DEF BaseInv
<1> QED BY <1>2, <1>3, <1>4

(* The remaining steps, which record nothing.                              *)
LEMMA BaseOther ==
  ASSUME BaseInv,
         \/ CreateObject \/ ReturnFromMethod \/ WaitForRewind
         \/ \E t \in 1..last : RejectTransactions(t)
  PROVE  BaseInv'
<1> USE ConstantsAssumption DEF BaseInv, TypeOK, PcInv, StackMonotone, RejectedCommitted,
        NewObjectsTracked, InMethod, TransactionId, calls, commits, pending, program, result,
        rejected
<1>1. CASE CreateObject
  BY <1>1 DEF CreateObject
<1>2. CASE ReturnFromMethod
  BY <1>2 DEF ReturnFromMethod
<1>3. CASE WaitForRewind
  BY <1>3 DEF WaitForRewind
<1>4. CASE \E t \in 1..last : RejectTransactions(t)
  <2>1. PICK t \in 1..last : RejectTransactions(t)
    BY <1>4
  <2>2. superseded' \subseteq Nat
    BY <2>1 DEF RejectTransactions
  <2> QED BY <2>1, <2>2 DEF RejectTransactions
<1> QED BY <1>1, <1>2, <1>3, <1>4

(* The three operations of a method that begin with Rewinding().           *)
LEMMA BaseOperation ==
  ASSUME BaseInv, CallMethod \/ BeginTransaction \/ EndTransaction
  PROVE  BaseInv'
<1>1. ops \in Nat /\ ops + 1 \in Nat
  BY DEF BaseInv, TypeOK
<1>2. CASE CallMethod
  BY <1>1, <1>2, BaseRewinding DEF CallMethod
<1>3. CASE BeginTransaction
  BY <1>1, <1>3, BaseRewinding DEF BeginTransaction
<1>4. CASE EndTransaction
  BY <1>1, <1>4, BaseRewinding DEF EndTransaction, program
<1> QED BY <1>2, <1>3, <1>4

-----------------------------------------------------------------------------
(* entry[d] counts the transactions begun by the methods at depths 1..d.   *)
Counts(entry, n, op) ==
  /\ entry[0] = 0
  /\ \A d \in 1..n : entry[d] = entry[d - 1] + op[d]
  /\ \A d, e \in 0..n : d <= e => entry[d] <= entry[e]

(* The n-th method has some transactions open, the ones below as before.   *)
LEMMA CountsSet ==
  \A n \in 1..MaxDepth, entry \in [0..MaxDepth -> Nat] : \A op, op2 :
    Counts(entry, n - 1, op) /\ op2[n] \in Nat /\ (\A d \in 1..(n - 1) : op2[d] = op[d])
    => \E f \in [0..MaxDepth -> Nat] :
         Counts(f, n, op2) /\ \A d \in 0..(n - 1) : f[d] = entry[d]
<1> DEFINE N == MaxDepth
<1>0. N \in Nat
  BY ConstantsAssumption
<1> HIDE DEF N
<1> SUFFICES ASSUME NEW n \in 1..N, NEW entry \in [0..N -> Nat], NEW op, NEW op2,
                    Counts(entry, n - 1, op), op2[n] \in Nat,
                    \A d \in 1..(n - 1) : op2[d] = op[d]
             PROVE  \E f \in [0..N -> Nat] :
                      Counts(f, n, op2) /\ \A d \in 0..(n - 1) : f[d] = entry[d]
  BY Zenon DEF N
<1> USE <1>0
<1> DEFINE f == [d \in 0..N |-> IF d = n THEN entry[n - 1] + op2[n] ELSE entry[d]]
<1>1. f \in [0..N -> Nat] /\ f[n] = entry[n - 1] + op2[n] /\ \A d \in 0..(n - 1) : f[d] = entry[d]
  OBVIOUS
<1> HIDE DEF f
<1>2. f[0] = 0
  BY <1>1 DEF Counts
<1>3. ASSUME NEW d \in 1..n PROVE f[d] = f[d - 1] + op2[d]
  <2>1. CASE d = n
    <3>1. f[d - 1] = entry[n - 1]
      BY <1>1, <2>1
    <3> QED BY <1>1, <2>1, <3>1
  <2>2. CASE d \in 1..(n - 1)
    <3>1. f[d] = entry[d] /\ f[d - 1] = entry[d - 1] /\ op2[d] = op[d]
      BY <1>1, <2>2
    <3> QED BY <2>2, <3>1 DEF Counts
  <2> QED BY <2>1, <2>2
<1>4. ASSUME NEW d \in 0..n, NEW e \in 0..n, d <= e PROVE f[d] <= f[e]
  <2>1. \A c \in 0..(n - 1) :
          entry[c] \in Nat /\ entry[c] <= entry[n - 1] /\ f[c] = entry[c]
    BY <1>1 DEF Counts
  <2>2. CASE e = n
    <3>0. entry[n - 1] \in Nat /\ f[e] = entry[n - 1] + op2[n]
      BY <1>1, <2>2
    <3>1. CASE d = n
      BY <2>2, <3>0, <3>1
    <3>2. CASE d \in 0..(n - 1)
      <4>1. entry[d] \in Nat /\ entry[d] <= entry[n - 1] /\ f[d] = entry[d]
        BY <2>1, <3>2
      <4> QED BY <3>0, <4>1
    <3> QED BY <3>1, <3>2
  <2>3. CASE e \in 0..(n - 1)
    <3>1. d \in 0..(n - 1)
      BY <1>4, <2>3
    <3>2. f[d] = entry[d] /\ f[e] = entry[e]
      BY <2>1, <2>3, <3>1
    <3>3. entry[d] <= entry[e]
      BY <1>4, <2>3, <3>1 DEF Counts
    <3> QED BY <3>2, <3>3
  <2> QED BY <2>2, <2>3
<1>5. Counts(f, n, op2)
  BY <1>2, <1>3, <1>4 DEF Counts
<1> QED BY <1>1, <1>5, Zenon

(* The pending transaction is at least as many levels deep as the methods  *)
(* in progress have opened.  A method called inside a transaction has the  *)
(* newest commit as its base, because the BEGIN_TRANSACTION event is       *)
(* committed before the level rises: no rejection can make it RESUME.      *)
LevelWitness(entry) ==
  /\ Counts(entry, depth, opened)
  /\ entry[depth] <= transaction_level_
  /\ \A d \in 1..depth : entry[d - 1] > 0 => method_base[d] = last

LevelInv ==
  /\ transaction_level_ > 0 => base_transaction_id_ = last
  /\ \E entry \in [0..MaxDepth -> Nat] : LevelWitness(entry)

LEMMA LevelInit == Init => LevelInv
<1> SUFFICES ASSUME Init PROVE LevelInv
  OBVIOUS
<1>1. LevelWitness([d \in 0..MaxDepth |-> 0])
  BY ConstantsAssumption DEF Init, LevelWitness, Counts
<1> QED BY <1>1, ConstantsAssumption DEF Init, LevelInv

(* A pending transaction at level 0 has no transaction open around it.     *)
LEMMA LevelFacts ==
  ASSUME BaseInv, LevelInv
  PROVE  /\ \A d \in 1..depth : opened[d] <= transaction_level_
         /\ transaction_level_ = 0 => NoTransactionOpen
         /\ pc = "record_end" => transaction_level_ > 0
<1>1. PICK entry \in [0..MaxDepth -> Nat] : LevelWitness(entry)
  BY DEF LevelInv
<1>2. /\ MaxDepth \in Nat /\ depth \in 0..MaxDepth /\ transaction_level_ \in Nat
      /\ \A d \in 1..depth : opened[d] \in Nat /\ entry[d - 1] \in Nat /\ entry[d] \in Nat
  BY ConstantsAssumption DEF BaseInv, TypeOK, Depths
<1>3. \A d \in 1..depth : opened[d] <= transaction_level_
  BY <1>1, <1>2 DEF LevelWitness, Counts
<1>4. transaction_level_ = 0 => NoTransactionOpen
  BY <1>2, <1>3 DEF NoTransactionOpen
<1>5. pc = "record_end" => transaction_level_ > 0
  BY <1>2, <1>3 DEF BaseInv, PcInv, InMethod
<1> QED BY <1>3, <1>4, <1>5

(* What the level proofs use of the state.                                 *)
LEMMA LevelTypes ==
  ASSUME BaseInv
  PROVE  /\ MaxDepth \in Nat /\ depth \in 0..MaxDepth /\ transaction_level_ \in Nat
         /\ opened \in [1..MaxDepth -> Nat] /\ method_base \in [1..MaxDepth -> Nat]
         /\ last \in Nat /\ rejected_transaction_id_ \in Nat /\ rejected_transaction_id_ <= last
         /\ pc \in InMethod => depth \in 1..MaxDepth
BY ConstantsAssumption
   DEF BaseInv, TypeOK, PcInv, InMethod, Depths, TransactionId, RejectedCommitted

LEMMA LevelRecordMethodCall ==
  ASSUME BaseInv, LevelInv, NEW objects \in SUBSET new_objects_, RecordMethodCall(objects)
  PROVE  LevelInv'
<1>1. PICK entry \in [0..MaxDepth -> Nat] : LevelWitness(entry)
  BY DEF LevelInv
<1> DEFINE commit == Commits(depth > 0)
<1>2. /\ transaction_level_' = transaction_level_
      /\ commit => transaction_level_ = 0 /\ base_transaction_id_' = last'
      /\ ~commit => last' = last /\ base_transaction_id_' = base_transaction_id_
  BY DEF RecordMethodCall, AddTransactionEvents, RecordEvents, Commits
<1> HIDE DEF commit
<1>3. transaction_level_' > 0 => base_transaction_id_' = last'
  BY <1>2, LevelTypes DEF LevelInv
<1>4. /\ depth' = depth + 1 /\ depth < MaxDepth /\ depth \in Nat
      /\ opened' = [opened EXCEPT ![depth + 1] = 0]
      /\ method_base' = [method_base EXCEPT ![depth + 1] = base_transaction_id_']
  BY LevelTypes DEF RecordMethodCall, BaseInv, PcInv
<1>5. PICK f \in [0..MaxDepth -> Nat] :
        /\ Counts(f, depth', opened')
        /\ \A d \in 0..(depth' - 1) : f[d] = entry[d]
  <2>1. MaxDepth \in Nat /\ depth' \in 1..MaxDepth /\ depth' - 1 = depth
    BY <1>4, LevelTypes
  <2>2. opened'[depth'] \in Nat /\ \A d \in 1..(depth' - 1) : opened'[d] = opened[d]
    BY <1>4, LevelTypes
  <2>3. Counts(entry, depth' - 1, opened)
    BY <1>1, <2>1 DEF LevelWitness
  <2> QED BY <2>1, <2>2, <2>3, CountsSet, Zenon
<1>6. f[depth'] <= transaction_level_'
  <2>1. f[depth'] = entry[depth] + 0
    BY <1>4, <1>5, LevelTypes DEF Counts
  <2>2. entry[depth] \in Nat
    BY <1>4, LevelTypes, Zenon
  <2> QED BY <1>1, <1>2, <2>1, <2>2 DEF LevelWitness
<1>7. ASSUME NEW d \in 1..depth', f[d - 1] > 0 PROVE method_base'[d] = last'
  <2>1. d - 1 \in 0..depth /\ f[d - 1] = entry[d - 1] /\ entry[d - 1] <= entry[depth]
    BY <1>1, <1>4, <1>5 DEF LevelWitness, Counts
  <2>2. transaction_level_ > 0
    <3>1. d - 1 \in 0..MaxDepth /\ depth \in 0..MaxDepth
      BY <1>4, <2>1, LevelTypes
    <3>2. entry[d - 1] \in Nat /\ entry[depth] \in Nat
      BY <3>1
    <3> QED BY <1>1, <1>7, <2>1, <3>2, LevelTypes DEF LevelWitness
  <2>3. last' = last /\ base_transaction_id_' = last
    BY <1>2, <1>3, <2>2, LevelTypes
  <2>4. CASE d = depth + 1
    BY <1>4, <2>3, <2>4, LevelTypes
  <2>5. CASE d \in 1..depth
    BY <1>1, <1>4, <1>7, <2>1, <2>3, <2>5, LevelTypes DEF LevelWitness
  <2> QED BY <1>4, <2>4, <2>5
<1>8. LevelWitness(f)'
  BY <1>4, <1>5, <1>6, <1>7 DEF LevelWitness
<1> QED BY <1>3, <1>8 DEF LevelInv

(* What a witness says of the innermost method.                            *)
LEMMA EntryFacts ==
  ASSUME BaseInv, NEW entry \in [0..MaxDepth -> Nat], LevelWitness(entry),
         depth \in 1..MaxDepth
  PROVE  /\ entry[depth] \in Nat /\ entry[depth - 1] \in Nat /\ opened[depth] \in Nat
         /\ entry[depth] = entry[depth - 1] + opened[depth]
         /\ entry[depth] <= transaction_level_
         /\ \A d \in 1..depth : entry[d - 1] \in Nat /\ entry[d - 1] <= entry[depth - 1]
<1>1. \A d \in 1..depth : d - 1 \in 0..MaxDepth /\ d - 1 \in 0..depth /\ d - 1 <= depth - 1
  BY LevelTypes
<1>2. depth - 1 \in 0..depth /\ depth - 1 \in 0..MaxDepth /\ depth \in 0..MaxDepth
  BY LevelTypes
<1>3. \A d \in 1..depth : entry[d - 1] \in Nat
  BY <1>1
<1>4. entry[depth] \in Nat /\ entry[depth - 1] \in Nat /\ opened[depth] \in Nat
  BY <1>2, LevelTypes
<1>5. \A d \in 1..depth : entry[d - 1] <= entry[depth - 1]
  BY <1>1, <1>2 DEF LevelWitness, Counts
<1>6. entry[depth] = entry[depth - 1] + opened[depth] /\ entry[depth] <= transaction_level_
  BY DEF LevelWitness, Counts
<1> QED BY <1>3, <1>4, <1>5, <1>6

(* The innermost method now has k transactions open.                       *)
LEMMA LevelKept ==
  ASSUME BaseInv, NEW entry \in [0..MaxDepth -> Nat], LevelWitness(entry), NEW k \in Nat,
         depth \in 1..MaxDepth, UNCHANGED <<depth, method_base>>,
         opened' = [opened EXCEPT ![depth] = k],
         entry[depth - 1] + k <= transaction_level_',
         entry[depth - 1] > 0 => last' = last
  PROVE  \E f \in [0..MaxDepth -> Nat] : LevelWitness(f)'
<1>1. /\ Counts(entry, depth - 1, opened)
      /\ opened'[depth] = k
      /\ \A d \in 1..(depth - 1) : opened'[d] = opened[d]
  BY LevelTypes DEF LevelWitness, Counts
<1>2. PICK f \in [0..MaxDepth -> Nat] :
        Counts(f, depth, opened') /\ \A d \in 0..(depth - 1) : f[d] = entry[d]
  <2>1. opened'[depth] \in Nat /\ depth \in 1..MaxDepth /\ entry \in [0..MaxDepth -> Nat]
    BY <1>1
  <2> QED BY ONLY <1>1, <2>1, CountsSet, Zenon
<1>3. f[depth] <= transaction_level_'
  BY <1>1, <1>2 DEF Counts
<1>4. ASSUME NEW d \in 1..depth, f[d - 1] > 0 PROVE method_base'[d] = last'
  <2>1. d - 1 \in 0..depth /\ depth - 1 \in 0..depth /\ f[d - 1] = entry[d - 1]
    BY <1>2
  <2>2. entry[d - 1] \in Nat /\ entry[depth - 1] \in Nat
    BY EntryFacts, Zenon
  <2>3. entry[d - 1] <= entry[depth - 1]
    BY EntryFacts, Zenon
  <2>4. last' = last /\ method_base[d] = last
    BY <1>4, <2>1, <2>2, <2>3 DEF LevelWitness
  <2> QED BY <2>4
<1>5. LevelWitness(f)'
  BY <1>2, <1>3, <1>4 DEF LevelWitness
<1> QED BY <1>5

LEMMA LevelRecordBegin ==
  ASSUME BaseInv, LevelInv, RecordBeginTransaction
  PROVE  LevelInv'
<1>1. PICK entry \in [0..MaxDepth -> Nat] : LevelWitness(entry)
  BY DEF LevelInv
<1>2. /\ depth \in 1..MaxDepth /\ UNCHANGED <<depth, method_base>>
      /\ opened' = [opened EXCEPT ![depth] = opened[depth] + 1]
      /\ transaction_level_' = transaction_level_ + 1
      /\ transaction_level_ = 0 => base_transaction_id_' = last'
      /\ transaction_level_ # 0 => last' = last /\ base_transaction_id_' = base_transaction_id_
  BY LevelTypes DEF RecordBeginTransaction, RecordEvents, Commits, InMethod
<1>3. base_transaction_id_' = last'
  BY <1>2, LevelTypes DEF LevelInv
<1>4. /\ opened[depth] \in Nat
      /\ entry[depth - 1] \in Nat /\ entry[depth] \in Nat
      /\ entry[depth] = entry[depth - 1] + opened[depth]
      /\ entry[depth] <= transaction_level_
  BY <1>1, <1>2, EntryFacts, Zenon
<1>5. /\ opened[depth] + 1 \in Nat
      /\ entry[depth - 1] + (opened[depth] + 1) <= transaction_level_'
      /\ entry[depth - 1] > 0 => last' = last
  BY <1>2, <1>4, LevelTypes
<1>6. \E f \in [0..MaxDepth -> Nat] : LevelWitness(f)'
  BY <1>1, <1>2, <1>4, <1>5, LevelKept, Zenon
<1> QED BY <1>3, <1>6 DEF LevelInv

LEMMA LevelRecordEnd ==
  ASSUME BaseInv, LevelInv, RecordEndTransaction
  PROVE  LevelInv'
<1>1. PICK entry \in [0..MaxDepth -> Nat] : LevelWitness(entry)
  BY DEF LevelInv
<1>2. transaction_level_ > 0 /\ transaction_level_ \in Nat
  BY LevelFacts, LevelTypes DEF RecordEndTransaction
<1>3. /\ depth \in 1..MaxDepth /\ opened[depth] > 0 /\ UNCHANGED <<depth, method_base>>
      /\ opened' = [opened EXCEPT ![depth] = opened[depth] - 1]
      /\ transaction_level_' = transaction_level_ - 1
      /\ transaction_level_ # 1 => last' = last /\ base_transaction_id_' = base_transaction_id_
  BY <1>2, LevelTypes DEF RecordEndTransaction, RecordEvents, InMethod, BaseInv, PcInv
<1>4. transaction_level_' > 0 => base_transaction_id_' = last'
  BY <1>2, <1>3 DEF LevelInv
<1>5. /\ opened[depth] \in Nat
      /\ entry[depth - 1] \in Nat /\ entry[depth] \in Nat
      /\ entry[depth] = entry[depth - 1] + opened[depth]
      /\ entry[depth] <= transaction_level_
  BY <1>1, <1>3, EntryFacts, Zenon
<1>6. /\ opened[depth] - 1 \in Nat
      /\ entry[depth - 1] + (opened[depth] - 1) <= transaction_level_'
      /\ entry[depth - 1] > 0 => last' = last
  BY <1>2, <1>3, <1>5
<1>7. \E f \in [0..MaxDepth -> Nat] : LevelWitness(f)'
  BY <1>1, <1>3, <1>5, <1>6, LevelKept, Zenon
<1> QED BY <1>4, <1>7 DEF LevelInv

(* The innermost method is left.                                           *)
LEMMA LevelPop ==
  ASSUME BaseInv, NEW entry \in [0..MaxDepth -> Nat], LevelWitness(entry),
         depth \in 1..MaxDepth, depth' = depth - 1,
         UNCHANGED <<method_base, opened, transaction_level_>>,
         transaction_level_ > 0 => last' = last
  PROVE  LevelWitness(entry)'
<1>1. /\ entry[depth - 1] \in Nat /\ entry[depth] \in Nat
      /\ entry[depth - 1] <= entry[depth] /\ entry[depth] <= transaction_level_
  <2>1. /\ entry[depth] \in Nat /\ entry[depth - 1] \in Nat /\ opened[depth] \in Nat
        /\ entry[depth] = entry[depth - 1] + opened[depth]
        /\ entry[depth] <= transaction_level_
    BY EntryFacts, Zenon
  <2> QED BY ONLY <2>1
<1>2. Counts(entry, depth', opened')
  BY DEF LevelWitness, Counts
<1>3. ASSUME NEW d \in 1..depth', entry[d - 1] > 0 PROVE method_base'[d] = last'
  <2>1. d \in 1..depth /\ d - 1 \in 0..depth /\ d - 1 <= depth - 1 /\ depth - 1 \in 0..depth
    OBVIOUS
  <2>2. entry[d - 1] \in Nat /\ entry[d - 1] <= entry[depth - 1]
    BY <2>1, EntryFacts, Zenon
  <2>3. transaction_level_ > 0
    BY <1>1, <1>3, <2>2, LevelTypes
  <2> QED BY <1>3, <2>1, <2>3 DEF LevelWitness
<1> QED BY <1>1, <1>2, <1>3, LevelTypes DEF LevelWitness

LEMMA LevelRecordMethodReturn ==
  ASSUME BaseInv, LevelInv, NEW objects \in SUBSET new_objects_, RecordMethodReturn(objects)
  PROVE  LevelInv'
<1>1. PICK entry \in [0..MaxDepth -> Nat] : LevelWitness(entry)
  BY DEF LevelInv
<1>2. /\ depth \in 1..MaxDepth /\ depth' = depth - 1
      /\ UNCHANGED <<method_base, opened, transaction_level_>>
      /\ transaction_level_ > 0 => last' = last /\ base_transaction_id_' = base_transaction_id_
  BY LevelTypes DEF RecordMethodReturn, AddTransactionEvents, RecordEvents, Commits, InMethod
<1>3. LevelWitness(entry)'
  BY <1>1, <1>2, LevelPop
<1> QED BY <1>2, <1>3 DEF LevelInv

LEMMA LevelCallMethodHelper ==
  ASSUME BaseInv, LevelInv, CallMethodHelper
  PROVE  LevelInv'
<1>1. PICK entry \in [0..MaxDepth -> Nat] : LevelWitness(entry)
  BY DEF LevelInv
<1>2. depth \in 1..MaxDepth
  BY LevelTypes DEF CallMethodHelper, InMethod
<1>3. CASE UNCHANGED <<calls, commits>>
  BY <1>3, Zenon DEF LevelInv, LevelWitness, calls, commits, pending
<1>4. CASE depth' = depth - 1 /\ UNCHANGED <<method_base, opened, commits>>
  <2>1. UNCHANGED <<transaction_level_, last, base_transaction_id_>>
    BY <1>4 DEF commits, pending
  <2>2. LevelWitness(entry)'
    BY <1>1, <1>2, <1>4, <2>1, LevelPop
  <2> QED BY <2>1, <2>2 DEF LevelInv
<1>5. CASE /\ GetExecutionPhase(method_base[depth]) = "RESUME"
           /\ transaction_level_' = 0
           /\ opened' = [opened EXCEPT ![depth] = 0]
           /\ UNCHANGED <<depth, method_base, last>>
  <2>1. method_base[depth] \in Nat /\ method_base[depth] < rejected_transaction_id_
    BY <1>2, <1>5, LevelTypes DEF GetExecutionPhase
  <2>2. method_base[depth] # last
    BY <2>1, LevelTypes
  <2>3. entry[depth - 1] \in Nat /\ ~(entry[depth - 1] > 0)
    <3>1. entry[depth - 1] \in Nat
      BY <1>1, <1>2, EntryFacts, Zenon
    <3>2. entry[depth - 1] > 0 => method_base[depth] = last
      BY <1>1, <1>2 DEF LevelWitness
    <3> QED BY <2>2, <3>1, <3>2
  <2>4. 0 \in Nat /\ entry[depth - 1] + 0 <= transaction_level_'
    BY <1>5, <2>3
  <2>5. \E f \in [0..MaxDepth -> Nat] : LevelWitness(f)'
    BY <1>1, <1>2, <1>5, <2>3, <2>4, LevelKept, Zenon
  <2> QED BY <1>5, <2>5 DEF LevelInv
<1> QED BY <1>3, <1>4, <1>5 DEF CallMethodHelper

(* The other steps leave the calls and the pending transaction alone.      *)
LEMMA LevelOther ==
  ASSUME LevelInv,
         \/ CallMethod \/ BeginTransaction \/ EndTransaction
         \/ CreateObject \/ ReturnFromMethod \/ WaitForRewind
         \/ (\E t \in 1..last : RejectTransactions(t))
         \/ UNCHANGED vars
  PROVE  LevelInv'
<1>1. UNCHANGED <<depth, method_base, opened, transaction_level_, last, base_transaction_id_>>
  BY DEF CallMethod, BeginTransaction, EndTransaction, CreateObject, ReturnFromMethod,
     WaitForRewind, RejectTransactions, vars, calls, commits, pending
<1> QED BY <1>1, Zenon DEF LevelInv, LevelWitness

-----------------------------------------------------------------------------
(* The inductive invariant.                                                *)
IInv == BaseInv /\ LevelInv /\ LevelCheckHolds

LEMMA IInvInit == Init => IInv
BY BaseInit, LevelInit DEF IInv, LevelCheckHolds, Init

LEMMA IInvNext == IInv /\ [Next]_vars => IInv'
<1> SUFFICES ASSUME IInv, [Next]_vars PROVE IInv'
  OBVIOUS
<1>0. BaseInv /\ LevelInv /\ pc # "crashed"
  BY DEF IInv, LevelCheckHolds
<1>1. CASE CallMethod \/ BeginTransaction \/ EndTransaction
  <2>1. pc' # "crashed"
    BY <1>1 DEF CallMethod, BeginTransaction, EndTransaction, Rewinding, Fail
  <2> QED BY <1>0, <1>1, <2>1, BaseOperation, LevelOther DEF IInv, LevelCheckHolds
<1>2. CASE \E objects \in SUBSET new_objects_ : RecordMethodCall(objects)
  <2>1. PICK objects \in SUBSET new_objects_ : RecordMethodCall(objects)
    BY <1>2
  <2>2. pc' # "crashed"
    BY <2>1 DEF RecordMethodCall
  <2> QED BY <1>0, <2>1, <2>2, BaseRecordMethodCall, LevelRecordMethodCall
          DEF IInv, LevelCheckHolds
<1>3. CASE RecordBeginTransaction
  <2>1. pc' # "crashed"
    BY <1>3 DEF RecordBeginTransaction
  <2> QED BY <1>0, <1>3, <2>1, BaseRecordBegin, LevelRecordBegin DEF IInv, LevelCheckHolds
<1>4. CASE RecordEndTransaction
  <2>1. transaction_level_ > 0 /\ transaction_level_ \in Nat
    BY <1>0, <1>4, LevelFacts, LevelTypes DEF RecordEndTransaction
  <2>2. pc' # "crashed"
    BY <1>4, <2>1 DEF RecordEndTransaction
  <2> QED BY <1>0, <1>4, <2>1, <2>2, BaseRecordEnd, LevelRecordEnd DEF IInv, LevelCheckHolds
<1>5. CASE CreateObject \/ ReturnFromMethod \/ WaitForRewind
           \/ \E t \in 1..last : RejectTransactions(t)
  <2>1. pc' # "crashed"
    BY <1>0, <1>5 DEF CreateObject, ReturnFromMethod, WaitForRewind, RejectTransactions
  <2> QED BY <1>0, <1>5, <2>1, BaseOther, LevelOther DEF IInv, LevelCheckHolds
<1>6. CASE CallMethodHelper
  <2>1. pc' # "crashed"
    BY <1>6 DEF CallMethodHelper, Fail
  <2> QED BY <1>0, <1>6, <2>1, BaseCallMethodHelper, LevelCallMethodHelper
          DEF IInv, LevelCheckHolds
<1>7. CASE \E objects \in SUBSET new_objects_ : RecordMethodReturn(objects)
  <2>1. PICK objects \in SUBSET new_objects_ : RecordMethodReturn(objects)
    BY <1>7
  <2>2. pc' # "crashed"
    BY <2>1 DEF RecordMethodReturn
  <2> QED BY <1>0, <2>1, <2>2, BaseRecordMethodReturn, LevelRecordMethodReturn
          DEF IInv, LevelCheckHolds
<1>8. CASE UNCHANGED vars
  <2>1. BaseInv'
    BY <1>0, <1>8 DEF BaseInv, TypeOK, PcInv, StackMonotone, RejectedCommitted,
       NewObjectsTracked, vars, calls, commits, pending, program, result,
       rejected
  <2>2. LevelInv' /\ pc' # "crashed"
    BY <1>0, <1>8, LevelOther DEF vars
  <2> QED BY <2>1, <2>2 DEF IInv, LevelCheckHolds
<1> QED BY <1>1, <1>2, <1>3, <1>4, <1>5, <1>6, <1>7, <1>8 DEF Next, ThreadStep

(* The call stack is ordered, CommitTransaction's CHECK on new objects and *)
(* DecrementTransactionLevel's CHECK on the level never fail, whatever the *)
(* interpreted program does and whenever transactions are rejected.        *)
THEOREM RecordingChecks ==
  Spec => [](TypeOK /\ StackMonotone /\ NewObjectsTracked /\ LevelCheckHolds)
<1>1. IInv => TypeOK /\ StackMonotone /\ NewObjectsTracked /\ LevelCheckHolds
  BY DEF IInv, BaseInv
<1> QED BY <1>1, IInvInit, IInvNext, PTL DEF Spec

(* Every object that the pending events create is known as new, however    *)
(* commits and rewinds fall: CommitTransaction finds each of them.         *)
COROLLARY NewObjectsKept == Spec => []NewObjectsTracked
BY RecordingChecks, PTL

-----------------------------------------------------------------------------
(* Only the steps that record events commit a transaction.                 *)
LEMMA CommitSteps ==
  ASSUME IInv, [Next]_vars, last' # last
  PROVE  transaction_level_ = 0 \/ transaction_level_' = 0
<1>0. transaction_level_ \in Nat
  BY DEF IInv, BaseInv, TypeOK
<1>1. CASE \E objects \in SUBSET new_objects_ : RecordMethodCall(objects)
  BY <1>1 DEF RecordMethodCall, AddTransactionEvents, RecordEvents, Commits
<1>2. CASE \E objects \in SUBSET new_objects_ : RecordMethodReturn(objects)
  BY <1>2 DEF RecordMethodReturn, AddTransactionEvents, RecordEvents, Commits
<1>3. CASE RecordBeginTransaction
  BY <1>3 DEF RecordBeginTransaction, RecordEvents, Commits
<1>4. CASE RecordEndTransaction
  BY <1>0, <1>4 DEF RecordEndTransaction, RecordEvents, commits
<1> QED
  BY <1>1, <1>2, <1>3, <1>4
  DEF Next, ThreadStep, CallMethod, BeginTransaction, EndTransaction, CreateObject,
      ReturnFromMethod, CallMethodHelper, WaitForRewind, RejectTransactions, vars, commits

(* No step commits while a method in progress has a transaction open,      *)
(* except the one that begins it or ends it.                               *)
THEOREM RecordingAtomic == Spec => TransactionAtomic
<1>1. IInv => (transaction_level_ = 0 => NoTransactionOpen)
  BY LevelFacts DEF IInv
<1>2. IInv' => (transaction_level_ = 0 => NoTransactionOpen)'
  BY <1>1, PTL
<1>3. IInv /\ [Next]_vars => [last' # last => NoTransactionOpen \/ NoTransactionOpen']_vars
  BY <1>1, <1>2, CommitSteps, IInvNext
<1> QED BY <1>3, IInvInit, IInvNext, PTL DEF Spec, TransactionAtomic

-----------------------------------------------------------------------------
(* A method that failed has a rewind requested, or failed for a rejection  *)
(* of a transaction that was rewound before.                               *)
AbortInv ==
  /\ pc = "returned" /\ ~ok => rejected_transaction_id_ # 0 \/ failed_for > base_transaction_id_
  /\ pc = "record_return" /\ ~ok => failed_for > base_transaction_id_

LEMMA AbortInvNext ==
  ASSUME IInv, AbortInv, [Next]_vars
  PROVE  AbortInv'
<1>0. /\ rejected_transaction_id_ \in Nat /\ base_transaction_id_ \in Nat
      /\ pc \in InMethod => method_base[depth] \in Nat
  BY DEF IInv, BaseInv, TypeOK, PcInv, TransactionId, Depths
<1> USE <1>0 DEF AbortInv
<1>1. ASSUME NEW next \in {"record_call", "record_begin", "record_end"}, Rewinding(next),
             UNCHANGED commits
      PROVE  AbortInv'
  <2>1. CASE GetExecutionPhase(base_transaction_id_) = "NORMAL"
    BY <1>1, <2>1 DEF Rewinding
  <2>2. CASE GetExecutionPhase(base_transaction_id_) = "REWIND"
    <3>1. rejected_transaction_id_ # 0
      BY <2>2 DEF GetExecutionPhase
    <3>2. rejected_transaction_id_' = rejected_transaction_id_ /\ pc' \in {"program", "returned"}
      BY <1>1, <2>2 DEF Rewinding, ClearOnResume, Fail
    <3> QED BY <3>1, <3>2
  <2>3. CASE GetExecutionPhase(base_transaction_id_) = "RESUME"
    <3>1. base_transaction_id_ < rejected_transaction_id_
      BY <2>3 DEF GetExecutionPhase
    <3>2. failed_for' = rejected_transaction_id_ /\ pc' \in {"program", "returned"}
      BY <1>1, <2>3 DEF Rewinding, Fail
    <3> QED BY <1>1, <3>1, <3>2 DEF commits, pending
  <2> QED BY <2>1, <2>2, <2>3 DEF GetExecutionPhase
<1>2. CASE CallMethod \/ BeginTransaction \/ EndTransaction
  BY <1>1, <1>2 DEF CallMethod, BeginTransaction, EndTransaction
<1>3. CASE \/ \E objects \in SUBSET new_objects_ :
                RecordMethodCall(objects) \/ RecordMethodReturn(objects)
           \/ RecordBeginTransaction \/ RecordEndTransaction \/ WaitForRewind
  <2>1. pc' \notin {"returned", "record_return"}
    BY <1>3 DEF RecordMethodCall, RecordMethodReturn, RecordBeginTransaction,
       RecordEndTransaction, WaitForRewind
  <2> QED BY <2>1
<1>4. CASE CreateObject \/ ReturnFromMethod
  BY <1>4 DEF CreateObject, ReturnFromMethod
<1>5. CASE CallMethodHelper
  <2>1. CASE GetExecutionPhase(method_base[depth]) = "NORMAL"
    <3>1. rejected_transaction_id_ = 0 /\ pc = "returned"
      BY <1>5, <2>1 DEF GetExecutionPhase, CallMethodHelper
    <3>2. UNCHANGED <<ok, failed_for, base_transaction_id_>>
      BY <1>5, <2>1 DEF CallMethodHelper, result, commits, pending
    <3>3. pc' = "record_return"
      BY <1>5, <2>1 DEF CallMethodHelper
    <3> QED BY <3>1, <3>2, <3>3
  <2>2. CASE GetExecutionPhase(method_base[depth]) = "REWIND"
    <3>1. rejected_transaction_id_ # 0
      BY <2>2 DEF GetExecutionPhase
    <3>2. rejected_transaction_id_' = rejected_transaction_id_ /\ pc' \in {"program", "returned"}
      BY <1>5, <2>2 DEF CallMethodHelper, ClearOnResume, Fail
    <3> QED BY <3>1, <3>2
  <2>3. CASE GetExecutionPhase(method_base[depth]) = "RESUME"
    BY <1>5, <2>3 DEF CallMethodHelper
  <2> QED BY <2>1, <2>2, <2>3 DEF GetExecutionPhase
<1>6. CASE \E t \in 1..last : RejectTransactions(t)
  BY <1>6 DEF RejectTransactions, commits, pending, result
<1>7. CASE UNCHANGED vars
  BY <1>7 DEF vars, commits, pending, result
<1> QED BY <1>2, <1>3, <1>4, <1>5, <1>6, <1>7 DEF Next, ThreadStep

(* Whenever rejections arrive, the return of a method that failed is not   *)
(* recorded while the transaction it failed for is part of the execution.  *)
THEOREM AbortedSafe == Spec => []AbortedNotCompleted
<1>1. Init => AbortInv
  BY DEF Init, AbortInv
<1>2. IInv /\ AbortInv /\ [Next]_vars => AbortInv'
  BY AbortInvNext
<1>3. IInv /\ AbortInv => AbortedNotCompleted
  <2> SUFFICES ASSUME IInv, AbortInv, pc = "record_return", ~ok, failed_for \in line
               PROVE  FALSE
    BY DEF AbortedNotCompleted
  <2>1. failed_for <= base_transaction_id_ /\ failed_for > base_transaction_id_
    BY DEF IInv, BaseInv, StackMonotone, AbortInv
  <2>2. failed_for \in Nat /\ base_transaction_id_ \in Nat
    BY DEF IInv, BaseInv, TypeOK, TransactionId
  <2> QED BY <2>1, <2>2
<1> QED BY <1>1, <1>2, <1>3, IInvInit, IInvNext, PTL DEF Spec

-----------------------------------------------------------------------------
(* The requested rewind goes back at least to every rejected transaction   *)
(* that is still part of the execution, unless its rejection was replaced. *)
PendingCovers ==
  \A t \in (line \cap rejects) \ superseded :
    rejected_transaction_id_ # 0 /\ rejected_transaction_id_ <= t

LEMMA PendingCoversNext ==
  ASSUME IInv, PendingCovers, [Next]_vars
  PROVE  PendingCovers'
<1>0. /\ rejected_transaction_id_ \in Nat /\ last \in Nat /\ base_transaction_id_ \in Nat
      /\ line \subseteq Nat /\ rejects \subseteq Nat
      /\ \A t \in line : t <= base_transaction_id_
      /\ \A t \in rejects : t <= last
      /\ pc \in InMethod => method_base[depth] \in Nat
  BY DEF IInv, BaseInv, TypeOK, PcInv, StackMonotone, RejectedCommitted, TransactionId, Depths
<1> USE <1>0 DEF PendingCovers
<1>1. ASSUME NEW next, Rewinding(next), UNCHANGED <<commits, rejected>>
      PROVE  PendingCovers'
  BY <1>1 DEF Rewinding, ClearOnResume, GetExecutionPhase, commits, rejected
<1>2. ASSUME NEW objects, NEW commit, NEW level, RecordEvents(objects, commit, level),
             UNCHANGED <<rejected_transaction_id_, rejected>>
      PROVE  PendingCovers'
  <2>1. line' \subseteq line \cup {last + 1} /\ last + 1 \notin rejects
    BY <1>2 DEF RecordEvents
  <2>2. UNCHANGED <<rejected_transaction_id_, rejects, superseded>>
    BY <1>2 DEF rejected
  <2> QED BY <2>1, <2>2
<1>3. CASE CallMethod \/ BeginTransaction \/ EndTransaction
  BY <1>1, <1>3 DEF CallMethod, BeginTransaction, EndTransaction
<1>4. CASE \E objects \in SUBSET new_objects_ : RecordMethodCall(objects)
  BY <1>2, <1>4 DEF RecordMethodCall, AddTransactionEvents
<1>5. CASE RecordBeginTransaction
  BY <1>2, <1>5, Zenon DEF RecordBeginTransaction
<1>6. CASE RecordEndTransaction
  <2>1. CASE transaction_level_ = 0
    BY <1>6, <2>1 DEF RecordEndTransaction, commits, rejected
  <2>2. CASE transaction_level_ # 0
    BY <1>2, <1>6, <2>2, Zenon DEF RecordEndTransaction
  <2> QED BY <2>1, <2>2
<1>7. CASE CreateObject \/ ReturnFromMethod
  BY <1>7, Zenon DEF CreateObject, ReturnFromMethod, commits, rejected
<1>8. CASE CallMethodHelper
  <2>1. CASE GetExecutionPhase(method_base[depth]) # "RESUME"
    BY <1>8, <2>1, Zenon DEF CallMethodHelper, ClearOnResume, commits, rejected
  <2>2. CASE GetExecutionPhase(method_base[depth]) = "RESUME"
    <3>1. /\ line' = {t \in line : t <= method_base[depth]} /\ rejects' = rejects
          /\ superseded' = superseded
      BY <1>8, <2>2 DEF CallMethodHelper, rejected
    <3>2. method_base[depth] \in Nat /\ method_base[depth] < rejected_transaction_id_
      BY <1>8, <2>2 DEF CallMethodHelper, GetExecutionPhase, InMethod
    <3> QED BY <3>1, <3>2
  <2> QED BY <2>1, <2>2
<1>9. CASE \E objects \in SUBSET new_objects_ : RecordMethodReturn(objects)
  BY <1>2, <1>9, Zenon DEF RecordMethodReturn, AddTransactionEvents
<1>10. CASE WaitForRewind
  BY <1>10 DEF WaitForRewind
<1>11. CASE \E t \in 1..last : RejectTransactions(t)
  <2>1. PICK t \in 1..last : RejectTransactions(t)
    BY <1>11
  <2>2. /\ line' = line /\ rejects' = rejects \cup {t} /\ rejected_transaction_id_' = t
        /\ t \in Nat \ {0} /\ superseded \subseteq superseded'
    BY <2>1 DEF RejectTransactions, commits
  <2>3. CASE rejected_transaction_id_ = 0
    BY <2>2, <2>3
  <2>4. CASE rejected_transaction_id_ # 0
    <3>1. \A s \in rejects : s < t => s \in superseded'
      BY <2>1, <2>4 DEF RejectTransactions
    <3> QED BY <2>2, <3>1
  <2> QED BY <2>3, <2>4
<1>12. CASE UNCHANGED vars
  BY <1>12 DEF vars, commits, rejected
<1> QED BY <1>3, <1>4, <1>5, <1>6, <1>7, <1>8, <1>9, <1>10, <1>11, <1>12 DEF Next, ThreadStep

(* However rejections overlap, the thread rewinds past every rejected      *)
(* transaction before it resumes, except one whose pending rejection was   *)
(* replaced by that of a later transaction.                                *)
THEOREM RewindsFully == Spec => []RewindComplete
<1>1. Init => PendingCovers
  BY DEF Init, PendingCovers
<1>2. IInv /\ PendingCovers /\ [Next]_vars => PendingCovers'
  BY PendingCoversNext
<1>3. PendingCovers => RewindComplete
  BY DEF PendingCovers, RewindComplete
<1> QED BY <1>1, <1>2, <1>3, IInvInit, IInvNext, PTL DEF Spec
=============================================================================
