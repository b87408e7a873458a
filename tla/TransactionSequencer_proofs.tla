---------------------- MODULE TransactionSequencer_proofs ----------------------
(***************************************************************************)
(* Proofs about TransactionSequencer, for any set of threads, any clock    *)
(* readings and any number of transactions and messages.                   *)
(***************************************************************************)
EXTENDS TransactionSequencer, TLAPS

(* No two threads hold the same ID: with it the CHECKs are inductive.      *)
HeldOnce ==
  \A p, q \in Threads : p # q => held[p] \cap held[q] = {}

BaseInv == TypeOK /\ ChecksHold /\ HeldOnce

LEMMA BaseInit == Init => BaseInv
  BY ConstantsAssumption
  DEF Init, BaseInv, TypeOK, ChecksHold, HeldOnce, Reserved, Transaction, Message, TransactionId

LEMMA BaseReserve ==
  ASSUME BaseInv, NEW th \in Threads, NEW clock \in TransactionId, ReserveTransaction(th, clock)
  PROVE  BaseInv'
<1> DEFINE t == Generate(clock)
           new == [outgoing_messages |-> <<>>, done |-> FALSE]
<1> USE ConstantsAssumption DEF BaseInv, ReserveTransaction
<1>1. t \in TransactionId /\ t > last_time_value_
  BY DEF TypeOK, Generate, TransactionId
<1>2. new \in Transaction
  BY DEF Transaction
<1>3. Reserved' = Reserved \cup {t}
  BY DEF Reserved
<1> HIDE DEF t, new
<1>4. TypeOK'
  <2>1. transactions_' \in [Reserved' -> Transaction]
    <3>1. transactions_' = [u \in Reserved \cup {t} |-> IF u = t THEN new ELSE transactions_[u]]
      BY DEF t, new
    <3>2. \A u \in Reserved : transactions_[u] \in Transaction
      BY DEF TypeOK
    <3>3. QED
      BY ONLY <1>2, <1>3, <3>1, <3>2
  <2>2. held' \in [Threads -> SUBSET TransactionId]
    BY <1>1 DEF TypeOK, t
  <2>3. last_time_value_' \in 0..MaxTime
    BY <1>1 DEF TransactionId, t
  <2>4. QED
    BY <1>1, <1>3, <2>1, <2>2, <2>3 DEF TypeOK
<1>5. ChecksHold'
  <2>1. \A u \in Reserved' : u <= last_time_value_'
    BY <1>1, <1>3 DEF TypeOK, ChecksHold, TransactionId, t
  <2>2. ASSUME NEW p \in Threads, NEW u \in held'[p]
        PROVE  u \in Reserved' /\ ~transactions_'[u].done
    <3>1. CASE u = t
      BY <1>3, <3>1 DEF t, new
    <3>2. CASE u # t
      <4>1. u \in held[p]
        BY <3>2 DEF TypeOK, t
      <4>2. u \in Reserved /\ ~transactions_[u].done
        BY <4>1 DEF ChecksHold
      <4>3. QED
        BY <1>3, <3>2, <4>2 DEF t
    <3>3. QED
      BY <3>1, <3>2
  <2>3. QED
    BY <2>1, <2>2, Zenon DEF ChecksHold
<1>6. HeldOnce'
  <2>1. \A p \in Threads : t \notin held[p]
    BY <1>1 DEF TypeOK, ChecksHold, TransactionId
  <2>2. QED
    BY <2>1 DEF TypeOK, HeldOnce, t
<1>7. QED
  BY <1>4, <1>5, <1>6

LEMMA BaseQueue ==
  ASSUME BaseInv, NEW th \in Threads, NEW t \in held[th], QueueOutgoingMessage(th, t)
  PROVE  BaseInv'
<1> DEFINE msgs == transactions_[t].outgoing_messages
           m == [tid |-> t, n |-> Len(msgs) + 1]
<1> USE DEF BaseInv
<1>1. t \in Reserved /\ t \in TransactionId /\ msgs \in Seq(Message)
  BY DEF TypeOK, ChecksHold, Transaction
<1>2. m \in Message
  BY <1>1 DEF Message
<1>3. /\ transactions_' = [transactions_ EXCEPT ![t].outgoing_messages = Append(msgs, m)]
      /\ accepted' = accepted \cup {m}
      /\ mu_' = th
      /\ UNCHANGED <<last_time_value_, held, sent>>
  BY <1>1 DEF QueueOutgoingMessage, TypeOK
<1> HIDE DEF m
<1>4. Append(msgs, m) \in Seq(Message)
  BY <1>1, <1>2
<1> HIDE DEF msgs
<1>5. Reserved' = Reserved
  BY <1>3 DEF TypeOK, Reserved
<1>6. transactions_' \in [Reserved -> Transaction]
  BY <1>3, <1>4, <1>1, Zenon DEF TypeOK, Transaction
<1>7. \A u \in Reserved : transactions_'[u].done = transactions_[u].done
  BY <1>3, <1>1 DEF TypeOK, Transaction
<1>8. QED
  BY <1>1, <1>2, <1>3, <1>5, <1>6, <1>7 DEF TypeOK, ChecksHold, HeldOnce

LEMMA BaseRelease ==
  ASSUME BaseInv, NEW th \in Threads, NEW t \in held[th], ReleaseTransaction(th, t)
  PROVE  BaseInv'
<1> USE DEF BaseInv, ReleaseTransaction
<1>1. t \in Reserved
  BY DEF ChecksHold
<1>2. Reserved' = Reserved /\ transactions_' \in [Reserved -> Transaction]
  BY <1>1, Zenon DEF TypeOK, Reserved, Transaction
<1>3. held' \in [Threads -> SUBSET TransactionId] /\ HeldOnce'
  BY DEF TypeOK, HeldOnce
<1>4. ASSUME NEW p \in Threads, NEW u \in held'[p]
      PROVE  u \in held[p] /\ u # t
  BY <1>4 DEF TypeOK, HeldOnce
<1>5. ChecksHold'
  <2>1. ASSUME NEW p \in Threads, NEW u \in held'[p]
        PROVE  u \in Reserved' /\ ~transactions_'[u].done
    BY <1>4, <1>2, <2>1 DEF ChecksHold, TypeOK
  <2>2. QED
    BY <2>1, <1>2 DEF ChecksHold
<1>6. QED
  BY <1>2, <1>3, <1>5 DEF TypeOK

LEMMA BaseUnsequenced ==
  ASSUME BaseInv, NEW th \in Threads, NEW n \in 1..MaxUnsequenced, SendUnsequenced(th, n)
  PROVE  BaseInv'
  BY ConstantsAssumption
  DEF BaseInv, SendUnsequenced, TypeOK, ChecksHold, HeldOnce, Reserved, Message, NoId

LEMMA BaseFlush ==
  ASSUME BaseInv, NEW th \in Threads, FlushMessages_Locked(th)
  PROVE  BaseInv'
<1> USE DEF BaseInv
<1>1. CASE Reserved = {} /\ mu_' = NoThread /\ UNCHANGED <<transactions_, sent>>
  BY <1>1 DEF FlushMessages_Locked, TypeOK, ChecksHold, HeldOnce, Reserved
<1>2. ASSUME NEW t \in Reserved,
             sent' = sent \o transactions_[t].outgoing_messages,
             IF transactions_[t].done
             THEN /\ transactions_' = [u \in Reserved \ {t} |-> transactions_[u]]
                  /\ UNCHANGED mu_
             ELSE /\ mu_' = NoThread
                  /\ UNCHANGED transactions_
      PROVE  BaseInv'
  <2>1. sent' \in Seq(Message)
    BY <1>2 DEF TypeOK, Transaction
  <2>2. UNCHANGED <<last_time_value_, held, accepted>>
    BY DEF FlushMessages_Locked
  <2>3. CASE transactions_[t].done
    <3>1. Reserved' = Reserved \ {t}
      BY <1>2, <2>3 DEF Reserved
    <3>2. transactions_' \in [Reserved' -> Transaction]
      BY <1>2, <2>3, <3>1 DEF TypeOK
    <3>3. ChecksHold'
      BY <1>2, <2>2, <2>3, <3>1 DEF ChecksHold
    <3>4. QED
      BY <1>2, <2>1, <2>2, <2>3, <3>1, <3>2, <3>3 DEF TypeOK, HeldOnce
  <2>4. CASE ~transactions_[t].done
    BY <1>2, <2>1, <2>2, <2>4 DEF TypeOK, ChecksHold, HeldOnce, Reserved
  <2>5. QED
    BY <2>3, <2>4
<1>3. QED
  BY <1>1, <1>2, Zenon DEF FlushMessages_Locked

LEMMA BaseStep == BaseInv /\ [Next]_vars => BaseInv'
<1> SUFFICES ASSUME BaseInv, [Next]_vars PROVE BaseInv'
  OBVIOUS
<1>1. CASE UNCHANGED vars
  BY <1>1 DEF vars, BaseInv, TypeOK, ChecksHold, HeldOnce, Reserved
<1>2. CASE Next
  BY <1>2, BaseReserve, BaseQueue, BaseRelease, BaseUnsequenced, BaseFlush
  DEF Next, ThreadStep
<1>3. QED
  BY <1>1, <1>2

(* The type invariant and the CHECKs of the sequencer hold in every        *)
(* reachable state (they can never abort the process).                     *)
THEOREM SequencerChecks == Spec => [](TypeOK /\ ChecksHold)
<1>1. BaseInv => TypeOK /\ ChecksHold
  BY DEF BaseInv
<1>2. QED
  BY BaseInit, BaseStep, <1>1, PTL DEF Spec

-----------------------------------------------------------------------------
(* What SendOrder needs to be inductive: a queued message carries the ID   *)
(* it is queued under, and nothing sent is later than the generator or     *)
(* than a transaction that is still in the map.                            *)
OrderInv ==
  /\ BaseInv
  /\ SendOrder
  /\ \A t \in Reserved : \A k \in DOMAIN transactions_[t].outgoing_messages :
       transactions_[t].outgoing_messages[k].tid = t
  /\ \A i \in DOMAIN sent : sent[i].tid <= last_time_value_
  /\ \A i \in DOMAIN sent : \A t \in Reserved : sent[i].tid <= t

LEMMA SentTyped ==
  ASSUME BaseInv
  PROVE  /\ sent \in Seq(Message)
         /\ \A i \in DOMAIN sent : sent[i].tid \in Nat
         /\ last_time_value_ \in Nat
         /\ Reserved \subseteq Nat
<1>1. sent \in Seq(Message) /\ last_time_value_ \in Nat /\ Reserved \subseteq Nat
  BY ConstantsAssumption DEF BaseInv, TypeOK, TransactionId
<1>2. \A i \in DOMAIN sent : sent[i] \in Message
  BY <1>1
<1>3. \A m \in Message : m.tid \in Nat
  BY ConstantsAssumption DEF Message, TransactionId, NoId
<1>4. QED
  BY <1>1, <1>2, <1>3

LEMMA OrderReserve ==
  ASSUME OrderInv, NEW th \in Threads, NEW clock \in TransactionId, ReserveTransaction(th, clock)
  PROVE  OrderInv'
<1> DEFINE t == Generate(clock)
<1> USE DEF OrderInv
<1>1. BaseInv'
  BY BaseReserve
<1>2. t \in TransactionId /\ t > last_time_value_ /\ last_time_value_' = t
  BY ConstantsAssumption DEF BaseInv, TypeOK, Generate, TransactionId, ReserveTransaction
<1>3. Reserved' = Reserved \cup {t} /\ sent' = sent
  BY DEF Reserved, ReserveTransaction
<1>4. /\ t \notin Reserved
      /\ \A u \in Reserved : transactions_'[u] = transactions_[u]
      /\ transactions_'[t].outgoing_messages = <<>>
  BY <1>2 DEF ReserveTransaction, BaseInv, TypeOK, ChecksHold, TransactionId
<1> HIDE DEF t
<1>5. t \in Nat /\ \A i \in DOMAIN sent : sent[i].tid \in Nat /\ sent[i].tid < t
  BY <1>2, SentTyped DEF TransactionId
<1>6. \A u \in Reserved' : \A k \in DOMAIN transactions_'[u].outgoing_messages :
         transactions_'[u].outgoing_messages[k].tid = u
  BY <1>3, <1>4
<1>7. SendOrder'
  BY <1>3 DEF SendOrder
<1>8. \A i \in DOMAIN sent' : sent'[i].tid <= last_time_value_'
  BY <1>2, <1>3, <1>5
<1>9. \A i \in DOMAIN sent' : \A u \in Reserved' : sent'[i].tid <= u
  BY <1>2, <1>3, <1>5
<1>10. QED
  BY <1>1, <1>6, <1>7, <1>8, <1>9

LEMMA OrderQueue ==
  ASSUME OrderInv, NEW th \in Threads, NEW t \in held[th], QueueOutgoingMessage(th, t)
  PROVE  OrderInv'
<1> DEFINE msgs == transactions_[t].outgoing_messages
           m == [tid |-> t, n |-> Len(msgs) + 1]
<1> USE DEF OrderInv
<1>1. BaseInv'
  BY BaseQueue
<1>2. t \in Reserved /\ msgs \in Seq(Message)
  BY DEF BaseInv, TypeOK, ChecksHold, Transaction
<1>3. /\ transactions_' = [transactions_ EXCEPT ![t].outgoing_messages = Append(msgs, m)]
      /\ UNCHANGED <<last_time_value_, sent>>
  BY <1>2 DEF QueueOutgoingMessage, BaseInv, TypeOK
<1>4. Reserved' = Reserved
  BY <1>3 DEF BaseInv, TypeOK, Reserved
<1>5. \A k \in DOMAIN Append(msgs, m) : Append(msgs, m)[k].tid = t
  BY <1>2
<1> HIDE DEF m
<1>6. ASSUME NEW u \in Reserved
      PROVE  \A k \in DOMAIN transactions_'[u].outgoing_messages :
               transactions_'[u].outgoing_messages[k].tid = u
  <2>1. CASE u = t
    <3>1. transactions_'[u].outgoing_messages = Append(msgs, m)
      BY <1>2, <1>3, <2>1 DEF BaseInv, TypeOK, Transaction
    <3>2. QED
      BY <1>5, <3>1, <2>1
  <2>2. CASE u # t
    BY <1>2, <1>3, <2>2 DEF BaseInv, TypeOK
  <2>3. QED
    BY <2>1, <2>2
<1>7. QED
  BY <1>1, <1>3, <1>4, <1>6 DEF SendOrder

LEMMA OrderRelease ==
  ASSUME OrderInv, NEW th \in Threads, NEW t \in held[th], ReleaseTransaction(th, t)
  PROVE  OrderInv'
<1> USE DEF OrderInv
<1>1. BaseInv'
  BY BaseRelease
<1>2. t \in Reserved
  BY DEF BaseInv, ChecksHold
<1>3. Reserved' = Reserved /\ UNCHANGED <<last_time_value_, sent>>
  BY <1>2 DEF ReleaseTransaction, BaseInv, TypeOK, Reserved
<1>4. \A u \in Reserved : transactions_'[u].outgoing_messages = transactions_[u].outgoing_messages
  BY <1>2 DEF ReleaseTransaction, BaseInv, TypeOK, Transaction
<1>5. QED
  BY <1>1, <1>3, <1>4 DEF SendOrder

LEMMA OrderUnsequenced ==
  ASSUME OrderInv, NEW th \in Threads, NEW n \in 1..MaxUnsequenced, SendUnsequenced(th, n)
  PROVE  OrderInv'
<1> DEFINE m == [tid |-> NoId, n |-> n]
<1> USE DEF OrderInv
<1>1. BaseInv'
  BY BaseUnsequenced
<1>2. sent' = Append(sent, m) /\ UNCHANGED <<last_time_value_, transactions_>>
  BY DEF SendUnsequenced
<1>3. sent \in Seq(Message) /\ last_time_value_ \in 0..MaxTime /\ Reserved \subseteq 1..MaxTime
  BY DEF BaseInv, TypeOK, TransactionId
<1>4. ASSUME NEW i \in DOMAIN sent'
      PROVE  \/ i \in DOMAIN sent /\ sent'[i] = sent[i]
             \/ i = Len(sent) + 1 /\ sent'[i].tid = NoId
  BY <1>2, <1>3
<1>5. SendOrder'
  BY <1>4 DEF SendOrder
<1>6. QED
  BY <1>1, <1>2, <1>3, <1>4, <1>5, ConstantsAssumption DEF Reserved, NoId

LEMMA OrderFlush ==
  ASSUME OrderInv, NEW th \in Threads, FlushMessages_Locked(th)
  PROVE  OrderInv'
<1> USE DEF OrderInv
<1>1. BaseInv'
  BY BaseFlush
<1>2. CASE Reserved = {} /\ UNCHANGED <<transactions_, sent>>
  BY <1>1, <1>2 DEF FlushMessages_Locked, SendOrder, Reserved
<1>3. ASSUME NEW t \in Reserved,
             \A u \in Reserved : t <= u,
             sent' = sent \o transactions_[t].outgoing_messages,
             Reserved' \subseteq Reserved,
             \A u \in Reserved' : transactions_'[u] = transactions_[u]
      PROVE  OrderInv'
  <2> DEFINE msgs == transactions_[t].outgoing_messages
  <2>1. /\ sent \in Seq(Message) /\ msgs \in Seq(Message)
        /\ last_time_value_' = last_time_value_
        /\ last_time_value_ \in Nat /\ Reserved \subseteq Nat /\ t <= last_time_value_
    BY ConstantsAssumption
    DEF BaseInv, TypeOK, ChecksHold, Transaction, TransactionId, FlushMessages_Locked
  <2>2. \A i \in DOMAIN sent : sent[i].tid \in Nat
    BY SentTyped
  <2>3. \A k \in DOMAIN msgs : msgs[k].tid = t
    OBVIOUS
  <2> HIDE DEF msgs
  <2>4. ASSUME NEW i \in DOMAIN sent'
        PROVE  \/ i \in DOMAIN sent /\ sent'[i] = sent[i]
               \/ i > Len(sent) /\ sent'[i].tid = t
    BY <1>3, <2>1, <2>3 DEF msgs
  <2>5. SendOrder'
    <3> SUFFICES ASSUME NEW i \in DOMAIN sent', NEW j \in DOMAIN sent', i < j,
                        sent'[i].tid # NoId, sent'[j].tid # NoId
                 PROVE  sent'[i].tid <= sent'[j].tid
      BY DEF SendOrder
    <3>1. CASE j \in DOMAIN sent
      <4>1. i \in DOMAIN sent /\ sent'[i] = sent[i] /\ sent'[j] = sent[j]
        <5>1. DOMAIN sent = 1..Len(sent) /\ Len(sent) \in Nat /\ DOMAIN sent' \subseteq Nat
          BY <1>1, <2>1 DEF BaseInv, TypeOK
        <5>2. ~(i > Len(sent)) /\ ~(j > Len(sent))
          BY <5>1, <3>1
        <5>3. QED
          BY <5>2, <2>4
      <4>2. QED
        BY <4>1, <3>1 DEF SendOrder
    <3>2. CASE j \notin DOMAIN sent
      <4>1. sent'[j].tid = t
        BY <2>4, <3>2
      <4>2. sent'[i].tid <= t
        BY <2>1, <2>2, <2>4
      <4>3. QED
        BY <4>1, <4>2
    <3>3. QED
      BY <3>1, <3>2
  <2>6. \A i \in DOMAIN sent' : sent'[i].tid <= last_time_value_'
    BY <2>1, <2>4
  <2>7. \A i \in DOMAIN sent' : \A u \in Reserved' : sent'[i].tid <= u
    BY <1>3, <2>1, <2>4
  <2>8. QED
    BY <1>1, <1>3, <2>5, <2>6, <2>7
<1>4. QED
  BY <1>2, <1>3, Zenon DEF FlushMessages_Locked, Reserved

(* Remote peers are handed this peer's sequenced messages in transaction   *)
(* ID order: the flush loop sends only under the first ID in the map, and  *)
(* the generator never goes back to an ID it has passed.                   *)
THEOREM SequencerOrder == Spec => []SendOrder
<1>1. Init => OrderInv
  BY BaseInit DEF Init, OrderInv, SendOrder, Reserved
<1>2. OrderInv /\ [Next]_vars => OrderInv'
  <2> SUFFICES ASSUME OrderInv, [Next]_vars PROVE OrderInv'
    OBVIOUS
  <2>1. CASE UNCHANGED vars
    BY <2>1, BaseStep DEF vars, OrderInv, SendOrder, Reserved
  <2>2. CASE Next
    BY <2>2, OrderReserve, OrderQueue, OrderRelease, OrderUnsequenced, OrderFlush
    DEF Next, ThreadStep
  <2>3. QED
    BY <2>1, <2>2
<1>3. OrderInv => SendOrder
  BY DEF OrderInv
<1>4. QED
  BY <1>1, <1>2, <1>3, PTL DEF Spec

-----------------------------------------------------------------------------
(* What the refinement of OrderedOutbox needs: the messages of a           *)
(* transaction that is still in the map are the ones accepted under its    *)
(* ID, in the order of filing, and every message accepted under an ID that *)
(* has left the map was sent.                                              *)
FiledInv ==
  /\ BaseInv
  /\ \A t \in Reserved : \A k \in DOMAIN transactions_[t].outgoing_messages :
       /\ transactions_[t].outgoing_messages[k] = [tid |-> t, n |-> k]
       /\ [tid |-> t, n |-> k] \in accepted
  /\ \A e \in accepted :
       /\ e.tid \in 1..last_time_value_
       /\ e.tid \in Reserved => e.n \in DOMAIN transactions_[e.tid].outgoing_messages
       /\ e.tid \notin Reserved => \E i \in DOMAIN sent : sent[i] = e

(* The transactions that are open in OrderedOutbox.                        *)
Unreleased == {t \in Reserved : ~transactions_[t].done}

LEMMA FiledReserve ==
  ASSUME FiledInv, NEW th \in Threads, NEW clock \in TransactionId, ReserveTransaction(th, clock)
  PROVE  /\ FiledInv'
         /\ Generate(clock) > last_time_value_ /\ last_time_value_' = Generate(clock)
         /\ Unreleased' = Unreleased \cup {Generate(clock)}
         /\ UNCHANGED <<accepted, sent>>
<1> DEFINE t == Generate(clock)
<1> USE DEF FiledInv
<1>1. BaseInv' /\ UNCHANGED <<accepted, sent>>
  BY BaseReserve, Zenon DEF ReserveTransaction
<1>2. t \in TransactionId /\ t > last_time_value_ /\ last_time_value_' = t
  BY ConstantsAssumption DEF BaseInv, TypeOK, Generate, TransactionId, ReserveTransaction
<1>3. Reserved' = Reserved \cup {t}
  BY DEF Reserved, ReserveTransaction
<1>4. /\ t \notin Reserved
      /\ \A u \in Reserved : transactions_'[u] = transactions_[u]
      /\ transactions_'[t] = [outgoing_messages |-> <<>>, done |-> FALSE]
  BY <1>2 DEF ReserveTransaction, BaseInv, TypeOK, ChecksHold, TransactionId
<1>5. last_time_value_ \in Nat /\ t \in Nat
  BY <1>2, ConstantsAssumption DEF BaseInv, TypeOK, TransactionId
<1> HIDE DEF t
<1>6. Unreleased' = Unreleased \cup {t}
  BY <1>3, <1>4 DEF Unreleased
<1>7. ASSUME NEW u \in Reserved', NEW k \in DOMAIN transactions_'[u].outgoing_messages
      PROVE  /\ transactions_'[u].outgoing_messages[k] = [tid |-> u, n |-> k]
             /\ [tid |-> u, n |-> k] \in accepted'
  <2>1. u \in Reserved
    BY <1>3, <1>4
  <2>2. QED
    BY <1>1, <1>4, <2>1
<1>8. ASSUME NEW e \in accepted'
      PROVE  /\ e.tid \in 1..last_time_value_'
             /\ e.tid \in Reserved' => e.n \in DOMAIN transactions_'[e.tid].outgoing_messages
             /\ e.tid \notin Reserved' => \E i \in DOMAIN sent' : sent'[i] = e
  BY <1>1, <1>2, <1>3, <1>4, <1>5
<1>9. QED
  BY <1>1, <1>2, <1>6, <1>7, <1>8 DEF t

LEMMA FiledQueue ==
  ASSUME FiledInv, NEW th \in Threads, NEW t \in held[th], QueueOutgoingMessage(th, t)
  PROVE  /\ FiledInv'
         /\ \E m \in accepted' \ accepted : m.tid \in Unreleased /\ accepted' = accepted \cup {m}
         /\ Unreleased' = Unreleased
         /\ UNCHANGED <<last_time_value_, sent>>
<1> DEFINE msgs == transactions_[t].outgoing_messages
           m == [tid |-> t, n |-> Len(msgs) + 1]
<1> USE DEF FiledInv
<1>1. BaseInv'
  BY BaseQueue
<1>2. t \in Reserved /\ t \in Unreleased /\ msgs \in Seq(Message) /\ t \in 1..last_time_value_
  BY DEF BaseInv, TypeOK, ChecksHold, Transaction, Unreleased, TransactionId
<1>3. /\ transactions_' = [transactions_ EXCEPT ![t].outgoing_messages = Append(msgs, m)]
      /\ accepted' = accepted \cup {m}
      /\ UNCHANGED <<last_time_value_, sent>>
  BY <1>2 DEF QueueOutgoingMessage, BaseInv, TypeOK
<1>4. Reserved' = Reserved
  BY <1>3 DEF BaseInv, TypeOK, Reserved
<1>5. /\ \A u \in Reserved \ {t} : transactions_'[u] = transactions_[u]
      /\ transactions_'[t].outgoing_messages = Append(msgs, m)
      /\ transactions_'[t].done = transactions_[t].done
  BY <1>2, <1>3 DEF BaseInv, TypeOK, Transaction
<1>6. /\ DOMAIN Append(msgs, m) = DOMAIN msgs \cup {Len(msgs) + 1}
      /\ \A k \in DOMAIN msgs : Append(msgs, m)[k] = msgs[k]
      /\ Append(msgs, m)[Len(msgs) + 1] = m
      /\ Len(msgs) + 1 \notin DOMAIN msgs
  BY <1>2
<1>7. m.tid = t /\ m.n = Len(msgs) + 1 /\ m \notin accepted
  BY <1>2, <1>6
<1>8. m \in accepted' \ accepted /\ m.tid \in Unreleased
  BY <1>2, <1>3, <1>7
<1>9. Unreleased' = Unreleased
  BY <1>2, <1>4, <1>5, Zenon DEF Unreleased
<1>10. ASSUME NEW u \in Reserved', NEW k \in DOMAIN transactions_'[u].outgoing_messages
       PROVE  /\ transactions_'[u].outgoing_messages[k] = [tid |-> u, n |-> k]
              /\ [tid |-> u, n |-> k] \in accepted'
  <2>1. CASE u = t
    <3>1. CASE k \in DOMAIN msgs
      BY <1>2, <1>3, <1>5, <1>6, <2>1, <3>1
    <3>2. CASE k = Len(msgs) + 1
      BY <1>3, <1>5, <1>6, <2>1, <3>2
    <3>3. QED
      BY <1>5, <1>6, <2>1, <3>1, <3>2
  <2>2. CASE u # t
    BY <1>3, <1>4, <1>5, <2>2
  <2>3. QED
    BY <2>1, <2>2
<1> HIDE DEF m, msgs
<1>11. ASSUME NEW e \in accepted'
       PROVE  /\ e.tid \in 1..last_time_value_'
              /\ e.tid \in Reserved' => e.n \in DOMAIN transactions_'[e.tid].outgoing_messages
              /\ e.tid \notin Reserved' => \E i \in DOMAIN sent' : sent'[i] = e
  <2>1. CASE e = m
    BY <1>2, <1>3, <1>4, <1>5, <1>6, <1>7, <2>1
  <2>2. CASE e \in accepted
    BY <1>3, <1>4, <1>5, <1>6, <2>2 DEF msgs
  <2>3. QED
    BY <1>3, <2>1, <2>2
<1>12. QED
  BY <1>1, <1>3, <1>8, <1>9, <1>10, <1>11

LEMMA FiledRelease ==
  ASSUME FiledInv, NEW th \in Threads, NEW t \in held[th], ReleaseTransaction(th, t)
  PROVE  /\ FiledInv'
         /\ t \in Unreleased /\ Unreleased' = Unreleased \ {t}
         /\ UNCHANGED <<last_time_value_, accepted, sent>>
<1> USE DEF FiledInv
<1>1. BaseInv' /\ UNCHANGED <<last_time_value_, accepted, sent>>
  BY BaseRelease, Zenon DEF ReleaseTransaction
<1>2. t \in Reserved /\ t \in Unreleased
  BY DEF BaseInv, ChecksHold, Unreleased
<1>3. Reserved' = Reserved
  BY <1>2 DEF ReleaseTransaction, BaseInv, TypeOK, Reserved
<1>4. /\ \A u \in Reserved : transactions_'[u].outgoing_messages = transactions_[u].outgoing_messages
      /\ \A u \in Reserved \ {t} : transactions_'[u] = transactions_[u]
      /\ transactions_'[t].done = TRUE
  BY <1>2 DEF ReleaseTransaction, BaseInv, TypeOK, Transaction
<1>5. Unreleased' = Unreleased \ {t}
  BY <1>2, <1>3, <1>4 DEF Unreleased
<1>6. QED
  BY <1>1, <1>2, <1>3, <1>4, <1>5

LEMMA FiledUnsequenced ==
  ASSUME FiledInv, NEW th \in Threads, NEW n \in 1..MaxUnsequenced, SendUnsequenced(th, n)
  PROVE  /\ FiledInv'
         /\ sent' = Append(sent, [tid |-> NoId, n |-> n])
         /\ Unreleased' = Unreleased
         /\ UNCHANGED <<last_time_value_, accepted>>
<1> DEFINE m == [tid |-> NoId, n |-> n]
<1> USE DEF FiledInv
<1>1. BaseInv' /\ sent' = Append(sent, m)
      /\ UNCHANGED <<last_time_value_, transactions_, accepted>>
  BY BaseUnsequenced DEF SendUnsequenced
<1>2. Reserved' = Reserved /\ Unreleased' = Unreleased
  BY <1>1 DEF Reserved, Unreleased
<1>3. \A i \in DOMAIN sent : i \in DOMAIN sent' /\ sent'[i] = sent[i]
  BY <1>1 DEF BaseInv, TypeOK
<1> HIDE DEF m
<1>4. QED
  BY <1>1, <1>2, <1>3 DEF m

(* An iteration of the flush loop hands over what was filed under the      *)
(* first transaction in the map.                                           *)
LEMMA FiledFlush ==
  ASSUME FiledInv, NEW th \in Threads, FlushMessages_Locked(th)
  PROVE  /\ FiledInv'
         /\ Unreleased' = Unreleased
         /\ UNCHANGED <<last_time_value_, accepted>>
         /\ \/ sent' = sent
            \/ \E t \in Reserved : /\ \A u \in Reserved : t <= u
                                   /\ sent' = sent \o transactions_[t].outgoing_messages
<1> USE DEF FiledInv
<1>1. BaseInv' /\ UNCHANGED <<last_time_value_, accepted>>
  BY BaseFlush, Zenon DEF FlushMessages_Locked
<1>2. CASE Reserved = {} /\ UNCHANGED <<transactions_, sent>>
  BY <1>1, <1>2 DEF Reserved, Unreleased
<1>3. ASSUME NEW t \in Reserved,
             \A u \in Reserved : t <= u,
             sent' = sent \o transactions_[t].outgoing_messages,
             \/ transactions_[t].done /\ transactions_' = [u \in Reserved \ {t} |-> transactions_[u]]
             \/ transactions_' = transactions_
      PROVE  FiledInv' /\ Unreleased' = Unreleased
  <2> DEFINE msgs == transactions_[t].outgoing_messages
  <2>1. sent \in Seq(Message) /\ msgs \in Seq(Message)
    BY DEF BaseInv, TypeOK, Transaction
  <2>2. /\ \A i \in DOMAIN sent : i \in DOMAIN sent' /\ sent'[i] = sent[i]
        /\ \A k \in DOMAIN msgs : Len(sent) + k \in DOMAIN sent' /\ sent'[Len(sent) + k] = msgs[k]
    BY <1>3, <2>1
  <2>3. /\ Reserved' \subseteq Reserved /\ Reserved \subseteq Reserved' \cup {t}
        /\ \A u \in Reserved' : transactions_'[u] = transactions_[u]
        /\ t \notin Reserved' => transactions_[t].done
    BY <1>3 DEF Reserved
  <2>4. Unreleased' = Unreleased
    BY <2>3 DEF Unreleased
  <2>5. ASSUME NEW e \in accepted
        PROVE  /\ e.tid \in Reserved' => e.n \in DOMAIN transactions_'[e.tid].outgoing_messages
               /\ e.tid \notin Reserved' => \E i \in DOMAIN sent' : sent'[i] = e
    <3>1. CASE e.tid \in Reserved'
      BY <2>3, <3>1
    <3>2. CASE e.tid \notin Reserved
      BY <2>2, <2>3, <3>2
    <3>3. CASE e.tid = t
      <4>1. e = [tid |-> t, n |-> e.n] /\ e.n \in DOMAIN msgs
        BY <3>3 DEF BaseInv, TypeOK, Message
      <4>2. msgs[e.n] = e
        BY <4>1
      <4>3. QED
        BY <2>2, <2>3, <3>3, <4>1, <4>2
    <3>4. QED
      BY <2>3, <3>1, <3>2, <3>3
  <2>6. QED
    BY <1>1, <2>3, <2>4, <2>5
<1>4. QED
  BY <1>1, <1>2, <1>3, Zenon DEF FlushMessages_Locked

(* Everything that the flush loop hands over may be emitted.               *)
LEMMA FlushEmits ==
  ASSUME FiledInv, NEW t \in Reserved, \A u \in Reserved : t <= u,
         sent' = sent \o transactions_[t].outgoing_messages,
         UNCHANGED <<last_time_value_, accepted>>, Unreleased' = Unreleased
  PROVE  Outbox!Emit
<1> DEFINE msgs == transactions_[t].outgoing_messages
<1> USE DEF FiledInv
<1>1. sent \in Seq(Message) /\ msgs \in Seq(Message) /\ sent' = sent \o msgs
  BY DEF BaseInv, TypeOK, Transaction
<1>2. \A k \in DOMAIN msgs : msgs[k] = [tid |-> t, n |-> k] /\ msgs[k] \in accepted
  OBVIOUS
<1>3. \A e \in accepted : e.tid = t => e.n \in DOMAIN msgs /\ msgs[e.n] = e
  <2> SUFFICES ASSUME NEW e \in accepted, e.tid = t
               PROVE  e.n \in DOMAIN msgs /\ msgs[e.n] = e
    OBVIOUS
  <2>1. e = [tid |-> t, n |-> e.n] /\ e.n \in DOMAIN msgs
    BY DEF BaseInv, TypeOK, Message
  <2>2. QED
    BY <2>1
<1>4. \A e \in accepted : e.tid < t => \E j \in DOMAIN sent : sent[j] = e
  <2> SUFFICES ASSUME NEW e \in accepted, e.tid < t
               PROVE  e.tid \notin Reserved
    OBVIOUS
  <2>1. Reserved \subseteq Nat
    BY SentTyped
  <2>2. QED
    BY <2>1
<1>5. \A u \in Unreleased : t <= u
  BY DEF Unreleased
<1> HIDE DEF msgs
<1>6. /\ Len(sent') = Len(sent) + Len(msgs) /\ Len(sent) \in Nat /\ Len(msgs) \in Nat
      /\ DOMAIN sent = 1..Len(sent) /\ DOMAIN msgs = 1..Len(msgs)
      /\ \A i \in DOMAIN sent : sent'[i] = sent[i]
      /\ \A k \in DOMAIN msgs : sent'[Len(sent) + k] = msgs[k]
      /\ sent' \in Seq(Message)
  BY <1>1
<1>7. ASSUME NEW i \in (Len(sent) + 1)..Len(sent')
      PROVE  Outbox!Emittable(sent'[i], SubSeq(sent', 1, i - 1))
  <2> DEFINE k == i - Len(sent)
             before == SubSeq(sent', 1, i - 1)
  <2>1. k \in DOMAIN msgs /\ sent'[i] = msgs[k] /\ i = Len(sent) + k
    <3>1. k \in 1..Len(msgs) /\ i = Len(sent) + k
      <4>1. Len(sent') = Len(sent) + Len(msgs) /\ Len(sent) \in Nat /\ Len(msgs) \in Nat
        BY <1>6
      <4>2. QED
        BY ONLY <4>1, i \in (Len(sent) + 1)..Len(sent')
    <3> HIDE DEF k
    <3>2. QED
      BY <1>6, <3>1, Zenon
  <2>2. sent'[i] \in accepted /\ sent'[i].tid = t /\ sent'[i].n = k
    BY <1>2, <2>1
  <2>3. \A j \in 1..(i - 1) : j \in DOMAIN before /\ before[j] = sent'[j]
    <3>1. i - 1 \in 0..Len(sent') /\ sent' \in Seq(Message)
      BY <1>6
    <3>2. QED
      BY <3>1
  <2> HIDE DEF before
  <2>4. ASSUME NEW e \in accepted, e.tid < t \/ (e.tid = t /\ e.n < k)
        PROVE  \E j \in DOMAIN before : before[j] = e
    <3>1. CASE e.tid < t
      <4>1. PICK j \in DOMAIN sent : sent[j] = e
        BY <1>4, <3>1
      <4>2. j \in 1..(i - 1) /\ sent'[j] = e
        BY <1>6, <4>1
      <4>3. QED
        BY <2>3, <4>2
    <3>2. CASE e.tid = t /\ e.n < k
      <4>1. e.n \in DOMAIN msgs /\ msgs[e.n] = e
        BY <1>3, <3>2
      <4>2. sent'[Len(sent) + e.n] = e
        BY <1>6, <4>1, Zenon
      <4>3. Len(sent) + e.n \in 1..(i - 1)
        <5>1. e.n \in 1..Len(msgs) /\ k \in 1..Len(msgs) /\ e.n < k /\ i = Len(sent) + k
          BY <1>6, <2>1, <3>2, <4>1
        <5>2. Len(sent) \in Nat /\ Len(msgs) \in Nat
          BY <1>6
        <5> HIDE DEF k
        <5>3. QED
          BY <5>1, <5>2
      <4>4. QED
        BY <2>3, <4>2, <4>3
    <3>3. QED
      BY <2>4, <3>1, <3>2
  <2> HIDE DEF k
  <2>5. QED
    BY <1>5, <2>2, <2>4, Zenon DEF Outbox!Emittable, Unreleased, before
<1>8. QED
  BY <1>6, <1>7 DEF Outbox!Emit, Unreleased

(* The sequencer implements the ordered outbox, whatever its threads and   *)
(* the clock do: no flush hands over a message while an earlier            *)
(* transaction is unreleased or has messages that were never sent, and     *)
(* what was filed under one transaction goes out in the order of filing.   *)
THEOREM SequencerImplementsOutbox == Spec => ImplementsOutbox
<1>1. Init => FiledInv /\ Outbox!Init
  BY BaseInit DEF Init, FiledInv, Outbox!Init, Reserved
<1>2. FiledInv /\ [Next]_vars => FiledInv' /\ [Outbox!Next]_(Outbox!vars)
  <2> SUFFICES ASSUME FiledInv, [Next]_vars PROVE FiledInv' /\ [Outbox!Next]_(Outbox!vars)
    OBVIOUS
  <2>1. CASE UNCHANGED vars
    BY <2>1, BaseStep DEF vars, FiledInv, Reserved, Outbox!vars
  <2>2. ASSUME NEW th \in Threads, NEW clock \in TransactionId, ReserveTransaction(th, clock)
        PROVE  FiledInv' /\ Outbox!Next
    BY <2>2, FiledReserve DEF Outbox!Next, Outbox!Open, Unreleased
  <2>3. ASSUME NEW th \in Threads, NEW t \in held[th], QueueOutgoingMessage(th, t)
        PROVE  FiledInv' /\ Outbox!Next
    BY <2>3, FiledQueue DEF Outbox!Next, Outbox!Accept, Unreleased
  <2>4. ASSUME NEW th \in Threads, NEW t \in held[th], ReleaseTransaction(th, t)
        PROVE  FiledInv' /\ Outbox!Next
    BY <2>4, FiledRelease DEF Outbox!Next, Outbox!Close, Unreleased
  <2>5. ASSUME NEW th \in Threads, NEW n \in 1..MaxUnsequenced, SendUnsequenced(th, n)
        PROVE  FiledInv' /\ Outbox!Next
    <3>1. FiledInv' /\ UNCHANGED <<last_time_value_, accepted, Unreleased>>
          /\ sent' = Append(sent, [tid |-> NoId, n |-> n]) /\ sent \in Seq(Message)
      BY <2>5, FiledUnsequenced DEF FiledInv, BaseInv, TypeOK
    <3>2. /\ Len(sent') = Len(sent) + 1 /\ Len(sent) \in Nat
          /\ \A i \in DOMAIN sent : sent'[i] = sent[i]
          /\ sent'[Len(sent) + 1].tid = 0
      BY <3>1 DEF NoId
    <3>3. QED
      BY <3>1, <3>2 DEF Outbox!Next, Outbox!Emit, Unreleased
  <2>6. ASSUME NEW th \in Threads, FlushMessages_Locked(th)
        PROVE  FiledInv' /\ [Outbox!Next]_(Outbox!vars)
    <3>1. FiledInv' /\ UNCHANGED <<last_time_value_, accepted, Unreleased>>
      BY <2>6, FiledFlush
    <3>2. CASE sent' = sent
      BY <3>1, <3>2 DEF Outbox!vars, Unreleased
    <3>3. CASE \E t \in Reserved : /\ \A u \in Reserved : t <= u
                                   /\ sent' = sent \o transactions_[t].outgoing_messages
      BY <3>1, <3>3, FlushEmits DEF Outbox!Next
    <3>4. QED
      BY <2>6, <3>2, <3>3, FiledFlush
  <2>7. QED
    BY <2>1, <2>2, <2>3, <2>4, <2>5, <2>6 DEF Next, ThreadStep
<1>3. QED
  BY <1>1, <1>2, PTL DEF Spec, ImplementsOutbox, Outbox!Spec

=============================================================================
