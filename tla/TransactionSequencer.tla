------------------------- MODULE TransactionSequencer -------------------------
(***************************************************************************)
(* TransactionSequencer (src/engine/transaction_sequencer.cc) with the     *)
(* TransactionIdGenerator it owns.  Every thread of a peer that commits,   *)
(* rejects or invalidates transactions first reserves a transaction ID,    *)
(* then queues messages under it and finally releases it.  The sequencer   *)
(* hands the messages to the connection layer in transaction ID order.     *)
(*                                                                         *)
(* A transaction ID is its time stamp, a natural number: the IDs of one    *)
(* peer share the UUID part.  0 is MIN_TRANSACTION_ID, which the generator *)
(* never returns; here it also marks a message that carries no ID.         *)
(***************************************************************************)
EXTENDS Integers, Sequences

CONSTANTS
  Threads,        \* threads of one peer that use the sequencer
  NoThread,       \* "mu_ is free"
  MaxTime,        \* bound: the largest time stamp the generator hands out
  MaxMessages,    \* bound: messages queued under one transaction
  MaxUnsequenced  \* bound: messages without a transaction ID

ASSUME ConstantsAssumption ==
  /\ NoThread \notin Threads
  /\ MaxTime \in Nat
  /\ MaxMessages \in Nat
  /\ MaxUnsequenced \in Nat

VARIABLES
  last_time_value_,  \* TransactionIdGenerator::last_time_value_
  transactions_,     \* the map: ID -> [outgoing_messages, done]
  mu_,               \* holder of the mutex while it runs the flush loop
  held,              \* held[th]: the IDs th has reserved and not released
  accepted,          \* history: the messages queued so far
  sent               \* what the PeerMessageSender has been given, in order

vars == <<last_time_value_, transactions_, mu_, held, accepted, sent>>

TransactionId == 1..MaxTime
NoId == 0
Message == [tid : TransactionId \cup {NoId}, n : Nat]
Transaction == [outgoing_messages : Seq(Message), done : BOOLEAN]

Reserved == DOMAIN transactions_

TypeOK ==
  /\ last_time_value_ \in 0..MaxTime
  /\ Reserved \subseteq TransactionId
  /\ transactions_ \in [Reserved -> Transaction]
  /\ mu_ \in Threads \cup {NoThread}
  /\ held \in [Threads -> SUBSET TransactionId]
  /\ accepted \subseteq Message
  /\ sent \in Seq(Message)

Init ==
  /\ last_time_value_ = 0
  /\ transactions_ = [t \in {} |-> [outgoing_messages |-> <<>>, done |-> FALSE]]
  /\ mu_ = NoThread
  /\ held = [th \in Threads |-> {}]
  /\ accepted = {}
  /\ sent = <<>>

-----------------------------------------------------------------------------
(* Mutated forms of the definitions below, used to test the properties.    *)

FlushIgnoresDone(th) ==
  /\ mu_ = th
  /\ \/ /\ Reserved = {}
        /\ mu_' = NoThread
        /\ UNCHANGED <<transactions_, sent>>
     \/ \E t \in Reserved :
          /\ sent' = sent \o transactions_[t].outgoing_messages
          /\ IF transactions_[t].done
             THEN /\ transactions_' = [u \in Reserved \ {t} |-> transactions_[u]]
                  /\ UNCHANGED mu_
             ELSE /\ mu_' = NoThread
                  /\ UNCHANGED transactions_
  /\ UNCHANGED <<last_time_value_, held, accepted>>

FlushErasesUnreleased(th) ==
  /\ mu_ = th
  /\ \/ /\ Reserved = {}
        /\ mu_' = NoThread
        /\ UNCHANGED <<transactions_, sent>>
     \/ \E t \in Reserved :
          /\ \A u \in Reserved : t <= u
          /\ sent' = sent \o transactions_[t].outgoing_messages
          /\ transactions_' = [u \in Reserved \ {t} |-> transactions_[u]]
          /\ UNCHANGED mu_
  /\ UNCHANGED <<last_time_value_, held, accepted>>

ReleaseWithoutFlush(th, t) ==
  /\ mu_ = NoThread
  /\ t \in held[th]
  /\ transactions_' = [transactions_ EXCEPT ![t].done = TRUE]
  /\ held' = [held EXCEPT ![th] = @ \ {t}]
  /\ UNCHANGED <<last_time_value_, mu_, accepted, sent>>

-----------------------------------------------------------------------------
(* TransactionIdGenerator::Generate: the clock reading, unless that would  *)
(* not be later than the previous ID.  CLOCK_REALTIME may step back.       *)
Generate(clock) ==
  IF clock <= last_time_value_ THEN last_time_value_ + 1 ELSE clock

ReserveTransaction(th, clock) ==
  LET t == Generate(clock) IN
  /\ mu_ = NoThread
  /\ t <= MaxTime
  /\ last_time_value_' = t
  /\ transactions_' = [u \in Reserved \cup {t} |->
                         IF u = t THEN [outgoing_messages |-> <<>>, done |-> FALSE]
                         ELSE transactions_[u]]
  /\ held' = [held EXCEPT ![th] = @ \cup {t}]
  /\ UNCHANGED <<mu_, accepted, sent>>

(* Marks t done and enters the flush loop with mu_ held.                   *)
ReleaseTransaction(th, t) ==
  /\ mu_ = NoThread
  /\ t \in held[th]
  /\ transactions_' = [transactions_ EXCEPT ![t].done = TRUE]
  /\ held' = [held EXCEPT ![th] = @ \ {t}]
  /\ mu_' = th
  /\ UNCHANGED <<last_time_value_, accepted, sent>>

(* QueueOutgoingMessage for an APPLY_TRANSACTION, REJECT_TRANSACTION or    *)
(* INVALIDATE_TRANSACTIONS message, unicast or broadcast: appended to the  *)
(* transaction whose ID it carries; then the flush loop.                   *)
QueueOutgoingMessage(th, t) ==
  /\ mu_ = NoThread
  /\ t \in held[th]
  /\ LET msgs == transactions_[t].outgoing_messages
         m == [tid |-> t, n |-> Len(msgs) + 1]
     IN /\ m.n <= MaxMessages
        /\ transactions_' = [transactions_ EXCEPT ![t].outgoing_messages = Append(@, m)]
        /\ accepted' = accepted \cup {m}
  /\ mu_' = th
  /\ UNCHANGED <<last_time_value_, held, sent>>

(* QueueOutgoingMessage for a GET_OBJECT or STORE_OBJECT message, which    *)
(* carries no ID: sent at once and without taking mu_, so it may fall      *)
(* between two iterations of another thread's flush loop.                  *)
SendUnsequenced(th, n) ==
  LET m == [tid |-> NoId, n |-> n] IN
  /\ mu_ # th
  /\ \A i \in DOMAIN sent : sent[i] # m
  /\ sent' = Append(sent, m)
  /\ UNCHANGED <<last_time_value_, transactions_, mu_, held, accepted>>

(* One iteration of the loop in FlushMessages_Locked: everything queued    *)
(* under the first transaction is sent, also what an earlier flush already *)
(* sent (the vector is not cleared); a released transaction is erased and  *)
(* the loop goes on, an unreleased one ends it.                            *)
FlushMessages_Locked(th) ==
  /\ mu_ = th
  /\ \/ /\ Reserved = {}
        /\ mu_' = NoThread
        /\ UNCHANGED <<transactions_, sent>>
     \/ \E t \in Reserved :
          /\ \A u \in Reserved : t <= u
          /\ sent' = sent \o transactions_[t].outgoing_messages
          /\ IF transactions_[t].done
             THEN /\ transactions_' = [u \in Reserved \ {t} |-> transactions_[u]]
                  /\ UNCHANGED mu_
             ELSE /\ mu_' = NoThread
                  /\ UNCHANGED transactions_
  /\ UNCHANGED <<last_time_value_, held, accepted>>

ThreadStep(th) ==
  \/ \E clock \in TransactionId : ReserveTransaction(th, clock)
  \/ \E t \in held[th] : QueueOutgoingMessage(th, t)
  \/ \E t \in held[th] : ReleaseTransaction(th, t)
  \/ \E n \in 1..MaxUnsequenced : SendUnsequenced(th, n)
  \/ FlushMessages_Locked(th)

Next == \E th \in Threads : ThreadStep(th)

Spec == Init /\ [][Next]_vars

(* The flush loop runs on a thread the scheduler runs, and every caller of *)
(* ReserveTransaction in transaction_store.cc releases the ID on the only  *)
(* path out of the function.  Both assume that handing a message to the    *)
(* connection layer returns.                                               *)
Fairness ==
  \A th \in Threads :
    /\ WF_vars(FlushMessages_Locked(th))
    /\ SF_vars(\E t \in held[th] : ReleaseTransaction(th, t))

FairSpec == Spec /\ Fairness

-----------------------------------------------------------------------------
(* Remote peers see this peer's sequenced messages in transaction ID       *)
(* order, whatever the threads' interleaving and the clock do.             *)
SendOrder ==
  \A i, j \in DOMAIN sent :
    i < j /\ sent[i].tid # NoId /\ sent[j].tid # NoId => sent[i].tid <= sent[j].tid

(* The CHECKs of ReserveTransaction, ReleaseTransaction and                *)
(* QueueOutgoingMessage: a new ID is later than every reserved one, and an *)
(* ID a thread has not released is in the map and not done.                *)
ChecksHold ==
  /\ \A t \in Reserved : t <= last_time_value_
  /\ \A th \in Threads : \A t \in held[th] : t \in Reserved /\ ~transactions_[t].done

(* Every queued message is eventually sent.                                *)
EventuallySent ==
  \A t \in TransactionId : \A n \in 1..MaxMessages :
    [tid |-> t, n |-> n] \in accepted
      ~> \E i \in DOMAIN sent : sent[i] = [tid |-> t, n |-> n]

-----------------------------------------------------------------------------
Outbox == INSTANCE OrderedOutbox WITH
            last <- last_time_value_,
            open <- {t \in Reserved : ~transactions_[t].done}

(* The sequencer implements the ordered outbox: no flush hands over a      *)
(* message while an earlier transaction is unreleased or has messages that *)
(* were never sent.                                                        *)
ImplementsOutbox == Outbox!Spec

=============================================================================
