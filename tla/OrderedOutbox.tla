---------------------------- MODULE OrderedOutbox ----------------------------
(***************************************************************************)
(* What the transaction sequencer promises the rest of the peer: an outbox *)
(* in which a message filed under a transaction is emitted only when no    *)
(* earlier transaction is open and everything filed under an earlier one   *)
(* has been emitted, in the order of filing under one transaction.         *)
(* Emission is at least once, not exactly once.                            *)
(***************************************************************************)
EXTENDS Integers, Sequences

VARIABLES last, open, accepted, sent

vars == <<last, open, accepted, sent>>

Init == last = 0 /\ open = {} /\ accepted = {} /\ sent = <<>>

Open(t) ==
  /\ t > last
  /\ last' = t
  /\ open' = open \cup {t}
  /\ UNCHANGED <<accepted, sent>>

Accept(m) ==
  /\ m.tid \in open
  /\ accepted' = accepted \cup {m}
  /\ UNCHANGED <<last, open, sent>>

Close(t) ==
  /\ t \in open
  /\ open' = open \ {t}
  /\ UNCHANGED <<last, accepted, sent>>

(* May m be emitted after the messages in `before'?  What was filed under  *)
(* the same transaction earlier goes first.                                *)
Emittable(m, before) ==
  /\ m \in accepted
  /\ \A t \in open : m.tid <= t
  /\ \A e \in accepted :
       e.tid < m.tid \/ (e.tid = m.tid /\ e.n < m.n) => \E i \in DOMAIN before : before[i] = e

(* Extends sent by messages that are emittable, or that carry no ID.       *)
Emit ==
  /\ Len(sent) <= Len(sent')
  /\ \A i \in DOMAIN sent : sent'[i] = sent[i]
  /\ \A i \in (Len(sent) + 1)..Len(sent') : Emittable(sent'[i], SubSeq(sent', 1, i - 1)) \/ sent'[i].tid = 0
  /\ UNCHANGED <<last, open, accepted>>

Next ==
  \/ \E t \in {last'} : Open(t)
  \/ \E m \in accepted' \ accepted : Accept(m)
  \/ \E t \in open : Close(t)
  \/ Emit

Spec == Init /\ [][Next]_vars
=============================================================================
