---------------------------- MODULE PeerConnection ----------------------------
(***************************************************************************)
(* PeerConnection (src/engine/peer_connection.cc): one end of a connection *)
(* between two peers.  An end is a record; each operator is what one       *)
(* critical section of a method does to it.  ConnectionManager owns the    *)
(* ends and runs the methods in the threads of a peer.                     *)
(***************************************************************************)
EXTENDS Integers, Sequences

CONSTANT NoPeer   \* remote_peer_ is null

NON_BLOCKING_MODE == 0
BLOCKING_MODE == 1
SendMode == {NON_BLOCKING_MODE, BLOCKING_MODE}

(* output_messages_: no limit on the queue, one BLOCKING_MODE message.     *)
output_messages_ == INSTANCE QuotaQueue WITH
  Services <- SendMode,
  Quota <- [s \in SendMode |-> IF s = BLOCKING_MODE THEN 1 ELSE -1],
  MaxSize <- -1

HelloMessage(p) == [type |-> "HELLO", peer_id |-> p]
GoodbyeMessage == [type |-> "GOODBYE"]

(* The constructor; protocol_connection_ is set later by Init.             *)
NewConnection(remote_peer, locally_initiated) ==
  [locally_initiated_ |-> locally_initiated,
   protocol_connection_ |-> FALSE,
   remote_peer_ |-> remote_peer,
   connection_state_ |-> "CONNECTION_OPEN",
   receive_state_ |-> "NO_MESSAGE_RECEIVED",
   send_state_ |-> "NO_MESSAGE_SENT",
   drain_state_ |-> "NO_DRAIN_REQUESTED",
   output_messages_ |-> output_messages_!NewQueue]

InitConnection(e) == [e EXCEPT !.protocol_connection_ = TRUE]

RequestDrain(e) == [e EXCEPT !.drain_state_ = "DRAIN_REQUESTED"]

CloseConnection(e) == [e EXCEPT !.connection_state_ = "CONNECTION_CLOSED"]

(* GetNextOutputMessageHelper: a HELLO first, then the queued messages;    *)
(* a drained queue is followed by a GOODBYE, after which nothing is sent.  *)
MustSendHello(e) == e.send_state_ = "NO_MESSAGE_SENT"

SendHello(e) == [e EXCEPT !.send_state_ = "HELLO_SENT"]

MaySendQueued(e) == e.send_state_ = "HELLO_SENT"

DrainRequested(e) == e.drain_state_ = "DRAIN_REQUESTED"

SendGoodbye(e) == [e EXCEPT !.send_state_ = "GOODBYE_SENT"]

ClosesAfterSend(e) == e.receive_state_ = "GOODBYE_RECEIVED"

(* NotifyMessageReceived: the CHECK and the effect of each handler.        *)
ReceiveCheck(e, m) ==
  IF m.type = "HELLO"
  THEN /\ e.receive_state_ = "NO_MESSAGE_RECEIVED"
       /\ e.remote_peer_ \in {NoPeer, m.peer_id}
  ELSE e.receive_state_ = "HELLO_RECEIVED"

HandleHelloMessage(e, m) ==
  [e EXCEPT !.receive_state_ = "HELLO_RECEIVED", !.remote_peer_ = m.peer_id]

HandleGoodbyeMessage(e) ==
  [e EXCEPT !.receive_state_ = "GOODBYE_RECEIVED",
            !.drain_state_ = "DRAIN_REQUESTED"]

ClosesAfterGoodbye(e) == e.send_state_ = "GOODBYE_SENT"
================================================================================
