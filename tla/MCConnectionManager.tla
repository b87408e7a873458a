-------------------------- MODULE MCConnectionManager --------------------------
(* Two peers, 1 before 2 in dictionary order, with one application thread  *)
(* each.                                                                   *)
EXTENDS ConnectionManager

Msg(p, n) == Regular(<<"TEST", p, n>>, FALSE)

TwoPeers == {1, 2}
MCAddress == <<[host |-> <<"a">>, port |-> 1025], [host |-> <<"b">>, port |-> MaxPort]>>
Apps == {<<1, "app", 1>>, <<2, "app", 1>>}

Scenario(jobs1, jobs2) ==
  [starting |-> {}, known_peers |-> <<<<>>, <<>>>>, joins |-> <<{}, {}>>, named |-> {}, stopping |-> {},
   connections |-> 3, breaks |-> 0,
   script |-> [t \in Apps |-> IF t[1] = 1 THEN jobs1 ELSE jobs2]]

Send(p, n) == SendJob(3 - p, Msg(p, n), BLOCKING_MODE)
Ask(p, n) == SendJob(3 - p, Regular(<<"TEST", p, n>>, TRUE), BLOCKING_MODE)

(* Both peers open a connection to each other.                             *)
Crossing == [Scenario(<<Send(1, 1)>>, <<Send(2, 1)>>) EXCEPT !.connections = 2]

(* A peer stops as soon as it has sent a request; the answer arrives while *)
(* it drains its connections, or finds it gone.                            *)
Leaving == [Scenario(<<Ask(1, 1)>>, <<>>) EXCEPT !.stopping = {1}, !.connections = 2]

(* Both peers stop.                                                        *)
Ending == [Scenario(<<Send(1, 1)>>, <<>>) EXCEPT !.stopping = {1, 2}, !.connections = 1]

(* The ID of peer 1, and another way to write it.                          *)
Canonical == PeerIdOf(1)
Padded == MakePeerId(<<"a">>, 0) \o <<"1", "0", "2", "5">>

(* Peer 2 joins peer 1 by the other form of its ID.                        *)
Meeting == [Scenario(<<>>, <<>>) EXCEPT !.starting = {2},
             !.known_peers = <<<<>>, <<",">> \o Padded>>, !.joins = <<{}, {1}>>]

(* Peer 2 joins peer 1 by its ID, broadcasts, and peer 1 stops.            *)
Joining == [Scenario(<<>>, <<BroadcastJob(Msg(2, 1))>>) EXCEPT
              !.starting = {1, 2}, !.known_peers = <<<<>>, Canonical>>,
              !.joins = <<{}, {1}>>, !.stopping = {1}, !.named = {2}]

(* Peer 2 joins peer 1 by its ID and sends to it.                          *)
Twice == [Scenario(<<>>, <<Send(2, 1)>>) EXCEPT !.starting = {2},
           !.known_peers = <<<<>>, <<",">> \o Canonical \o <<",">>>>, !.joins = <<{}, {1}>>]

(* The network resets the connection of a peer that sends twice.           *)
Breaking == [Scenario(<<Send(1, 1), Send(1, 2)>>, <<>>) EXCEPT
               !.breaks = 1, !.connections = 2]

(* A request whose handler answers from the send/receive thread.           *)
Asking == [Scenario(<<Ask(1, 1)>>, <<>>) EXCEPT !.named = {1, 2}]

AllScenarios == {Crossing, Leaving, Ending, Meeting, Joining, Twice, Breaking, Asking}

(* Those in which sending and stopping are shown to end, the joining peer  *)
(* with one connection less.                                               *)
LiveScenarios ==
  {Ending, Joining, Asking, [Twice EXCEPT !.connections = 2]}
================================================================================
