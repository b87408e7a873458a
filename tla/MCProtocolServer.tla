---------------------------- MODULE MCProtocolServer ----------------------------
(* One connection that a far end opens and one that is opened locally.     *)
EXTENDS ProtocolServer, TLC

CONSTANTS a, b, w1, s1

MCOutbound == (a :> <<>>) @@ (b :> <<"hello", "more">>)
MCInbound == (a :> <<"bye">>) @@ (b :> <<>>)

(* Two connections; the server is stopped while it serves one; one fails.  *)
Serving2 == [stop |-> FALSE, open |-> {a, b}, drop |-> {}, send |-> 1]
Stopping(c) == [stop |-> TRUE, open |-> {c}, drop |-> {}, send |-> 2]
Dropping(c) == [stop |-> FALSE, open |-> {c}, drop |-> {c}, send |-> 1]

(* The server is stopped before anybody connects.                          *)
Unused == [stop |-> TRUE, open |-> {}, drop |-> {}, send |-> 0]

MCScenarios == {Serving2, Unused} \cup {Stopping(c) : c \in Conn} \cup {Dropping(c) : c \in Conn}
================================================================================
