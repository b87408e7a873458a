------------------------------ MODULE SocketUtil ------------------------------
(***************************************************************************)
(* How sockets are opened (src/util/tcp.cc and src/util/socket_util.cc).   *)
(*                                                                         *)
(* An address list is a sequence of outcomes: what happens when that       *)
(* address is tried.  A result has the descriptor, or -1, and the number   *)
(* of descriptors that the process has open afterwards.                    *)
(***************************************************************************)
EXTENDS Integers, Sequences

CONSTANT MaxAddresses   \* a bound on the addresses of one host

(* socket() fails; bind() or connect() fails; SetFdToNonBlocking fails.    *)
Outcome == {"no_socket", "refused", "blocking", "ok"}
AddressLists == UNION {[1..n -> Outcome] : n \in 1..MaxAddresses}

Failed(open) == [fd |-> -1, open |-> open]
Socket(open) == [fd |-> open, open |-> open + 1]
Close(open) == open - 1

SetFdToNonBlocking(outcome) == outcome # "blocking"

BindToAddress(outcome, open) ==
  IF outcome = "no_socket" THEN Failed(open)
  ELSE IF ~SetFdToNonBlocking(outcome) \/ outcome = "refused"
  THEN Failed(Close(Socket(open).open))
  ELSE Socket(open)

(* Mutant: the socket of a refused connection is not closed.               *)
ConnectAndLeak(outcome, open) ==
  IF outcome = "no_socket" THEN Failed(open)
  ELSE IF outcome = "refused" THEN Failed(Socket(open).open)
  ELSE IF ~SetFdToNonBlocking(outcome) THEN Failed(Close(Socket(open).open))
  ELSE Socket(open)

ConnectToAddress(outcome, open) ==
  IF outcome = "no_socket" THEN Failed(open)
  ELSE IF outcome = "refused" \/ ~SetFdToNonBlocking(outcome)
  THEN Failed(Close(Socket(open).open))
  ELSE Socket(open)

(* The addresses are tried in turn until one gives a socket.               *)
BindToSomeAddress(addresses, open) ==
  LET tried[n \in 0..Len(addresses)] ==
        IF n = 0 THEN Failed(open)
        ELSE IF tried[n - 1].fd # -1 THEN tried[n - 1]
        ELSE BindToAddress(addresses[n], tried[n - 1].open)
  IN tried[Len(addresses)]

ConnectToSomeAddress(addresses, open) ==
  LET tried[n \in 0..Len(addresses)] ==
        IF n = 0 THEN Failed(open)
        ELSE IF tried[n - 1].fd # -1 THEN tried[n - 1]
        ELSE ConnectToAddress(addresses[n], tried[n - 1].open)
  IN tried[Len(addresses)]

(* A result of -1 fails the CHECK.                                         *)
ListenOnLocalAddress(addresses, open) == BindToSomeAddress(addresses, open)

ConnectToRemoteHost(addresses, open) == ConnectToSomeAddress(addresses, open)

(* backlog: whether a connection waits.  The calls of the system that end  *)
(* the process when they fail are WorkerAcceptFails in ProtocolServer.     *)
AcceptConnection(backlog, open) == IF backlog THEN Socket(open) ELSE Failed(open)
================================================================================
