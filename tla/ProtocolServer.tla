---------------------------- MODULE ProtocolServer ----------------------------
(***************************************************************************)
(* One ProtocolServer (src/protocol_server/protocol_server.h) with its     *)
(* ProtocolConnectionImpls (src/protocol_server/protocol_connection_impl.h)*)
(*                                                                         *)
(* A connection goes round between the ready queue, a send/receive thread, *)
(* the blocked set and the select thread.  NULL is the entry that stands   *)
(* for the listening socket.  Local threads queue messages for a           *)
(* connection and signal the event FD; the far ends of the sockets write,  *)
(* read and close.                                                         *)
(***************************************************************************)
EXTENDS Integers, Sequences, FiniteSets, Functions, SocketUtil, MessageStream

CONSTANTS
  NULL,           \* the listening socket's entry
  Accepted,       \* connections the far ends open
  Opened,         \* connections the local peer opens
  Workers,        \* the send/receive threads
  Senders,        \* local threads that queue messages and open connections
  Outbound,       \* Outbound[c]: messages the local peer sends on c
  Inbound,        \* Inbound[c]: messages the far end sends on c
  Bye,            \* the messages after which the handler closes
  Capacity,       \* bytes the network takes in one direction
  Scenarios       \* [stop: whether Stop may be called, open: the connections
                  \* that are opened, drop: those that a far end may close
                  \* and the network may reset, send: a bound on the messages
                  \* queued per connection]

Conn == Accepted \cup Opened
Entry == Conn \cup {NULL}

ASSUME ServerAssumption == NULL \notin Conn /\ Accepted \cap Opened = {}

Message == UNION {Range(Inbound[c]) \cup Range(Outbound[c]) : c \in Conn}

ASSUME StreamAssumption ==
  /\ Capacity \in Nat
  /\ \A c \in Conn : Inbound[c] \in Seq(Message) /\ Outbound[c] \in Seq(Message)

VARIABLES
  may,                  \* the scenario
  state_,               \* NOT_STARTED, RUNNING, STOPPING or STOPPED
  ready_connections_,   \* the queue of entries that can be worked on
  draining_,            \* ready_connections_ has been drained
  blocked_connections_, \* entries that wait for their socket
  event,                \* connections_changed_event_fd_ is readable
  signalled,            \* Stop has signalled the event FD
  select_pc, temp, todo, asked, fired,   \* the select thread: its
                        \* blocked_connections_temp, the entries still to be visited,
                        \* the one that IsBlocked was called for, and the ready FDs
  worker_pc, held,      \* [w]: the send/receive threads and their entries
  sender_pc,            \* [s]: the local threads
  descriptors,          \* how many descriptors the process has open
  socket,               \* [c]: "none", "backlog", "open" or "closed"
  receive_blocked_, send_blocked_, close_requested_,   \* [c]
  input_data_, output_data_,    \* [c]: bytes not parsed yet, not sent yet
  queued, pushed,       \* [c]: messages the handler has to send, and how many
                        \* of Outbound[c] have been queued so far
  arriving, leaving,    \* [c]: bytes in the network, in each direction
  far,                  \* [c]: "open", "closed" or "reset"
  unsent,               \* [c]: bytes the far end has still to write
  delivered,            \* [c]: messages given to NotifyMessageReceived
  read,                 \* [c]: bytes the far end has read
  crashed               \* a CHECK has failed

serverVars == <<state_, ready_connections_, draining_, blocked_connections_, event>>
selectVars == <<select_pc, temp, todo, asked, fired>>
workerVars == <<worker_pc, held>>
localVars == <<sender_pc, may, descriptors, signalled>>
connVars == <<socket, receive_blocked_, send_blocked_, close_requested_,
              input_data_, output_data_, queued, pushed, delivered>>
netVars == <<arriving, leaving, far, unsent, read>>
vars == <<serverVars, selectVars, workerVars, localVars, connVars, netVars, crashed>>

Init ==
  /\ may \in Scenarios
  /\ state_ = "NOT_STARTED" /\ ready_connections_ = <<>> /\ draining_ = FALSE
  /\ blocked_connections_ = {} /\ event = FALSE /\ signalled = FALSE
  /\ select_pc = "loop" /\ temp = {} /\ todo = {} /\ asked = NULL /\ fired = {}
  /\ worker_pc = [w \in Workers |-> "pop"] /\ held = [w \in Workers |-> NULL]
  /\ sender_pc = [s \in Senders |-> "idle"] /\ descriptors = 0
  /\ socket = [c \in Conn |-> "none"]
  /\ receive_blocked_ = [c \in Conn |-> FALSE]
  /\ send_blocked_ = [c \in Conn |-> FALSE]
  /\ close_requested_ = [c \in Conn |-> FALSE]
  /\ input_data_ = [c \in Conn |-> <<>>] /\ output_data_ = [c \in Conn |-> <<>>]
  /\ queued = [c \in Conn |-> <<>>] /\ pushed = [c \in Conn |-> 0]
  /\ arriving = [c \in Conn |-> <<>>] /\ leaving = [c \in Conn |-> <<>>]
  /\ far = [c \in Conn |-> "open"]
  /\ unsent = [c \in Conn |-> BytesOf(Inbound[c])]
  /\ delivered = [c \in Conn |-> <<>>] /\ read = [c \in Conn |-> <<>>]
  /\ crashed = FALSE

Running == ~crashed

(* CHECK(ready_connections_.Push(entry, false)): fails in a drained queue. *)
AddConnectionToReadyConnections(x) ==
  IF draining_
  THEN crashed' = TRUE /\ UNCHANGED ready_connections_
  ELSE ready_connections_' = Append(ready_connections_, x) /\ UNCHANGED crashed

(* Mutant: an entry that waits for its socket is not inserted.             *)
InsertNothing(x) == UNCHANGED <<blocked_connections_, crashed>>

(* CHECK(blocked_connections_.insert(entry).second).                       *)
InsertIntoBlockedConnections(x) ==
  IF x \in blocked_connections_
  THEN crashed' = TRUE /\ UNCHANGED blocked_connections_
  ELSE /\ blocked_connections_' = blocked_connections_ \cup {x}
       /\ UNCHANGED crashed

-----------------------------------------------------------------------------
(* Start and Stop.                                                         *)

(* ListenOnLocalAddress has to find an address; then the event FD is made  *)
(* and the threads are.                                                    *)
Start(addresses) ==
  LET listen == ListenOnLocalAddress(addresses, descriptors)
  IN /\ Running /\ state_ = "NOT_STARTED"
     /\ \/ /\ listen.fd = -1
           /\ state_' = "STARTING" /\ crashed' = TRUE
           /\ UNCHANGED <<ready_connections_, descriptors>>
        \/ /\ listen.fd # -1
           /\ state_' = "RUNNING"
           /\ AddConnectionToReadyConnections(NULL)
           /\ descriptors' = listen.open + 1
     /\ UNCHANGED <<draining_, blocked_connections_, event, selectVars, workerVars,
                    sender_pc, may, signalled, connVars, netVars>>

Stop ==
  /\ Running /\ may.stop /\ state_ = "RUNNING"
  /\ \A s \in Senders : sender_pc[s] = "idle"
  /\ state_' = "STOPPING"
  /\ UNCHANGED <<ready_connections_, draining_, blocked_connections_, event, selectVars,
                 workerVars, localVars, connVars, netVars, crashed>>

(* Wake the send/receive threads, ...                                      *)
StopDrain ==
  /\ Running /\ state_ = "STOPPING" /\ ~draining_
  /\ draining_' = TRUE
  /\ UNCHANGED <<state_, ready_connections_, blocked_connections_, event, selectVars,
                 workerVars, localVars, connVars, netVars, crashed>>

(* ... then the select thread.                                             *)
StopSignal ==
  /\ Running /\ state_ = "STOPPING" /\ draining_ /\ ~signalled
  /\ event' = TRUE /\ signalled' = TRUE
  /\ UNCHANGED <<state_, ready_connections_, draining_, blocked_connections_, selectVars,
                 workerVars, sender_pc, may, descriptors, connVars, netVars, crashed>>

(* When the threads have been joined, the sockets that are left are closed.*)
StopClose ==
  /\ Running /\ state_ = "STOPPING" /\ signalled
  /\ select_pc = "done" /\ \A w \in Workers : worker_pc[w] = "done"
  /\ LET left == blocked_connections_ \cup Range(ready_connections_)
     IN /\ socket' = [c \in Conn |-> IF c \in left \/ socket[c] = "backlog" THEN "closed"
                                     ELSE socket[c]]
        /\ descriptors' = descriptors - 2 - Cardinality(left \ {NULL})
  /\ blocked_connections_' = {} /\ ready_connections_' = <<>>
  /\ state_' = "STOPPED"
  /\ UNCHANGED <<draining_, event, signalled, selectVars, workerVars, sender_pc, may,
                 receive_blocked_, send_blocked_, close_requested_, input_data_,
                 output_data_, queued, pushed, delivered, netVars, crashed>>

-----------------------------------------------------------------------------
(* ProtocolConnectionImpl.                                                 *)

(* Mutant: output_data_ is overwritten before it has been sent.            *)
FetchesAlways(c) == queued[c] # <<>>

(* PrivateHasOutputData: an empty output_data_ is filled from the handler. *)
Fetches(c) == output_data_[c] = <<>> /\ queued[c] # <<>>

HasOutputData(c) == output_data_[c] # <<>> \/ queued[c] # <<>>

FetchOutput(c, fetches) ==
  /\ output_data_' = [output_data_ EXCEPT ![c] = IF fetches THEN BytesOf(<<Head(queued[c])>>) ELSE @]
  /\ queued' = [queued EXCEPT ![c] = IF fetches THEN Tail(@) ELSE @]

IsBlocked(c) == receive_blocked_[c] /\ (~HasOutputData(c) \/ send_blocked_[c])

(* IsBlocked asks the handler for a message only if recv() was blocked.    *)
IsBlockedEffect(c) == FetchOutput(c, receive_blocked_[c] /\ Fetches(c))

-----------------------------------------------------------------------------
(* DoSelectLoop, the select thread.                                        *)

(* Mutant: the loop does not look at the state again.                      *)
SelectLoopForever ==
  /\ Running /\ select_pc = "loop" /\ state_ # "NOT_STARTED"
  /\ select_pc' = "clear"
  /\ UNCHANGED <<serverVars, temp, todo, asked, fired, workerVars, localVars, connVars,
                 netVars, crashed>>

SelectLoop ==
  /\ Running /\ select_pc = "loop" /\ state_ # "NOT_STARTED"
  /\ select_pc' = IF state_ = "RUNNING" THEN "clear" ELSE "done"
  /\ UNCHANGED <<serverVars, temp, todo, asked, fired, workerVars, localVars, connVars,
                 netVars, crashed>>

SelectClear ==
  /\ Running /\ select_pc = "clear"
  /\ select_pc' = "swap"
  /\ event' = FALSE
  /\ UNCHANGED <<state_, ready_connections_, draining_, blocked_connections_, temp,
                 todo, asked, fired, workerVars, localVars, connVars, netVars, crashed>>

(* Mutant: the blocked entries are copied, not moved.                      *)
SelectSwapCopies ==
  /\ Running /\ select_pc = "swap"
  /\ select_pc' = "scan"
  /\ temp' = blocked_connections_ /\ todo' = blocked_connections_
  /\ UNCHANGED <<serverVars, asked, fired, workerVars, localVars, connVars, netVars, crashed>>

SelectSwap ==
  /\ Running /\ select_pc = "swap"
  /\ select_pc' = "scan"
  /\ temp' = blocked_connections_ /\ todo' = blocked_connections_
  /\ blocked_connections_' = {}
  /\ UNCHANGED <<state_, ready_connections_, draining_, event, asked, fired, workerVars,
                 localVars, connVars, netVars, crashed>>

(* One entry of the first loop: close it, hand it to the workers, or keep  *)
(* it for select().                                                        *)
SelectScan(x) ==
  /\ Running /\ select_pc = "scan" /\ x \in todo /\ asked = NULL
  /\ todo' = todo \ {x}
  /\ \/ /\ x = NULL
        /\ UNCHANGED <<ready_connections_, temp, asked, socket, descriptors, output_data_,
                       queued, crashed>>
     \/ /\ x # NULL /\ close_requested_[x]
        /\ socket' = [socket EXCEPT ![x] = "closed"]
        /\ descriptors' = Close(descriptors)
        /\ temp' = temp \ {x}
        /\ UNCHANGED <<ready_connections_, asked, output_data_, queued, crashed>>
     \/ /\ x # NULL /\ ~close_requested_[x] /\ IsBlocked(x)
        /\ IsBlockedEffect(x)
        /\ asked' = x
        /\ UNCHANGED <<ready_connections_, temp, socket, descriptors, crashed>>
     \/ /\ x # NULL /\ ~close_requested_[x] /\ ~IsBlocked(x)
        /\ IsBlockedEffect(x)
        /\ AddConnectionToReadyConnections(x)
        /\ temp' = temp \ {x}
        /\ UNCHANGED <<asked, socket, descriptors>>
  /\ UNCHANGED <<state_, draining_, blocked_connections_, event, select_pc, fired,
                 workerVars, sender_pc, may, signalled, receive_blocked_, send_blocked_,
                 close_requested_, input_data_, pushed, delivered, netVars>>

(* The second HasOutputData, for the set of sockets to write to.           *)
SelectOutput ==
  /\ Running /\ asked \in Conn
  /\ FetchOutput(asked, Fetches(asked))
  /\ asked' = NULL
  /\ UNCHANGED <<serverVars, select_pc, temp, todo, fired, workerVars, localVars, socket,
                 receive_blocked_, send_blocked_, close_requested_, input_data_, pushed,
                 delivered, netVars, crashed>>

Readable(c) == arriving[c] # <<>> \/ far[c] # "open"
Writable(c) == Len(leaving[c]) < Capacity \/ far[c] # "open"

(* select() returns: what is ready now, among the listening socket, the    *)
(* connections (for writing only those with output data) and the event FD. *)
Select ==
  LET ready == {x \in temp :
                  \/ x = NULL /\ \E c \in Accepted : socket[c] = "backlog"
                  \/ x # NULL /\ (Readable(x) \/ (output_data_[x] # <<>> /\ Writable(x)))}
  IN /\ Running /\ select_pc = "scan" /\ todo = {} /\ asked = NULL
     /\ event \/ ready # {}
     /\ select_pc' = IF temp = {} THEN "loop" ELSE "distribute"
     /\ fired' = ready /\ todo' = temp
     /\ UNCHANGED <<serverVars, temp, asked, workerVars, localVars, connVars, netVars, crashed>>

SelectDistribute(x) ==
  /\ Running /\ select_pc = "distribute" /\ x \in todo
  /\ todo' = todo \ {x} /\ temp' = temp \ {x}
  /\ select_pc' = IF todo = {x} THEN "loop" ELSE "distribute"
  /\ fired' = IF todo = {x} THEN {} ELSE fired
  /\ IF x \in fired
     THEN AddConnectionToReadyConnections(x) /\ UNCHANGED blocked_connections_
     ELSE InsertIntoBlockedConnections(x) /\ UNCHANGED ready_connections_
  /\ UNCHANGED <<state_, draining_, event, asked, workerVars, localVars, connVars, netVars>>

-----------------------------------------------------------------------------
(* SendAndReceiveData, a send/receive thread.                              *)

WorkerLoop(w) ==
  /\ Running /\ worker_pc[w] = "pop" /\ state_ # "NOT_STARTED"
  /\ worker_pc' = [worker_pc EXCEPT ![w] = IF state_ = "RUNNING" THEN "waiting" ELSE "done"]
  /\ UNCHANGED <<serverVars, selectVars, held, localVars, connVars, netVars, crashed>>

(* The Pop waits for an entry; a drained and empty queue ends the wait.    *)
WorkerPop(w) ==
  /\ Running /\ worker_pc[w] = "waiting"
  /\ \/ /\ ready_connections_ # <<>>
        /\ ready_connections_' = Tail(ready_connections_)
        /\ held' = [held EXCEPT ![w] = Head(ready_connections_)]
        /\ worker_pc' = [worker_pc EXCEPT ![w] =
                           IF Head(ready_connections_) = NULL THEN "accept" ELSE "recv"]
     \/ /\ ready_connections_ = <<>> /\ draining_
        /\ worker_pc' = [worker_pc EXCEPT ![w] = "pop"]
        /\ UNCHANGED <<ready_connections_, held>>
  /\ UNCHANGED <<state_, draining_, blocked_connections_, event, selectVars,
                 localVars, connVars, netVars, crashed>>

(* AcceptSingleConnection: the new connection is ready at once, and then   *)
(* the listening socket is, too.                                           *)
WorkerAccept(w) ==
  /\ Running /\ worker_pc[w] = "accept"
  /\ descriptors' = AcceptConnection(\E c \in Accepted : socket[c] = "backlog",
                                     descriptors).open
  /\ \/ \E c \in Accepted :
          /\ socket[c] = "backlog"
          /\ socket' = [socket EXCEPT ![c] = "open"]
          /\ AddConnectionToReadyConnections(c)
          /\ worker_pc' = [worker_pc EXCEPT ![w] = "check"]
     \/ /\ \A c \in Accepted : socket[c] # "backlog"
        /\ worker_pc' = [worker_pc EXCEPT ![w] = "insert"]
        /\ UNCHANGED <<ready_connections_, socket, crashed>>
  /\ UNCHANGED <<state_, draining_, blocked_connections_, event, selectVars, held,
                 sender_pc, may, signalled, receive_blocked_, send_blocked_, close_requested_,
                 input_data_, output_data_, queued, pushed, delivered, netVars>>

(* AcceptConnection ends the process if accept() fails for another reason  *)
(* than an empty backlog, or SetFdToNonBlocking does.                      *)
WorkerAcceptFails(w) ==
  /\ Running /\ worker_pc[w] = "accept"
  /\ worker_pc' = [worker_pc EXCEPT ![w] = "failed"]
  /\ crashed' = TRUE
  /\ UNCHANGED <<serverVars, selectVars, held, localVars, connVars, netVars>>

(* SendAndReceive, first half: recv() and ParseMessages, which hands every *)
(* complete message to the handler.                                        *)
WorkerReceive(w) ==
  LET c == held[w]
      data == input_data_[c] \o arriving[c]
      messages == ParseMessages(data)
  IN /\ Running /\ worker_pc[w] = "recv"
     /\ worker_pc' = [worker_pc EXCEPT ![w] = "send"]
     /\ receive_blocked_' = [receive_blocked_ EXCEPT ![c] = (arriving[c] = <<>>)]
     /\ arriving' = [arriving EXCEPT ![c] = <<>>]
     /\ input_data_' = [input_data_ EXCEPT ![c] =
                          SubSeq(data, MessageLength * Len(messages) + 1, Len(data))]
     /\ delivered' = [delivered EXCEPT ![c] = @ \o messages]
     /\ close_requested_' = [close_requested_ EXCEPT ![c] =
                               \/ @
                               \/ arriving[c] = <<>> /\ far[c] # "open"
                               \/ Range(messages) \cap Bye # {}]
     /\ UNCHANGED <<serverVars, selectVars, held, localVars, socket, send_blocked_,
                    output_data_, queued, pushed, leaving, far, unsent, read, crashed>>

(* SendAndReceive, second half: send() takes what fits; a reset connection *)
(* is to be closed.                                                        *)
WorkerSend(w) ==
  LET c == held[w]
      data == IF Fetches(c) THEN BytesOf(<<Head(queued[c])>>) ELSE output_data_[c]
      room == Capacity - Len(leaving[c])
      count == IF far[c] # "open" \/ room > Len(data) THEN Len(data) ELSE room
  IN /\ Running /\ worker_pc[w] = "send"
     /\ worker_pc' = [worker_pc EXCEPT ![w] = "check"]
     /\ queued' = [queued EXCEPT ![c] = IF Fetches(c) THEN Tail(@) ELSE @]
     /\ \/ /\ data = <<>>
           /\ UNCHANGED <<output_data_, send_blocked_, close_requested_, leaving>>
        \/ /\ data # <<>> /\ far[c] = "reset"
           /\ output_data_' = [output_data_ EXCEPT ![c] = data]
           /\ send_blocked_' = [send_blocked_ EXCEPT ![c] = TRUE]
           /\ close_requested_' = [close_requested_ EXCEPT ![c] = TRUE]
           /\ UNCHANGED leaving
        \/ /\ data # <<>> /\ far[c] # "reset"
           /\ output_data_' = [output_data_ EXCEPT ![c] = SubSeq(data, count + 1, Len(data))]
           /\ send_blocked_' = [send_blocked_ EXCEPT ![c] = (count = 0)]
           /\ leaving' = [leaving EXCEPT ![c] =
                            IF far[c] = "open" THEN @ \o SubSeq(data, 1, count) ELSE @]
           /\ UNCHANGED close_requested_
     /\ UNCHANGED <<serverVars, selectVars, held, localVars, socket, receive_blocked_,
                    input_data_, pushed, delivered, arriving, far, unsent, read, crashed>>

(* An entry that is not blocked goes back to the ready queue.              *)
WorkerCheck(w) ==
  LET c == held[w]
  IN /\ Running /\ worker_pc[w] = "check"
     /\ \/ /\ c # NULL /\ close_requested_[c]
           /\ worker_pc' = [worker_pc EXCEPT ![w] = "insert"]
           /\ UNCHANGED <<held, ready_connections_, output_data_, queued, crashed>>
        \/ /\ c # NULL /\ ~close_requested_[c] /\ IsBlocked(c)
           /\ IsBlockedEffect(c)
           /\ worker_pc' = [worker_pc EXCEPT ![w] = "insert"]
           /\ UNCHANGED <<held, ready_connections_, crashed>>
        \/ /\ c # NULL => ~close_requested_[c] /\ ~IsBlocked(c)
           /\ IF c = NULL THEN UNCHANGED <<output_data_, queued>> ELSE IsBlockedEffect(c)
           /\ AddConnectionToReadyConnections(c)
           /\ worker_pc' = [worker_pc EXCEPT ![w] = "pop"]
           /\ held' = [held EXCEPT ![w] = NULL]
     /\ UNCHANGED <<state_, draining_, blocked_connections_, event, selectVars, localVars,
                    socket, receive_blocked_, send_blocked_, close_requested_, input_data_,
                    pushed, delivered, netVars>>

WorkerInsert(w) ==
  /\ Running /\ worker_pc[w] = "insert"
  /\ InsertIntoBlockedConnections(held[w])
  /\ worker_pc' = [worker_pc EXCEPT ![w] = "signal"]
  /\ held' = [held EXCEPT ![w] = NULL]
  /\ UNCHANGED <<state_, ready_connections_, draining_, event, selectVars, localVars,
                 connVars, netVars>>

(* Mutant: the select thread is not told of the new blocked entry.         *)
WorkerSignalNone(w) ==
  /\ Running /\ worker_pc[w] = "signal"
  /\ worker_pc' = [worker_pc EXCEPT ![w] = "pop"]
  /\ UNCHANGED <<serverVars, selectVars, held, localVars, connVars, netVars, crashed>>

WorkerSignal(w) ==
  /\ Running /\ worker_pc[w] = "signal"
  /\ event' = TRUE
  /\ worker_pc' = [worker_pc EXCEPT ![w] = "pop"]
  /\ UNCHANGED <<state_, ready_connections_, draining_, blocked_connections_, selectVars,
                 held, localVars, connVars, netVars, crashed>>

-----------------------------------------------------------------------------
(* Local threads.                                                          *)

(* The new connection is ready at once; a failure changes nothing, and the *)
(* caller tries again.                                                     *)
OpenConnection(s, c, addresses) ==
  LET result == ConnectToRemoteHost(addresses, descriptors)
  IN /\ Running /\ sender_pc[s] = "idle" /\ state_ = "RUNNING"
     /\ c \in Opened \cap may.open /\ socket[c] = "none"
     /\ descriptors' = result.open
     /\ \/ /\ result.fd = -1
           /\ UNCHANGED <<ready_connections_, socket, crashed>>
        \/ /\ result.fd # -1
           /\ socket' = [socket EXCEPT ![c] = "open"]
           /\ AddConnectionToReadyConnections(c)
     /\ UNCHANGED <<state_, draining_, blocked_connections_, event, selectVars, workerVars,
                    sender_pc, may, signalled, receive_blocked_, send_blocked_,
                    close_requested_, input_data_, output_data_, queued, pushed, delivered,
                    netVars>>

(* The handler has another message to send, ...                            *)
QueueMessage(s, c) ==
  /\ Running /\ sender_pc[s] = "idle" /\ state_ = "RUNNING"
  /\ socket[c] = "open" /\ pushed[c] < Len(Outbound[c]) /\ pushed[c] < may.send
  /\ queued' = [queued EXCEPT ![c] = Append(@, Outbound[c][pushed[c] + 1])]
  /\ pushed' = [pushed EXCEPT ![c] = @ + 1]
  /\ sender_pc' = [sender_pc EXCEPT ![s] = "notify"]
  /\ UNCHANGED <<serverVars, selectVars, workerVars, socket, receive_blocked_, send_blocked_,
                 close_requested_, input_data_, output_data_, delivered, netVars, crashed, may,
                 descriptors, signalled>>

(* ... and says so: NotifyMessageReadyToSend, NotifyConnectionsChanged.    *)
NotifyConnectionsChanged(s) ==
  /\ Running /\ sender_pc[s] = "notify"
  /\ event' = TRUE
  /\ sender_pc' = [sender_pc EXCEPT ![s] = "idle"]
  /\ UNCHANGED <<state_, ready_connections_, draining_, blocked_connections_, selectVars,
                 workerVars, connVars, netVars, crashed, may,
                 descriptors, signalled>>

-----------------------------------------------------------------------------
(* The far ends and the network.                                           *)

Connect(c) ==
  /\ Running /\ c \in Accepted \cap may.open /\ socket[c] = "none"
  /\ state_ \in {"RUNNING", "STOPPING"}
  /\ socket' = [socket EXCEPT ![c] = "backlog"]
  /\ UNCHANGED <<serverVars, selectVars, workerVars, localVars, receive_blocked_,
                 send_blocked_, close_requested_, input_data_, output_data_, queued,
                 pushed, delivered, netVars, crashed>>

FarWrite(c) ==
  /\ Running /\ far[c] = "open" /\ socket[c] \in {"backlog", "open"}
  /\ unsent[c] # <<>> /\ Len(arriving[c]) < Capacity
  /\ arriving' = [arriving EXCEPT ![c] = Append(@, Head(unsent[c]))]
  /\ unsent' = [unsent EXCEPT ![c] = Tail(@)]
  /\ UNCHANGED <<serverVars, selectVars, workerVars, localVars, connVars, leaving, far,
                 read, crashed>>

FarRead(c) ==
  /\ Running /\ far[c] = "open" /\ leaving[c] # <<>>
  /\ read' = [read EXCEPT ![c] = Append(@, Head(leaving[c]))]
  /\ leaving' = [leaving EXCEPT ![c] = Tail(@)]
  /\ UNCHANGED <<serverVars, selectVars, workerVars, localVars, connVars, arriving, far,
                 unsent, crashed>>

FarClose(c) ==
  /\ Running /\ c \in may.drop /\ far[c] = "open" /\ socket[c] \in {"backlog", "open"}
  /\ far' = [far EXCEPT ![c] = "closed"]
  /\ leaving' = [leaving EXCEPT ![c] = <<>>]
  /\ UNCHANGED <<serverVars, selectVars, workerVars, localVars, connVars, arriving,
                 unsent, read, crashed>>

Reset(c) ==
  /\ Running /\ c \in may.drop /\ far[c] = "open" /\ socket[c] \in {"backlog", "open"}
  /\ far' = [far EXCEPT ![c] = "reset"]
  /\ arriving' = [arriving EXCEPT ![c] = <<>>]
  /\ leaving' = [leaving EXCEPT ![c] = <<>>]
  /\ UNCHANGED <<serverVars, selectVars, workerVars, localVars, connVars, unsent, read,
                 crashed>>

-----------------------------------------------------------------------------
SelectStep ==
  \/ SelectLoop \/ SelectClear \/ SelectSwap \/ SelectOutput \/ Select
  \/ \E x \in Entry : SelectScan(x) \/ SelectDistribute(x)

WorkerStep(w) ==
  \/ WorkerLoop(w) \/ WorkerPop(w) \/ WorkerAccept(w) \/ WorkerAcceptFails(w)
  \/ WorkerReceive(w) \/ WorkerSend(w) \/ WorkerCheck(w) \/ WorkerInsert(w) \/ WorkerSignal(w)

FarStep(c) == Connect(c) \/ FarWrite(c) \/ FarRead(c) \/ FarClose(c) \/ Reset(c)

Next ==
  \/ \E addresses \in AddressLists : Start(addresses)
  \/ Stop \/ StopDrain \/ StopSignal \/ StopClose
  \/ SelectStep
  \/ \E w \in Workers : WorkerStep(w)
  \/ \E s \in Senders : NotifyConnectionsChanged(s)
  \/ \E s \in Senders, c \in Conn : QueueMessage(s, c)
  \/ \E s \in Senders, c \in Conn, addresses \in AddressLists : OpenConnection(s, c, addresses)
  \/ \E c \in Conn : FarStep(c)

Spec == Init /\ [][Next]_vars

(* Threads run, Stop goes on once it is called, and far ends read what     *)
(* arrives.                                                                *)
FairSpec ==
  /\ Spec
  /\ WF_vars(SelectStep)
  /\ WF_vars(StopDrain \/ StopSignal \/ StopClose)
  /\ \A w \in Workers : WF_vars(WorkerStep(w))
  /\ \A s \in Senders : WF_vars(NotifyConnectionsChanged(s))
  /\ \A c \in Conn : WF_vars(FarRead(c))

-----------------------------------------------------------------------------
(* Properties.                                                             *)

WorkerPc == {"pop", "waiting", "accept", "recv", "send", "check", "insert", "signal", "done",
             "failed"}

(* Thread w works on entry x.                                              *)
Holds(w, x) ==
  held[w] = x /\ worker_pc[w] \in {"accept", "recv", "send", "check", "insert"}

Queued(x) == \E i \in DOMAIN ready_connections_ : ready_connections_[i] = x

Held(x) == \E w \in Workers : Holds(w, x)

(* "This class is not thread-safe" (ProtocolConnectionImpl): every entry   *)
(* has at most one owner, among the ready queue, the blocked set, the      *)
(* select thread and the send/receive threads.  So no two threads work on  *)
(* a connection, and the CHECKs of the two insertions cannot fail.         *)
SingleOwner ==
  /\ \A i, j \in DOMAIN ready_connections_ :
       ready_connections_[i] = ready_connections_[j] => i = j
  /\ \A v, w \in Workers, x \in Entry : Holds(v, x) /\ Holds(w, x) => v = w
  /\ \A x \in Entry :
       /\ ~(x \in blocked_connections_ /\ x \in temp)
       /\ Queued(x) => x \notin blocked_connections_ \cup temp
       /\ Held(x) => x \notin blocked_connections_ \cup temp /\ ~Queued(x)

(* An entry is never dropped: an open connection, and from Start on the    *)
(* listening socket, has an owner until the server is stopped.  A closed   *)
(* connection has none, so its handler is never called again.              *)
NothingForgotten ==
  ~crashed /\ state_ \in {"RUNNING", "STOPPING"} =>
    \A x \in Entry :
      (x \in blocked_connections_ \cup temp \/ Queued(x) \/ Held(x))
        <=> (x = NULL \/ socket[x] = "open")

(* Partial reads and writes neither lose, repeat nor reorder a byte: what  *)
(* has been delivered, parsed, received and not written yet makes up the   *)
(* messages of the far end, and likewise in the other direction.           *)
StreamIntact ==
  \A c \in Conn :
    far[c] = "open" =>
      /\ BytesOf(delivered[c]) \o input_data_[c] \o arriving[c] \o unsent[c]
           = BytesOf(Inbound[c])
      /\ read[c] \o leaving[c] \o output_data_[c] \o BytesOf(queued[c])
           = BytesOf(SubSeq(Outbound[c], 1, pushed[c]))

(* A CHECK can fail only in Start, if there is no address to listen on, in *)
(* AcceptConnection, if the call of the system fails, and after Stop has   *)
(* drained the ready queue.                                                *)
CrashOnlyInStop ==
  crashed => draining_ \/ state_ = "STARTING" \/ \E w \in Workers : worker_pc[w] = "failed"

(* No descriptor is leaked: whatever address failed at which step, and     *)
(* whoever closed the connection, the process has open the listening       *)
(* socket, the event FD and one socket per connection that has an owner.   *)
DescriptorsOwned ==
  ~crashed =>
    descriptors = Cardinality({c \in Conn : socket[c] = "open"})
                    + (IF state_ \in {"RUNNING", "STOPPING"} THEN 2 ELSE 0)

Serving == state_ = "RUNNING" /\ ~crashed

(* No wake-up is lost, whatever the select thread was doing: a message     *)
(* that a local thread has queued and signalled is taken, bytes that       *)
(* arrive on an open connection are received, a connection that is to be   *)
(* closed is closed, and one that waits in the backlog is accepted.        *)
ConnectionsServed ==
  \A c \in Conn :
    /\ queued[c] # <<>> ~> queued[c] = <<>> \/ close_requested_[c] \/ ~Serving
    /\ arriving[c] # <<>> /\ socket[c] = "open"
         ~> arriving[c] = <<>> \/ close_requested_[c] \/ ~Serving
    /\ close_requested_[c] ~> socket[c] = "closed" \/ ~Serving
    /\ socket[c] = "backlog" ~> socket[c] # "backlog" \/ ~Serving

(* Stop: "Wake the send/receive thread. [...] Wake the select thread."     *)
(* Stop joins both, and it returns (or a CHECK fails) if the event FD is   *)
(* signalled when the select thread is not just about to clear it.         *)
WokenStopReturns ==
  signalled /\ event /\ select_pc # "clear" ~> state_ = "STOPPED" \/ crashed
================================================================================
