--------------------------- MODULE ConnectionManager ---------------------------
(***************************************************************************)
(* The connection layer of a set of peers: ConnectionManager               *)
(* (src/engine/connection_manager.cc) with the PeerConnections it owns,    *)
(* started and stopped by PeerImpl (src/engine/peer_impl.cc).              *)
(*                                                                         *)
(* Threads.  Each peer has a main thread (Start, then Stop), application   *)
(* threads that send, and the send/receive threads of its ProtocolServer,  *)
(* which handle incoming messages and may send from inside a handler.      *)
(* A thread has a list of jobs (method calls still to make); the step of   *)
(* a job it has reached is its pc.  One step is one critical section.      *)
(*                                                                         *)
(* The ProtocolServer is seen through what it guarantees: at most one      *)
(* thread works on a connection, messages of a connection arrive in order, *)
(* and a connection that has something to send is asked for it.            *)
(***************************************************************************)
EXTENDS PeerConnection, PeerId, FiniteSets, FiniteSetsExt

CONSTANTS
  Peers,         \* numbers in the dictionary order of the peer IDs
  Address,       \* Address[p] = [host, port] where p listens
  AppThreads,    \* application threads: <<peer, "app", i>>
  PoolSize,      \* send_receive_thread_count
  Scenarios,     \* what the peers are asked to do, see Init
  MaxConnections,\* bound: connections ever opened
  None

ASSUME PeersAssumption == Peers \subseteq Nat /\ NoPeer \notin Peers

Main == {<<p, "main", 1>> : p \in Peers}
Pool == {<<p, "pool", i>> : p \in Peers, i \in 1..PoolSize}
Threads == Main \cup Pool \cup AppThreads
Conn == 1..MaxConnections

VARIABLES
  scenario,             \* the member of Scenarios that is played
  state_,               \* ConnectionManager::state_ of each peer
  named_connections_,   \* [p][q]: the connection p uses for q, or None
  unnamed_connections_, \* [p]: the other connections p holds
  end,                  \* [p][c]: p's PeerConnection for c, or None
  socket,               \* [p][c]: "none", "backlog", "open" or "closed"
  wire,                 \* [p][c]: messages on their way to p
  close_requested_,     \* [p][c]: ProtocolConnectionImpl::close_requested_
  popping,              \* [p][c]: between the empty Pop and state_mu_
  broken,               \* connections reset by the network
  th,                   \* [t]: the jobs and the pc of thread t
  accepted,             \* history: messages a SendMessage returned true for
  received,             \* history: messages given to the TransactionStore
  late                  \* history: those of them pushed while the end was draining

vars == <<scenario, state_, named_connections_, unnamed_connections_, end, socket, wire,
          close_requested_, popping, broken, th, accepted, received, late>>

net == <<socket, wire, close_requested_, popping, broken>>
history == <<accepted, received, late>>
maps == <<named_connections_, unnamed_connections_>>

Regular(id, reply) == [type |-> "REGULAR", id |-> id, reply |-> reply]

(* The method calls a thread may have to make.                             *)
SendJob(q, m, mode) == [op |-> "send", peer |-> q, msg |-> m, mode |-> mode]
BroadcastJob(m) == [op |-> "broadcast", msg |-> m, mode |-> BLOCKING_MODE]
DrainJob(c) == [op |-> "drain", conn |-> c]
GoodbyeJob(c, close) == [op |-> "goodbye", conn |-> c, close |-> close]
ConnectJob(parsed) == [op |-> "connect", to |-> parsed]
DrainAllJob == [op |-> "drain_all"]
ServerStopJob == [op |-> "server_stop"]

Thread(jobs) ==
  [pc |-> "next", jobs |-> jobs, conn |-> None, list |-> {}, held |-> None]

(* A scenario says which peers are still to be started and which are       *)
(* running at first (starting), the value of the flag with the peer IDs    *)
(* that PeerImpl::Start connects to (known_peers) and which peers are      *)
(* meant (joins), the peers whose TransactionStore holds a named object    *)
(* (named), the peers whose PeerImpl::Stop is called (stopping), the sends *)
(* of each application thread (script), and bounds on the connections that *)
(* are opened (connections) and that the network resets (breaks).          *)
Init ==
  /\ scenario \in Scenarios
  /\ state_ = [p \in Peers |-> IF p \in scenario.starting THEN "NOT_STARTED" ELSE "RUNNING"]
  /\ named_connections_ = [p \in Peers |-> [q \in Peers |-> None]]
  /\ unnamed_connections_ = [p \in Peers |-> {}]
  /\ end = [p \in Peers |-> [c \in Conn |-> None]]
  /\ socket = [p \in Peers |-> [c \in Conn |-> "none"]]
  /\ wire = [p \in Peers |-> [c \in Conn |-> <<>>]]
  /\ close_requested_ = [p \in Peers |-> [c \in Conn |-> FALSE]]
  /\ popping = [p \in Peers |-> [c \in Conn |-> FALSE]]
  /\ broken = {}
  /\ th = [t \in Threads |-> Thread(IF t \in AppThreads THEN scenario.script[t] ELSE <<>>)]
  /\ accepted = {} /\ received = {} /\ late = {}

-----------------------------------------------------------------------------
(* Helpers.                                                                *)

Idle(t) == th[t].jobs = <<>>
Job(t) == Head(th[t].jobs)
At(t, op, pc) == ~Idle(t) /\ Job(t).op = op /\ th[t].pc = pc

Goto(t, pc) == th' = [th EXCEPT ![t].pc = pc]

(* The current method call returns; a send/receive thread that has nothing *)
(* left to do gives the connection it was working on back.                 *)
Finished(r) ==
  [Thread(Tail(r.jobs)) EXCEPT !.held = IF Len(r.jobs) = 1 THEN None ELSE r.held]

Finish(t) == th' = [th EXCEPT ![t] = Finished(@)]

Held(p, c) == popping[p][c] \/ \E t \in Pool : t[1] = p /\ th[t].held = c

(* protocol_server_.Stop() has joined the threads of the server but does   *)
(* not return, or has failed a CHECK and ended the process.                *)
Hangs(p) == \E t \in Main : t[1] = p /\ th[t].pc = "hangs"
Crashed(p) == \E t \in Main : t[1] = p /\ th[t].pc = "crashed"
Serving(p) == state_[p] # "STOPPED" /\ ~Hangs(p) /\ ~Crashed(p)

(* A connection that the threads of p's server may work on now.            *)
Workable(p, c) ==
  /\ socket[p][c] = "open" /\ ~close_requested_[p][c] /\ ~Held(p, c)
  /\ Serving(p)

(* A send/receive thread of p is neither in a handler nor in the middle of *)
(* GetNextOutputMessageHelper.                                             *)
FreeThread(p) ==
  Cardinality({c \in Conn : popping[p][c]}) < Cardinality({t \in Pool : t[1] = p /\ Idle(t)})

Listening(q) == state_[q] \in {"RUNNING", "STOPPING"} /\ ~Crashed(q)

Unused == {c \in Conn : \A p \in Peers : end[p][c] = None}
FirstUnused == {c \in Unused : c <= scenario.connections /\ c = Min(Unused)}

GetAllOpenConnections(p) ==
  (unnamed_connections_[p] \cup {named_connections_[p][q] : q \in Peers}) \ {None}

Put(p, c, e) == end' = [end EXCEPT ![p][c] = e]

(* The listener of q queues the connection; p's end is ready at once.      *)
OpenConnection(p, q, c) ==
  /\ socket' = [socket EXCEPT ![p][c] = "open", ![q][c] = "backlog"]
  /\ UNCHANGED <<wire, close_requested_, popping, broken>>

GetConnectionInitiator(p, e) ==
  IF e.locally_initiated_ THEN p ELSE e.remote_peer_

-----------------------------------------------------------------------------
(* Start and Stop, called by PeerImpl in the main thread.                  *)

PeerIdOf(p) == MakePeerId(Address[p].host, Address[p].port)

(* The peers that listen at the address in a parsed peer ID: one, or none. *)
PeersAt(parsed) ==
  {q \in Peers : parsed.ok /\ Address[q] = [host |-> parsed.address, port |-> parsed.port]}

(* ConnectionManager::Start: the server listens at the address in the ID   *)
(* of the local peer.                                                      *)
ParsedPeerId == [p \in Peers |-> ParsePeerId(PeerIdOf(p))]

StartManager(p) ==
  /\ PeersAt(ParsedPeerId[p]) = {p}
  /\ state_' = [state_ EXCEPT ![p] = "RUNNING"]

(* The calls of ConnectToRemotePeer for a list of known peers.             *)
ConnectJobs == [text \in {s.known_peers[p] : s \in Scenarios, p \in Peers} |->
  LET known_peer_ids == ParseCommaSeparatedList(text)
  IN [i \in DOMAIN known_peer_ids |-> ConnectJob(ParsePeerId(known_peer_ids[i]))]]

(* PeerImpl::Start: the ConnectionManager and its server start, then the   *)
(* main thread connects to every known peer.                               *)
Start(t) ==
  /\ state_[t[1]] = "NOT_STARTED"
  /\ StartManager(t[1])
  /\ th' = [th EXCEPT ![t].jobs = ConnectJobs[scenario.known_peers[t[1]]]]
  /\ UNCHANGED <<end, maps, net, history>>

(* ConnectToRemotePeer puts a connection without a name on the list, ...   *)
ConnectToRemotePeer(t) ==
  /\ At(t, "connect", "next")
  /\ Job(t).to.ok
  /\ \E c \in FirstUnused :
       /\ Put(t[1], c, NewConnection(NoPeer, TRUE))
       /\ unnamed_connections_' = [unnamed_connections_ EXCEPT ![t[1]] = @ \cup {c}]
       /\ th' = [th EXCEPT ![t].pc = "open", ![t].conn = c]
  /\ UNCHANGED <<state_, named_connections_, net, history>>

(* ... and only logs a failure to connect: the connection stays listed.    *)
ConnectToRemotePeerOpen(t) ==
  /\ At(t, "connect", "open")
  /\ LET reached == {q \in PeersAt(Job(t).to) : Listening(q)}
     IN IF reached = {} THEN Finish(t) /\ UNCHANGED net
        ELSE /\ \E q \in reached : OpenConnection(t[1], q, th[t].conn)
             /\ Goto(t, "init")
  /\ UNCHANGED <<state_, end, maps, history>>

ConnectToRemotePeerInit(t) ==
  /\ At(t, "connect", "init")
  /\ Put(t[1], th[t].conn, InitConnection(end[t[1]][th[t].conn]))
  /\ Finish(t)
  /\ UNCHANGED <<state_, maps, net, history>>

(* PeerImpl::Stop, called when the program has finished.                   *)
Stop(t) ==
  /\ t[1] \in scenario.stopping /\ state_[t[1]] = "RUNNING" /\ Idle(t)
  /\ \A u \in AppThreads : u[1] = t[1] => Idle(u)
  /\ state_' = [state_ EXCEPT ![t[1]] = "STOPPING"]
  /\ th' = [th EXCEPT ![t].jobs = <<DrainAllJob, ServerStopJob>>]
  /\ UNCHANGED <<end, maps, net, history>>

(* DrainAllConnections: drain the connections there are now; then wait     *)
(* until none is left.                                                     *)
DrainAllSnapshot(t) ==
  /\ At(t, "drain_all", "next")
  /\ LET open == GetAllOpenConnections(t[1])
     IN th' = [th EXCEPT ![t].list = open,
                         ![t].pc = IF open = {} THEN "check" ELSE "drain"]
  /\ UNCHANGED <<state_, end, maps, net, history>>

DrainAllCheck(t) ==
  /\ At(t, "drain_all", "check")
  /\ IF GetAllOpenConnections(t[1]) = {} THEN Finish(t) ELSE Goto(t, "waiting")
  /\ UNCHANGED <<state_, end, maps, net, history>>

(* protocol_server_.Stop(): joins the threads of the server, closes what   *)
(* is still open without telling the ConnectionManager.                    *)
CloseSockets(p) ==
  /\ socket' = [socket EXCEPT ![p] = [c \in Conn |->
                  IF @[c] \in {"open", "backlog"} THEN "closed" ELSE @[c]]]
  /\ wire' = [wire EXCEPT ![p] = [c \in Conn |-> <<>>]]

ServerStopReturns(t) ==
  /\ state_' = [state_ EXCEPT ![t[1]] = "STOPPED"]
  /\ CloseSockets(t[1])
  /\ Finish(t)
  /\ UNCHANGED <<end, maps, close_requested_, popping, broken, history>>

PoolJoined(p) ==
  /\ \A u \in Pool : u[1] = p => Idle(u)
  /\ \A c \in Conn : ~popping[p][c]

ServerStop(t) ==
  At(t, "server_stop", "next") /\ PoolJoined(t[1]) /\ ServerStopReturns(t)

(* The select thread has cleared the signal of Stop and sleeps: nobody     *)
(* serves the connections, and Stop waits (see ProtocolServer).            *)
ServerStopHangs(t) ==
  /\ At(t, "server_stop", "next") /\ PoolJoined(t[1])
  /\ Goto(t, "hangs")
  /\ UNCHANGED <<state_, end, maps, net, history>>

(* Something that arrives on a descriptor may wake it after all.           *)
ServerStopWoken(t) ==
  /\ At(t, "server_stop", "hangs")
  /\ \E c \in Conn : socket[t[1]][c] \in {"open", "backlog"}
  /\ ServerStopReturns(t)

(* A connection becomes ready after Stop has drained the queue of ready    *)
(* connections, and the CHECK on Push ends the process.                    *)
ServerStopCrashes(t) ==
  LET p == t[1]
  IN /\ At(t, "server_stop", "next")
     /\ th' = [u \in Threads |-> IF u = t THEN [th[u] EXCEPT !.pc = "crashed"]
                                ELSE IF u[1] = p THEN Thread(<<>>) ELSE th[u]]
     /\ popping' = [popping EXCEPT ![p] = [c \in Conn |-> FALSE]]
     /\ CloseSockets(p)
     /\ UNCHANGED <<state_, end, maps, close_requested_, broken, history>>

-----------------------------------------------------------------------------
(* SendMessageToRemotePeer and BroadcastMessage.                           *)

(* PeerImpl::RunProgram lets the program run once Start has returned.      *)
MayRun(t) ==
  t \in AppThreads =>
    state_[t[1]] # "NOT_STARTED" /\ \A m \in Main : m[1] = t[1] => ~At(m, "connect", th[m].pc)

SendMessageToRemotePeer(t) ==
  /\ At(t, "send", "next") /\ MayRun(t)
  /\ IF state_[t[1]] \in {"NOT_STARTED", "RUNNING"} THEN Goto(t, "get") ELSE Finish(t)
  /\ UNCHANGED <<state_, end, maps, net, history>>

GetOrCreateNamedConnection(t) ==
  LET p == t[1]  q == Job(t).peer  c == named_connections_[p][q]
  IN /\ At(t, "send", "get")
     /\ IF c # None
        THEN /\ th' = [th EXCEPT ![t].pc = "push", ![t].conn = c]
             /\ UNCHANGED <<end, named_connections_>>
        ELSE \E n \in FirstUnused :
               /\ Put(p, n, NewConnection(q, TRUE))
               /\ named_connections_' = [named_connections_ EXCEPT ![p][q] = n]
               /\ th' = [th EXCEPT ![t].pc = "open", ![t].conn = n]
     /\ UNCHANGED <<state_, unnamed_connections_, net, history>>

(* ConnectToPeer: tries again until the remote peer listens.               *)
ConnectToPeer(t) ==
  /\ At(t, "send", "open")
  /\ Listening(Job(t).peer)
  /\ OpenConnection(t[1], Job(t).peer, th[t].conn)
  /\ Goto(t, "init")
  /\ UNCHANGED <<state_, end, maps, history>>

GetConnectionToPeerInit(t) ==
  /\ At(t, "send", "init")
  /\ Put(t[1], th[t].conn, InitConnection(end[t[1]][th[t].conn]))
  /\ Goto(t, "push")
  /\ UNCHANGED <<state_, maps, net, history>>

BroadcastMessage(t) ==
  /\ At(t, "broadcast", "next") /\ MayRun(t)
  /\ LET open == GetAllOpenConnections(t[1])
     IN IF open = {}
        THEN Finish(t)
        ELSE th' = [th EXCEPT ![t].pc = "push", ![t].list = open, ![t].conn = Min(open)]
  /\ UNCHANGED <<state_, end, maps, net, history>>

(* The next connection of a broadcast, or the end of it.                   *)
NextOfBroadcast(r) ==
  LET rest == r.list \ {r.conn}
  IN IF rest = {} THEN Finished(r)
     ELSE [r EXCEPT !.pc = "push", !.list = rest, !.conn = Min(rest)]

(* What follows a SendMessage: a unicast that was refused is tried again   *)
(* from the start, a broadcast ignores the result.                         *)
AfterSend(r, sent) ==
  IF Head(r.jobs).op = "broadcast" THEN NextOfBroadcast(r)
  ELSE IF sent THEN Finished(r)
  ELSE [r EXCEPT !.pc = "next"]

Sending(t, pc) == At(t, "send", pc) \/ At(t, "broadcast", pc)

(* PeerConnection::SendMessage, with wait = false whatever the send mode.  *)
SendMessageCount(t) ==
  LET p == t[1]  c == th[t].conn  q == end[p][c].output_messages_
  IN /\ Sending(t, "push")
     /\ ~output_messages_!PushWaits(q, Job(t).mode, FALSE)
     /\ IF output_messages_!PushFails(q)
        THEN th' = [th EXCEPT ![t] = AfterSend(@, FALSE)] /\ UNCHANGED end
        ELSE /\ Put(p, c, [end[p][c] EXCEPT !.output_messages_ =
                             output_messages_!PushCount(q, Job(t).mode)])
             /\ Goto(t, "inner_push")
     /\ UNCHANGED <<state_, maps, net, history>>

SendMessagePush(t) ==
  LET p == t[1]  c == th[t].conn  q == end[p][c].output_messages_  m == Job(t).msg
  IN /\ Sending(t, "inner_push")
     /\ ~output_messages_!InnerPushWaits(q, FALSE)
     /\ IF output_messages_!InnerPushFails(q)
        THEN /\ th' = [th EXCEPT ![t] = AfterSend(@, FALSE)]
             /\ UNCHANGED <<end, accepted, late>>
        ELSE /\ Put(p, c, [end[p][c] EXCEPT !.output_messages_ =
                             output_messages_!InnerPush(q, m, Job(t).mode)])
             /\ accepted' = accepted \cup {<<p, c, m>>}
             /\ late' = late \cup IF popping[p][c] \/ DrainRequested(end[p][c])
                                  THEN {<<p, c, m>>} ELSE {}
             /\ IF end[p][c].protocol_connection_
                THEN th' = [th EXCEPT ![t] = AfterSend(@, TRUE)]
                ELSE Goto(t, "notify")
     /\ UNCHANGED <<state_, maps, net, received>>

(* PrivateGetProtocolConnection waits until the connection has been        *)
(* established.                                                            *)
SendMessageNotify(t) ==
  /\ Sending(t, "notify")
  /\ end[t[1]][th[t].conn].protocol_connection_
  /\ th' = [th EXCEPT ![t] = AfterSend(@, TRUE)]
  /\ UNCHANGED <<state_, end, maps, net, history>>

-----------------------------------------------------------------------------
(* PeerConnection::Drain, for one connection or for those of a snapshot,   *)
(* and the draining of the queue that follows a GOODBYE.                   *)

Draining(t, pc) == At(t, "drain", pc) \/ At(t, "drain_all", pc)

DrainRequest(t) ==
  LET p == t[1]
      c == IF Job(t).op = "drain" THEN Job(t).conn ELSE Min(th[t].list)
  IN /\ At(t, "drain", "next") \/ At(t, "drain_all", "drain")
     /\ Put(p, c, RequestDrain(end[p][c]))
     /\ th' = [th EXCEPT ![t].pc = "drain_quota", ![t].conn = c]
     /\ UNCHANGED <<state_, maps, net, history>>

DrainQuota(t) ==
  LET p == t[1]
      c == IF Job(t).op = "goodbye" THEN Job(t).conn ELSE th[t].conn
  IN /\ Draining(t, "drain_quota") \/ At(t, "goodbye", "next")
     /\ Put(p, c, [end[p][c] EXCEPT !.output_messages_ = output_messages_!DrainQuota(@)])
     /\ th' = [th EXCEPT ![t].pc = "drain_inner", ![t].conn = c]
     /\ UNCHANGED <<state_, maps, net, history>>

(* A thread whose Drain of one connection is over.                         *)
AfterDrain(r) ==
  LET rest == r.list \ {r.conn}
  IN IF Head(r.jobs).op = "drain" THEN Finished(r)
     ELSE [r EXCEPT !.list = rest, !.pc = IF rest = {} THEN "check" ELSE "drain"]

DrainInner(t) ==
  LET p == t[1]  c == th[t].conn  e == end[p][c]
  IN /\ Draining(t, "drain_inner")
     /\ Put(p, c, [e EXCEPT !.output_messages_ = output_messages_!DrainInner(@)])
     /\ th' = [th EXCEPT ![t] = IF e.protocol_connection_ THEN AfterDrain(@)
                                ELSE [@ EXCEPT !.pc = "protocol"]]
     /\ UNCHANGED <<state_, maps, net, history>>

(* PrivateGetProtocolConnection waits for the connection, as above.        *)
DrainNotify(t) ==
  /\ Draining(t, "protocol")
  /\ end[t[1]][th[t].conn].protocol_connection_
  /\ th' = [th EXCEPT ![t] = AfterDrain(@)]
  /\ UNCHANGED <<state_, end, maps, net, history>>

(* HandleGoodbyeMessage closes the connection if its own GOODBYE is sent.  *)
GoodbyeDrainInner(t) ==
  LET p == t[1]  c == th[t].conn
  IN /\ At(t, "goodbye", "drain_inner")
     /\ Job(t).close => end[p][c].protocol_connection_
     /\ Put(p, c, [end[p][c] EXCEPT !.output_messages_ = output_messages_!DrainInner(@)])
     /\ close_requested_' = [close_requested_ EXCEPT ![p][c] = @ \/ Job(t).close]
     /\ Finish(t)
     /\ UNCHANGED <<state_, maps, socket, wire, popping, broken, history>>

-----------------------------------------------------------------------------
(* What the send/receive threads and the select thread of a server call.   *)

(* NotifyConnectionReceived, for a connection the listener has accepted.   *)
NotifyConnectionReceived(p, c) ==
  /\ socket[p][c] = "backlog" /\ FreeThread(p) /\ Listening(p)
  /\ socket' = [socket EXCEPT ![p][c] = "open"]
  /\ Put(p, c, InitConnection(NewConnection(NoPeer, FALSE)))
  /\ unnamed_connections_' = [unnamed_connections_ EXCEPT ![p] = @ \cup {c}]
  /\ UNCHANGED <<state_, named_connections_, wire, close_requested_, popping,
                 broken, th, history>>

Other(p, c) == CHOOSE q \in Peers \ {p} : socket[q][c] # "none"

(* Data written to a socket the remote side has closed goes nowhere.       *)
Transmit(p, c, m) ==
  LET q == Other(p, c)
  IN wire' = IF socket[q][c] = "closed" \/ c \in broken THEN wire
             ELSE [wire EXCEPT ![q][c] = Append(@, m)]

GetNextOutputMessageHello(p, c) ==
  /\ Workable(p, c) /\ FreeThread(p) /\ MustSendHello(end[p][c])
  /\ Put(p, c, SendHello(end[p][c]))
  /\ Transmit(p, c, HelloMessage(p))
  /\ UNCHANGED <<state_, maps, socket, close_requested_, popping, broken,
                 th, history>>

GetNextOutputMessageQueued(p, c) ==
  LET q == end[p][c].output_messages_
  IN /\ Workable(p, c) /\ FreeThread(p) /\ MaySendQueued(end[p][c])
     /\ ~output_messages_!PopFails(q)
     /\ Put(p, c, [end[p][c] EXCEPT !.output_messages_ = output_messages_!Pop(q)])
     /\ Transmit(p, c, output_messages_!PopItem(q))
     /\ UNCHANGED <<state_, maps, socket, close_requested_, popping, broken,
                    th, history>>

(* Pop found the queue empty: say GOODBYE if a drain has been requested.   *)
SayGoodbye(p, c) ==
  LET e == end[p][c]
  IN /\ ClosesAfterSend(e) => e.protocol_connection_
     /\ Put(p, c, SendGoodbye(e))
     /\ Transmit(p, c, GoodbyeMessage)
     /\ close_requested_' = [close_requested_ EXCEPT ![p][c] = @ \/ ClosesAfterSend(e)]

(* Mutant: a requested drain does not wait for the queue to be empty.      *)
GetNextOutputMessageGoodbyeEarly(p, c) ==
  /\ Workable(p, c) /\ FreeThread(p) /\ MaySendQueued(end[p][c])
  /\ DrainRequested(end[p][c])
  /\ SayGoodbye(p, c)
  /\ UNCHANGED <<state_, maps, socket, popping, broken, th, history>>

GetNextOutputMessageGoodbye(p, c) ==
  /\ Workable(p, c) /\ FreeThread(p) /\ MaySendQueued(end[p][c])
  /\ output_messages_!PopFails(end[p][c].output_messages_)
  /\ DrainRequested(end[p][c])
  /\ SayGoodbye(p, c)
  /\ UNCHANGED <<state_, maps, socket, popping, broken, th, history>>

(* The same with other threads running between the Pop and the look at     *)
(* drain_state_.  The Pop commutes with every step but a push on the same  *)
(* queue, and drain_state_ decides what is done: only the pauses are of    *)
(* interest that a push follows, when a drain has been requested or a      *)
(* thread other than this one may request it in the meantime.              *)
GetNextOutputMessagePause(p, c) ==
  /\ Workable(p, c) /\ FreeThread(p) /\ MaySendQueued(end[p][c])
  /\ output_messages_!PopFails(end[p][c].output_messages_)
  /\ \E t \in Threads : t[1] = p /\ Sending(t, "inner_push") /\ th[t].conn = c
  /\ DrainRequested(end[p][c]) \/ p \in scenario.stopping \/ PoolSize > 1
  /\ popping' = [popping EXCEPT ![p][c] = TRUE]
  /\ UNCHANGED <<state_, end, maps, socket, wire, close_requested_, broken, th, history>>

GetNextOutputMessageResume(p, c) ==
  /\ popping[p][c]
  /\ popping' = [popping EXCEPT ![p][c] = FALSE]
  /\ IF DrainRequested(end[p][c]) THEN SayGoodbye(p, c)
     ELSE UNCHANGED <<end, wire, close_requested_>>
  /\ UNCHANGED <<state_, maps, socket, broken, th, history>>

(* Mutant: the connection that is known first wins at each peer.           *)
ConnectionToDrainNewest(p, q, c) ==
  IF named_connections_[p][q] \in {None, c} THEN None ELSE c

(* The connection that loses when p learns that c leads to q while it has  *)
(* another connection to q: the one whose initiator comes later in the     *)
(* order, the new one if the initiators are the same.                      *)
ConnectionToDrain(p, q, c) ==
  LET n == named_connections_[p][q]
  IN IF n \in {None, c} THEN None
     ELSE IF GetConnectionInitiator(p, end[p][n]) >
             GetConnectionInitiator(p, [end[p][c] EXCEPT !.remote_peer_ = q])
          THEN n ELSE c

(* Mutant: the connection is never named.                                  *)
NotifyRemotePeerKnownForgets(p, q, c) == UNCHANGED maps

(* Mutant: the connection is named but stays on the unnamed list.          *)
NotifyRemotePeerKnownStays(p, q, c) ==
  LET n == named_connections_[p][q]
  IN IF n = c \/ ConnectionToDrain(p, q, c) = c
     THEN UNCHANGED maps
     ELSE /\ named_connections_' = [named_connections_ EXCEPT ![p][q] = c]
          /\ unnamed_connections_' = [unnamed_connections_ EXCEPT
               ![p] = @ \cup (IF n = None THEN {} ELSE {n})]

NotifyRemotePeerKnown(p, q, c) ==
  LET n == named_connections_[p][q]  drained == ConnectionToDrain(p, q, c)
  IN IF n = c \/ drained = c
     THEN UNCHANGED maps
     ELSE /\ named_connections_' = [named_connections_ EXCEPT ![p][q] = c]
          /\ unnamed_connections_' = [unnamed_connections_ EXCEPT
               ![p] = (@ \ {c}) \cup (IF n = None THEN {} ELSE {n})]

(* TransactionStore::NotifyNewConnection asks the new peer for every named *)
(* object.                                                                 *)
NotifyNewConnection(p, q, c) ==
  IF p \in scenario.named
  THEN <<SendJob(q, Regular(<<"GET_OBJECT", p, c>>, FALSE), NON_BLOCKING_MODE)>>
  ELSE <<>>

(* NotifyMessageReceived, in send/receive thread t: the calls the handler  *)
(* still has to make after its first critical section are t's jobs.        *)
NotifyMessageReceived(t, c) ==
  LET p == t[1]  e == end[p][c]  m == Head(wire[p][c])
      Handle(jobs) ==
        th' = [th EXCEPT ![t].jobs = jobs, ![t].held = IF jobs = <<>> THEN None ELSE c]
  IN /\ Idle(t) /\ FreeThread(p) /\ Workable(p, c) /\ wire[p][c] # <<>>
     /\ wire' = [wire EXCEPT ![p][c] = Tail(@)]
     /\ \/ /\ m.type = "HELLO"
           /\ Put(p, c, HandleHelloMessage(e, m))
           /\ NotifyRemotePeerKnown(p, m.peer_id, c)
           /\ LET drained == ConnectionToDrain(p, m.peer_id, c)
              IN Handle((IF drained = None THEN <<>> ELSE <<DrainJob(drained)>>)
                          \o NotifyNewConnection(p, m.peer_id, c))
           /\ UNCHANGED received
        \/ /\ m.type = "GOODBYE"
           /\ Put(p, c, HandleGoodbyeMessage(e))
           /\ Handle(<<GoodbyeJob(c, ClosesAfterGoodbye(e))>>)
           /\ UNCHANGED <<maps, received>>
        \/ /\ m.type = "REGULAR"
           /\ received' = received \cup {<<Other(p, c), c, m>>}
           /\ Handle(IF m.reply
                     THEN <<SendJob(e.remote_peer_, Regular(<<"STORE_OBJECT", m.id>>, FALSE),
                                    NON_BLOCKING_MODE)>>
                     ELSE <<>>)
           /\ UNCHANGED <<end, maps>>
     /\ UNCHANGED <<state_, socket, close_requested_, popping, broken, accepted, late>>

(* recv() returns 0 or fails with ECONNRESET.                              *)
EndOfStream(p, c) ==
  /\ Workable(p, c) /\ FreeThread(p) /\ wire[p][c] = <<>>
  /\ c \in broken \/ socket[Other(p, c)][c] = "closed"
  /\ close_requested_' = [close_requested_ EXCEPT ![p][c] = TRUE]
  /\ UNCHANGED <<state_, end, maps, socket, wire, popping, broken, th, history>>

(* Mutant: nobody wakes DrainAllConnections.                               *)
NotifyConnectionClosedQuietly(p, c) ==
  LET q == end[p][c].remote_peer_
      named == q # NoPeer /\ named_connections_[p][q] = c
  IN /\ socket[p][c] = "open" /\ close_requested_[p][c] /\ ~Held(p, c)
     /\ Serving(p)
     /\ socket' = [socket EXCEPT ![p][c] = "closed"]
     /\ wire' = [wire EXCEPT ![p][c] = <<>>]
     /\ IF named
        THEN /\ named_connections_' = [named_connections_ EXCEPT ![p][q] = None]
             /\ UNCHANGED unnamed_connections_
        ELSE /\ unnamed_connections_' = [unnamed_connections_ EXCEPT ![p] = @ \ {c}]
             /\ UNCHANGED named_connections_
     /\ Put(p, c, CloseConnection(end[p][c]))
     /\ UNCHANGED <<state_, close_requested_, popping, broken, th, history>>

(* Mutant: the named entry is not erased.                                  *)
NotifyConnectionClosedKept(p, c) ==
  LET q == end[p][c].remote_peer_
      named == q # NoPeer /\ named_connections_[p][q] = c
  IN /\ socket[p][c] = "open" /\ close_requested_[p][c] /\ ~Held(p, c)
     /\ Serving(p)
     /\ socket' = [socket EXCEPT ![p][c] = "closed"]
     /\ wire' = [wire EXCEPT ![p][c] = <<>>]
     /\ IF named
        THEN UNCHANGED maps
        ELSE /\ unnamed_connections_' = [unnamed_connections_ EXCEPT ![p] = @ \ {c}]
             /\ UNCHANGED named_connections_
     /\ Put(p, c, CloseConnection(end[p][c]))
     /\ UNCHANGED <<state_, close_requested_, popping, broken, th, history>>

(* The select thread closes the socket and calls NotifyConnectionClosed,   *)
(* which wakes a waiting DrainAllConnections when it removed the last one. *)
NotifyConnectionClosed(p, c) ==
  LET q == end[p][c].remote_peer_
      named == q # NoPeer /\ named_connections_[p][q] = c
  IN /\ socket[p][c] = "open" /\ close_requested_[p][c] /\ ~Held(p, c)
     /\ Serving(p)
     /\ socket' = [socket EXCEPT ![p][c] = "closed"]
     /\ wire' = [wire EXCEPT ![p][c] = <<>>]
     /\ IF named
        THEN /\ named_connections_' = [named_connections_ EXCEPT ![p][q] = None]
             /\ UNCHANGED unnamed_connections_
        ELSE /\ unnamed_connections_' = [unnamed_connections_ EXCEPT ![p] = @ \ {c}]
             /\ UNCHANGED named_connections_
     /\ th' = IF GetAllOpenConnections(p) = {c}
              THEN [t \in Threads |->
                      IF t[1] = p /\ th[t].pc = "waiting" THEN [th[t] EXCEPT !.pc = "next"]
                      ELSE th[t]]
              ELSE th
     /\ Put(p, c, CloseConnection(end[p][c]))
     /\ UNCHANGED <<state_, close_requested_, popping, broken, history>>

(* The network resets a connection: what is on its way is lost.            *)
Break(c) ==
  /\ Cardinality(broken) < scenario.breaks /\ c \notin broken
  /\ \E p \in Peers : socket[p][c] = "open"
  /\ broken' = broken \cup {c}
  /\ wire' = [p \in Peers |-> [wire[p] EXCEPT ![c] = <<>>]]
  /\ UNCHANGED <<state_, end, maps, socket, close_requested_, popping, th, history>>

MainStep(t) == (Start(t) \/ Stop(t)) /\ UNCHANGED scenario

ThreadStep(t) ==
  /\ \/ ConnectToRemotePeer(t) \/ ConnectToRemotePeerOpen(t) \/ ConnectToRemotePeerInit(t)
     \/ DrainAllSnapshot(t) \/ DrainAllCheck(t)
     \/ ServerStop(t) \/ ServerStopHangs(t) \/ ServerStopCrashes(t)
     \/ SendMessageToRemotePeer(t) \/ GetOrCreateNamedConnection(t)
     \/ ConnectToPeer(t) \/ GetConnectionToPeerInit(t)
     \/ BroadcastMessage(t)
     \/ SendMessageCount(t) \/ SendMessagePush(t) \/ SendMessageNotify(t)
     \/ DrainRequest(t) \/ DrainQuota(t) \/ DrainInner(t) \/ DrainNotify(t)
     \/ GoodbyeDrainInner(t)
  /\ UNCHANGED scenario

ServerStep(p, c) ==
  /\ \/ NotifyConnectionReceived(p, c)
     \/ GetNextOutputMessageHello(p, c)
     \/ GetNextOutputMessageQueued(p, c)
     \/ GetNextOutputMessageGoodbye(p, c)
     \/ GetNextOutputMessageResume(p, c)
     \/ \E t \in Pool : t[1] = p /\ NotifyMessageReceived(t, c)
     \/ EndOfStream(p, c)
     \/ NotifyConnectionClosed(p, c)
  /\ UNCHANGED scenario

Next ==
  \/ \E t \in Main : MainStep(t)
  \/ \E t \in Threads : ThreadStep(t)
  \/ \E p \in Peers, c \in Conn : ServerStep(p, c)
  \/ \E p \in Peers, c \in Conn : GetNextOutputMessagePause(p, c) /\ UNCHANGED scenario
  \/ \E t \in Main : ServerStopWoken(t) /\ UNCHANGED scenario
  \/ \E c \in Conn : Break(c) /\ UNCHANGED scenario

Spec == Init /\ [][Next]_vars

(* Threads run; a peer that is to be started or stopped is.  The program   *)
(* may pause in the middle of GetNextOutputMessageHelper, but need not,    *)
(* and nothing need wake a server that hangs.                              *)
FairSpec ==
  /\ Spec
  /\ \A t \in Main : WF_vars(MainStep(t))
  /\ \A t \in Threads : WF_vars(ThreadStep(t))
  /\ \A p \in Peers : WF_vars(\E c \in Conn : ServerStep(p, c))

-----------------------------------------------------------------------------
(* Properties.                                                             *)

(* The CHECKs of HandleHelloMessage, HandleGoodbyeMessage,                 *)
(* HandleRegularMessage and SetRemotePeer (the connection state fits the   *)
(* message that is about to be handled), those of NotifyRemotePeerKnown    *)
(* and NotifyConnectionClosed (the connection is on exactly the list where *)
(* they look for it), that of ConnectToRemotePeer (the ID is one) and that *)
(* of QuotaQueue::Pop (an item that is in the queue has been counted).     *)
ChecksHold ==
  /\ \A t \in Threads : At(t, "connect", "next") => Job(t).to.ok
  /\ \A p \in Peers, c \in Conn :
      LET e == end[p][c]  m == Head(wire[p][c])
      IN /\ Workable(p, c) /\ wire[p][c] # <<>> =>
              /\ ReceiveCheck(e, m)
              /\ m.type = "HELLO" =>
                   /\ m.peer_id # p
                   /\ (named_connections_[p][m.peer_id] = c) <=> (c \notin unnamed_connections_[p])
                   /\ named_connections_[p][m.peer_id] \notin unnamed_connections_[p]
         /\ e # None => \A s \in SendMode : e.output_messages_.item_count[s] >= 0
         /\ socket[p][c] = "open" /\ state_[p] # "STOPPED" =>
              (e.remote_peer_ # NoPeer /\ named_connections_[p][e.remote_peer_] = c)
                <=> (c \notin unnamed_connections_[p])

(* Messages on their way: queued at an end that may still send them, or on *)
(* the wire.                                                               *)
InFlight(p, c, m) ==
  \/ /\ socket[p][c] # "closed" /\ end[p][c].send_state_ # "GOODBYE_SENT"
     /\ \E i \in DOMAIN end[p][c].output_messages_.items :
          end[p][c].output_messages_.items[i][1] = m
  \/ \E i \in DOMAIN wire[Other(p, c)][c] : wire[Other(p, c)][c][i] = m

(* The orderly shutdown of a connection (Drain, GOODBYE in both            *)
(* directions, then Close) loses no message that SendMessage returned true *)
(* for.  The exceptions: the network reset the connection, the remote      *)
(* server was stopped, one of the processes died in its Stop, and messages *)
(* pushed while a drain was already requested or while                     *)
(* GetNextOutputMessageHelper was between its Pop and state_mu_.           *)
NothingLost ==
  \A a \in accepted :
    LET p == a[1]  c == a[2]
    IN \/ a \in received \cup late
       \/ InFlight(p, c, a[3])
       \/ c \in broken
       \/ state_[Other(p, c)] = "STOPPED" \/ Crashed(p) \/ Crashed(Other(p, c))

Initiated(p, c) == end[p][c] # None /\ end[p][c].locally_initiated_

(* NotifyRemotePeerKnown: "Keep the connection that was initiated by the   *)
(* peer whose peer id comes first in dictionary sort order, and drain the  *)
(* other connection."  Each peer decides alone, from its own order of      *)
(* events, and still the two never drain both of a pair of crossing        *)
(* connections: the one of the first peer is drained only if that peer     *)
(* opened another one, or if a peer stops or the network fails.            *)
FirstPeerWins ==
  scenario.stopping = {} /\ broken = {} =>
    \A p, q \in Peers, c \in Conn :
      p < q /\ Initiated(p, c) /\ (\A d \in Conn \ {c} : ~Initiated(p, d)) =>
        /\ ~DrainRequested(end[p][c])
        /\ end[q][c] # None => ~DrainRequested(end[q][c])

Quiet ==
  /\ \A t \in Threads : Idle(t)
  /\ \A p \in Peers, c \in Conn :
       /\ wire[p][c] = <<>> /\ socket[p][c] # "backlog" /\ ~popping[p][c]
       /\ socket[p][c] = "open" =>
            /\ ~close_requested_[p][c] /\ c \notin broken
            /\ ~MustSendHello(end[p][c])
            /\ MaySendQueued(end[p][c]) =>
                 end[p][c].output_messages_.items = <<>> /\ ~DrainRequested(end[p][c])

(* When everything has settled, each connection that is left is open at    *)
(* both ends, and it is the one both peers use: no connection is forgotten *)
(* on an unnamed list by NotifyRemotePeerKnown.                            *)
SettledAgree ==
  Quiet /\ (\A p \in Peers : state_[p] = "RUNNING") =>
    \A p \in Peers, c \in Conn :
      socket[p][c] = "open" =>
        LET q == Other(p, c)
        IN named_connections_[p][q] = c /\ named_connections_[q][p] = c

(* Whatever form the IDs in the list of known peers have (a port may be    *)
(* written with zeros in front), a peer that was listening has been joined *)
(* once everything has settled, under the name that it gave itself in its  *)
(* HELLO, not the one in the list.  Only when the peer opened a second     *)
(* connection in the meantime may both be gone: NotifyRemotePeerKnown      *)
(* keeps the one it hears of first if both have the same initiator, and    *)
(* the two peers may hear of them in different orders.                     *)
KnownPeersJoined ==
  Quiet /\ (\A p \in Peers : state_[p] = "RUNNING") /\ broken = {} =>
    \A p \in Peers : \A q \in scenario.joins[p] \ scenario.starting :
      \/ named_connections_[p][q] # None
      \/ Cardinality({c \in Conn : end[p][c] # None}) > 1

(* A connection that DrainAllConnections waits for in vain: one that never *)
(* got a protocol connection, that was added after the snapshot, or whose  *)
(* other end hangs in its own Stop.                                        *)
Stranded(p) ==
  \E c \in GetAllOpenConnections(p) :
    \/ ~end[p][c].protocol_connection_ \/ ~DrainRequested(end[p][c])
    \/ Hangs(Other(p, c))

(* Stop drains every connection and gets as far as protocol_server_.Stop(),*)
(* unless a connection is stranded for good.  It returns when that call    *)
(* does; the call may hang or end the process.                             *)
StopEnds ==
  \A p \in Peers :
    []<>~Stranded(p) =>
      (state_[p] = "STOPPING" ~> state_[p] = "STOPPED" \/ Hangs(p) \/ Crashed(p))

(* A thread that cannot go on: it waits for a connection that was never    *)
(* established, for a remote peer that is gone or hangs in its Stop, or it *)
(* has reached the bound on connections.                                   *)
CutOff(t) ==
  /\ ~Idle(t)
  /\ \/ th[t].pc = "notify" /\ ~end[t[1]][th[t].conn].protocol_connection_
     \/ At(t, "send", "open") /\ ~Listening(Job(t).peer)
     \/ At(t, "send", "next") /\ Hangs(Job(t).peer)
     \/ At(t, "send", "get") /\ FirstUnused = {}

(* SendMessageToRemotePeer returns: a thread that finds the connection     *)
(* draining spins, but gets another one in the end.                        *)
SendsEnd ==
  \A t \in AppThreads : []<>~CutOff(t) => (~Idle(t) ~> Idle(t))
================================================================================
