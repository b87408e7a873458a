----------------------- MODULE ProtocolDescriptors_proofs -----------------------
(***************************************************************************)
(* Proofs about the descriptors of SocketUtil and ProtocolServer, for any  *)
(* number of connections, threads and addresses.                           *)
(***************************************************************************)
EXTENDS ProtocolServer_proofs, FiniteSetTheorems, WellFoundedInduction

(* What the n-th address gives, after what the addresses before it gave.   *)
Attempt(outcome, before) ==
  IF before.fd # -1 THEN before ELSE ConnectToAddress(outcome, before.open)

Attempts(f, N, addresses, open) ==
  f = [n \in 0..N |-> IF n = 0 THEN Failed(open) ELSE Attempt(addresses[n], f[n - 1])]

LEMMA LeastNumber ==
  ASSUME NEW S, S \subseteq Nat, S # {}
  PROVE  \E x \in S : \A y \in S : x <= y
<1> DEFINE Less == OpToRel(<, Nat)
<1>1. \A x, y \in Nat : y < x => <<y, x>> \in Less
  BY DEF OpToRel
<1>2. IsWellFoundedOn(Less, Nat)
  BY NatLessThanWellFounded, Zenon
<1> HIDE DEF Less
<1>3. PICK x \in S : \A y \in S : ~(<<y, x>> \in Less)
  BY <1>2, WFMin, Zenon
<1>4. ASSUME NEW y \in S PROVE x <= y
  <2>1. x \in Nat /\ y \in Nat /\ ~(<<y, x>> \in Less)
    BY <1>3
  <2>2. ~(y < x)
    BY <1>1, <2>1
  <2>3. QED
    BY <2>1, <2>2
<1>5. QED
  BY <1>4

(* Both calls close the socket of an address that does not work.           *)
LEMMA SameAttempt ==
  ASSUME NEW outcome, NEW open
  PROVE  BindToAddress(outcome, open) = ConnectToAddress(outcome, open)
  BY DEF BindToAddress, ConnectToAddress

(* tried, the recursive function of ConnectToSomeAddress, exists.          *)
LEMMA AttemptsExist ==
  ASSUME NEW N \in Nat, NEW addresses, NEW open
  PROVE  \E f : Attempts(f, N, addresses, open)
<1> DEFINE S == {k \in Nat : ~\E f : Attempts(f, k, addresses, open)}
<1> SUFFICES ASSUME S # {} PROVE FALSE
  OBVIOUS
<1>1. PICK k \in S : \A y \in S : k <= y
  BY LeastNumber, Zenon
<1>2. k \in Nat /\ ~\E f : Attempts(f, k, addresses, open)
  BY <1>1
<1>3. CASE k = 0
  <2> DEFINE f == [n \in 0..0 |-> Failed(open)]
  <2>1. f = [n \in 0..0 |-> IF n = 0 THEN Failed(open) ELSE Attempt(addresses[n], f[n - 1])]
    OBVIOUS
  <2>2. QED
    BY <1>2, <1>3, <2>1, Zenon DEF Attempts
<1>4. CASE k # 0
  <2>1. k - 1 \in Nat /\ k - 1 \notin S
    BY <1>1, <1>2, <1>4
  <2>2. PICK g : Attempts(g, k - 1, addresses, open)
    BY <2>1
  <2>3. g = [n \in 0..(k - 1) |->
               IF n = 0 THEN Failed(open) ELSE Attempt(addresses[n], g[n - 1])]
    BY <2>2 DEF Attempts
  <2> DEFINE f == [n \in 0..k |-> IF n = k THEN Attempt(addresses[k], g[k - 1]) ELSE g[n]]
             h == [n \in 0..k |->
                     IF n = 0 THEN Failed(open) ELSE Attempt(addresses[n], f[n - 1])]
  <2>4. ASSUME NEW n \in 0..k PROVE f[n] = h[n]
    <3>1. CASE n = 0
      BY <1>2, <1>4, <2>3, <3>1
    <3>2. CASE n # 0
      <4>1. n - 1 \in 0..k /\ n - 1 # k
        BY <1>2, <3>2
      <4>2. f[n - 1] = g[n - 1]
        BY <4>1
      <4>3. h[n] = Attempt(addresses[n], g[n - 1])
        BY <3>2, <4>2
      <4>4. CASE n = k
        BY <4>3, <4>4
      <4>5. CASE n # k
        <5>1. n \in 0..(k - 1)
          BY <1>2, <4>5
        <5>2. f[n] = g[n]
          BY <4>5
        <5>3. g[n] = Attempt(addresses[n], g[n - 1])
          BY <2>3, <3>2, <5>1
        <5>4. QED
          BY <4>3, <5>2, <5>3
      <4>6. QED
        BY <4>4, <4>5
    <3>3. QED
      BY <3>1, <3>2
  <2>5. f = h
    BY <2>4
  <2>6. Attempts(f, k, addresses, open)
    BY <2>5, Zenon DEF Attempts
  <2>7. QED
    BY <1>2, <2>6
<1>5. QED
  BY <1>3, <1>4

(* Trying addresses either gives one new socket or leaves things alone.    *)
LEMMA AttemptsResult ==
  ASSUME NEW N \in Nat, NEW addresses, NEW open \in Nat, NEW f,
         Attempts(f, N, addresses, open)
  PROVE  f[N] \in {Failed(open), Socket(open)}
<1> DEFINE S == {k \in 0..N : f[k] \notin {Failed(open), Socket(open)}}
<1> SUFFICES ASSUME S # {} PROVE FALSE
  OBVIOUS
<1>1. PICK k \in S : \A y \in S : k <= y
  <2>1. S \subseteq Nat
    OBVIOUS
  <2>2. QED
    BY <2>1, LeastNumber, Zenon
<1>2. f = [n \in 0..N |-> IF n = 0 THEN Failed(open) ELSE Attempt(addresses[n], f[n - 1])]
  BY DEF Attempts
<1>3. k \in 0..N /\ f[k] \notin {Failed(open), Socket(open)}
  BY <1>1
<1>4. k # 0 /\ f[k] = Attempt(addresses[k], f[k - 1])
  BY <1>2, <1>3
<1>5. k - 1 \in 0..N /\ k - 1 \notin S
  BY <1>1, <1>3, <1>4
<1>6. f[k - 1] \in {Failed(open), Socket(open)}
  BY <1>5
<1>7. ASSUME NEW before \in {Failed(open), Socket(open)}, NEW outcome
      PROVE  Attempt(outcome, before) \in {Failed(open), Socket(open)}
  BY <1>7 DEF Attempt, ConnectToAddress, Failed, Socket, Close
<1>8. QED
  BY <1>3, <1>4, <1>6, <1>7

LEMMA ConnectResult ==
  ASSUME NEW addresses, Len(addresses) \in Nat, NEW open \in Nat
  PROVE  ConnectToRemoteHost(addresses, open) \in {Failed(open), Socket(open)}
<1> DEFINE N == Len(addresses)
           tried == CHOOSE f : Attempts(f, N, addresses, open)
<1>1. Attempts(tried, N, addresses, open)
  BY AttemptsExist
<1>2. tried[N] \in {Failed(open), Socket(open)}
  BY <1>1, AttemptsResult
<1>3. ConnectToRemoteHost(addresses, open) = tried[N]
  BY DEF ConnectToRemoteHost, ConnectToSomeAddress, Attempts, Attempt
<1>4. QED
  BY <1>2, <1>3

LEMMA ListenResult ==
  ASSUME NEW addresses, Len(addresses) \in Nat, NEW open \in Nat
  PROVE  ListenOnLocalAddress(addresses, open) \in {Failed(open), Socket(open)}
<1>1. ListenOnLocalAddress(addresses, open) = ConnectToRemoteHost(addresses, open)
  BY SameAttempt, Zenon
  DEF ListenOnLocalAddress, BindToSomeAddress, ConnectToRemoteHost, ConnectToSomeAddress
<1>2. QED
  BY <1>1, ConnectResult
-----------------------------------------------------------------------------
(* The sockets that are open are finitely many, and DescriptorsOwned.      *)

Open == {c \in Conn : socket[c] = "open"}

DescriptorInv == IsFiniteSet(Open) /\ DescriptorsOwned

LEMMA DescriptorCount ==
  ASSUME IsFiniteSet(Open), DescriptorsOwned, ~crashed
  PROVE  /\ Cardinality(Open) \in Nat
         /\ descriptors =
              Cardinality(Open) + (IF state_ \in {"RUNNING", "STOPPING"} THEN 2 ELSE 0)
         /\ descriptors \in Nat
<1>1. Cardinality(Open) \in Nat
  BY FS_CardinalityType
<1>2. descriptors = Cardinality(Open) + (IF state_ \in {"RUNNING", "STOPPING"} THEN 2 ELSE 0)
  BY DEF DescriptorsOwned, Open
<1>3. QED
  BY <1>1, <1>2

(* Nothing is opened or closed.                                            *)
LEMMA SameDescriptors ==
  ASSUME DescriptorInv, UNCHANGED <<socket, descriptors>>, crashed => crashed',
         (state_ \in {"RUNNING", "STOPPING"}) <=> (state_' \in {"RUNNING", "STOPPING"})
  PROVE  DescriptorInv'
<1>1. Open' = Open
  BY DEF Open
<1>2. ASSUME ~crashed'
      PROVE  descriptors' = Cardinality(Open')
                              + (IF state_' \in {"RUNNING", "STOPPING"} THEN 2 ELSE 0)
  BY <1>1, <1>2, DescriptorCount DEF DescriptorInv
<1>3. QED
  BY <1>1, <1>2 DEF DescriptorInv, DescriptorsOwned, Open

(* One more connection is open.                                            *)
LEMMA OneMoreDescriptor ==
  ASSUME DescriptorInv, NEW c \in Conn, socket[c] # "open", ~crashed,
         socket \in [Conn -> {"none", "backlog", "open", "closed"}],
         socket' = [socket EXCEPT ![c] = "open"], descriptors' = descriptors + 1,
         UNCHANGED state_
  PROVE  DescriptorInv'
<1>1. Open' = Open \cup {c} /\ c \notin Open
  BY DEF Open
<1>2. IsFiniteSet(Open')
  BY <1>1, FS_AddElement DEF DescriptorInv
<1>3. Cardinality(Open') = Cardinality(Open) + 1
  BY <1>1, FS_AddElement, Zenon DEF DescriptorInv
<1>4. descriptors' = Cardinality(Open')
                       + (IF state_' \in {"RUNNING", "STOPPING"} THEN 2 ELSE 0)
  BY <1>3, DescriptorCount DEF DescriptorInv
<1>5. QED
  BY <1>2, <1>4 DEF DescriptorInv, DescriptorsOwned, Open

(* A connection is closed.                                                 *)
LEMMA OneLessDescriptor ==
  ASSUME DescriptorInv, NEW c \in Conn, socket[c] = "open", ~crashed,
         socket \in [Conn -> {"none", "backlog", "open", "closed"}],
         socket' = [socket EXCEPT ![c] = "closed"], descriptors' = descriptors - 1,
         UNCHANGED state_
  PROVE  DescriptorInv'
<1>1. Open' = Open \ {c} /\ c \in Open
  BY DEF Open
<1>2. IsFiniteSet(Open')
  BY <1>1, FS_RemoveElement DEF DescriptorInv
<1>3. Cardinality(Open') = Cardinality(Open) - 1
  BY <1>1, FS_RemoveElement DEF DescriptorInv
<1>4. descriptors' = Cardinality(Open')
                       + (IF state_' \in {"RUNNING", "STOPPING"} THEN 2 ELSE 0)
  BY <1>3, DescriptorCount DEF DescriptorInv
<1>5. QED
  BY <1>2, <1>4 DEF DescriptorInv, DescriptorsOwned, Open

(* An address list is finite.                                              *)
LEMMA AddressesLength ==
  ASSUME NEW addresses \in AddressLists
  PROVE  Len(addresses) \in Nat
<1>1. PICK n \in 1..MaxAddresses : addresses \in [1..n -> Outcome]
  BY DEF AddressLists
<1>2. n \in Nat
  OBVIOUS
<1>3. addresses \in Seq(Outcome)
  BY <1>1, <1>2
<1>4. QED
  BY <1>3

LEMMA StartDescriptors ==
  ASSUME IInv, DescriptorInv, NEW addresses \in AddressLists, Start(addresses)
  PROVE  DescriptorInv'
<1> DEFINE listen == ListenOnLocalAddress(addresses, descriptors)
<1>1. /\ ~crashed /\ state_ = "NOT_STARTED" /\ socket' = socket
      /\ \/ listen.fd = -1 /\ crashed'
         \/ listen.fd # -1 /\ state_' = "RUNNING" /\ descriptors' = listen.open + 1
  BY DEF Start, Running, connVars
<1>2. Open = {} /\ Open' = {}
  BY <1>1 DEF IInv, AtRest, Open
<1>3. Cardinality(Open) = 0 /\ Cardinality(Open') = 0 /\ IsFiniteSet(Open')
  BY <1>2, FS_EmptySet
<1>4. descriptors = 0
  BY <1>1, <1>3, DescriptorCount DEF DescriptorInv
<1>5. listen \in {Failed(0), Socket(0)}
  BY <1>4, AddressesLength, ListenResult
<1> HIDE DEF listen
<1>6. ~crashed' => state_' = "RUNNING" /\ descriptors' = 2
  BY <1>1, <1>5 DEF Failed, Socket
<1>7. QED
  BY <1>3, <1>6 DEF DescriptorInv, DescriptorsOwned, Open

LEMMA StopCloseDescriptors ==
  ASSUME IInv, DescriptorInv, StopClose
  PROVE  DescriptorInv'
<1> DEFINE left == blocked_connections_ \cup Range(ready_connections_)
<1>1. /\ ~crashed /\ state_ = "STOPPING" /\ state_' = "STOPPED" /\ select_pc = "done"
      /\ \A w \in Workers : worker_pc[w] = "done"
      /\ socket' = [c \in Conn |-> IF c \in left \/ socket[c] = "backlog" THEN "closed"
                                   ELSE socket[c]]
      /\ descriptors' = descriptors - 2 - Cardinality(left \ {NULL})
  BY DEF StopClose, Running
<1>2. temp = {} /\ \A x \in Entry : ~Held(x)
  BY <1>1 DEF IInv, Phases, Held, Holds
<1>3. \A x : x \in left <=> x \in blocked_connections_ \/ Queued(x)
  BY DEF Range, Queued
<1>4. left \subseteq Entry
  BY <1>3 DEF IInv, Types, Queued
<1> HIDE DEF left
<1>5. \A c \in Conn : c \in left <=> socket[c] = "open"
  <2>1. \A x \in Entry : Owned(x) <=> x = NULL \/ socket[x] = "open"
    BY <1>1, ForgottenLemma DEF IInv
  <2>2. \A x \in Entry : Owned(x) <=> x \in left
    BY <1>2, <1>3 DEF Owned
  <2>3. QED
    BY <2>1, <2>2, ServerAssumption DEF Entry
<1>6. left \ {NULL} = Open
  BY <1>4, <1>5, ServerAssumption DEF Open, Entry
<1>7. Open' = {}
  BY <1>1, <1>5 DEF Open
<1>8. Cardinality(Open') = 0 /\ IsFiniteSet(Open')
  BY <1>7, FS_EmptySet
<1>9. descriptors' = 0
  BY <1>1, <1>6, DescriptorCount DEF DescriptorInv
<1>10. QED
  BY <1>1, <1>8, <1>9 DEF DescriptorInv, DescriptorsOwned, Open

LEMMA SelectScanDescriptors ==
  ASSUME IInv, DescriptorInv, NEW x \in Entry, SelectScan(x)
  PROVE  DescriptorInv'
<1>1. /\ ~crashed /\ select_pc = "scan" /\ x \in todo /\ state_' = state_
      /\ \/ UNCHANGED <<socket, descriptors>>
         \/ /\ x # NULL /\ socket' = [socket EXCEPT ![x] = "closed"]
            /\ descriptors' = descriptors - 1
  BY DEF SelectScan, Running, Close
<1>2. CASE UNCHANGED <<socket, descriptors>>
  BY <1>1, <1>2, SameDescriptors
<1>3. CASE /\ x # NULL /\ socket' = [socket EXCEPT ![x] = "closed"]
           /\ descriptors' = descriptors - 1
  <2>1. x \in temp
    BY <1>1 DEF IInv, Types
  <2>2. state_ # "NOT_STARTED"
    BY <1>1 DEF IInv, AtRest
  <2>3. Owned(x)
    BY <2>1 DEF Owned
  <2>4. socket[x] = "open"
    BY <1>1, <1>3, <2>2, <2>3, SelectActive, ForgottenLemma DEF IInv
  <2>5. x \in Conn
    BY <1>3 DEF Entry
  <2>6. QED
    BY <1>1, <1>3, <2>4, <2>5, OneLessDescriptor, Zenon DEF IInv, Types
<1>4. QED
  BY <1>1, <1>2, <1>3

LEMMA WorkerAcceptDescriptors ==
  ASSUME IInv, DescriptorInv, NEW w \in Workers, WorkerAccept(w)
  PROVE  DescriptorInv'
<1>1. ~crashed /\ state_' = state_
  BY DEF WorkerAccept, Running
<1>2. CASE \E c \in Accepted : socket[c] = "backlog"
  <2>1. descriptors' = descriptors + 1
    BY <1>2 DEF WorkerAccept, AcceptConnection, Socket
  <2>2. PICK c \in Accepted : socket[c] = "backlog" /\ socket' = [socket EXCEPT ![c] = "open"]
    BY <1>2 DEF WorkerAccept
  <2>3. QED
    BY <1>1, <2>1, <2>2, OneMoreDescriptor, Zenon DEF IInv, Types, Conn
<1>3. CASE ~\E c \in Accepted : socket[c] = "backlog"
  <2>1. UNCHANGED <<socket, descriptors>>
    BY <1>3 DEF WorkerAccept, AcceptConnection, Failed
  <2>2. QED
    BY <1>1, <2>1, SameDescriptors
<1>4. QED
  BY <1>2, <1>3

LEMMA OpenDescriptors ==
  ASSUME IInv, DescriptorInv, NEW s \in Senders, NEW c \in Conn,
         NEW addresses \in AddressLists, OpenConnection(s, c, addresses)
  PROVE  DescriptorInv'
<1> DEFINE result == ConnectToRemoteHost(addresses, descriptors)
<1>1. /\ ~crashed /\ state_' = state_ /\ socket[c] = "none"
      /\ descriptors' = result.open
      /\ \/ result.fd = -1 /\ socket' = socket
         \/ result.fd # -1 /\ socket' = [socket EXCEPT ![c] = "open"]
  BY DEF OpenConnection, Running
<1>2. descriptors \in Nat
  BY <1>1, DescriptorCount DEF DescriptorInv
<1>3. result \in {Failed(descriptors), Socket(descriptors)}
  BY <1>2, AddressesLength, ConnectResult
<1> HIDE DEF result
<1>4. \/ socket' = socket /\ descriptors' = descriptors
      \/ socket' = [socket EXCEPT ![c] = "open"] /\ descriptors' = descriptors + 1
  BY <1>1, <1>2, <1>3 DEF Failed, Socket
<1>5. QED
  BY <1>1, <1>4, SameDescriptors, OneMoreDescriptor DEF IInv, Types

LEMMA DescriptorInvNext == IInv /\ DescriptorInv /\ [Next]_vars => DescriptorInv'
<1> SUFFICES ASSUME IInv, DescriptorInv, [Next]_vars PROVE DescriptorInv'
  OBVIOUS
<1> DEFINE Quiet == /\ UNCHANGED <<socket, descriptors>>
                    /\ crashed => crashed'
                    /\ (state_ \in {"RUNNING", "STOPPING"}) <=>
                         (state_' \in {"RUNNING", "STOPPING"})
<1>1. Quiet => DescriptorInv'
  BY SameDescriptors
<1>2. CASE UNCHANGED vars
  BY <1>1, <1>2 DEF vars, serverVars, connVars, localVars
<1>3. ASSUME NEW addresses \in AddressLists, Start(addresses) PROVE DescriptorInv'
  BY <1>3, StartDescriptors
<1>4. CASE Stop \/ StopDrain \/ StopSignal
  BY <1>1, <1>4 DEF Stop, StopDrain, StopSignal, Running, localVars, connVars
<1>5. CASE StopClose
  BY <1>5, StopCloseDescriptors
<1>6. CASE SelectStep
  <2>1. CASE SelectLoop \/ SelectClear \/ SelectSwap \/ Select
    BY <1>1, <2>1
    DEF SelectLoop, SelectClear, SelectSwap, Select, Running, serverVars, localVars, connVars
  <2>2. ASSUME NEW x \in Entry, SelectScan(x) PROVE DescriptorInv'
    BY <2>2, SelectScanDescriptors
  <2>3. ASSUME NEW x \in Entry, SelectDistribute(x) PROVE DescriptorInv'
    BY <1>1, <2>3 DEF SelectDistribute, Running, localVars, connVars
  <2>4. CASE SelectOutput
    BY <1>1, <2>4, Zenon DEF SelectOutput, Running, serverVars, localVars
  <2>5. QED
    BY <1>6, <2>1, <2>2, <2>3, <2>4 DEF SelectStep
<1>7. ASSUME NEW w \in Workers, WorkerStep(w) PROVE DescriptorInv'
  <2>1. CASE WorkerAccept(w)
    BY <2>1, WorkerAcceptDescriptors
  <2>2. CASE WorkerLoop(w) \/ WorkerPop(w) \/ WorkerSignal(w) \/ WorkerInsert(w)
    BY <1>1, <2>2
    DEF WorkerLoop, WorkerPop, WorkerSignal, WorkerInsert, Running, serverVars, localVars,
        connVars
  <2>3. CASE WorkerReceive(w) \/ WorkerSend(w) \/ WorkerCheck(w)
    BY <1>1, <2>3, Zenon DEF WorkerReceive, WorkerSend, WorkerCheck, Running, serverVars, localVars
  <2>4. CASE WorkerAcceptFails(w)
    BY <1>1, <2>4 DEF WorkerAcceptFails, Running, serverVars, localVars, connVars
  <2>5. QED
    BY <1>7, <2>1, <2>2, <2>3, <2>4 DEF WorkerStep
<1>8. ASSUME NEW s \in Senders, NotifyConnectionsChanged(s) PROVE DescriptorInv'
  BY <1>1, <1>8 DEF NotifyConnectionsChanged, Running, connVars
<1>9. ASSUME NEW s \in Senders, NEW c \in Conn, QueueMessage(s, c) PROVE DescriptorInv'
  BY <1>1, <1>9 DEF QueueMessage, Running, serverVars
<1>10. ASSUME NEW s \in Senders, NEW c \in Conn, NEW addresses \in AddressLists,
              OpenConnection(s, c, addresses)
       PROVE  DescriptorInv'
  BY <1>10, OpenDescriptors
<1>11. ASSUME NEW c \in Conn, FarStep(c) PROVE DescriptorInv'
  <2>1. CASE Connect(c)
    <3>1. /\ Open' = Open
          /\ UNCHANGED <<descriptors, state_, crashed>>
      BY <2>1 DEF Connect, Open, serverVars, localVars, IInv, Types
    <3>2. ASSUME ~crashed'
          PROVE  descriptors' = Cardinality(Open')
                                  + (IF state_' \in {"RUNNING", "STOPPING"} THEN 2 ELSE 0)
      BY <3>1, <3>2, DescriptorCount DEF DescriptorInv
    <3>3. QED
      BY <3>1, <3>2 DEF DescriptorInv, DescriptorsOwned, Open
  <2>2. CASE FarWrite(c) \/ FarRead(c) \/ FarClose(c) \/ Reset(c)
    BY <1>1, <2>2
    DEF FarWrite, FarRead, FarClose, Reset, Running, serverVars, localVars, connVars
  <2>3. QED
    BY <1>11, <2>1, <2>2 DEF FarStep
<1>12. QED
  BY <1>2, <1>3, <1>4, <1>5, <1>6, <1>7, <1>8, <1>9, <1>10, <1>11 DEF Next

LEMMA DescriptorInvInit == Init => DescriptorInv
<1> SUFFICES ASSUME Init PROVE DescriptorInv
  OBVIOUS
<1>1. Open = {} /\ descriptors = 0 /\ state_ = "NOT_STARTED"
  BY DEF Init, Open
<1>2. IsFiniteSet(Open) /\ Cardinality(Open) = 0
  BY <1>1, FS_EmptySet
<1>3. QED
  BY <1>1, <1>2 DEF DescriptorInv, DescriptorsOwned, Open

(* No descriptor is leaked or closed twice, whichever addresses are        *)
(* refused at whichever call, and however connections come and go:         *)
(* BindToSomeAddress, ConnectToSomeAddress, AcceptSingleConnection, the    *)
(* select loop and Stop close what they no longer own.                     *)
THEOREM NoDescriptorLeaks == Spec => []DescriptorsOwned
<1>1. DescriptorInv => DescriptorsOwned
  BY DEF DescriptorInv
<1>2. QED
  BY <1>1, IInvInit, IInvNext, DescriptorInvInit, DescriptorInvNext, PTL DEF Spec
================================================================================
