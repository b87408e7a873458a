------------------------ MODULE ProtocolStreams_proofs ------------------------
(***************************************************************************)
(* Proof that a ProtocolServer keeps the byte streams of its connections   *)
(* intact, for any message length, any sizes of reads and writes and any   *)
(* number of threads and connections.                                      *)
(***************************************************************************)
EXTENDS ProtocolServer_proofs, MessageStream_proofs

-----------------------------------------------------------------------------
(* The inductive invariant: the streams of every connection, the types of  *)
(* their parts, and that a send never overfills the network.  It is        *)
(* inductive together with IInv, which says that a thread that receives or *)
(* sends has a connection in its hands.                                    *)

StreamTypes ==
  /\ delivered \in [Conn -> Seq(Message)] /\ queued \in [Conn -> Seq(Message)]
  /\ input_data_ \in [Conn -> Seq(Byte(Message))] /\ output_data_ \in [Conn -> Seq(Byte(Message))]
  /\ arriving \in [Conn -> Seq(Byte(Message))] /\ leaving \in [Conn -> Seq(Byte(Message))]
  /\ unsent \in [Conn -> Seq(Byte(Message))] /\ read \in [Conn -> Seq(Byte(Message))]
  /\ pushed \in [Conn -> Nat]
  /\ far \in [Conn -> {"open", "closed", "reset"}]
  /\ \A c \in Conn : Len(leaving[c]) <= Capacity

InboundIntact(c) ==
  far[c] = "open" =>
    Cat(Cat(Cat(BytesOf(delivered[c]), input_data_[c]), arriving[c]), unsent[c])
      = BytesOf(Inbound[c])

OutboundIntact(c) ==
  far[c] = "open" =>
    /\ pushed[c] <= Len(Outbound[c])
    /\ Cat(Cat(Cat(read[c], leaving[c]), output_data_[c]), BytesOf(queued[c]))
         = BytesOf(SubSeq(Outbound[c], 1, pushed[c]))

StreamInv ==
  /\ StreamTypes
  /\ \A c \in Conn : InboundIntact(c)
  /\ \A c \in Conn : OutboundIntact(c)

LEMMA StreamInvIntact == StreamInv => StreamIntact
BY Zenon DEF StreamInv, InboundIntact, OutboundIntact, StreamIntact, Cat

LEMMA ByteTypes ==
  ASSUME NEW m \in Seq(Message)
  PROVE  BytesOf(m) \in Seq(Byte(Message))
BY BytesType

LEMMA StreamInvInit == Init => StreamInv
<1> SUFFICES ASSUME Init PROVE StreamInv
  OBVIOUS
<1>1. <<>> \in Seq(Message) /\ <<>> \in Seq(Byte(Message)) /\ Len(<<>>) = 0
  OBVIOUS
<1>2. \A c \in Conn : Inbound[c] \in Seq(Message) /\ Outbound[c] \in Seq(Message)
  BY StreamAssumption
<1>3. \A c \in Conn : BytesOf(Inbound[c]) \in Seq(Byte(Message))
  BY <1>2, ByteTypes
<1>4. BytesOf(<<>>) = <<>>
  <2>1. BytesOf(<<>>) \in Seq(Byte(Message)) /\ Len(BytesOf(<<>>)) = Offset(0)
    BY <1>1, BytesType, Zenon
  <2>2. Offset(0) = 0
    BY LengthAssumption DEF Offset
  <2>3. QED
    BY <2>1, <2>2
<1>5. StreamTypes
  BY <1>1, <1>3, StreamAssumption DEF Init, StreamTypes
<1>6. ASSUME NEW c \in Conn PROVE InboundIntact(c)
  <2>1. /\ delivered[c] = <<>> /\ input_data_[c] = <<>> /\ arriving[c] = <<>>
        /\ unsent[c] = BytesOf(Inbound[c])
    BY DEF Init
  <2>2. Cat(<<>>, <<>>) = <<>> /\ Cat(<<>>, unsent[c]) = unsent[c]
    BY <1>1, <1>3, <2>1, CatEmpty, Zenon
  <2>3. QED
    BY <1>4, <2>1, <2>2 DEF InboundIntact
<1>7. ASSUME NEW c \in Conn PROVE OutboundIntact(c)
  <2>1. /\ read[c] = <<>> /\ leaving[c] = <<>> /\ output_data_[c] = <<>>
        /\ queued[c] = <<>> /\ pushed[c] = 0
    BY DEF Init
  <2>2. Cat(<<>>, <<>>) = <<>>
    BY <1>1, CatEmpty, Zenon
  <2>3. SubSeq(Outbound[c], 1, 0) = <<>> /\ 0 <= Len(Outbound[c])
    BY <1>2
  <2>4. QED
    BY <1>4, <2>1, <2>2, <2>3, Zenon DEF OutboundIntact
<1>8. QED
  BY <1>5, <1>6, <1>7 DEF StreamInv

inVars == <<delivered, input_data_, arriving, unsent>>
outVars == <<read, leaving, output_data_, queued, pushed>>

LEMMA TypesAt ==
  ASSUME StreamInv, NEW c \in Conn
  PROVE  /\ StreamTypes
         /\ delivered[c] \in Seq(Message) /\ queued[c] \in Seq(Message)
         /\ input_data_[c] \in Seq(Byte(Message)) /\ output_data_[c] \in Seq(Byte(Message))
         /\ arriving[c] \in Seq(Byte(Message)) /\ leaving[c] \in Seq(Byte(Message))
         /\ unsent[c] \in Seq(Byte(Message)) /\ read[c] \in Seq(Byte(Message))
         /\ Inbound[c] \in Seq(Message) /\ Outbound[c] \in Seq(Message)
         /\ pushed[c] \in Nat /\ Len(leaving[c]) <= Capacity
BY StreamAssumption, Zenon DEF StreamInv, StreamTypes

LEMMA Updated ==
  ASSUME NEW S, NEW f \in [Conn -> S], NEW c \in Conn, NEW v \in S
  PROVE  [f EXCEPT ![c] = v] \in [Conn -> S]
OBVIOUS

LEMMA SameInbound ==
  ASSUME \A c \in Conn : InboundIntact(c), UNCHANGED <<inVars, far>>
  PROVE  \A c \in Conn : InboundIntact(c)'
BY DEF InboundIntact, inVars

LEMMA SameOutbound ==
  ASSUME \A c \in Conn : OutboundIntact(c), UNCHANGED <<outVars, far>>
  PROVE  \A c \in Conn : OutboundIntact(c)'
BY DEF OutboundIntact, outVars

LEMMA StreamsUntouched ==
  ASSUME StreamInv, UNCHANGED <<inVars, outVars, far>>
  PROVE  StreamInv'
<1>1. StreamTypes'
  BY DEF StreamInv, StreamTypes, inVars, outVars
<1>2. QED
  BY <1>1, SameInbound, SameOutbound DEF StreamInv

LEMMA FarWriteStreams ==
  ASSUME StreamInv, NEW c \in Conn, FarWrite(c)
  PROVE  StreamInv'
<1> DEFINE a == arriving[c]
           u == unsent[c]
           x == Cat(BytesOf(delivered[c]), input_data_[c])
           a1 == Append(a, Head(u))
           u1 == Tail(u)
<1>1. /\ arriving' = [arriving EXCEPT ![c] = a1] /\ unsent' = [unsent EXCEPT ![c] = u1]
      /\ u # <<>> /\ UNCHANGED <<delivered, input_data_, outVars, far>>
  BY DEF FarWrite, connVars, outVars
<1>2. StreamTypes /\ a \in Seq(Byte(Message)) /\ u \in Seq(Byte(Message))
      /\ delivered[c] \in Seq(Message) /\ input_data_[c] \in Seq(Byte(Message))
  BY TypesAt, Zenon
<1>3. x \in Seq(Byte(Message))
  BY <1>2, ByteTypes, CatType, Zenon
<1> HIDE DEF a, u, x, a1, u1
<1>4. a1 \in Seq(Byte(Message)) /\ u1 \in Seq(Byte(Message)) /\ Cat(a1, u1) = Cat(a, u)
  BY <1>1, <1>2, ByteMoves DEF a1, u1
<1>5. StreamTypes'
  <2>1. arriving' \in [Conn -> Seq(Byte(Message))] /\ unsent' \in [Conn -> Seq(Byte(Message))]
    BY <1>1, <1>2, <1>4, Updated, Zenon DEF StreamTypes
  <2>2. QED
    BY <1>1, <1>2, <2>1, Zenon DEF StreamTypes, outVars
<1>6. ASSUME NEW d \in Conn PROVE InboundIntact(d)'
  <2>1. InboundIntact(d)
    BY DEF StreamInv
  <2>2. CASE d # c
    <3>1. arriving'[d] = arriving[d] /\ unsent'[d] = unsent[d]
      BY <1>1, <1>2, <2>2 DEF StreamTypes
    <3>2. QED
      BY <1>1, <2>1, <3>1 DEF InboundIntact
  <2>3. CASE d = c
    <3>1. arriving'[c] = a1 /\ unsent'[c] = u1
      BY <1>1, <1>2 DEF StreamTypes
    <3>2. Cat(Cat(x, a1), u1) = Cat(x, Cat(a1, u1))
      BY <1>3, <1>4, CatAssociative
    <3>3. Cat(Cat(x, a), u) = Cat(x, Cat(a, u))
      BY <1>2, <1>3, CatAssociative
    <3>4. QED
      BY <1>1, <1>4, <2>1, <2>3, <3>1, <3>2, <3>3 DEF InboundIntact, a, u, x
  <2>4. QED
    BY <2>2, <2>3
<1>7. \A d \in Conn : OutboundIntact(d)'
  BY <1>1, SameOutbound DEF StreamInv
<1>8. QED
  BY <1>5, <1>6, <1>7 DEF StreamInv

LEMMA ReceiveStreams ==
  ASSUME IInv, StreamInv, NEW w \in Workers, WorkerReceive(w)
  PROVE  StreamInv'
<1> DEFINE c == held[w]
           d == delivered[c]
           i == input_data_[c]
           a == arriving[c]
           u == unsent[c]
           data == Cat(i, a)
           messages == ParseMessages(data)
           d1 == Cat(d, messages)
           i1 == Unparsed(data)
<1>1. /\ arriving' = [arriving EXCEPT ![c] = <<>>]
      /\ input_data_' = [input_data_ EXCEPT ![c] = i1]
      /\ delivered' = [delivered EXCEPT ![c] = d1]
      /\ worker_pc[w] = "recv"
      /\ UNCHANGED <<unsent, outVars, far>>
  BY DEF WorkerReceive, outVars, Cat, Unparsed
<1>2. c \in Conn
  BY <1>1 DEF IInv, Types, Phases, Entry
<1>3. /\ StreamTypes /\ d \in Seq(Message) /\ Inbound[c] \in Seq(Message)
      /\ i \in Seq(Byte(Message)) /\ a \in Seq(Byte(Message)) /\ u \in Seq(Byte(Message))
  BY <1>2, TypesAt, Zenon
<1> HIDE DEF c, d, i, a, u
<1>4. BytesOf(d) \in Seq(Byte(Message)) /\ data \in Seq(Byte(Message))
  BY <1>3, ByteTypes, CatType
<1> HIDE DEF data
<1>5. /\ messages \in Seq(Message) /\ i1 \in Seq(Byte(Message))
      /\ Cat(Cat(BytesOf(d), data), u) = BytesOf(Inbound[c])
           => Cat(Cat(BytesOf(d1), i1), u) = BytesOf(Inbound[c])
  <2> DEFINE all == Inbound[c]
  <2>1. all \in Seq(Message)
    BY <1>3
  <2> HIDE DEF all
  <2>2. /\ messages \in Seq(Message) /\ i1 \in Seq(Byte(Message))
        /\ Cat(Cat(BytesOf(d), data), u) = BytesOf(all)
             => Cat(Cat(BytesOf(d1), i1), u) = BytesOf(all)
    BY <1>3, <1>4, <2>1, ParseKeeps
  <2>3. QED
    BY <2>2 DEF all
<1> HIDE DEF messages, i1
<1>6. d1 \in Seq(Message)
  BY <1>3, <1>5, CatType
<1> HIDE DEF d1
<1>7. BytesOf(d1) \in Seq(Byte(Message))
  BY <1>6, ByteTypes
<1>8. StreamTypes'
  <2>1. <<>> \in Seq(Byte(Message))
    OBVIOUS
  <2>2. /\ arriving' \in [Conn -> Seq(Byte(Message))] /\ input_data_' \in [Conn -> Seq(Byte(Message))]
        /\ delivered' \in [Conn -> Seq(Message)]
    BY <1>1, <1>2, <1>3, <1>5, <1>6, <2>1, Updated, Zenon DEF StreamTypes
  <2>3. QED
    BY <1>1, <1>3, <2>2, Zenon DEF StreamTypes, outVars
<1>9. ASSUME NEW e \in Conn PROVE InboundIntact(e)'
  <2>1. InboundIntact(e)
    BY DEF StreamInv
  <2>2. CASE e # c
    <3>1. /\ arriving'[e] = arriving[e] /\ input_data_'[e] = input_data_[e]
          /\ delivered'[e] = delivered[e]
      BY <1>1, <1>3, <2>2 DEF StreamTypes
    <3>2. QED
      BY <1>1, <2>1, <3>1 DEF InboundIntact
  <2>3. CASE e = c
    <3>1. arriving'[c] = <<>> /\ input_data_'[c] = i1 /\ delivered'[c] = d1
      BY <1>1, <1>2, <1>3 DEF StreamTypes
    <3>2. Cat(Cat(BytesOf(d), i), a) = Cat(BytesOf(d), data)
      BY <1>3, <1>4, CatAssociative DEF data
    <3>3. Cat(Cat(BytesOf(d1), i1), <<>>) = Cat(BytesOf(d1), i1)
      BY <1>5, <1>7, CatType, CatEmpty
    <3>4. far[c] = "open" => Cat(Cat(Cat(BytesOf(d), i), a), u) = BytesOf(Inbound[c])
      BY <2>1, <2>3 DEF InboundIntact, d, i, a, u
    <3>5. far[c] = "open" => Cat(Cat(Cat(BytesOf(d1), i1), <<>>), u) = BytesOf(Inbound[c])
      BY <1>5, <3>2, <3>3, <3>4
    <3>6. QED
      BY <1>1, <2>3, <3>1, <3>5 DEF InboundIntact, u
  <2>4. QED
    BY <2>2, <2>3
<1>10. \A e \in Conn : OutboundIntact(e)'
  BY <1>1, SameOutbound DEF StreamInv
<1>11. QED
  BY <1>8, <1>9, <1>10 DEF StreamInv

LEMMA FarReadStreams ==
  ASSUME StreamInv, NEW c \in Conn, FarRead(c)
  PROVE  StreamInv'
<1> DEFINE r == read[c]
           l == leaving[c]
           r1 == Append(r, Head(l))
<1>1. /\ read' = [read EXCEPT ![c] = r1] /\ leaving' = [leaving EXCEPT ![c] = Tail(l)]
      /\ l # <<>> /\ UNCHANGED <<output_data_, queued, pushed, inVars, far>>
  BY DEF FarRead, connVars, inVars
<1>2. /\ StreamTypes /\ r \in Seq(Byte(Message)) /\ l \in Seq(Byte(Message))
      /\ Len(l) <= Capacity /\ Capacity \in Nat
  BY TypesAt, StreamAssumption, Zenon
<1> HIDE DEF r, l, r1
<1>3. r1 \in Seq(Byte(Message)) /\ Tail(l) \in Seq(Byte(Message)) /\ Cat(r1, Tail(l)) = Cat(r, l)
  BY <1>1, <1>2, ByteMoves DEF r1
<1>4. Len(Tail(l)) <= Capacity
  BY <1>1, <1>2
<1>5. StreamTypes'
  <2>1. read' \in [Conn -> Seq(Byte(Message))] /\ leaving' \in [Conn -> Seq(Byte(Message))]
    BY <1>1, <1>2, <1>3, Updated, Zenon DEF StreamTypes
  <2>2. \A d \in Conn : Len(leaving'[d]) <= Capacity
    BY <1>1, <1>2, <1>4 DEF StreamTypes
  <2>3. QED
    BY <1>1, <1>2, <2>1, <2>2, Zenon DEF StreamTypes, inVars
<1>6. ASSUME NEW d \in Conn PROVE OutboundIntact(d)'
  <2>1. OutboundIntact(d)
    BY DEF StreamInv
  <2>2. CASE d # c
    <3>1. read'[d] = read[d] /\ leaving'[d] = leaving[d]
      BY <1>1, <1>2, <2>2 DEF StreamTypes
    <3>2. QED
      BY <1>1, <2>1, <3>1 DEF OutboundIntact
  <2>3. CASE d = c
    <3>1. read'[c] = r1 /\ leaving'[c] = Tail(l)
      BY <1>1, <1>2 DEF StreamTypes
    <3>2. QED
      BY <1>1, <1>3, <2>1, <2>3, <3>1 DEF OutboundIntact, r, l
  <2>4. QED
    BY <2>2, <2>3
<1>7. \A d \in Conn : InboundIntact(d)'
  BY <1>1, SameInbound DEF StreamInv
<1>8. QED
  BY <1>5, <1>6, <1>7 DEF StreamInv

LEMMA FetchStreams ==
  ASSUME StreamInv, NEW c \in Conn, NEW fetches, fetches => Fetches(c),
         FetchOutput(c, fetches), UNCHANGED <<inVars, far, read, leaving, pushed>>
  PROVE  StreamInv'
<1> DEFINE q == queued[c]
           x == Cat(read[c], leaving[c])
           o1 == BytesOf(<<Head(q)>>)
           q1 == Tail(q)
<1>1. /\ StreamTypes /\ q \in Seq(Message)
      /\ read[c] \in Seq(Byte(Message)) /\ leaving[c] \in Seq(Byte(Message))
  BY TypesAt, Zenon
<1>2. CASE ~fetches
  <2>1. output_data_' = output_data_ /\ queued' = queued
    BY <1>1, <1>2 DEF FetchOutput, StreamTypes
  <2>2. QED
    BY <2>1, StreamsUntouched DEF outVars
<1>3. CASE fetches
  <2>1. /\ output_data_' = [output_data_ EXCEPT ![c] = o1] /\ queued' = [queued EXCEPT ![c] = q1]
        /\ output_data_[c] = <<>> /\ q # <<>>
    BY <1>3 DEF FetchOutput, Fetches
  <2>2. x \in Seq(Byte(Message))
    BY <1>1, CatType, Zenon
  <2> HIDE DEF q, x, o1, q1
  <2>3. o1 \in Seq(Byte(Message)) /\ q1 \in Seq(Message)
        /\ Cat(Cat(x, o1), BytesOf(q1)) = Cat(Cat(x, <<>>), BytesOf(q))
    BY <1>1, <2>1, <2>2, MessageFetched DEF o1, q1
  <2>4. StreamTypes'
    <3>1. output_data_' \in [Conn -> Seq(Byte(Message))] /\ queued' \in [Conn -> Seq(Message)]
      BY <1>1, <2>1, <2>3, Updated, Zenon DEF StreamTypes
    <3>2. QED
      BY <1>1, <3>1, Zenon DEF StreamTypes, inVars
  <2>5. ASSUME NEW d \in Conn PROVE OutboundIntact(d)'
    <3>1. OutboundIntact(d)
      BY DEF StreamInv
    <3>2. CASE d # c
      <4>1. output_data_'[d] = output_data_[d] /\ queued'[d] = queued[d]
        BY <1>1, <2>1, <3>2 DEF StreamTypes
      <4>2. QED
        BY <3>1, <4>1 DEF OutboundIntact
    <3>3. CASE d = c
      <4>1. output_data_'[c] = o1 /\ queued'[c] = q1
        BY <1>1, <2>1 DEF StreamTypes
      <4>2. QED
        BY <2>1, <2>3, <3>1, <3>3, <4>1 DEF OutboundIntact, q, x
    <3>4. QED
      BY <3>2, <3>3
  <2>6. \A d \in Conn : InboundIntact(d)'
    BY SameInbound DEF StreamInv
  <2>7. QED
    BY <2>4, <2>5, <2>6 DEF StreamInv
<1>4. QED
  BY <1>2, <1>3

LEMMA SendStreams ==
  ASSUME IInv, StreamInv, NEW w \in Workers, WorkerSend(w)
  PROVE  StreamInv'
<1> DEFINE c == held[w]
           q == queued[c]
           o == output_data_[c]
           r == read[c]
           l == leaving[c]
           data == IF Fetches(c) THEN BytesOf(<<Head(q)>>) ELSE o
           q1 == IF Fetches(c) THEN Tail(q) ELSE q
           room == Capacity - Len(l)
           count == IF far[c] # "open" \/ room > Len(data) THEN Len(data) ELSE room
<1>1. /\ worker_pc[w] = "send" /\ UNCHANGED <<inVars, far, read, pushed>>
      /\ queued' = [queued EXCEPT ![c] = q1]
      /\ \/ data = <<>> /\ UNCHANGED <<output_data_, leaving>>
         \/ /\ data # <<>> /\ far[c] = "reset" /\ UNCHANGED leaving
            /\ output_data_' = [output_data_ EXCEPT ![c] = data]
         \/ /\ data # <<>> /\ far[c] # "reset"
            /\ output_data_' = [output_data_ EXCEPT ![c] = SubSeq(data, count + 1, Len(data))]
            /\ leaving' = [leaving EXCEPT ![c] =
                             IF far[c] = "open" THEN l \o SubSeq(data, 1, count) ELSE l]
  BY Zenon DEF WorkerSend, inVars
<1>2. c \in Conn
  BY <1>1, Zenon DEF IInv, Types, Phases, Entry
<1>3. /\ StreamTypes /\ q \in Seq(Message) /\ o \in Seq(Byte(Message))
      /\ r \in Seq(Byte(Message)) /\ l \in Seq(Byte(Message))
      /\ Len(l) \in Nat /\ Len(l) <= Capacity /\ Capacity \in Nat
  <2>1. /\ StreamTypes /\ q \in Seq(Message) /\ o \in Seq(Byte(Message))
        /\ r \in Seq(Byte(Message)) /\ l \in Seq(Byte(Message)) /\ Len(l) <= Capacity
    BY <1>2, TypesAt, Zenon
  <2> HIDE DEF l
  <2>2. Len(l) \in Nat /\ Capacity \in Nat
    BY <2>1, StreamAssumption
  <2>3. QED
    BY <2>1, <2>2, Zenon
<1>4. Fetches(c) => o = <<>> /\ q # <<>>
  BY DEF Fetches
<1> DEFINE x == Cat(r, l)
<1> HIDE DEF c, q, o, r, l
<1>5. x \in Seq(Byte(Message))
  BY <1>3, CatType
<1> HIDE DEF x
<1>6. /\ data \in Seq(Byte(Message)) /\ q1 \in Seq(Message)
      /\ Cat(Cat(x, data), BytesOf(q1)) = Cat(Cat(x, o), BytesOf(q))
      /\ data = <<>> => o = <<>> /\ q1 = q
  <2>1. CASE Fetches(c)
    BY <1>3, <1>4, <1>5, <2>1, MessageFetched, Zenon
  <2>2. CASE ~Fetches(c)
    BY <1>3, <2>2
  <2>3. QED
    BY <2>1, <2>2
<1> HIDE DEF data, q1
<1>7. CASE data = <<>> /\ UNCHANGED <<output_data_, leaving>>
  <2>1. queued' = queued
    BY <1>1, <1>3, <1>6, <1>7 DEF StreamTypes, q
  <2>2. QED
    BY <1>1, <1>7, <2>1, StreamsUntouched DEF outVars
<1>8. ASSUME NEW o1 \in Seq(Byte(Message)), NEW l1 \in Seq(Byte(Message)), Len(l1) <= Capacity,
             output_data_' = [output_data_ EXCEPT ![c] = o1],
             leaving' = [leaving EXCEPT ![c] = l1],
             far[c] = "open" => Cat(Cat(r, l1), o1) = Cat(x, data)
      PROVE  StreamInv'
  <2>1. StreamTypes'
    <3>1. /\ queued' \in [Conn -> Seq(Message)] /\ output_data_' \in [Conn -> Seq(Byte(Message))]
          /\ leaving' \in [Conn -> Seq(Byte(Message))]
      BY <1>1, <1>2, <1>3, <1>6, <1>8, Updated, Zenon DEF StreamTypes
    <3>2. \A d \in Conn : Len(leaving'[d]) <= Capacity
      BY <1>2, <1>3, <1>8, Zenon DEF StreamTypes
    <3>3. QED
      BY <1>1, <1>3, <3>1, <3>2, Zenon DEF StreamTypes, inVars
  <2>2. ASSUME NEW d \in Conn PROVE OutboundIntact(d)'
    <3>1. OutboundIntact(d)
      BY DEF StreamInv
    <3>2. CASE d # c
      <4>1. /\ output_data_'[d] = output_data_[d] /\ queued'[d] = queued[d]
            /\ leaving'[d] = leaving[d]
        BY <1>1, <1>3, <1>8, <3>2 DEF StreamTypes
      <4>2. QED
        BY <1>1, <3>1, <4>1 DEF OutboundIntact
    <3>3. CASE d = c
      <4>1. output_data_'[c] = o1 /\ queued'[c] = q1 /\ leaving'[c] = l1
        BY <1>1, <1>2, <1>3, <1>8 DEF StreamTypes
      <4>2. far[c] = "open" =>
              /\ pushed[c] <= Len(Outbound[c])
              /\ Cat(Cat(x, o), BytesOf(q)) = BytesOf(SubSeq(Outbound[c], 1, pushed[c]))
        BY <3>1, <3>3 DEF OutboundIntact, x, o, q, r, l
      <4>3. far[c] = "open" =>
              Cat(Cat(Cat(r, l1), o1), BytesOf(q1)) = BytesOf(SubSeq(Outbound[c], 1, pushed[c]))
        BY <1>6, <1>8, <4>2
      <4>4. QED
        BY <1>1, <3>3, <4>1, <4>2, <4>3 DEF OutboundIntact, r
    <3>4. QED
      BY <3>2, <3>3
  <2>3. \A d \in Conn : InboundIntact(d)'
    BY <1>1, SameInbound DEF StreamInv
  <2>4. QED
    BY <2>1, <2>2, <2>3 DEF StreamInv
<1>9. CASE /\ far[c] = "reset" /\ UNCHANGED leaving
           /\ output_data_' = [output_data_ EXCEPT ![c] = data]
  <2>1. leaving' = [leaving EXCEPT ![c] = l]
    BY <1>2, <1>3, <1>9 DEF StreamTypes, l
  <2>2. Len(l) <= Capacity /\ far[c] # "open"
    BY <1>3, <1>9
  <2>3. QED
    BY <1>3, <1>6, <1>8, <1>9, <2>1, <2>2, Zenon
<1>10. CASE /\ output_data_' = [output_data_ EXCEPT ![c] = SubSeq(data, count + 1, Len(data))]
            /\ leaving' = [leaving EXCEPT ![c] =
                             IF far[c] = "open" THEN l \o SubSeq(data, 1, count) ELSE l]
  <2>1. count \in 0..Len(data) /\ (far[c] = "open" => Len(l) + count <= Capacity)
    BY <1>3, <1>6
  <2> HIDE DEF count
  <2> DEFINE o1 == SubSeq(data, count + 1, Len(data))
             front == SubSeq(data, 1, count)
             l1 == IF far[c] = "open" THEN Cat(l, front) ELSE l
  <2>2. /\ front \in Seq(Byte(Message)) /\ o1 \in Seq(Byte(Message)) /\ Len(front) = count
        /\ Cat(Cat(x, front), o1) = Cat(x, data)
    BY <1>5, <1>6, <2>1, BytesMove
  <2>3. output_data_' = [output_data_ EXCEPT ![c] = o1] /\ leaving' = [leaving EXCEPT ![c] = l1]
    BY <1>10 DEF Cat
  <2> HIDE DEF o1, front
  <2>4. Cat(l, front) \in Seq(Byte(Message)) /\ Len(Cat(l, front)) = Len(l) + count
    BY <1>3, <2>2, CatType, Zenon
  <2>5. l1 \in Seq(Byte(Message)) /\ Len(l1) <= Capacity
    BY <1>3, <2>1, <2>4
  <2>6. Cat(r, Cat(l, front)) = Cat(x, front)
    BY <1>3, <2>2, CatAssociative DEF x
  <2>7. far[c] = "open" => Cat(Cat(r, l1), o1) = Cat(x, data)
    BY <2>2, <2>6
  <2> HIDE DEF l1
  <2>8. QED
    BY <1>8, <2>2, <2>3, <2>5, <2>7, Zenon
<1>11. QED
  BY <1>1, <1>7, <1>9, <1>10, Zenon

LEMMA QueueStreams ==
  ASSUME StreamInv, NEW s \in Senders, NEW c \in Conn, QueueMessage(s, c)
  PROVE  StreamInv'
<1> DEFINE q == queued[c]
           p == pushed[c]
           all == Outbound[c]
           e == all[p + 1]
           m == <<e>>
           q1 == Append(q, e)
           y == Cat(Cat(read[c], leaving[c]), output_data_[c])
<1>1. /\ queued' = [queued EXCEPT ![c] = q1] /\ pushed' = [pushed EXCEPT ![c] = p + 1]
      /\ p < Len(all) /\ UNCHANGED <<inVars, far, read, leaving, output_data_>>
  BY Zenon DEF QueueMessage, inVars, netVars
<1>2. /\ StreamTypes /\ q \in Seq(Message) /\ p \in Nat /\ all \in Seq(Message)
      /\ read[c] \in Seq(Byte(Message)) /\ leaving[c] \in Seq(Byte(Message))
      /\ output_data_[c] \in Seq(Byte(Message))
  BY TypesAt, Zenon
<1>3. y \in Seq(Byte(Message))
  BY <1>2, CatType, Zenon
<1> HIDE DEF q, p, all, y
<1>4. m \in Seq(Message) /\ q1 \in Seq(Message) /\ q1 = Cat(q, m)
  <2>1. p + 1 \in 1..Len(all)
    BY <1>1, <1>2
  <2>2. e \in Message
    BY <1>2, <2>1
  <2> HIDE DEF e
  <2>3. m \in Seq(Message)
    BY <2>2
  <2>4. q1 \in Seq(Message) /\ q1 = Cat(q, m)
    BY <1>2, <2>2, CatAppend
  <2>5. QED
    BY <2>3, <2>4
<1> HIDE DEF m, q1
<1>5. SubSeq(all, 1, p + 1) = Cat(SubSeq(all, 1, p), m) /\ SubSeq(all, 1, p) \in Seq(Message)
  BY <1>1, <1>2, SubSeqNext DEF m
<1> DEFINE before == SubSeq(all, 1, p)
<1> HIDE DEF before
<1>6. /\ BytesOf(q1) = Cat(BytesOf(q), BytesOf(m))
      /\ BytesOf(SubSeq(all, 1, p + 1)) = Cat(BytesOf(before), BytesOf(m))
      /\ BytesOf(q) \in Seq(Byte(Message)) /\ BytesOf(m) \in Seq(Byte(Message))
  BY <1>2, <1>4, <1>5, BytesConcat, ByteTypes, Zenon DEF before
<1>7. StreamTypes'
  <2>1. p + 1 \in Nat
    BY <1>2
  <2>2. queued' \in [Conn -> Seq(Message)] /\ pushed' \in [Conn -> Nat]
    BY <1>1, <1>2, <1>4, <2>1, Updated, Zenon DEF StreamTypes
  <2>3. QED
    BY <1>1, <1>2, <2>2, Zenon DEF StreamTypes, inVars
<1>8. ASSUME NEW d \in Conn PROVE OutboundIntact(d)'
  <2>1. OutboundIntact(d)
    BY DEF StreamInv
  <2>2. CASE d # c
    <3>1. queued'[d] = queued[d] /\ pushed'[d] = pushed[d]
      BY <1>1, <1>2, <2>2 DEF StreamTypes
    <3>2. QED
      BY <1>1, <2>1, <3>1 DEF OutboundIntact
  <2>3. CASE d = c
    <3>1. queued'[c] = q1 /\ pushed'[c] = p + 1
      BY <1>1, <1>2 DEF StreamTypes
    <3>2. far[c] = "open" => Cat(y, BytesOf(q)) = BytesOf(before)
      BY <2>1, <2>3 DEF OutboundIntact, y, q, p, all, before
    <3>3. Cat(y, BytesOf(q1)) = Cat(Cat(y, BytesOf(q)), BytesOf(m))
      BY <1>3, <1>6, CatAssociative
    <3>4. far[c] = "open" => Cat(y, BytesOf(q1)) = BytesOf(SubSeq(all, 1, p + 1))
      BY <1>6, <3>2, <3>3
    <3>5. p + 1 <= Len(all)
      BY <1>1, <1>2
    <3>6. QED
      BY <1>1, <2>3, <3>1, <3>4, <3>5 DEF OutboundIntact, y, all
  <2>4. QED
    BY <2>2, <2>3
<1>9. \A d \in Conn : InboundIntact(d)'
  BY <1>1, SameInbound DEF StreamInv
<1>10. QED
  BY <1>7, <1>8, <1>9 DEF StreamInv

LEMMA DropStreams ==
  ASSUME StreamInv, NEW c \in Conn, FarClose(c) \/ Reset(c)
  PROVE  StreamInv'
<1>1. /\ \E state \in {"closed", "reset"} : far' = [far EXCEPT ![c] = state]
      /\ leaving' = [leaving EXCEPT ![c] = <<>>]
      /\ arriving' = arriving \/ arriving' = [arriving EXCEPT ![c] = <<>>]
      /\ UNCHANGED <<delivered, input_data_, unsent, read, output_data_, queued, pushed>>
  BY DEF FarClose, Reset, connVars
<1>2. StreamTypes /\ <<>> \in Seq(Byte(Message)) /\ Len(<<>>) = 0 /\ Capacity \in Nat
  BY StreamAssumption DEF StreamInv
<1>3. StreamTypes'
  <2>1. far' \in [Conn -> {"open", "closed", "reset"}]
    BY <1>1, <1>2 DEF StreamTypes
  <2>2. leaving' \in [Conn -> Seq(Byte(Message))] /\ \A d \in Conn : Len(leaving'[d]) <= Capacity
    BY <1>1, <1>2 DEF StreamTypes
  <2>3. arriving' \in [Conn -> Seq(Byte(Message))]
    BY <1>1, <1>2, Zenon DEF StreamTypes
  <2>4. QED
    BY <1>1, <1>2, <2>1, <2>2, <2>3 DEF StreamTypes
<1>4. far'[c] # "open" /\ \A d \in Conn : d # c => far'[d] = far[d] /\ leaving'[d] = leaving[d]
                                                   /\ arriving'[d] = arriving[d]
  BY <1>1, <1>2 DEF StreamTypes
<1>5. ASSUME NEW d \in Conn PROVE InboundIntact(d)' /\ OutboundIntact(d)'
  <2>1. InboundIntact(d) /\ OutboundIntact(d)
    BY DEF StreamInv
  <2>2. QED
    BY <1>1, <1>4, <2>1 DEF InboundIntact, OutboundIntact
<1>6. QED
  BY <1>3, <1>5 DEF StreamInv

-----------------------------------------------------------------------------
LEMMA SelectStreams ==
  ASSUME StreamInv, IInv, NEW x \in Entry, SelectScan(x)
  PROVE  StreamInv'
<1>1. UNCHANGED <<inVars, far, read, leaving, pushed>>
  BY DEF SelectScan, inVars, netVars
<1>2. CASE UNCHANGED <<output_data_, queued>>
  BY <1>1, <1>2, StreamsUntouched DEF outVars
<1>3. CASE x # NULL /\ IsBlockedEffect(x)
  <2>1. x \in Conn
    BY <1>3 DEF Entry
  <2>2. QED
    BY <1>1, <1>3, <2>1, FetchStreams, Zenon DEF IsBlockedEffect
<1>4. QED
  BY <1>2, <1>3 DEF SelectScan

LEMMA SelectOutputStreams ==
  ASSUME StreamInv, SelectOutput
  PROVE  StreamInv'
<1>1. asked \in Conn /\ FetchOutput(asked, Fetches(asked))
      /\ UNCHANGED <<inVars, far, read, leaving, pushed>>
  BY Zenon DEF SelectOutput, inVars, netVars
<1>2. QED
  BY <1>1, FetchStreams, Zenon

LEMMA CheckStreams ==
  ASSUME StreamInv, IInv, NEW w \in Workers, WorkerCheck(w)
  PROVE  StreamInv'
<1>1. UNCHANGED <<inVars, far, read, leaving, pushed>>
  BY DEF WorkerCheck, inVars, netVars
<1>2. CASE UNCHANGED <<output_data_, queued>>
  BY <1>1, <1>2, StreamsUntouched DEF outVars
<1>3. CASE held[w] # NULL /\ IsBlockedEffect(held[w])
  <2>1. held[w] \in Conn
    BY <1>3 DEF IInv, Types, Entry
  <2>2. QED
    BY <1>1, <1>3, <2>1, FetchStreams, Zenon DEF IsBlockedEffect
<1>4. QED
  BY <1>2, <1>3 DEF WorkerCheck

LEMMA StreamInvNext == IInv /\ StreamInv /\ [Next]_vars => StreamInv'
<1> SUFFICES ASSUME IInv, StreamInv, [Next]_vars PROVE StreamInv'
  OBVIOUS
<1> USE DEF inVars, outVars, connVars, netVars
<1>1. CASE UNCHANGED vars
  BY <1>1, StreamsUntouched DEF vars
<1>2. ASSUME NEW addresses \in AddressLists, Start(addresses) PROVE StreamInv'
  BY <1>2, StreamsUntouched DEF Start
<1>3. CASE Stop \/ StopDrain \/ StopSignal \/ StopClose
  BY <1>3, StreamsUntouched DEF Stop, StopDrain, StopSignal, StopClose
<1>4. CASE SelectStep
  <2>1. CASE SelectLoop \/ SelectClear \/ SelectSwap \/ Select
    BY <2>1, StreamsUntouched DEF SelectLoop, SelectClear, SelectSwap, Select
  <2>2. ASSUME NEW x \in Entry, SelectDistribute(x) PROVE StreamInv'
    BY <2>2, StreamsUntouched DEF SelectDistribute
  <2>3. QED
    BY <1>4, <2>1, <2>2, SelectStreams, SelectOutputStreams DEF SelectStep
<1>5. ASSUME NEW w \in Workers, WorkerStep(w) PROVE StreamInv'
  <2>1. CASE WorkerLoop(w) \/ WorkerPop(w) \/ WorkerAccept(w)
             \/ WorkerAcceptFails(w) \/ WorkerInsert(w) \/ WorkerSignal(w)
    BY <2>1, StreamsUntouched, Zenon
    DEF WorkerLoop, WorkerPop, WorkerAccept, WorkerAcceptFails, WorkerInsert, WorkerSignal
  <2>2. QED
    BY <1>5, <2>1, ReceiveStreams, SendStreams, CheckStreams DEF WorkerStep
<1>6. ASSUME NEW s \in Senders, NotifyConnectionsChanged(s) PROVE StreamInv'
  BY <1>6, StreamsUntouched DEF NotifyConnectionsChanged
<1>7. ASSUME NEW s \in Senders, NEW c \in Conn, QueueMessage(s, c) PROVE StreamInv'
  BY <1>7, QueueStreams
<1>8. ASSUME NEW s \in Senders, NEW c \in Conn, NEW addresses \in AddressLists,
             OpenConnection(s, c, addresses)
      PROVE  StreamInv'
  BY <1>8, StreamsUntouched DEF OpenConnection
<1>9. ASSUME NEW c \in Conn, FarStep(c) PROVE StreamInv'
  <2>1. CASE Connect(c)
    BY <2>1, StreamsUntouched, Zenon DEF Connect
  <2>2. QED
    BY <1>9, <2>1, FarWriteStreams, FarReadStreams, DropStreams DEF FarStep
<1>10. QED
  BY <1>1, <1>2, <1>3, <1>4, <1>5, <1>6, <1>7, <1>8, <1>9 DEF Next

(* For any message length, any capacity of the network and any number of   *)
(* threads: while a connection is up, partial recv()s and send()s neither  *)
(* lose, repeat nor reorder a byte, in either direction.                   *)
THEOREM StreamsKept == Spec => []StreamIntact
<1>1. Init => IInv /\ StreamInv
  BY IInvInit, StreamInvInit
<1>2. IInv /\ StreamInv /\ [Next]_vars => IInv' /\ StreamInv'
  BY IInvNext, StreamInvNext
<1>3. QED
  BY <1>1, <1>2, StreamInvIntact, PTL DEF Spec

=============================================================================
