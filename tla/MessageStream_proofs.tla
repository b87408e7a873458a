------------------------ MODULE MessageStream_proofs ------------------------
(***************************************************************************)
(* Lemmas about the bytes of messages: where a byte is, what concatenation *)
(* and parsing do, and what is kept when bytes move from one buffer to the *)
(* next.                                                                   *)
(***************************************************************************)
EXTENDS MessageStream, SequenceTheorems, TLAPS

-----------------------------------------------------------------------------
(* Division with a remainder.                                              *)

LEMMA Products ==
  ASSUME NEW m \in Nat, NEW p \in Nat, NEW q \in Nat
  PROVE  /\ m * p \in Nat
         /\ m * (p + q) = m * p + m * q
         /\ m * (p + 1) = m * p + m
  OBVIOUS

LEMMA ProductsGrow ==
  ASSUME NEW m \in Nat \ {0}, NEW p \in Nat, NEW q \in Nat, p < q
  PROVE  m * p + m <= m * q
  OBVIOUS

LEMMA QuotientUnique ==
  ASSUME NEW m \in Nat \ {0}, NEW p \in Nat, NEW q \in Nat,
         NEW s \in 0..(m - 1), NEW r \in 0..(m - 1), m * p + s = m * q + r
  PROVE  p = q /\ s = r
<1> DEFINE mp == m * p
           mq == m * q
<1>1. /\ mp \in Nat /\ mq \in Nat
      /\ p < q => mp + m <= mq
      /\ q < p => mq + m <= mp
      /\ mp + s = mq + r
      /\ p = q => mp = mq
  BY Products, ProductsGrow
<1> HIDE DEF mp, mq
<1>2. p = q
  BY <1>1
<1>3. QED
  BY <1>1, <1>2

LEMMA QuotientIs ==
  ASSUME NEW m \in Nat \ {0}, NEW q \in Nat, NEW r \in 0..(m - 1), NEW a, a = m * q + r
  PROVE  a \div m = q /\ a % m = r
<1> DEFINE p == a \div m
           mp == m * p
           mq == m * q
<1>1. a \in Nat /\ mq \in Nat /\ a = mq + r
  BY Products
<1>2. p \in Nat /\ mp \in Nat /\ mp <= a /\ a < mp + m
  BY <1>1
<1>3. a % m = a - mp
  BY <1>1
<1>4. a - mp \in 0..(m - 1) /\ mp + (a - mp) = mq + r
  <2> HIDE DEF mp, mq
  <2>1. QED
    BY <1>1, <1>2
<1> HIDE DEF p
<1>5. p = q /\ a - mp = r
  BY <1>2, <1>4, QuotientUnique
<1>6. QED
  BY <1>3, <1>5 DEF p

LEMMA QuotientExists ==
  ASSUME NEW m \in Nat \ {0}, NEW a \in Nat
  PROVE  /\ a \div m \in Nat
         /\ \E r \in 0..(m - 1) : a = m * (a \div m) + r
<1> DEFINE p == a \div m
           mp == m * p
<1>1. p \in Nat /\ mp \in Nat /\ mp <= a /\ a < mp + m
  OBVIOUS
<1>2. a - mp \in 0..(m - 1) /\ a = mp + (a - mp)
  <2> HIDE DEF mp
  <2>1. QED
    BY <1>1
<1>3. QED
  BY <1>1, <1>2

(* The number of bytes of n messages.                                      *)
Offset(n) == MessageLength * n

LEMMA Offsets ==
  /\ MessageLength \in Nat \ {0}
  /\ \A p \in Nat : Offset(p) \in Nat /\ Offset(p + 1) = Offset(p) + MessageLength
  /\ \A p, q \in Nat : Offset(p + q) = Offset(p) + Offset(q)
  /\ \A p, q \in Nat : p < q => Offset(p) + MessageLength <= Offset(q)
BY LengthAssumption, Products, ProductsGrow DEF Offset

LEMMA OffsetUnique ==
  ASSUME NEW p \in Nat, NEW q \in Nat, NEW r \in 1..MessageLength, NEW v \in 1..MessageLength,
         Offset(p) + r = Offset(q) + v
  PROVE  p = q /\ r = v
<1>1. MessageLength \in Nat /\ Offset(p) \in Nat /\ Offset(q) \in Nat
      /\ (p < q => Offset(p) + MessageLength <= Offset(q))
      /\ (q < p => Offset(q) + MessageLength <= Offset(p))
  BY Offsets, Zenon
<1>2. p = q
  BY <1>1
<1>3. QED
  BY <1>1, <1>2

-----------------------------------------------------------------------------
Byte(M) == M \X Nat

(* The bytes of a sequence of messages.                                    *)

(* Every byte is byte r of message q + 1, for some q and r.                *)
LEMMA BytePosition ==
  ASSUME NEW n \in Nat, NEW i \in 1..Offset(n)
  PROVE  \E q \in 0..(n - 1), r \in 1..MessageLength :
            /\ i = Offset(q) + r
            /\ (i - 1) \div MessageLength = q
            /\ (i - 1) % MessageLength = r - 1
<1>1. Offset(n) \in Nat /\ MessageLength \in Nat \ {0}
  BY Offsets
<1> DEFINE a == i - 1
           q == a \div MessageLength
<1>2. a \in Nat /\ a < Offset(n) /\ i = a + 1
  BY <1>1
<1> HIDE DEF a
<1>3. q \in Nat /\ \E r \in 0..(MessageLength - 1) : a = Offset(q) + r
  BY <1>1, <1>2, QuotientExists, Zenon DEF Offset
<1>4. PICK r \in 0..(MessageLength - 1) : a = Offset(q) + r
  BY <1>3
<1>5. a % MessageLength = r
  BY <1>1, <1>3, <1>4, QuotientIs DEF Offset
<1> HIDE DEF q
<1>6. Offset(q) \in Nat /\ (n < q => Offset(n) + MessageLength <= Offset(q))
  BY <1>3, Offsets
<1>7. q < n
  BY <1>1, <1>2, <1>3, <1>4, <1>6
<1>8. q \in 0..(n - 1) /\ r + 1 \in 1..MessageLength /\ i = Offset(q) + (r + 1) /\ r = (r + 1) - 1
  BY <1>1, <1>2, <1>3, <1>4, <1>6, <1>7
<1>9. QED
  BY <1>5, <1>8 DEF a, q

LEMMA BytePlace ==
  ASSUME NEW n \in Nat, NEW i \in 1..Offset(n)
  PROVE  \E q \in 0..(n - 1), r \in 1..MessageLength : i = Offset(q) + r
BY BytePosition

LEMMA BytesType ==
  ASSUME NEW M, NEW s \in Seq(M)
  PROVE  BytesOf(s) \in Seq(Byte(M)) /\ Len(BytesOf(s)) = Offset(Len(s))
<1>1. Len(s) \in Nat /\ Offset(Len(s)) \in Nat
  BY Offsets
<1>2. ASSUME NEW i \in 1..Offset(Len(s))
      PROVE  <<s[1 + ((i - 1) \div MessageLength)], 1 + ((i - 1) % MessageLength)>> \in Byte(M)
  <2>1. PICK q \in 0..(Len(s) - 1), r \in 1..MessageLength :
           (i - 1) \div MessageLength = q /\ (i - 1) % MessageLength = r - 1
    BY <1>1, BytePosition, Zenon
  <2>2. 1 + q \in 1..Len(s) /\ 1 + (r - 1) \in Nat
    BY <1>1, LengthAssumption
  <2>3. s[1 + q] \in M
    BY <2>2
  <2>4. QED
    BY <2>1, <2>2, <2>3 DEF Byte
<1>3. BytesOf(s) \in [1..Offset(Len(s)) -> Byte(M)]
  BY <1>2, Zenon DEF BytesOf, Offset
<1>4. QED
  BY <1>1, <1>3

(* Byte r of message q + 1.                                                *)
LEMMA ByteAt ==
  ASSUME NEW M, NEW s \in Seq(M), NEW q \in 0..(Len(s) - 1), NEW r \in 1..MessageLength
  PROVE  /\ Offset(q) + r \in 1..Offset(Len(s))
         /\ BytesOf(s)[Offset(q) + r] = <<s[q + 1], r>>
<1> DEFINE i == Offset(q) + r
<1>1. q \in Nat /\ Len(s) \in Nat /\ q < Len(s)
  OBVIOUS
<1>2. /\ MessageLength \in Nat \ {0} /\ Offset(q) \in Nat /\ Offset(Len(s)) \in Nat
      /\ Offset(q) + MessageLength <= Offset(Len(s))
  BY <1>1, Offsets
<1>3. i \in 1..Offset(Len(s))
  BY <1>1, <1>2
<1>4. PICK p \in 0..(Len(s) - 1), v \in 1..MessageLength :
         /\ i = Offset(p) + v
         /\ (i - 1) \div MessageLength = p
         /\ (i - 1) % MessageLength = v - 1
  <2> HIDE DEF i
  <2>1. QED
    BY <1>1, <1>3, BytePosition
<1>5. p = q /\ v = r
  BY <1>1, <1>4, OffsetUnique
<1> HIDE DEF i
<1>6. BytesOf(s)[i] = <<s[1 + ((i - 1) \div MessageLength)], 1 + ((i - 1) % MessageLength)>>
  BY <1>3 DEF BytesOf, Offset
<1>7. 1 + q = q + 1 /\ 1 + (r - 1) = r
  BY <1>1, <1>2
<1>8. QED
  BY <1>3, <1>4, <1>5, <1>6, <1>7 DEF i

(* Concatenation under a name that the provers leave alone.                *)
Cat(x, y) == x \o y

LEMMA CatType ==
  ASSUME NEW S, NEW x \in Seq(S), NEW y \in Seq(S)
  PROVE  Cat(x, y) \in Seq(S) /\ Len(Cat(x, y)) = Len(x) + Len(y)
BY DEF Cat

LEMMA CatLeft ==
  ASSUME NEW S, NEW x \in Seq(S), NEW y \in Seq(S), NEW j \in 1..Len(x)
  PROVE  Cat(x, y)[j] = x[j]
BY DEF Cat

LEMMA CatRight ==
  ASSUME NEW S, NEW x \in Seq(S), NEW y \in Seq(S), NEW j \in 1..Len(y)
  PROVE  Cat(x, y)[Len(x) + j] = y[j]
BY DEF Cat

LEMMA CatAssociative ==
  ASSUME NEW S, NEW x \in Seq(S), NEW y \in Seq(S), NEW z \in Seq(S)
  PROVE  Cat(Cat(x, y), z) = Cat(x, Cat(y, z))
BY ConcatAssociative DEF Cat

LEMMA BytesConcat ==
  ASSUME NEW M, NEW s \in Seq(M), NEW t \in Seq(M)
  PROVE  BytesOf(Cat(s, t)) = Cat(BytesOf(s), BytesOf(t))
<1> DEFINE n == Offset(Len(s))
           k == Offset(Len(t))
           st == Cat(s, t)
           left == BytesOf(st)
           right == Cat(BytesOf(s), BytesOf(t))
<1>1. MessageLength \in Nat \ {0} /\ Len(s) \in Nat /\ Len(t) \in Nat
  BY LengthAssumption
<1>2. /\ st \in Seq(M) /\ Len(st) = Len(s) + Len(t)
      /\ \A j \in 1..Len(s) : st[j] = s[j]
      /\ \A j \in 1..Len(t) : st[Len(s) + j] = t[j]
  <2>1. st \in Seq(M) /\ Len(st) = Len(s) + Len(t)
    BY CatType
  <2>2. \A j \in 1..Len(s) : st[j] = s[j]
    BY CatLeft
  <2>3. \A j \in 1..Len(t) : st[Len(s) + j] = t[j]
    BY CatRight
  <2>4. QED
    BY <2>1, <2>2, <2>3
<1>3. n \in Nat /\ k \in Nat /\ Offset(Len(s) + Len(t)) = n + k
  BY <1>1, Offsets
<1> HIDE DEF st
<1>4. left \in Seq(Byte(M)) /\ Len(left) = n + k
  BY <1>2, <1>3, BytesType, Zenon
<1>5. /\ BytesOf(s) \in Seq(Byte(M)) /\ Len(BytesOf(s)) = n
      /\ BytesOf(t) \in Seq(Byte(M)) /\ Len(BytesOf(t)) = k
  BY BytesType
<1>6. /\ right \in Seq(Byte(M)) /\ Len(right) = n + k
      /\ \A j \in 1..n : right[j] = BytesOf(s)[j]
      /\ \A j \in 1..k : right[n + j] = BytesOf(t)[j]
  <2> DEFINE x == BytesOf(s)
             y == BytesOf(t)
  <2> HIDE DEF x, y
  <2>1. x \in Seq(Byte(M)) /\ y \in Seq(Byte(M)) /\ Len(x) = n /\ Len(y) = k
    BY <1>5 DEF x, y
  <2>2. Cat(x, y) \in Seq(Byte(M)) /\ Len(Cat(x, y)) = n + k
    BY <2>1, CatType, Zenon
  <2>3. \A j \in 1..n : Cat(x, y)[j] = x[j]
    BY <2>1, CatLeft
  <2>4. \A j \in 1..Len(y) : Cat(x, y)[Len(x) + j] = y[j]
    BY <2>1, CatRight, Zenon
  <2>5. \A j \in 1..k : Cat(x, y)[n + j] = y[j]
    BY <2>1, <2>4
  <2>6. QED
    BY <2>2, <2>3, <2>5 DEF x, y
<1> HIDE DEF left, right
<1>7. ASSUME NEW i \in 1..(n + k) PROVE left[i] = right[i]
  <2>1. i \in 1..Offset(Len(s) + Len(t)) /\ Len(s) + Len(t) \in Nat
    BY <1>1, <1>3
  <2>2. PICK q \in 0..((Len(s) + Len(t)) - 1), r \in 1..MessageLength : i = Offset(q) + r
    <3> DEFINE m == Len(s) + Len(t)
    <3> HIDE DEF m
    <3>1. \E q \in 0..(m - 1), r \in 1..MessageLength : i = Offset(q) + r
      BY <2>1, BytePlace DEF m
    <3>2. QED
      BY <3>1 DEF m
  <2>3. left[i] = <<st[q + 1], r>>
    BY <1>2, <2>2, ByteAt DEF left
  <2>4. CASE q < Len(s)
    <3>1. q \in 0..(Len(s) - 1)
      BY <1>1, <2>4
    <3>2. i \in 1..n /\ BytesOf(s)[i] = <<s[q + 1], r>>
      BY <2>2, <3>1, ByteAt
    <3>3. st[q + 1] = s[q + 1]
      BY <1>1, <1>2, <3>1
    <3>4. QED
      BY <1>6, <2>3, <3>2, <3>3
  <2>5. CASE ~ q < Len(s)
    <3> DEFINE p == q - Len(s)
    <3>1. p \in 0..(Len(t) - 1) /\ q = Len(s) + p /\ q + 1 = Len(s) + (p + 1)
      BY <1>1, <2>5
    <3> HIDE DEF p
    <3>2. Offset(p) + r \in 1..k /\ BytesOf(t)[Offset(p) + r] = <<t[p + 1], r>>
      BY <3>1, ByteAt
    <3>3. st[q + 1] = t[p + 1]
      <4>1. p + 1 \in 1..Len(t)
        BY <1>1, <3>1
      <4> HIDE DEF p
      <4>2. st[Len(s) + (p + 1)] = t[p + 1]
        BY <1>2, <4>1, Zenon
      <4>3. QED
        BY <3>1, <4>2, Zenon
    <3>4. i = n + (Offset(p) + r)
      <4>1. p \in Nat /\ r \in Nat
        BY <1>1, <3>1
      <4>2. Offset(q) = n + Offset(p) /\ Offset(p) \in Nat /\ n \in Nat
        BY <1>1, <3>1, <4>1, Offsets, Zenon
      <4>3. QED
        BY <2>2, <4>1, <4>2
    <3>5. QED
      BY <1>6, <2>3, <3>2, <3>3, <3>4
  <2>6. QED
    BY <2>4, <2>5
<1>8. left = right
  BY <1>4, <1>6, <1>7, SeqEqual
<1>9. QED
  BY <1>8 DEF left, right, st

Unparsed(data) == SubSeq(data, MessageLength * Len(ParseMessages(data)) + 1, Len(data))

(* Parsing what has arrived gives the far end's messages, and leaves the   *)
(* bytes of the message that is not complete yet.                          *)
LEMMA ParseKeeps ==
  ASSUME NEW M, NEW d \in Seq(M), NEW all \in Seq(M),
         NEW data \in Seq(Byte(M)), NEW rest \in Seq(Byte(M))
  PROVE  /\ ParseMessages(data) \in Seq(M) /\ Unparsed(data) \in Seq(Byte(M))
         /\ Cat(Cat(BytesOf(d), data), rest) = BytesOf(all)
              => Cat(Cat(BytesOf(Cat(d, ParseMessages(data))), Unparsed(data)), rest) = BytesOf(all)
<1> DEFINE messages == ParseMessages(data)
           n == Len(data) \div MessageLength
           k == Offset(n)
           left == SubSeq(data, k + 1, Len(data))
           front == SubSeq(data, 1, k)
           o == Offset(Len(d))
           size == Offset(Len(all))
<1>1. /\ MessageLength \in Nat \ {0} /\ Len(data) \in Nat /\ Len(d) \in Nat /\ Len(all) \in Nat
      /\ o \in Nat /\ size \in Nat
  <2>1. MessageLength \in Nat \ {0} /\ Len(data) \in Nat /\ Len(d) \in Nat /\ Len(all) \in Nat
    BY LengthAssumption
  <2>2. QED
    BY <2>1, Offsets
<1>2. n \in Nat /\ k \in 0..Len(data)
  <2>1. n \in Nat /\ \E r \in 0..(MessageLength - 1) : Len(data) = k + r
    BY <1>1, QuotientExists, Zenon DEF Offset
  <2>2. k \in Nat
    BY <2>1, Offsets, Zenon
  <2> HIDE DEF k
  <2>3. QED
    BY <1>1, <2>1, <2>2
<1>3. messages = [i \in 1..n |-> data[i * MessageLength][1]]
  BY DEF ParseMessages
<1> HIDE DEF n
<1>4. ASSUME NEW j \in 1..n
      PROVE  /\ j - 1 \in 0..(n - 1)
             /\ j * MessageLength = Offset(j - 1) + MessageLength
             /\ j * MessageLength \in 1..k
  <2> DEFINE p == j - 1
  <2>1. p \in Nat /\ p < n /\ j = p + 1 /\ p \in 0..(n - 1)
    BY <1>2
  <2> HIDE DEF p
  <2>2. Offset(p) \in Nat /\ Offset(p) + MessageLength <= k /\ Offset(p + 1) = Offset(p) + MessageLength
    BY <1>2, <2>1, Offsets, Zenon
  <2>3. j * MessageLength = Offset(p + 1)
    BY <1>1, <2>1 DEF Offset
  <2>4. j * MessageLength = Offset(p) + MessageLength
    BY <2>2, <2>3
  <2> DEFINE e == j * MessageLength
  <2> HIDE DEF e
  <2>5. e \in 1..k
    BY <1>1, <1>2, <2>2, <2>4 DEF e
  <2>6. QED
    BY <2>1, <2>4, <2>5 DEF p, e
<1>5. messages \in Seq(M) /\ Len(messages) = n
  <2>1. ASSUME NEW j \in 1..n PROVE data[j * MessageLength][1] \in M
    <3> DEFINE e == j * MessageLength
    <3>1. e \in 1..k
      BY <1>4
    <3> HIDE DEF e
    <3>2. e \in 1..Len(data)
      BY <1>1, <1>2, <3>1
    <3>3. data[e] \in Byte(M)
      BY <3>2
    <3>4. data[e][1] \in M
      BY <3>3 DEF Byte
    <3>5. QED
      BY <3>4 DEF e
  <2>2. messages \in [1..n -> M]
    BY <1>3, <2>1
  <2> HIDE DEF messages
  <2>3. QED
    BY <1>2, <2>2
<1> HIDE DEF messages, k
<1>6. data \in Seq(Byte(M)) /\ rest \in Seq(Byte(M))
  OBVIOUS
<1>7. /\ left \in Seq(Byte(M)) /\ front \in Seq(Byte(M)) /\ Len(front) = k
      /\ \A i \in 1..k : front[i] = data[i]
      /\ Cat(front, left) = data
  <2>1. front \in Seq(Byte(M)) /\ Len(front) = k /\ \A i \in 1..k : front[i] = data[i]
    BY <1>1, <1>2, <1>6
  <2>2. left \in Seq(Byte(M))
    BY <1>1, <1>2, <1>6
  <2>3. Cat(front, left) = SubSeq(data, 1, Len(data))
    <3>1. 1 \in 1..(Len(data) + 1) /\ k \in (1 - 1)..Len(data) /\ Len(data) \in k..Len(data)
      BY <1>1, <1>2
    <3>2. QED
      BY <1>6, <3>1, ConcatAdjacentSubSeq, Zenon DEF Cat
  <2>4. SubSeq(data, 1, Len(data)) = data
    BY <1>6, SubSeqFull
  <2>5. QED
    BY <2>1, <2>2, <2>3, <2>4
<1> HIDE DEF left, front
<1>8. BytesOf(d) \in Seq(Byte(M)) /\ Len(BytesOf(d)) = o /\ Len(BytesOf(all)) = size
  BY BytesType, Zenon
<1>9. ASSUME Cat(Cat(BytesOf(d), data), rest) = BytesOf(all)
      PROVE  Cat(BytesOf(Cat(d, messages)), left) = Cat(BytesOf(d), data)
  (* Where the bytes of data are in the stream of the far end.               *)
  <2>1. \A i \in 1..Len(data) : o + i \in 1..size /\ BytesOf(all)[o + i] = data[i]
    <3> DEFINE x == BytesOf(d)
               both == Cat(x, data)
    <3> HIDE DEF x
    <3>1. x \in Seq(Byte(M)) /\ Len(x) = o
      BY <1>8 DEF x
    <3>2. /\ both \in Seq(Byte(M)) /\ Len(both) = Len(x) + Len(data)
          /\ \A i \in 1..Len(data) : both[Len(x) + i] = data[i]
      <4>1. both \in Seq(Byte(M)) /\ Len(both) = Len(x) + Len(data)
        BY <1>6, <3>1, CatType, Zenon
      <4>2. \A i \in 1..Len(data) : both[Len(x) + i] = data[i]
        BY <1>6, <3>1, CatRight, Zenon
      <4>3. QED
        BY <4>1, <4>2
    <3> HIDE DEF both
    <3>3. /\ Len(Cat(both, rest)) = Len(both) + Len(rest)
          /\ \A i \in 1..Len(both) : Cat(both, rest)[i] = both[i]
      BY <1>6, <3>2, CatType, CatLeft, Zenon
    <3>4. Cat(both, rest) = BytesOf(all)
      BY <1>9 DEF both, x
    <3> HIDE DEF o, size
    <3>5. Len(rest) \in Nat /\ size = o + Len(data) + Len(rest)
      BY <1>6, <1>8, <3>1, <3>2, <3>3, <3>4
    <3>6. ASSUME NEW i \in 1..Len(data) PROVE o + i \in 1..size /\ BytesOf(all)[o + i] = data[i]
      <4>1. o + i \in 1..Len(both) /\ o + i \in 1..size
        BY <1>1, <3>1, <3>2, <3>5
      <4>2. BytesOf(all)[o + i] = both[o + i]
        BY <3>3, <3>4, <4>1
      <4>3. both[o + i] = data[i]
        BY <3>1, <3>2
      <4>4. QED
        BY <4>1, <4>2, <4>3
    <3>7. QED
      BY <3>6
  <2>2. ASSUME NEW q \in 0..(n - 1), NEW r \in 1..MessageLength
         PROVE  data[Offset(q) + r] = <<all[(Len(d) + q) + 1], r>>
    <3>1. q \in Nat /\ q < n /\ Len(d) + q \in Nat /\ r \in Nat
      BY <1>1, <1>2
    <3>2. Offset(q) + r \in 1..Len(data)
      <4>1. Offset(q) + MessageLength <= k /\ Offset(q) \in Nat
        BY <1>2, <3>1, Offsets, Zenon DEF k
      <4> DEFINE a == Offset(q)
      <4> HIDE DEF a
      <4>2. a + MessageLength <= k /\ a \in Nat
        BY <4>1 DEF a
      <4>3. a + r \in 1..Len(data)
        BY <1>1, <1>2, <4>2
      <4>4. QED
        BY <4>3 DEF a
    <3>3. o + (Offset(q) + r) = Offset(Len(d) + q) + r
      <4>1. Offset(Len(d) + q) = o + Offset(q) /\ Offset(q) \in Nat
        BY <1>1, <3>1, Offsets
      <4> HIDE DEF o
      <4>2. QED
        BY <1>1, <3>1, <4>1
    <3>4. Offset(Len(d) + q) + r \in 1..size /\ data[Offset(q) + r] = BytesOf(all)[Offset(Len(d) + q) + r]
      BY <2>1, <3>2, <3>3
    <3> DEFINE m == Len(d) + q
               i == Offset(m) + r
    <3> HIDE DEF m, i
    <3>5. m \in Nat /\ i \in 1..Offset(Len(all)) /\ i = Offset(m) + r
      BY <3>1, <3>4 DEF m, i
    <3>6. PICK p \in 0..(Len(all) - 1), v \in 1..MessageLength : i = Offset(p) + v
      BY <1>1, <3>5, BytePlace, Zenon
    <3>7. m = p
      <4>1. p \in Nat
        BY <1>1
      <4>2. QED
        BY <3>5, <3>6, <4>1, OffsetUnique
    <3>8. BytesOf(all)[Offset(m) + r] = <<all[m + 1], r>>
      BY <3>7, ByteAt
    <3>9. QED
      BY <3>4, <3>8 DEF m
  <2>3. BytesOf(messages) = front
    <3>1. BytesOf(messages) \in Seq(Byte(M)) /\ Len(BytesOf(messages)) = k
      BY <1>5, BytesType, Zenon DEF k
    <3>2. ASSUME NEW i \in 1..k PROVE BytesOf(messages)[i] = front[i]
      <4>1. PICK q \in 0..(n - 1), r \in 1..MessageLength : i = Offset(q) + r
        BY <1>2, BytePlace DEF k
      <4>2. BytesOf(messages)[i] = <<messages[q + 1], r>>
        BY <1>5, <4>1, ByteAt, Zenon
      <4>3. q + 1 \in 1..n /\ (q + 1) - 1 = q
        BY <1>2
      <4>4. messages[q + 1] = data[Offset(q) + MessageLength][1]
        <5>1. messages[q + 1] = data[(q + 1) * MessageLength][1]
          BY <1>3, <4>3
        <5>2. (q + 1) * MessageLength = Offset(q) + MessageLength
          BY <1>4, <4>3
        <5>3. QED
          BY <5>1, <5>2
      <4>5. data[Offset(q) + MessageLength] = <<all[(Len(d) + q) + 1], MessageLength>>
        <5>1. MessageLength \in 1..MessageLength
          BY <1>1
        <5>2. QED
          BY <2>2, <5>1
      <4>6. front[i] = <<all[(Len(d) + q) + 1], r>>
        BY <1>7, <2>2, <4>1
      <4>7. messages[q + 1] = all[(Len(d) + q) + 1]
        BY <4>4, <4>5
      <4>8. QED
        BY <4>2, <4>6, <4>7
    <3>3. QED
      BY <1>7, <3>1, <3>2, SeqEqual, Zenon
  <2>4. QED
    <3> DEFINE x == BytesOf(d)
    <3> HIDE DEF x
    <3>1. BytesOf(Cat(d, messages)) = Cat(x, front)
      BY <1>5, <2>3, BytesConcat DEF x
    <3>2. x \in Seq(Byte(M))
      BY <1>8 DEF x
    <3>3. Cat(Cat(x, front), left) = Cat(x, Cat(front, left))
      BY <1>7, <3>2, CatAssociative
    <3>4. QED
      BY <1>7, <3>1, <3>3 DEF x
<1>10. left = Unparsed(data)
  BY <1>5 DEF left, k, Offset, Unparsed, messages
<1>11. QED
  BY <1>5, <1>7, <1>9, <1>10 DEF messages

-----------------------------------------------------------------------------
(* What the steps do to a stream.                                          *)

LEMMA CatEmpty ==
  ASSUME NEW S, NEW x \in Seq(S)
  PROVE  <<>> \in Seq(S) /\ Cat(x, <<>>) = x /\ Cat(<<>>, x) = x
BY DEF Cat

LEMMA CatAppend ==
  ASSUME NEW S, NEW x \in Seq(S), NEW e \in S
  PROVE  Append(x, e) \in Seq(S) /\ Append(x, e) = Cat(x, <<e>>)
BY DEF Cat

LEMMA HeadTail ==
  ASSUME NEW S, NEW u \in Seq(S), u # <<>>
  PROVE  /\ Head(u) \in S /\ Tail(u) \in Seq(S) /\ <<Head(u)>> \in Seq(S)
         /\ u = Cat(<<Head(u)>>, Tail(u))
<1> DEFINE t == Cat(<<Head(u)>>, Tail(u))
<1>1. Head(u) \in S /\ Tail(u) \in Seq(S) /\ <<Head(u)>> \in Seq(S)
  OBVIOUS
<1>2. t \in Seq(S) /\ Len(t) = Len(u)
  BY <1>1 DEF Cat
<1>3. \A i \in 1..Len(u) : t[i] = u[i]
  BY <1>1 DEF Cat
<1> HIDE DEF t
<1>4. t = u
  BY <1>2, <1>3, SeqEqual
<1>5. QED
  BY <1>1, <1>4 DEF t

(* A byte moves from the front of u to the end of a.                       *)
LEMMA ByteMoves ==
  ASSUME NEW S, NEW a \in Seq(S), NEW u \in Seq(S), u # <<>>
  PROVE  /\ Append(a, Head(u)) \in Seq(S) /\ Tail(u) \in Seq(S)
         /\ Cat(Append(a, Head(u)), Tail(u)) = Cat(a, u)
<1> DEFINE h == <<Head(u)>>
           t == Tail(u)
<1>1. Head(u) \in S /\ t \in Seq(S) /\ h \in Seq(S) /\ u = Cat(h, t)
  BY HeadTail
<1>2. Append(a, Head(u)) = Cat(a, h) /\ Append(a, Head(u)) \in Seq(S)
  BY <1>1 DEF Cat
<1> HIDE DEF h, t
<1>3. Cat(Cat(a, h), t) = Cat(a, Cat(h, t))
  BY <1>1, CatAssociative
<1>4. QED
  BY <1>1, <1>2, <1>3, Zenon DEF t

(* The first k elements of data move to the end of a.                      *)
LEMMA BytesMove ==
  ASSUME NEW S, NEW a \in Seq(S), NEW data \in Seq(S), NEW k \in 0..Len(data)
  PROVE  /\ SubSeq(data, 1, k) \in Seq(S) /\ SubSeq(data, k + 1, Len(data)) \in Seq(S)
         /\ Len(SubSeq(data, 1, k)) = k
         /\ Cat(Cat(a, SubSeq(data, 1, k)), SubSeq(data, k + 1, Len(data))) = Cat(a, data)
<1> DEFINE x == SubSeq(data, 1, k)
           y == SubSeq(data, k + 1, Len(data))
<1>1. x \in Seq(S) /\ y \in Seq(S) /\ Len(x) = k
  OBVIOUS
<1>2. Cat(x, y) = SubSeq(data, 1, Len(data))
  <2>1. 1 \in 1..(Len(data) + 1) /\ k \in (1 - 1)..Len(data) /\ Len(data) \in k..Len(data)
    OBVIOUS
  <2>2. QED
    BY <2>1, ConcatAdjacentSubSeq, Zenon DEF Cat
<1>3. SubSeq(data, 1, Len(data)) = data
  BY SubSeqFull
<1> HIDE DEF x, y
<1>4. Cat(Cat(a, x), y) = Cat(a, Cat(x, y))
  BY <1>1, CatAssociative
<1>5. QED
  BY <1>1, <1>2, <1>3, <1>4 DEF x, y

(* The output buffer is filled with the next message.                      *)
LEMMA MessageFetched ==
  ASSUME NEW M, NEW x \in Seq(Byte(M)), NEW q \in Seq(M), q # <<>>
  PROVE  /\ BytesOf(<<Head(q)>>) \in Seq(Byte(M)) /\ BytesOf(<<Head(q)>>) # <<>>
         /\ Tail(q) \in Seq(M)
         /\ Cat(Cat(x, BytesOf(<<Head(q)>>)), BytesOf(Tail(q))) = Cat(Cat(x, <<>>), BytesOf(q))
<1> DEFINE h == <<Head(q)>>
           t == Tail(q)
<1>1. h \in Seq(M) /\ t \in Seq(M) /\ q = Cat(h, t) /\ Len(h) = 1
  BY HeadTail
<1> HIDE DEF h, t
<1> DEFINE bh == BytesOf(h)
           bt == BytesOf(t)
<1>2. bh \in Seq(Byte(M)) /\ Len(bh) = Offset(1) /\ bt \in Seq(Byte(M))
  BY <1>1, BytesType, Zenon
<1>3. BytesOf(q) = Cat(bh, bt)
  BY <1>1, BytesConcat
<1> HIDE DEF bh, bt
<1>4. bh # <<>>
  <2>1. Offset(1) \in Nat \ {0}
    BY LengthAssumption DEF Offset
  <2>2. QED
    BY <1>2, <2>1
<1>5. Cat(Cat(x, bh), bt) = Cat(x, Cat(bh, bt))
  BY <1>2, CatAssociative
<1>6. Cat(x, <<>>) = x
  BY CatEmpty
<1>7. QED
  BY <1>1, <1>2, <1>3, <1>4, <1>5, <1>6 DEF h, t, bh, bt

(* One message more of a sequence.                                         *)
LEMMA SubSeqNext ==
  ASSUME NEW M, NEW all \in Seq(M), NEW p \in Nat, p < Len(all)
  PROVE  /\ SubSeq(all, 1, p) \in Seq(M)
         /\ SubSeq(all, 1, p + 1) = Cat(SubSeq(all, 1, p), <<all[p + 1]>>)
<1> DEFINE x == SubSeq(all, 1, p)
           z == SubSeq(all, 1, p + 1)
           e == all[p + 1]
<1>1. e \in M
  <2>1. p + 1 \in 1..Len(all)
    OBVIOUS
  <2>2. QED
    BY <2>1
<1>2. x \in Seq(M) /\ Len(x) = p /\ \A i \in 1..p : x[i] = all[i]
  OBVIOUS
<1>3. z \in Seq(M) /\ Len(z) = p + 1 /\ \A i \in 1..(p + 1) : z[i] = all[i]
  OBVIOUS
<1> HIDE DEF x, z, e
<1>4. Append(x, e) \in Seq(M) /\ Append(x, e) = Cat(x, <<e>>)
  BY <1>1, <1>2, CatAppend
<1>5. /\ Len(Append(x, e)) = p + 1 /\ Append(x, e)[p + 1] = e
      /\ \A i \in 1..p : Append(x, e)[i] = x[i]
  BY <1>1, <1>2, AppendProperties
<1>6. \A i \in 1..(p + 1) : Append(x, e)[i] = z[i]
  BY <1>2, <1>3, <1>5 DEF e
<1>7. z = Append(x, e)
  BY <1>3, <1>4, <1>5, <1>6, SeqEqual
<1>8. QED
  BY <1>2, <1>4, <1>7, Zenon DEF x, z, e
=============================================================================
