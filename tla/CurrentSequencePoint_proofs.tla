---------------------- MODULE CurrentSequencePoint_proofs ----------------------
(***************************************************************************)
(* Proofs about CurrentSequencePoint and the IntervalSet under it, for any *)
(* peers and any bound on the transaction IDs.                             *)
(***************************************************************************)
EXTENDS CurrentSequencePoint, WellFoundedInduction, TLAPS

LEMMA MinIsLeast ==
  ASSUME NEW S, S \subseteq Nat, S # {}
  PROVE  Min(S) \in S /\ \A y \in S : Min(S) <= y
<1> DEFINE Less == OpToRel(<, Nat)
<1>1. \A x, y \in Nat : y < x => <<y, x>> \in Less
  BY DEF OpToRel
<1>2. IsWellFoundedOn(Less, Nat)
  BY NatLessThanWellFounded, Zenon
<1> HIDE DEF Less
<1>3. PICK x \in S : \A y \in S : ~(<<y, x>> \in Less)
  BY <1>2, WFMin, Zenon
<1>4. ASSUME NEW y \in S PROVE x <= y
  <2>1. x \in Nat /\ y \in Nat /\ ~(<<y, x>> \in Less)
    BY <1>3
  <2>2. ~(y < x)
    BY <1>1, <2>1
  <2>3. QED
    BY <2>1, <2>2
<1>5. QED
  BY <1>4, Zenon DEF Min

LEMMA MaxIsGreatest ==
  ASSUME NEW N \in Nat, NEW S, S \subseteq 0..N, S # {}
  PROVE  Max(S) \in S /\ \A y \in S : y <= Max(S)
<1> DEFINE R == {N - x : x \in S}
<1>1. R \subseteq Nat /\ R # {}
  <2>1. \A x \in S : N - x \in Nat
    OBVIOUS
  <2>2. PICK x \in S : TRUE
    BY Zenon
  <2>3. N - x \in R
    OBVIOUS
  <2>4. QED
    BY <2>1, <2>3
<1>2. PICK r \in R : \A y \in R : r <= y
  BY <1>1, MinIsLeast, Zenon
<1>3. PICK x \in S : r = N - x
  OBVIOUS
<1>4. ASSUME NEW y \in S PROVE y <= x
  BY <1>2, <1>3, <1>4
<1>5. \A y \in S : x >= y
  BY <1>4
<1>6. QED
  BY <1>3, <1>5, Zenon DEF Max

-----------------------------------------------------------------------------
(* A map of disjoint intervals in 1..N that do not touch.                  *)
Separated(map, N) ==
  /\ map = [s \in DOMAIN map |-> map[s]]
  /\ DOMAIN map \subseteq 1..N
  /\ \A s \in DOMAIN map : map[s] \in 1..N /\ s < map[s]
  /\ \A s, u \in DOMAIN map : s < u => map[s] < u

LEMMA LastStart ==
  ASSUME NEW N \in Nat, NEW map, DOMAIN map \subseteq 1..N, NEW t \in Nat,
         StartsUpTo(map, t) # {}
  PROVE  /\ LastStartUpTo(map, t) \in DOMAIN map /\ LastStartUpTo(map, t) <= t
         /\ \A s \in DOMAIN map : s <= t => s <= LastStartUpTo(map, t)
<1>1. StartsUpTo(map, t) \subseteq 0..N
  BY DEF StartsUpTo
<1>2. /\ LastStartUpTo(map, t) \in StartsUpTo(map, t)
      /\ \A s \in StartsUpTo(map, t) : s <= LastStartUpTo(map, t)
  BY <1>1, MaxIsGreatest DEF LastStartUpTo
<1>3. QED
  BY <1>2 DEF StartsUpTo

(* Contains finds the interval that an ID is in.                           *)
LEMMA ContainsInterval ==
  ASSUME NEW N \in Nat, NEW map, Separated(map, N), NEW t \in Nat
  PROVE  Contains(map, t) <=> \E s \in DOMAIN map : s <= t /\ t < map[s]
<1>1. ASSUME NEW s \in DOMAIN map, s <= t, t < map[s]
      PROVE  Contains(map, t)
  <2>1. StartsUpTo(map, t) # {}
    BY <1>1 DEF StartsUpTo
  <2> DEFINE l == LastStartUpTo(map, t)
  <2>2. l \in DOMAIN map /\ l <= t /\ s <= l
    BY <1>1, <2>1, LastStart DEF Separated
  <2> HIDE DEF l
  <2>3. s = l
    BY <1>1, <2>2 DEF Separated
  <2>4. QED
    BY <1>1, <2>1, <2>3 DEF Contains, l
<1>2. ASSUME Contains(map, t)
      PROVE  \E s \in DOMAIN map : s <= t /\ t < map[s]
  BY <1>2, LastStart DEF Contains, Separated
<1>3. QED
  BY <1>1, <1>2

(* AddInterval keeps the intervals apart, covers what was covered, and     *)
(* covers nothing outside the new interval in addition.                    *)
LEMMA AddIntervalCovers ==
  ASSUME NEW N \in Nat, NEW map, Separated(map, N),
         NEW start \in 1..N, NEW end \in 1..N
  PROVE  LET new == AddInterval(map, start, end)
         IN /\ Separated(new, N)
            /\ \A t \in Nat : Contains(map, t) => Contains(new, t)
            /\ \A t \in Nat : Contains(new, t) => Contains(map, t) \/ t \in start..(end - 1)
<1> DEFINE new == AddInterval(map, start, end)
           fresh == StartsUpTo(map, start) = {} \/ map[LastStartUpTo(map, start)] < start
           first == IF fresh THEN start ELSE LastStartUpTo(map, start)
           m == [s \in DOMAIN map \cup {first} |-> IF fresh /\ s = start THEN end ELSE map[s]]
           last == LastStartUpTo(m, end)
<1>1. CASE start >= end
  BY <1>1 DEF AddInterval
<1>2. CASE start < end
  <2>0. start \in Nat /\ end \in Nat /\ start <= N /\ end <= N /\ 1 <= start
    OBVIOUS
  <2>1. new = [s \in {s \in DOMAIN m : s <= first \/ s > end} |->
                 IF s = first /\ m[s] < m[last] THEN m[last] ELSE m[s]]
    BY <1>2, <2>0 DEF AddInterval
  <2>2. /\ first \in 1..N /\ first <= start
        /\ fresh => first = start /\ first \notin DOMAIN map
                    /\ \A s \in DOMAIN map : s < start => map[s] < start
        /\ ~fresh => first \in DOMAIN map /\ start <= map[first]
        /\ \A s \in DOMAIN map : s <= start => s <= first
    <3>1. CASE StartsUpTo(map, start) = {}
      BY <2>0, <3>1 DEF StartsUpTo, Separated
    <3>2. CASE StartsUpTo(map, start) # {}
      <4> DEFINE l == LastStartUpTo(map, start)
      <4>1. /\ l \in DOMAIN map /\ l <= start
            /\ \A s \in DOMAIN map : s <= start => s <= l
        BY <2>0, <3>2, LastStart DEF Separated
      <4>2. /\ fresh <=> map[l] < start
            /\ (fresh => first = start) /\ (~fresh => first = l)
        BY <3>2
      <4> HIDE DEF l, fresh, first
      <4>3. l \in 1..N /\ map[l] \in 1..N /\ l < map[l]
        BY <4>1 DEF Separated
      <4>4. CASE fresh
        <5>1. map[l] < start /\ first = start /\ l < start
          BY <2>0, <4>2, <4>3, <4>4
        <5>2. \A s \in DOMAIN map : s < start => s < l \/ s = l
          BY <2>0, <4>1, <4>3 DEF Separated
        <5>3. \A s \in DOMAIN map : s < start => map[s] < start
          BY <2>0, <4>1, <4>3, <5>1, <5>2 DEF Separated
        <5>4. start \notin DOMAIN map
          BY <2>0, <4>1, <4>3, <5>1
        <5>5. QED
          BY <2>0, <4>4, <5>1, <5>3, <5>4
      <4>5. CASE ~fresh
        BY <2>0, <4>1, <4>2, <4>3, <4>5
      <4>6. QED
        BY <4>4, <4>5
    <3>3. QED
      BY <3>1, <3>2
  <2>3. /\ DOMAIN m = DOMAIN map \cup {first}
        /\ \A s \in DOMAIN map : m[s] = map[s]
        /\ m[first] = IF fresh THEN end ELSE map[first]
    BY <2>2
  <2> HIDE DEF fresh, first, m, new
  <2>4. /\ last \in DOMAIN m /\ last <= end /\ first <= last
        /\ \A s \in DOMAIN map : s <= end => s <= last
        /\ first < last => last \in DOMAIN map /\ start < last
    <3>1. DOMAIN m \subseteq 1..N
      BY <2>2, <2>3 DEF Separated
    <3>2. first \in StartsUpTo(m, end)
      BY <1>2, <2>0, <2>2, <2>3 DEF StartsUpTo
    <3>3. /\ last \in DOMAIN m /\ last <= end
          /\ \A s \in DOMAIN m : s <= end => s <= last
      BY <2>0, <3>1, <3>2, LastStart
    <3> HIDE DEF last
    <3>4. first <= last
      BY <1>2, <2>0, <2>2, <2>3, <3>3
    <3>5. ASSUME first < last PROVE last \in DOMAIN map /\ start < last
      BY <2>0, <2>2, <2>3, <3>1, <3>3, <3>5
    <3>6. QED
      BY <2>3, <3>3, <3>4, <3>5
  <2> DEFINE E == IF m[first] < m[last] THEN m[last] ELSE m[first]
  <2>5. /\ DOMAIN new = {s \in DOMAIN map : s < first \/ s > end} \cup {first}
        /\ new[first] = E
        /\ \A s \in DOMAIN map : s < first \/ s > end => new[s] = map[s]
        /\ new = [s \in DOMAIN new |-> new[s]]
    <3>1. first <= end /\ first \in DOMAIN m
      BY <1>2, <2>0, <2>2, <2>3
    <3>2. QED
      BY <2>0, <2>1, <2>2, <2>3, <3>1 DEF Separated
  <2> HIDE DEF last
  <2>6. /\ E \in 1..N /\ first < E /\ m[first] <= E
        /\ \A s \in DOMAIN map : s > end => E < s
        /\ \A s \in DOMAIN map : first <= s /\ s <= end => map[s] <= E
        /\ \A t \in Nat : first <= t /\ t < E => Contains(map, t) \/ t \in start..(end - 1)
    <3>1. first \in 1..N /\ m[first] \in 1..N /\ first < m[first]
      BY <1>2, <2>0, <2>2, <2>3 DEF Separated
    <3>2. \A s \in DOMAIN map : s > end => m[first] < s
      BY <1>2, <2>0, <2>2, <2>3, <3>1 DEF Separated
    <3>3. \A t \in Nat : first <= t /\ t < m[first] => Contains(map, t) \/ t \in start..(end - 1)
      <4>1. CASE fresh
        BY <2>0, <2>2, <2>3, <4>1
      <4>2. CASE ~fresh
        BY <2>2, <2>3, <4>2, ContainsInterval
      <4>3. QED
        BY <4>1, <4>2
    <3>4. CASE first = last
      <4>1. E = m[first]
        BY <3>1, <3>4
      <4>2. \A s \in DOMAIN map : first <= s /\ s <= end => s = first /\ map[s] = E
        BY <2>0, <2>2, <2>3, <2>4, <3>1, <3>4, <4>1 DEF Separated
      <4>3. QED
        BY <3>1, <3>2, <3>3, <4>1, <4>2
    <3>5. CASE first < last
      <4>1. /\ last \in DOMAIN map /\ m[last] = map[last] /\ start < last /\ last <= end
            /\ last \in 1..N /\ map[last] \in 1..N /\ last < map[last]
        BY <2>3, <2>4, <3>5 DEF Separated
      <4>2. E \in 1..N /\ m[first] <= E /\ map[last] <= E /\ first < E
            /\ (E = m[first] \/ E = map[last])
        BY <3>1, <4>1
      <4> HIDE DEF E
      <4>3. \A s \in DOMAIN map : s > end => E < s
        BY <2>0, <3>2, <4>1, <4>2 DEF Separated
      <4>4. \A s \in DOMAIN map : first <= s /\ s <= end => map[s] <= E
        BY <2>0, <2>4, <3>1, <4>1, <4>2 DEF Separated
      <4>5. ASSUME NEW t \in Nat, m[first] <= t, t < map[last]
            PROVE  Contains(map, t) \/ t \in start..(end - 1)
        <5>1. CASE last <= t
          BY <4>1, <4>5, <5>1, ContainsInterval
        <5>2. CASE t < last
          <6>1. start <= m[first]
            BY <1>2, <2>0, <2>2, <2>3
          <6>2. QED
            BY <2>0, <3>1, <4>1, <4>5, <5>2, <6>1
        <5>3. QED
          BY <4>1, <5>1, <5>2
      <4>6. ASSUME NEW t \in Nat, first <= t, t < E
            PROVE  Contains(map, t) \/ t \in start..(end - 1)
        BY <3>1, <3>3, <4>1, <4>2, <4>5, <4>6
      <4>7. QED
        BY <4>2, <4>3, <4>4, <4>6
    <3>6. QED
      BY <2>2, <2>3, <2>4, <3>4, <3>5 DEF Separated
  <2> HIDE DEF E
  <2>7. Separated(new, N)
    <3>1. DOMAIN new \subseteq 1..N /\ \A s \in DOMAIN new : new[s] \in 1..N /\ s < new[s]
      BY <2>2, <2>5, <2>6 DEF Separated
    <3>2. ASSUME NEW s \in DOMAIN new, NEW u \in DOMAIN new, s < u PROVE new[s] < u
      <4>1. CASE s = first
        <5>1. u \in DOMAIN map /\ u > end
          BY <2>2, <2>5, <3>1, <3>2, <4>1
        <5>2. QED
          BY <2>5, <2>6, <4>1, <5>1
      <4>2. CASE s # first /\ u = first
        <5>1. s \in DOMAIN map /\ new[s] = map[s]
          BY <2>5, <4>2
        <5>2. map[s] < first
          BY <2>0, <2>2, <3>1, <3>2, <4>2, <5>1 DEF Separated
        <5>3. QED
          BY <4>2, <5>1, <5>2
      <4>3. CASE s # first /\ u # first
        BY <2>5, <3>2, <4>3 DEF Separated
      <4>4. QED
        BY <4>1, <4>2, <4>3
    <3>3. QED
      BY <2>5, <3>1, <3>2 DEF Separated
  <2>8. ASSUME NEW t \in Nat, Contains(map, t)
        PROVE  Contains(new, t)
    <3>1. PICK s \in DOMAIN map : s <= t /\ t < map[s]
      BY <2>8, ContainsInterval
    <3>2. \E u \in DOMAIN new : u <= t /\ t < new[u]
      <4>1. CASE s < first \/ s > end
        BY <2>5, <3>1, <4>1
      <4>2. CASE first <= s /\ s <= end
        <5>1. first <= t /\ t < E
          BY <2>2, <2>6, <3>1, <4>2 DEF Separated
        <5>2. QED
          BY <2>5, <5>1
      <4>3. QED
        BY <2>0, <2>2, <4>1, <4>2 DEF Separated
    <3>3. QED
      BY <2>7, <3>2, ContainsInterval
  <2>9. ASSUME NEW t \in Nat, Contains(new, t)
        PROVE  Contains(map, t) \/ t \in start..(end - 1)
    <3>1. PICK u \in DOMAIN new : u <= t /\ t < new[u]
      BY <2>7, <2>9, ContainsInterval
    <3>2. CASE u = first
      BY <2>5, <2>6, <3>1, <3>2
    <3>3. CASE u # first
      <4>1. u \in DOMAIN map /\ new[u] = map[u]
        BY <2>5, <3>3
      <4>2. QED
        BY <3>1, <4>1, ContainsInterval
    <3>4. QED
      BY <3>2, <3>3
  <2>10. QED
    BY <2>7, <2>8, <2>9 DEF new
<1>3. QED
  BY <1>1, <1>2

-----------------------------------------------------------------------------
(* The inductive invariant.                                                *)

(* The excluded ranges of each peer are disjoint intervals that do not     *)
(* touch, the local peer rejects only transactions of others, and a peer   *)
(* with an entry has a rejection.                                          *)
IInv ==
  /\ current_sequence_point_ =
       [version_map_ |-> current_sequence_point_.version_map_,
        peer_exclusion_map_ |-> exclusions, rejected_peers_ |-> rejections]
  /\ DOMAIN exclusions \subseteq Peers
  /\ \A p \in DOMAIN exclusions : Separated(exclusions[p], MaxId)
  /\ DOMAIN rejections \subseteq Peers \ {local_peer_}
  /\ \A p \in DOMAIN rejections : rejections[p] \subseteq Ids /\ rejections[p] # {}
  /\ invalidated \in [Peers -> SUBSET Ids]
  /\ OnlyInvalidatedExcluded

(* What a step does to the exclusions: those of peer p cover [start, end)  *)
(* at most in addition, and nothing is given back.                         *)
Excludes(p, start, end) ==
  /\ DOMAIN exclusions' \subseteq Peers
  /\ \A q \in DOMAIN exclusions' : Separated(exclusions'[q], MaxId)
  /\ \A q \in Peers, t \in Ids :
       /\ IsTransactionExcluded(exclusions, q, t) => IsTransactionExcluded(exclusions', q, t)
       /\ IsTransactionExcluded(exclusions', q, t) =>
            IsTransactionExcluded(exclusions, q, t) \/ (q = p /\ t \in start..(end - 1))

LEMMA RangeExcludes ==
  ASSUME IInv, NEW p \in Peers, NEW start \in Ids, NEW end \in Ids,
         exclusions' = AddExcludedRange(exclusions, p, start, end)
  PROVE  Excludes(p, start, end)
<1> DEFINE ranges == ExcludedRanges(exclusions, p)
           new == AddInterval(ranges, start, end)
<1>1. Separated(ranges, MaxId) /\ MaxId \in Nat
  BY MaxIdAssumption DEF IInv, ExcludedRanges, Separated
<1>2. \A t \in Ids : Contains(ranges, t) <=> IsTransactionExcluded(exclusions, p, t)
  <2>1. CASE p \in DOMAIN exclusions
    BY <2>1 DEF ExcludedRanges, IsTransactionExcluded
  <2>2. CASE p \notin DOMAIN exclusions
    BY <2>2 DEF ExcludedRanges, IsTransactionExcluded, Contains, StartsUpTo
  <2>3. QED
    BY <2>1, <2>2
<1> HIDE DEF ranges
<1>3. /\ Separated(new, MaxId)
      /\ \A t \in Nat : Contains(ranges, t) => Contains(new, t)
      /\ \A t \in Nat : Contains(new, t) => Contains(ranges, t) \/ t \in start..(end - 1)
  BY <1>1, AddIntervalCovers DEF Ids
<1>4. /\ DOMAIN exclusions' = DOMAIN exclusions \cup {p}
      /\ exclusions'[p] = new
      /\ \A q \in DOMAIN exclusions \ {p} : exclusions'[q] = exclusions[q]
  BY DEF AddExcludedRange, ranges
<1> HIDE DEF new
<1>5. DOMAIN exclusions' \subseteq Peers /\ \A q \in DOMAIN exclusions' : Separated(exclusions'[q], MaxId)
  BY <1>3, <1>4 DEF IInv
<1>6. ASSUME NEW q \in Peers, NEW t \in Ids
      PROVE  /\ IsTransactionExcluded(exclusions, q, t) => IsTransactionExcluded(exclusions', q, t)
             /\ IsTransactionExcluded(exclusions', q, t) =>
                  IsTransactionExcluded(exclusions, q, t) \/ (q = p /\ t \in start..(end - 1))
  <2>1. CASE q = p
    <3>1. IsTransactionExcluded(exclusions', p, t) <=> Contains(new, t)
      BY <1>4 DEF IsTransactionExcluded
    <3>2. t \in Nat
      BY DEF Ids
    <3>3. QED
      BY <1>2, <1>3, <2>1, <3>1, <3>2
  <2>2. CASE q # p
    BY <1>4, <2>2 DEF IsTransactionExcluded
  <2>3. QED
    BY <2>1, <2>2
<1>7. QED
  BY <1>5, <1>6 DEF Excludes

(* What each action does to the two parts of the sequence point.           *)
LEMMA SeeEffect ==
  ASSUME IInv, NEW p \in Peers,
         (\E t \in Ids : SeeTransaction(p, t)) \/ HandleInvalidateUpdate(p)
  PROVE  /\ IInv' /\ UNCHANGED <<exclusions, rejections>>
<1>1. UNCHANGED <<exclusions, rejections, invalidated>>
      /\ current_sequence_point_' =
           [version_map_ |-> current_sequence_point_'.version_map_,
            peer_exclusion_map_ |-> exclusions', rejected_peers_ |-> rejections']
  BY DEF SeeTransaction, HandleInvalidateUpdate, UpdateCurrentSequencePoint, IInv, exclusions, rejections
<1>2. QED
  BY <1>1 DEF IInv, OnlyInvalidatedExcluded

LEMMA InvalidateKeepsFields ==
  ASSUME NEW sp, NEW v, NEW e, NEW r, NEW p, NEW start, NEW end,
         sp = [version_map_ |-> v, peer_exclusion_map_ |-> e, rejected_peers_ |-> r]
  PROVE  LET new == AddInvalidatedRange(sp, p, start, end)
         IN new = [version_map_ |-> new.version_map_,
                   peer_exclusion_map_ |-> new.peer_exclusion_map_,
                   rejected_peers_ |-> new.rejected_peers_]
<1> DEFINE Left(q) == IF q = p THEN {t \in sp.rejected_peers_[q] : ~(start <= t /\ t < end)}
                      ELSE sp.rejected_peers_[q]
           ranges == AddExcludedRange(sp.peer_exclusion_map_, p, start, end)
           left == [q \in {q \in DOMAIN sp.rejected_peers_ : Left(q) # {}} |-> Left(q)]
<1>1. AddInvalidatedRange(sp, p, start, end) =
        [sp EXCEPT !.peer_exclusion_map_ = ranges, !.rejected_peers_ = left]
  BY DEF AddInvalidatedRange
<1> HIDE DEF ranges, left
<1>2. QED
  BY <1>1, Zenon

LEMMA InvalidateEffect ==
  ASSUME IInv, NEW p \in Peers, NEW start \in Ids, NEW end \in Ids,
         NEW sp, sp = AddInvalidatedRange(current_sequence_point_, p, start, end),
         exclusions' = sp.peer_exclusion_map_, rejections' = sp.rejected_peers_,
         current_sequence_point_' =
           [version_map_ |-> current_sequence_point_'.version_map_,
            peer_exclusion_map_ |-> exclusions', rejected_peers_ |-> rejections'],
         invalidated' = [invalidated EXCEPT ![p] = @ \cup start..(end - 1)]
  PROVE  /\ IInv' /\ Excludes(p, start, end)
         /\ \A q \in DOMAIN rejections : \A t \in rejections[q] :
              q # p \/ t < start \/ end <= t => q \in DOMAIN rejections' /\ t \in rejections'[q]
<1> DEFINE Left(q) == IF q = p THEN {t \in rejections[q] : ~(start <= t /\ t < end)}
                      ELSE rejections[q]
<1>1. exclusions' = AddExcludedRange(exclusions, p, start, end)
  BY DEF AddInvalidatedRange, IInv, exclusions
<1>2. rejections' = [q \in {q \in DOMAIN rejections : Left(q) # {}} |-> Left(q)]
  BY DEF AddInvalidatedRange, IInv, rejections
<1>3. Excludes(p, start, end)
  BY <1>1, RangeExcludes
<1>4. invalidated' \in [Peers -> SUBSET Ids] /\ invalidated'[p] = invalidated[p] \cup start..(end - 1)
      /\ \A q \in Peers \ {p} : invalidated'[q] = invalidated[q]
  BY MaxIdAssumption DEF IInv, Ids
<1>5. OnlyInvalidatedExcluded'
  BY <1>3, <1>4 DEF IInv, OnlyInvalidatedExcluded, Excludes
<1>6. /\ DOMAIN rejections' \subseteq DOMAIN rejections
      /\ \A q \in DOMAIN rejections' : rejections'[q] \subseteq rejections[q] /\ rejections'[q] # {}
  BY <1>2
<1>7. ASSUME NEW q \in DOMAIN rejections, NEW t \in rejections[q], q # p \/ t < start \/ end <= t
      PROVE  q \in DOMAIN rejections' /\ t \in rejections'[q]
  <2>1. t \in Left(q)
    BY <1>7 DEF IInv, Ids
  <2>2. QED
    BY <1>2, <2>1
<1>8. IInv'
  BY <1>3, <1>4, <1>5, <1>6 DEF IInv, Excludes
<1>9. QED
  BY <1>3, <1>7, <1>8

LEMMA HandleEffect ==
  ASSUME IInv, NEW p \in Peers, NEW start \in Ids, NEW end \in Ids,
         HandleInvalidateTransactionsMessage(p, start, end)
  PROVE  /\ IInv' /\ Excludes(p, start, end)
         /\ \A q \in DOMAIN rejections : \A t \in rejections[q] :
              q # p \/ t < start \/ end <= t => q \in DOMAIN rejections' /\ t \in rejections'[q]
<1> DEFINE sp == AddInvalidatedRange(current_sequence_point_, p, start, end)
<1>1. sp = [version_map_ |-> sp.version_map_, peer_exclusion_map_ |-> sp.peer_exclusion_map_,
            rejected_peers_ |-> sp.rejected_peers_]
  BY InvalidateKeepsFields DEF IInv
<1>2. current_sequence_point_' = sp
  BY DEF HandleInvalidateTransactionsMessage
<1> HIDE DEF sp
<1>3. /\ exclusions' = sp.peer_exclusion_map_ /\ rejections' = sp.rejected_peers_
      /\ current_sequence_point_' =
           [version_map_ |-> current_sequence_point_'.version_map_,
            peer_exclusion_map_ |-> exclusions', rejected_peers_ |-> rejections']
  BY <1>1, <1>2 DEF exclusions, rejections
<1>4. invalidated' = [invalidated EXCEPT ![p] = @ \cup start..(end - 1)]
  BY DEF HandleInvalidateTransactionsMessage
<1>5. QED
  BY <1>3, <1>4, InvalidateEffect, Zenon DEF sp

LEMMA RejectEffect ==
  ASSUME IInv, NEW p \in Peers, NEW id \in Ids, NEW new \in Ids, RejectTransactions(p, id, new)
  PROVE  /\ IInv' /\ (Excludes(p, id, new) \/ UNCHANGED exclusions)
         /\ \A q \in DOMAIN rejections : \A t \in rejections[q] :
              q \in DOMAIN rejections' /\ t \in rejections'[q]
<1>1. CASE p = local_peer_
  <2> DEFINE sp == AddInvalidatedRange(current_sequence_point_, p, id, new)
  <2>1. sp = [version_map_ |-> sp.version_map_, peer_exclusion_map_ |-> sp.peer_exclusion_map_,
              rejected_peers_ |-> sp.rejected_peers_]
    BY InvalidateKeepsFields DEF IInv
  <2>2. current_sequence_point_' = sp /\ invalidated' = [invalidated EXCEPT ![p] = @ \cup id..(new - 1)]
    BY <1>1 DEF RejectTransactions
  <2> HIDE DEF sp
  <2>3. /\ exclusions' = sp.peer_exclusion_map_ /\ rejections' = sp.rejected_peers_
        /\ current_sequence_point_' =
             [version_map_ |-> current_sequence_point_'.version_map_,
              peer_exclusion_map_ |-> exclusions', rejected_peers_ |-> rejections']
    BY <2>1, <2>2 DEF exclusions, rejections
  <2>4. \A q \in DOMAIN rejections : q # p
    BY <1>1 DEF IInv
  <2>5. QED
    BY <2>2, <2>3, <2>4, InvalidateEffect, Zenon DEF sp
<1>2. CASE p # local_peer_
  <2>1. /\ UNCHANGED <<exclusions, invalidated>>
        /\ rejections' = [q \in DOMAIN rejections \cup {p} |->
             (IF q \in DOMAIN rejections THEN rejections[q] ELSE {}) \cup (IF q = p THEN {id} ELSE {})]
        /\ current_sequence_point_' =
             [version_map_ |-> current_sequence_point_'.version_map_,
              peer_exclusion_map_ |-> exclusions', rejected_peers_ |-> rejections']
    BY <1>2, Zenon DEF RejectTransactions, AddRejectedPeer, IInv, exclusions, rejections
  <2>2. \A q \in DOMAIN rejections' : rejections'[q] \subseteq Ids /\ rejections'[q] # {}
    BY <2>1 DEF IInv
  <2>3. DOMAIN rejections' \subseteq Peers \ {local_peer_}
    BY <1>2, <2>1 DEF IInv
  <2>4. IInv'
    BY <2>1, <2>2, <2>3 DEF IInv, OnlyInvalidatedExcluded
  <2>5. QED
    BY <2>1, <2>4
<1>3. QED
  BY <1>1, <1>2

-----------------------------------------------------------------------------
LEMMA IInvInit == Init => IInv
  BY DEF Init, EmptySequencePoint, UpdateCurrentSequencePoint, IInv, exclusions, rejections, OnlyInvalidatedExcluded,
         IsTransactionExcluded

LEMMA StepExcludes ==
  ASSUME IInv, [Next]_vars
  PROVE  /\ IInv'
         /\ \A p \in Peers, t \in Ids :
              IsTransactionExcluded(exclusions, p, t) => IsTransactionExcluded(exclusions', p, t)
<1>1. CASE UNCHANGED vars
  BY <1>1 DEF vars, IInv, exclusions, rejections, OnlyInvalidatedExcluded
<1>2. ASSUME NEW p \in Peers, (\E t \in Ids : SeeTransaction(p, t)) \/ HandleInvalidateUpdate(p)
      PROVE  IInv' /\ UNCHANGED exclusions
  BY <1>2, SeeEffect
<1>3. ASSUME NEW p \in Peers, NEW t \in Ids, NEW new \in Ids, RejectTransactions(p, t, new)
      PROVE  IInv' /\ (Excludes(p, t, new) \/ UNCHANGED exclusions)
  BY <1>3, RejectEffect
<1>4. ASSUME NEW p \in Peers, NEW t \in Ids, NEW new \in Ids,
             HandleInvalidateTransactionsMessage(p, t, new)
      PROVE  IInv' /\ Excludes(p, t, new)
  BY <1>4, HandleEffect
<1>5. QED
  BY <1>1, <1>2, <1>3, <1>4 DEF Next, Excludes

(* AddInterval excludes no transaction outside the ranges that were        *)
(* invalidated, however they meet or overlap.                              *)
THEOREM SequencePointExcludes == Spec => []OnlyInvalidatedExcluded
<1>1. IInv /\ [Next]_vars => IInv'
  BY StepExcludes
<1>2. IInv => OnlyInvalidatedExcluded
  BY DEF IInv
<1>3. QED
  BY <1>1, <1>2, IInvInit, PTL DEF Spec

(* A transaction that is excluded stays excluded: joining intervals never  *)
(* brings one back.                                                        *)
THEOREM SequencePointGrows == Spec => ExclusionGrows
<1>1. IInv /\ [Next]_vars =>
        /\ IInv'
        /\ [\A p \in Peers, t \in Ids :
              IsTransactionExcluded(exclusions, p, t) => IsTransactionExcluded(exclusions', p, t)]_vars
  BY StepExcludes
<1>2. QED
  BY <1>1, IInvInit, PTL DEF Spec, ExclusionGrows

(* A rejected transaction that stays on the list hides its peer's later    *)
(* ones.                                                                   *)
LEMMA RejectionHides ==
  ASSUME IInv', NEW p \in DOMAIN rejections', NEW t \in rejections'[p], NEW u \in t..MaxId
  PROVE  ~SequencePointHas(current_sequence_point_', p, u)
<1>1. rejections'[p] \subseteq Nat /\ t \in Nat /\ u \in Nat /\ t <= u
  BY MaxIdAssumption DEF IInv, Ids
<1>2. Min(rejections'[p]) \in Nat /\ Min(rejections'[p]) <= t
  BY <1>1, MinIsLeast
<1>3. ~(u < Min(rejections'[p]))
  BY <1>1, <1>2
<1>4. QED
  BY <1>3 DEF SequencePointHas, rejections

(* A rejection hides its peer's later transactions until a range that      *)
(* holds the rejected one is invalidated.                                  *)
THEOREM SequencePointRejects == Spec => RejectionStands
<1> DEFINE Stands ==
      \A p \in DOMAIN rejections, t \in Ids :
        /\ t \in rejections[p]
        /\ ~\E start \in 1..t, end \in (t + 1)..MaxId :
              HandleInvalidateTransactionsMessage(p, start, end)
        => \A u \in t..MaxId : ~SequencePointHas(current_sequence_point_', p, u)
<1>1. IInv /\ [Next]_vars => IInv' /\ [Stands]_vars
  <2> SUFFICES ASSUME IInv, Next PROVE Stands
    BY StepExcludes
  <2> SUFFICES ASSUME NEW p \in DOMAIN rejections, NEW t \in Ids, t \in rejections[p],
                      ~\E start \in 1..t, end \in (t + 1)..MaxId :
                          HandleInvalidateTransactionsMessage(p, start, end)
               PROVE  p \in DOMAIN rejections' /\ t \in rejections'[p]
    BY StepExcludes, RejectionHides
  <2>1. ASSUME NEW q \in Peers, (\E v \in Ids : SeeTransaction(q, v)) \/ HandleInvalidateUpdate(q)
        PROVE  p \in DOMAIN rejections' /\ t \in rejections'[p]
    BY <2>1, SeeEffect
  <2>2. ASSUME NEW q \in Peers, NEW v \in Ids, NEW new \in Ids, RejectTransactions(q, v, new)
        PROVE  p \in DOMAIN rejections' /\ t \in rejections'[p]
    BY <2>2, RejectEffect
  <2>3. ASSUME NEW q \in Peers, NEW v \in Ids, NEW new \in Ids,
               HandleInvalidateTransactionsMessage(q, v, new)
        PROVE  p \in DOMAIN rejections' /\ t \in rejections'[p]
    <3>1. q = p => t < v \/ new <= t
      BY <2>3, MaxIdAssumption DEF Ids
    <3>2. QED
      BY <2>3, <3>1, HandleEffect
  <2>4. QED
    BY <2>1, <2>2, <2>3 DEF Next
<1>2. QED
  BY <1>1, IInvInit, PTL DEF Spec, RejectionStands
=============================================================================
