--------------------------- MODULE MCPlaybackThread ---------------------------
EXTENDS RecordedCalls

CONSTANTS fresh1, fresh2

Op(op) == [op |-> op, on |-> "none", method |-> "none", with |-> "void"]
Call(on, method, with) == [op |-> "call", on |-> on, method |-> method, with |-> with]

MCMethods ==
  [get |-> [ops |-> <<>>, result |-> "count"],
   tell |-> [ops |-> <<Op("open"), Call("opened", "put", "count"), Op("add")>>, result |-> "void"],
   peek |-> [ops |-> <<Call("self", "get", "void"), Op("add")>>, result |-> "count"],
   bump |-> [ops |-> <<Op("add")>>, result |-> "count"],
   nest |-> [ops |-> <<Op("add"), Call("self", "bump", "void"), Call("self", "get", "void")>>,
             result |-> "count"],
   block |-> [ops |-> <<Op("begin"), Op("add"), Op("end")>>, result |-> "void"],
   spawn |-> [ops |-> <<Op("create"), Call("made", "put", "made"), Op("add")>>,
              result |-> "made"],
   give |-> [ops |-> <<Op("create"), Op("open"), Call("opened", "put", "made")>>,
             result |-> "count"]]

(* The transactions of two calls, those of the first at the positions in   *)
(* `first'.                                                                *)
Merged(a, b, first) ==
  LET Before(i, set) == Cardinality({j \in set : j <= i})
      positions == 1..(Len(a) + Len(b))
  IN [i \in positions |-> IF i \in first THEN a[Before(i, first)]
                          ELSE b[Before(i, positions \ first)]]

HistoriesOf(c1, c2) ==
  LET Interleavings(a, b) ==
        LET positions == 1..(Len(a) + Len(b))
        IN {[transactions |-> Merged(a, b, first), calls |-> <<c1, c2>>,
             owner |-> [i \in positions |-> IF i \in first THEN 1 ELSE 2],
             sequential |-> first = 1..Len(a)] :
               first \in {s \in SUBSET positions : Cardinality(s) = Len(a)}}
  IN Interleavings(TransactionsOf(c1), TransactionsOf(c2))

(* The first call creates the object.  The second one finds it in the      *)
(* cache or replays the first, and may have seen the object before it.     *)
First(method, wholes) ==
  [method : {method}, creates : {TRUE}, seen : {0}, fresh : {fresh1}, whole : wholes,
   sharer : {"event"}]
Second(method, wholes, sharers) ==
  [method : {method}, creates : {FALSE}, seen : {0, 1}, fresh : {fresh2}, whole : wholes,
   sharer : sharers]

Pairs(firsts, seconds) == UNION {HistoriesOf(c1, c2) : c1 \in firsts, c2 \in seconds}

(* What shares the node matters to `nest' only, and a `bump' that creates  *)
(* the object is one transaction in any case.                              *)
MCHistories ==
  UNION {Pairs(First(m, BOOLEAN), Second("get", BOOLEAN, {"cache"})) : m \in {"tell", "spawn", "peek"}}
    \cup Pairs(First("nest", BOOLEAN), Second("get", {TRUE}, {"cache"}))
    \cup UNION {Pairs(First("bump", {TRUE}), Second(m, BOOLEAN, {"cache"})) : m \in {"block", "give"}}
    \cup Pairs(First("bump", {TRUE}), Second("nest", BOOLEAN, {"cache", "none"}))
===============================================================================
