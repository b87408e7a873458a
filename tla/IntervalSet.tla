----------------------------- MODULE IntervalSet -----------------------------
(***************************************************************************)
(* IntervalSet (src/engine/interval_set.h): a set of half-open intervals,  *)
(* kept as a std::map from the start of each interval to its end.  Here    *)
(* the map is a function whose domain is the set of starts.                *)
(***************************************************************************)
EXTENDS Integers, FiniteSetsExt

(* The starts before map_.upper_bound(t), and PrevIterator of that.        *)
StartsUpTo(map, t) == {s \in DOMAIN map : s <= t}
LastStartUpTo(map, t) == Max(StartsUpTo(map, t))

Contains(map, t) ==
  /\ StartsUpTo(map, t) # {}
  /\ t < map[LastStartUpTo(map, t)]

-----------------------------------------------------------------------------
(* Mutated forms of AddInterval, used to test the properties.              *)

AddIntervalKeepsEnd(map, start, end) ==
  IF start >= end THEN map
  ELSE LET fresh == StartsUpTo(map, start) = {} \/ map[LastStartUpTo(map, start)] < start
           first == IF fresh THEN start ELSE LastStartUpTo(map, start)
           m == [s \in DOMAIN map \cup {first} |-> IF fresh /\ s = start THEN end ELSE map[s]]
       IN [s \in {s \in DOMAIN m : s <= first \/ s > end} |-> m[s]]

AddIntervalClosed(map, start, end) ==
  IF start >= end THEN map
  ELSE LET fresh == StartsUpTo(map, start) = {} \/ map[LastStartUpTo(map, start)] < start
           first == IF fresh THEN start ELSE LastStartUpTo(map, start)
       IN [s \in DOMAIN map \cup {first} |-> IF s = first THEN end + 1 ELSE map[s]]

-----------------------------------------------------------------------------
(* AddInterval.  A start that no interval contains or ends at gets an      *)
(* entry of its own (emplace); first is the entry start_it points to.  It  *)
(* takes over the end of the last interval that begins at or before end,   *)
(* and the entries between the two are erased.                             *)
AddInterval(map, start, end) ==
  IF start >= end THEN map
  ELSE LET fresh == StartsUpTo(map, start) = {} \/ map[LastStartUpTo(map, start)] < start
           first == IF fresh THEN start ELSE LastStartUpTo(map, start)
           m == [s \in DOMAIN map \cup {first} |-> IF fresh /\ s = start THEN end ELSE map[s]]
           old_end == m[LastStartUpTo(m, end)]
       IN [s \in {s \in DOMAIN m : s <= first \/ s > end} |->
             IF s = first /\ m[s] < old_end THEN old_end ELSE m[s]]
=============================================================================
