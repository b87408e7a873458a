------------------------------- MODULE Folding -------------------------------
(***************************************************************************)
(* Folds for sequences that are too long, and operations that nest too     *)
(* deeply, for a fold that is one recursion per item.                      *)
(***************************************************************************)
EXTENDS Integers, Sequences, FiniteSetsExt

(* Op applied to the items in turn, from the left.  Each half is computed  *)
(* before the next one is begun.                                           *)
InTurn(Op(_, _), base, s) ==
  LET RECURSIVE Part(_, _, _)
      Part(before, first, last) ==
        LET half == (first + last) \div 2
        IN CASE first > last -> before
             [] first = last -> Op(before, s[first])
             [] OTHER -> CHOOSE after \in {Part(between, half + 1, last) :
                                             between \in {Part(before, first, half)}} : TRUE
  IN Part(base, 1, Len(s))

(* Step as long as Goes holds, in rounds of 1, 2, 4 and so on steps.       *)
Repeat(Goes(_), Step(_), start) ==
  LET RECURSIVE Round(_, _), Rounds(_, _)
      Round(x, k) ==
        CASE ~Goes(x) -> x
          [] k = 0 -> Step(x)
          [] OTHER -> CHOOSE z \in {Round(y, k - 1) : y \in {Round(x, k - 1)}} : TRUE
      Rounds(x, k) ==
        IF ~Goes(x) THEN x ELSE CHOOSE z \in {Rounds(y, k + 1) : y \in {Round(x, k)}} : TRUE
  IN Rounds(start, 0)

(* The members of a finite set in some order.                              *)
InSomeOrder(S) == FoldSet(LAMBDA x, s : Append(s, x), <<>>, S)
===============================================================================
