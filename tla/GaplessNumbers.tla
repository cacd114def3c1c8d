--------------------------- MODULE GaplessNumbers ---------------------------
(***************************************************************************)
(* What a yearly numbering service promises: every year hands its numbers  *)
(* out in order and without gaps, each one to a bill that has none yet in  *)
(* that year, and a number once handed out is never withdrawn or reused.   *)
(***************************************************************************)
EXTENDS Naturals, Sequences

CONSTANTS Keys, Years

VARIABLE issued   \* issued[y]: the bills of year y, in the order of their numbers

Init == issued = [y \in Years |-> <<>>]

Holders(y) == {issued[y][s] : s \in 1..Len(issued[y])}

Issue(y, k) ==
  /\ k \notin Holders(y)
  /\ issued' = [issued EXCEPT ![y] = Append(@, k)]

Next == \E y \in Years, k \in Keys : Issue(y, k)

Spec == Init /\ [][Next]_issued

=============================================================================
