----------------------------- MODULE EpochOrder -----------------------------
(***************************************************************************)
(* The order in which Array.prototype.sort, called without a comparator as *)
(* the pacemaker calls it, puts two numbers: that of their decimal         *)
(* strings. It differs from the numeric order as soon as the number of     *)
(* digits does: 10 comes before 9.                                         *)
(***************************************************************************)
EXTENDS Integers, Sequences

Digits[n \in Nat] ==
  IF n < 10 THEN <<n>> ELSE Append(Digits[n \div 10], n % 10)

\* x comes after its proper prefixes, and after y when the first digit that
\* differs is the larger in x.
DigitsAfter(x, y) ==
  \/ Len(x) > Len(y) /\ SubSeq(x, 1, Len(y)) = y
  \/ \E k \in DOMAIN x \cap DOMAIN y :
       x[k] > y[k] /\ SubSeq(x, 1, k - 1) = SubSeq(y, 1, k - 1)

SortsAfterAsString(a, b) == DigitsAfter(Digits[a], Digits[b])
=============================================================================
