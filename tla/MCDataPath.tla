----------------------------- MODULE MCDataPath -----------------------------
(* Instances of DataPath for TLC. *)
EXTENDS DataPath

CONSTANTS o0, o1, o2, o3, o4

FiveOracles == {o0, o1, o2, o3, o4}

Before == <<o0, o1, o2, o3>>

\* Governance replaced o3 by o4.
After == <<o0, o1, o2, o4>>

\* Everyone has read the same ledger, or two oracles have read another one than
\* the leader.
LedgersAround ==
  {[i \in FiveOracles |-> Before],
   [i \in FiveOracles |-> IF i \in {o2, o4} THEN After ELSE Before]}

\* Nine and ten, whose mean is rounded up.
NineAndTen == {18, 20}

\* A price that is far too high, and an undefined one.
FarOff == {200, Undefined}

\* No report yet, nine, or ten.
ZeroNineTen == {0, 18, 20}

\* A draw that leaves no element in its place.
OneDraw == {<<1, 1, 2, 1>>}
=============================================================================
