---------------------------- MODULE MCReportGen ----------------------------
(* Instances of ReportGen for TLC. *)
EXTENDS ReportGen, TLC

CONSTANTS o0, o1, o2, o3

FourOracles == {o0, o1, o2, o3}

\* The followers that are up are interchangeable.
TwoFollowers == Permutations({o1, o2})

\* Bound: only the first round after a crash, or when somebody finds that its
\* report is not due.
Skipped == \E i \in Oracles :
  completedRound[i] /\ \A t \in Handed(i) : t.attested.report.round # round[i]

OneRoundAfterTrouble == crashes > 0 \/ Skipped => leaderRound <= 1
=============================================================================
