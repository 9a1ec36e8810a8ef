---------------------------- MODULE MCPacemaker ----------------------------
(* Instances of Pacemaker for TLC. *)
EXTENDS Pacemaker, EpochOrder

FourOracles == {"o0", "o1", "o2", "o3"}

\* One ledger, in the order the leader function reads it.
FixedLedger == {<<"o0", "o1", "o2", "o3">>}

\* Governance replaces o0 by o4, which shifts every oracle in the ledger.
FiveOracles == FourOracles \cup {"o4"}

ChangingLedger == {<<"o0", "o1", "o2", "o3">>, <<"o1", "o2", "o3", "o4">>}

\* Governance removes o0: f goes from 1 to 0.
ShrinkingLedger == {<<"o0", "o1", "o2", "o3">>, <<"o1", "o2", "o3">>}
=============================================================================
