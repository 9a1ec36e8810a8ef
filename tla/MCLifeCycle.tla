---------------------------- MODULE MCLifeCycle ----------------------------
(* Instances of LifeCycle for TLC. *)
EXTENDS LifeCycle

CONSTANTS o0, o1

TwoOracles == {o0, o1}

\* Epoch 2 is skipped, as an agreement may: o1 leads twice in a row.
ThreeEpochs == {0, 1, 3}

EpochModTwo == [e \in ThreeEpochs |-> IF e % 2 = 0 THEN o0 ELSE o1]
=============================================================================
