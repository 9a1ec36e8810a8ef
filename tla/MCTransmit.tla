------------------------------ MODULE MCTransmit ------------------------------
(* Instances of Transmit for TLC. *)
EXTENDS Transmit

\* Two rounds of one aggregator.
TwoRounds == {[aggregator |-> "btc", epoch |-> 1, round |-> n] : n \in 1..2}

\* The price does not move, or moves each time.
NoDeviation == {}

EveryDeviation == Reports \X Reports
=============================================================================
