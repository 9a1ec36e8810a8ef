------------------------------ MODULE MCStreams ------------------------------
(* Instances of Streams for TLC. *)
EXTENDS Streams

TwoPeers == {"b", "c"}

\* Both protocols to one leader, one of them to another, and to itself.
FourDestinations ==
  {<<"observe", "b">>, <<"report", "b">>, <<"observe", "c">>, <<"observe", "a">>}
=============================================================================
