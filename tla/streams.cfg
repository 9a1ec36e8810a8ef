CONSTANTS
  Self = "a"
  Peers <- TwoPeers
  Destinations <- FourDestinations
  MaxMessages = 3
  MaxFaults = 2
SPECIFICATION FairSpec
CHECK_DEADLOCK FALSE
INVARIANTS TypeOK OneStreamPerDestination ReceivedInOrder
PROPERTIES OnlyFaultsCutStreams EveryCallEnds PushedArrives
