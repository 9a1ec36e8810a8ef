CONSTANTS
  o0 = o0
  o1 = o1
  Oracles <- TwoOracles
  Epochs <- ThreeEpochs
  LeaderOf <- EpochModTwo
  RoundMax = 1
  MaxRound = 2
  MaxLate = 1
  MaxWaiting = 1
SPECIFICATION Spec
CHECK_DEADLOCK FALSE
INVARIANT StoppedLeaderIsQuiet
