CONSTANTS
  Oracles = {"o1", "o2"}
  Aggregators = {"btc"}
  Reports <- TwoRounds
  Deviating <- EveryDeviation
  MaxFaults = 1
SPECIFICATION FairSpec
CHECK_DEADLOCK FALSE
INVARIANTS TypeOK EveryCallerHasABatch TimerIsForHead QueueIsServed CacheCoversPending
PROPERTY AcceptedReachesChain
