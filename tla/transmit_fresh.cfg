CONSTANTS
  Oracles = {"o1"}
  Aggregators = {"btc"}
  Reports <- TwoRounds
  Deviating <- NoDeviation
  MaxFaults = 1
SPECIFICATION Spec
CHECK_DEADLOCK FALSE
PROPERTY FresherIsTransmitted
