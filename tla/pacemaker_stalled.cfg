CONSTANTS
  Oracles <- FourOracles
  Ledgers <- FixedLedger
  Absent = {"o3"}
  StartEpoch = 8
  MaxEpoch = 10
  MaxFaults = 0
  SortsAfter <- SortsAfterAsString
SPECIFICATION StalledSpec
INVARIANTS RulesExhausted NewEpochAdvancesByOne
PROPERTIES StalledEpochEnds NeverGoesBack
