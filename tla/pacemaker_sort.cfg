CONSTANTS
  Oracles <- FourOracles
  Ledgers <- ShrinkingLedger
  Absent = {"o0"}
  StartEpoch = 8
  MaxEpoch = 10
  MaxFaults = 0
  SortsAfter <- SortsAfterAsString
SPECIFICATION Spec
PROPERTY NoHigherCandidateLeft
