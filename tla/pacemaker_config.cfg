CONSTANTS
  Oracles <- FourOracles
  Ledgers <- FixedLedger
  Absent = {"o3"}
  StartEpoch = 9
  MaxEpoch = 10
  MaxFaults = 1
  SortsAfter <- SortsAfterAsString
SPECIFICATION Spec
INVARIANT RunsTheAgreedEpoch
