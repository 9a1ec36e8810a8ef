CONSTANTS
  Oracles <- FiveOracles
  Ledgers <- ChangingLedger
  Absent = {"o0", "o1"}
  StartEpoch = 9
  MaxEpoch = 10
  MaxFaults = 1
  SortsAfter <- SortsAfterAsString
SPECIFICATION Spec
INVARIANTS TypeOK EpochBacked NoLoneEpochChange EpochBelowNewEpoch
PROPERTY ImplementsAgreement
