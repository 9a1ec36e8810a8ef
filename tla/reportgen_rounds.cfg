CONSTANTS
  o0 = o0
  o1 = o1
  o2 = o2
  o3 = o3
  Oracles <- FourOracles
  Leader = o0
  Absent = {o3}
  RoundMax = 2
  MaxRound = 2
  MaxCrashes = 1
  Due = {TRUE, FALSE}
SPECIFICATION Spec
CHECK_DEADLOCK FALSE
INVARIANTS TypeOK TransmittedIsAttested TransmittedIsEchoed TransmitsInOrder OneReportAssembled
PROPERTY ImplementsReportAgreement
SYMMETRY TwoFollowers
CONSTRAINT OneRoundAfterTrouble
