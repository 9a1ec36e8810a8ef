CONSTANTS
  o0 = o0
  o1 = o1
  o2 = o2
  o3 = o3
  Oracles <- FourOracles
  Leader = o0
  Absent = {o3}
  RoundMax = 1
  MaxRound = 2
  MaxCrashes = 0
  Due = {TRUE}
SPECIFICATION FairSpec
CHECK_DEADLOCK FALSE
PROPERTY ReportCompletes
