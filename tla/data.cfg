CONSTANTS
  o0 = o0
  o1 = o1
  o2 = o2
  o3 = o3
  o4 = o4
  Oracles <- FiveOracles
  Leader = o0
  LedgersOf <- LedgersAround
  Faulty = {o1}
  GoodAnswers <- NineAndTen
  BadAnswers <- FarOff
  LastData <- ZeroNineTen
  Alpha = 50
  Draws <- OneDraw
  Absent = {o4}
SPECIFICATION Spec
CHECK_DEADLOCK FALSE
INVARIANTS TypeOK ObservationInRange SignedIsTrusted AlphaDecides FinalConvinces OneOraclePerSlot
