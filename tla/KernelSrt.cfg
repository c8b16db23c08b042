SPECIFICATION FairSpec
CONSTANTS
  Procs = {p1, p2}
  NoPcb = NoPcb
  Degree = 2
  SRT = TRUE
  InitEst = 4
  RealTimes = {2, 6}
  AlphaNum = 1
  AlphaDen = 2
  MaxIO = 1
  Suspension = FALSE
  ColdStart = TRUE
  StaleId = FALSE
INVARIANTS TypeOK SlotsConserved 
PROPERTY EveryProcessEnds
CHECK_DEADLOCK FALSE
