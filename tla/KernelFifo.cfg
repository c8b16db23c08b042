SPECIFICATION Spec
CONSTANTS
  Procs = {p1, p2, p3}
  NoPcb = NoPcb
  Degree = 2
  SRT = FALSE
  InitEst = 4
  RealTimes = {2, 6}
  AlphaNum = 1
  AlphaDen = 2
  MaxIO = 1
  Suspension = FALSE
  ColdStart = FALSE
  StaleId = FALSE
SYMMETRY Symmetry
INVARIANTS DegreeRespected SlotsConserved IoFindsPcb  OneHome MemoryKnowsRunning
CHECK_DEADLOCK FALSE
