SPECIFICATION Spec
CONSTANTS
  Procs = {p1, p2}
  NoPcb = NoPcb
  Degree = 1
  SRT = FALSE
  InitEst = 4
  RealTimes = {4}
  AlphaNum = 1
  AlphaDen = 2
  MaxIO = 1
  Suspension = TRUE
  ColdStart = FALSE
  StaleId = TRUE
SYMMETRY Symmetry
INVARIANTS AdmitTokens AdmitFindsProcess NoLostWakeup
CHECK_DEADLOCK FALSE
