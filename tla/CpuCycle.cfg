SPECIFICATION FairSpec
CONSTANTS
  p1 = p1
  p2 = p2
  p3 = p3
  Procs = {p1, p2, p3}
  NoPcb = NoPcb
  Program <- MCProgram
  MaxInts = 2
INVARIANTS TypeOK InUseToken NeverOverwritten InOnePlace NoLostPcb
PROPERTIES ImplementsPort EveryPcbReturns
CHECK_DEADLOCK FALSE
