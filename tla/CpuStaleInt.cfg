SPECIFICATION Spec
CONSTANTS
  p1 = p1
  p2 = p2
  p3 = p3
  Procs = {p1, p2, p3}
  NoPcb = NoPcb
  Program <- MCProgram
  MaxInts = 2
INVARIANT InterruptsItsTurn
CHECK_DEADLOCK FALSE
