SPECIFICATION Spec
CONSTANTS
  p1 = p1
  p2 = p2
  Procs = {p1, p2}
  NoProc = NoProc
  Entries = 2
  NoOfFrames = 3
  MaxFrames = 1
  Improved = TRUE
  TlbSize = 1
  Lru = FALSE
  Accessed = {0, 2}
  MaxAge = 2
INVARIANT VictimFound
CHECK_DEADLOCK FALSE
