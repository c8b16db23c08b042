SPECIFICATION Spec
CONSTANTS
  p1 = p1
  p2 = p2
  Procs = {p1, p2}
  NoProc = NoProc
  Entries = 2
  NoOfFrames = 3
  MaxFrames = 2
  Improved = TRUE
  TlbSize = 1
  Lru = TRUE
  Accessed = {0, 3}
  MaxAge = 1
INVARIANTS TypeOK FramesExclusive FramesAccounted TablesDisjoint ResidentBound OwnFrames
CHECK_DEADLOCK FALSE
