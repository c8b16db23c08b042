SPECIFICATION FairSpec
CONSTANTS
  Consoles = {c1, c2}
  PoolSizes = {1, 2}
  Workers = 1
  N_THREADS = 1
  MaxBreaks = 1
INVARIANTS OwnProgram TableExact
 
CHECK_DEADLOCK FALSE
