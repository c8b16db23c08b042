SPECIFICATION FairSpec
CONSTANTS
  Texts <- MCTexts
  BufSizes = {3, 64}
  ReadSize = 5
  YYLMAX = 7
  InitDepth = 4
  MaxDepth = 6
  Argcs = {1, 2, 3}
  Size = 8
  PageSize = 4
  Word = 2
  FrameOf <- MCFrameOf
  NoOfFrames = 3
  MaxTurns = 1
INVARIANTS ScannerExact BufferKeepsFile ParserExact DeliversProgram MemoryAsProgrammed
PROPERTY ExitEnds
CHECK_DEADLOCK FALSE
