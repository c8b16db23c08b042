SPECIFICATION Spec
CONSTANTS
  Frames = {0, 1, 2}
  PageWords = 3
  MaxFrames = 1
  Sizes = {0, 12, 16}
  Values = {2}
  PcbStreams <- MCStreams
  Improved = FALSE
  MaxWrites = 1
  MaxSwapPcbs = 1
  MaxRequests = 6
  MaxRepeats = 1
INVARIANTS OffsetCounts OffsetInside ContentsKept
CHECK_DEADLOCK FALSE
