SPECIFICATION LaneSpec
CONSTANTS
  LaneSessions = {s1, s2}
  Watermark = 2
  LaneLimit = 5
  FrameSizes = {1, 3}
  OutputBound = 4
INVARIANTS
  BufferedIsReserved
CHECK_DEADLOCK FALSE
