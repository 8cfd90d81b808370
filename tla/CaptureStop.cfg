SPECIFICATION FairSpec
CONSTANTS
  Commands <- WithStop
  MaxCalls = 2
  MaxFrames = 3
  NumBuf = 1
INVARIANTS SaverUsesLiveBuffers CaptureFloor
PROPERTIES SessionEnds WedgeClears CallsSettle
