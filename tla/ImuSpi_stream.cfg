SPECIFICATION FairSpec
CONSTANTS
  MaxFrames = 5
  FrameBytes = 2
  FifoBytes = 7
  MaxBurst = 3
  Capacity = 2
  CanTimeOut = TRUE
INVARIANTS
  PollsKeepTheStream
  GapIsAnnounced
  LineAnnouncesSamples
PROPERTY DrainEnds
CHECK_DEADLOCK FALSE
