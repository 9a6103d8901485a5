SPECIFICATION Spec
CONSTANTS
  MaxFrames = 3
  FrameBytes = 2
  FifoBytes = 5
  MaxBurst = 3
  Capacity = 2
  CanTimeOut = FALSE
INVARIANT EverySampleArrives
CHECK_DEADLOCK FALSE
