\* Both ends may time out at any moment.
SPECIFICATION FairSpec
CONSTANTS
  MaxSteps = 20
  CanTimeOut = TRUE
INVARIANTS
  FramesHaveOneOwner
PROPERTIES
  ImplementsLockstep
  ShutdownReleasesWaitingPlant
  PostedStepIsAccepted
\* The run is over once the shutdown has been requested and seen.
CHECK_DEADLOCK FALSE
