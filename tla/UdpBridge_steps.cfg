\* Every fault the network has, and waits that run out at any moment.
SPECIFICATION FairSpec
CONSTANTS
  MaxTime = 2
  MaxPosts = 3
  MaxLosses = 1
  MaxDuplicates = 1
  MaxQueued = 2
INVARIANTS
  StaleIsTold
PROPERTIES
  StepIsAnswered
  ShutdownReachesPeer
  LossFreeIsLockstep
\* A run ends.
CHECK_DEADLOCK FALSE
