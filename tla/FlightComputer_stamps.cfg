\* The claim that the index of a fix is its epoch: a host that starts first loses epochs.
SPECIFICATION Spec
CONSTANTS
  MaxEpochs = 4
  SamplesPerStep = 1
  SocketCapacity = 3
  Batch = 2
  MaxAttempts = 2
INVARIANT StampIsEpoch
CHECK_DEADLOCK FALSE
