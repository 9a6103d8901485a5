\* The TCP bridge: it answers a timeout with a bus fault and serves on.
SPECIFICATION Spec
CONSTANTS
  MaxCalls = 2
  CanTimeOut = TRUE
  KeepsCalling = TRUE
  CanStop = FALSE
INVARIANTS
  OkMeansServed
CHECK_DEADLOCK FALSE
