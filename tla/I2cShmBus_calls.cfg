\* Expiring deadlines, a stop at any point, and a caller that stops using the bus
\* at its first timeout.
SPECIFICATION FairSpec
CONSTANTS
  MaxCalls = 3
  CanTimeOut = TRUE
  KeepsCalling = FALSE
  CanStop = TRUE
INVARIANTS
  PayloadHasOneOwner
  OkMeansServedUntilTimeout
  WalkedOnce
PROPERTIES
  ImplementsBusCall
  StopReleasesWaitingCall
  UpAnswersEveryCall
\* Powered down, or at the end of its calls, the system stops.
CHECK_DEADLOCK FALSE
