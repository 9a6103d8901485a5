\* One millisecond of which a part is gone when the wait reads the clock.
SPECIFICATION FairSpec
CONSTANTS
  Timeout = 4
  TicksPerMs = 4
  MaxDatagrams = 1
PROPERTIES
  WaitReturns
CHECK_DEADLOCK FALSE
