\* Calibrating a part found or left running, without any failure.
SPECIFICATION Spec
CONSTANTS
  Field = 2
  Bridge = 1
  PerStep = 2
  MaxMeasurements = 5
  CanTimeOut = FALSE
INVARIANT PairBracketsOneField
CHECK_DEADLOCK FALSE
