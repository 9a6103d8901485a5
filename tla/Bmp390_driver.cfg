\* Two rates, one below and one above that of the steps, and a sensor time
\* that wraps.
SPECIFICATION Spec
CONSTANTS
  StepTime = 3
  Periods = {2, 5}
  SensorTimeWrap = 8
  MaxTime = 9
INVARIANTS
  SampleIsOneConversion
  LineAnnouncesConversion
  RateIsTheDrivers
PROPERTY SamplesAdvance
\* The master stops stepping, and a part that was given up is not read again.
CHECK_DEADLOCK FALSE
