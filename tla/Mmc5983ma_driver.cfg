\* Every configuration of the driver, a part found in any state, and waits that run out.
SPECIFICATION Spec
CONSTANTS
  Field = 2
  Bridge = 1
  PerStep = 2
  MaxMeasurements = 5
  CanTimeOut = TRUE
INVARIANTS
  CalibrationFindsTheBridge
  NeverTheSameTwice
  PartStaysConfigured
PROPERTY
  SamplesAreTheField
\* The measurements are used up.
CHECK_DEADLOCK FALSE
