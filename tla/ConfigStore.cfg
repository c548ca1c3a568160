SPECIFICATION Spec
CONSTANTS
  Unset = Unset
  Bad = Bad
  MaxRequest = 3
  MaxCrash = 1
  MaxFault = 1
INVARIANTS Durable InForce FactoryResetTotal
PROPERTY AbortNeedsAccident
CHECK_DEADLOCK FALSE
