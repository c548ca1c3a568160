SPECIFICATION Spec
CONSTANTS
  Unset = Unset
  Bad = Bad
  MaxRequest = 2
  MaxCrash = 0
  MaxFault = 0
INVARIANT BootSurvives
CHECK_DEADLOCK FALSE
