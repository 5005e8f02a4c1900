SPECIFICATION Spec
CONSTANTS
  Iterations = 3
  ReturnCodes <- MCReturnCodes
  Expired = Expired
INVARIANT FailuresNoticed
PROPERTY Returns
CHECK_DEADLOCK FALSE
