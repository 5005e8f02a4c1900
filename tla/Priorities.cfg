SPECIFICATION FairSpec
CONSTANTS
  Size = 5
  MaxVal = 3
INVARIANTS
  UniqueSettled
  BumpsBounded
  LeastFree
PROPERTIES
  Terminates
  ImplementsTable
CHECK_DEADLOCK FALSE
