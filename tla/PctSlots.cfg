SPECIFICATION Spec
CONSTANTS
  main = main
  t1 = t1
  t2 = t2
  m1 = m1
  m2 = m2
  Threads <- MCThreads
  Main = main
  None = None
  Mutexes = {}
  MAX_THREADS = 3
  PriorityTables <- MCPriorityTables
  Calls = {"create", "yield", "return"}
  CreateCanFail = FALSE
INVARIANT SlotsAreTheirOwn
CHECK_DEADLOCK FALSE
