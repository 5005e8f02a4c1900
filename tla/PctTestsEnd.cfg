SPECIFICATION ProgramSpec
CONSTANTS
  main = main
  t1 = t1
  t2 = t2
  lock = lock
  Threads <- MCThreads
  Main = main
  None = None
  Mutexes <- MCMutexes
  MAX_THREADS = 3
  PriorityTables <- MCPriorityTables
  Calls = {"create", "yield", "exit", "return", "lock"}
  CreateCanFail = FALSE
  Programs <- ClaimedToEnd
PROPERTY Ends
CHECK_DEADLOCK FALSE
