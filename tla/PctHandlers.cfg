SPECIFICATION FairSpec
CONSTANTS
  main = main
  t1 = t1
  t2 = t2
  m1 = m1
  m2 = m2
  Threads <- MCTwoThreads
  Main = main
  None = None
  Mutexes <- MCMutexes
  MAX_THREADS = 3
  PriorityTables <- MCPriorityTables
  Calls = {"create", "lock", "trylock", "unlock", "yield", "return", "exit"}
  CreateCanFail = TRUE
INVARIANTS
  LockBlocksItself
  UnlockIsBlocked
  OneMutexEver
PROPERTIES
  HandlerEnds
  FrozenIsFinal
CHECK_DEADLOCK FALSE
