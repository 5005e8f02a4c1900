SPECIFICATION FairSpec
CONSTANTS
  main = main
  t1 = t1
  t2 = t2
  m1 = m1
  c1 = c1
  k1 = k1
  k2 = k2
  Threads <- MCThreads
  Main = main
  Mutexes <- MCMutexes
  Conds <- MCConds
  None = None
  Ops = {"create", "exit", "lock", "trylock", "unlock", "wait"}
  Stacktraces = TRUE
  Tids <- MCTids
  NoTid = NoTid
  MAX_THREADS = 3
  MaxCalls <- MCMaxCalls
INVARIANT IdOfLiveThread
PROPERTIES
  ThreadsComeAndGo
  ExitsGetThrough
CHECK_DEADLOCK FALSE
