SPECIFICATION ProgramSpec
CONSTANTS
  t1 = t1
  t2 = t2
  t3 = t3
  lock1 = lock1
  lock2 = lock2
  cond = cond
  wait_cond = wait_cond
  Threads <- MCThreads
  Mutexes <- MCMutexes
  Conds <- MCConds
  None = None
  Ops = {"lock", "trylock", "unlock", "wait", "signal", "broadcast"}
  Stacktraces = TRUE
  Programs <- TrylockTest
PROPERTY TestsEnd
CHECK_DEADLOCK FALSE
