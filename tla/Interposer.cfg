SPECIFICATION Spec
CONSTANTS
  t1 = t1
  t2 = t2
  t3 = t3
  m1 = m1
  m2 = m2
  c1 = c1
  Threads <- MCThreads
  Mutexes <- MCMutexes
  Conds <- MCConds
  None = None
  Ops = {"lock", "trylock", "unlock", "wait", "signal", "broadcast", "yield"}
  Stacktraces = TRUE
SYMMETRY MCSymmetry
INVARIANTS
  TypeOK
  PrinterGetsPast
  EveryCallIsLogged
  LogShowsExclusion
PROPERTY ImplementsPosix
CHECK_DEADLOCK FALSE
