SPECIFICATION Spec
CONSTANTS
  t1 = t1
  t2 = t2
  t3 = t3
  t4 = t4
  k1 = k1
  k2 = k2
  k3 = k3
  Threads <- MCThreads
  Tids <- MCTids
  NoTid = NoTid
  MAX_THREADS = 5
INVARIANTS
  TypeOK
  CountInTable
  LiveNumbersDiffer
  NumberStays
CHECK_DEADLOCK FALSE
