-------------------------- MODULE MCPctTestPrograms --------------------------
(* Instances of PctTestPrograms: main and two threads on three slots. *)
EXTENDS PctTestPrograms

CONSTANT main

MCThreads == {main, t1, t2}

MCMutexes == {lock}

(* Slots 1 and 2 start out alike: the tables differ in the rank of slot 0. *)
MCPriorityTables ==
  {p \in [Slots -> Slots] :
     /\ \A a, b \in Slots : p[a] = p[b] => a = b
     /\ \A a, b \in Slots \ {0} : a < b => p[a] > p[b]}

(* The programs whose comments say how they end. *)
ClaimedToEnd == {pthread_yield_test, pthread_mutex_lock_unlock_test}

=============================================================================
