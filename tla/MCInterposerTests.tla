-------------------------- MODULE MCInterposerTests --------------------------
(* Instances of InterposerTests. *)
EXTENDS InterposerTests

MCThreads == {t1, t2, t3}

MCMutexes == {lock1, lock2}

MCConds == {cond, wait_cond}

TestPrograms ==
  {pthread_mutex_lock_unlock_test, pthread_cond_wait_signal_test,
   pthread_cond_broadcast_test, pthread_mutex_trylock_test, deadlock_buggy_test}

TrylockTest == {pthread_mutex_trylock_test}

=============================================================================
