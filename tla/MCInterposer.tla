----------------------------- MODULE MCInterposer -----------------------------
(* Small instances of Interposer. *)
EXTENDS Interposer, TLC

CONSTANTS t1, t2, t3, m1, m2, c1

MCThreads == {t1, t2, t3}

MCMutexes == {m1, m2}

MCConds == {c1}

MCSymmetry == Permutations(Threads) \cup Permutations(Mutexes)

=============================================================================
