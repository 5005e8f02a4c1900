------------------------- MODULE MCInterposedThreads -------------------------
(* A small instance of InterposedThreads. *)
EXTENDS InterposedThreads

CONSTANTS main, t1, t2, m1, c1, k1, k2

MCThreads == {main, t1, t2}

MCMutexes == {m1}

MCConds == {c1}

MCTids == {k1, k2}

(* main() can create both threads, or one and try a mutex. *)
MCMaxCalls == [t \in MCThreads |-> IF t = main THEN 2 ELSE 1]

=============================================================================
