---------------------------- MODULE MCPctScheduler ----------------------------
(* Small instances of PctScheduler. *)
EXTENDS PctScheduler, TLC

CONSTANTS main, t1, t2, m1, m2

MCTwoThreads == {main, t1}

MCMutexes == {m1, m2}

MCThreads == {main, t1, t2}

(* The slots other than main's start out alike and the code prefers none   *)
(* of them but for its priority, so they are listed by falling priority:   *)
(* the tables differ in the place of slot 0 among them.                    *)
MCPriorityTables ==
  {p \in [Slots -> Slots] :
     /\ \A a, b \in Slots : p[a] = p[b] => a = b
     /\ \A a, b \in Slots \ {0} : a < b => p[a] > p[b]}

(* The threads that are not yet born are interchangeable, and the mutexes. *)
MCSymmetry == Permutations({t1, t2}) \cup Permutations({m1, m2})

=============================================================================
