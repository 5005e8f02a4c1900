--------------------------- MODULE MCThreadNumbers ---------------------------
(* Small instances of ThreadNumbers. *)
EXTENDS ThreadNumbers, TLC

CONSTANTS t1, t2, t3, t4, k1, k2, k3

MCThreads == {t1, t2, t3, t4}

MCTids == {k1, k2, k3}

=============================================================================
