--------------------------- MODULE MCTransferQueue ---------------------------
(* TransferQueue on small instances; every set below is a set of model values. *)
EXTENDS TransferQueue, TLC

CONSTANTS j1, j2, c1, c2, s1, s2, w1, t1, t2

MCJobs2     == {j1, j2}
MCConns1    == {c1}
MCConns2    == {c1, c2}
MCSessions1 == {s1}
MCSessions2 == {s1, s2}
MCWindows   == {w1}
MCTasks     == {t1, t2}

\* Ids, connections, sessions and tasks are only ever compared for equality.
Symmetry == Permutations(MCJobs2) \cup Permutations(MCConns2)
              \cup Permutations(MCSessions2) \cup Permutations(MCTasks)

=============================================================================
