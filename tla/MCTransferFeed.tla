--------------------------- MODULE MCTransferFeed ---------------------------
(* TransferFeed on small instances. *)
EXTENDS TransferFeed, TLC

CONSTANTS j1, j2

NoJobs  == {}
MCJobs2 == {j1, j2}

\* Ids are only ever compared for equality.
Symmetry == Permutations(MCJobs2)

=============================================================================
