--------------------------- MODULE MCCommitQueue ---------------------------
(* Three threads and three transactions: a thread commits another's        *)
(* transaction while that one commits a third, and pushes between another  *)
(* thread's test of the counter and its return.  No symmetry: the run      *)
(* checks liveness.                                                        *)
EXTENDS CommitQueue
=============================================================================
