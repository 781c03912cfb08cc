--------------------------- MODULE MCJobScheduler ---------------------------
(* Two nodes with a worker each and one job.                                *)
EXTENDS JobScheduler, TLC
CONSTANTS n1, n2, j1, w1, none
MCNodes == {n1, n2}
Symmetry == Permutations(MCNodes)
=============================================================================
