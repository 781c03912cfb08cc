-------------------------- MODULE MCConnectionPool --------------------------
(* Three calls for one connection: one holds it and two wait, or two race  *)
(* for it while a third waits.                                              *)
EXTENDS ConnectionPool, TLC
CONSTANTS k1, k2, k3, none
MCCalls == {k1, k2, k3}
Symmetry == Permutations(MCCalls)
=============================================================================
