-------------------------- MODULE MCDependencyCycle --------------------------
(* Four interchangeable tasks, enough for a diamond and for a cycle that   *)
(* is entered from outside.                                                *)
EXTENDS DependencyCycle, TLC

Symmetry == Permutations(Ids)

=============================================================================
