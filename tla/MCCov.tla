------------------------------- MODULE MCCov --------------------------------
(* Instances of Cov for TLC.                                               *)
EXTENDS Cov, TLC

Symmetry == Permutations(Callers)

=============================================================================
