------------------------------ MODULE MCClient ------------------------------
(***************************************************************************)
(* Small instances of Client for TLC.                                      *)
(***************************************************************************)
EXTENDS ClientContract, TLC

\* Calls, handlers and owners are interchangeable: no action orders them.
Symmetry ==
    Permutations(Calls) \cup Permutations(Handlers) \cup Permutations(Owners)
=============================================================================
