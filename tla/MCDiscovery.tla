----------------------------- MODULE MCDiscovery -----------------------------
(***************************************************************************)
(* Discovery for TLC. Devices, and handlers, are interchangeable.          *)
(***************************************************************************)
EXTENDS Discovery, TLC

Symmetry == Permutations(DeviceIDs) \cup Permutations(Handlers)

=============================================================================
