----------------------------- MODULE MCMetrics ------------------------------
(* Instances of Metrics for TLC.                                           *)
EXTENDS Metrics

Symmetry == Permutations(Confirmed) \cup Permutations(Unconfirmed)

\* With 2 ticks per millisecond: half a millisecond, just below and just at
\* the end of the second bucket, and more than a second.
MCLatencies == {1, 9, 10, 2001}

=============================================================================
