------------------------- MODULE MCFleetProjection -------------------------
(* Instances of FleetProjection for TLC. *)
EXTENDS FleetProjection, TLC

\* Reconcilers and operation ids are interchangeable in the safety runs.
Symmetry == Permutations(Reconcilers) \cup Permutations(Operations)

=============================================================================
