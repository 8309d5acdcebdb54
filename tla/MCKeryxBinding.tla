--------------------------- MODULE MCKeryxBinding ---------------------------
(* KeryxBinding with the symmetry of its interchangeable names, for TLC. *)
EXTENDS KeryxBinding, TLC

Symmetry ==
  Permutations(Services) \cup Permutations(Peers) \cup Permutations(Operations)

=============================================================================
