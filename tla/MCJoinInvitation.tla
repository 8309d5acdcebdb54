-------------------------- MODULE MCJoinInvitation --------------------------
(* JoinInvitation with the symmetry of its interchangeable workers, for TLC. *)
EXTENDS JoinInvitation, TLC

Symmetry == Permutations(Workers)

=============================================================================
