---------------------------- MODULE MCDeviceTrust ----------------------------
(* Instances of DeviceTrust for TLC. *)
EXTENDS DeviceTrust, TLC

\* Within each of these sets the names do not matter.
Symmetry ==
  Permutations(Devices) \cup Permutations(Nodes) \cup Permutations(Workers)
  \cup Permutations(Authorities) \cup Permutations(Actions)

=============================================================================
