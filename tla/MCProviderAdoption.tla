------------------------- MODULE MCProviderAdoption -------------------------
(* ProviderAdoption with the symmetry of its interchangeable processes and   *)
(* keys, for TLC.                                                            *)
EXTENDS ProviderAdoption, TLC

Symmetry == Permutations(Tools) \cup Permutations(Reconcilers)
              \cup Permutations(MachineKeys) \cup Permutations(NodeKeys)

=============================================================================
