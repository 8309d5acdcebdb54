------------------------- MODULE MCProviderMutation -------------------------
(* An owner who may grant everything for a moment or one thing for longer  *)
(* under the same generations, and then takes the authority back.          *)
EXTENDS ProviderMutation, TLC

CallSymmetry == Permutations(Calls)

At(a, c) == [authorization |-> a, configuration |-> c]

MCOffers ==
  { [generations |-> At(1, 1), enabled |-> TRUE, from |-> 0, until |-> 1,
     grants |-> Kinds, database |-> TRUE],
    [generations |-> At(1, 1), enabled |-> TRUE, from |-> 0, until |-> 2,
     grants |-> {"InvalidateJoinCredential"}, database |-> FALSE],
    [generations |-> At(2, 2), enabled |-> FALSE, from |-> 0, until |-> 2,
     grants |-> Kinds, database |-> TRUE] }
=============================================================================
