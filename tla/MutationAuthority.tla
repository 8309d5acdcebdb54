-------------------------- MODULE MutationAuthority --------------------------
(***************************************************************************)
(* N3: who may change the provider (nodescale-state/src/lib.rs, migration  *)
(* 0003).  The owner keeps one configuration per network and replaces it   *)
(* by compare-and-swap; an operation is allowed by a token minted from the *)
(* configuration, for one capability, and used up by the one call that     *)
(* validates it.                                                           *)
(*                                                                         *)
(* enabled stands for the columns enabled and not revoked, which are only  *)
(* read together.  The fingerprint is left out: it travels with the two    *)
(* generations wherever they go, and they never return.                    *)
(*                                                                         *)
(* Operators whose name begins with Wrong are deliberate mistakes a change *)
(* to the code could make; no specification uses them.                     *)
(***************************************************************************)
EXTENDS Naturals

CONSTANTS
  MaxTime,         \* bound: the last instant of the clock
  MaxGeneration,   \* bound: the last generation the owner uses
  NoConfiguration

ASSUME TimeAssumption == MaxTime \in Nat /\ MaxGeneration \in Nat

Times == 0..MaxTime

\* ProviderMutationCapability: one per mutation.
Capabilities == {"EnsureNetworkPrincipal", "CreateJoinCredential",
                 "InvalidateJoinCredential", "ReplaceNodeTags", "ExpireNode",
                 "DeleteNode", "ManagePolicy"}

Generations == [authorization : 1..MaxGeneration, configuration : 1..MaxGeneration]

\* ProviderMutationConfiguration::new accepts these; the window is half open.
Configurations ==
  {c \in [generations : Generations, enabled : BOOLEAN, from : Times,
          until : 0..MaxTime + 1, grants : SUBSET Capabilities, database : BOOLEAN] :
     /\ c.from < c.until
     /\ c.grants # {}
     /\ "ManagePolicy" \in c.grants => c.database}

ASSUME ConfigurationAssumption == NoConfiguration \notin Configurations

Tokens == [generations : Generations, capability : Capabilities, from : Times,
           until : 0..MaxTime + 1]

\* HeadscaleMutationTransport: what the adapter was built with.
Transports == [generations : Generations, database : BOOLEAN]

Within(window, t) == window.from <= t /\ t < window.until

\* replace_provider_mutation_configuration: both generations advance.
WrongAdvances(old, new) == new.authorization >= old.authorization

Advances(old, new) ==
  /\ new.authorization > old.authorization
  /\ new.configuration > old.configuration

\* issue_mutation_authorization
Issuable(config, capability, t) ==
  /\ config # NoConfiguration
  /\ config.enabled
  /\ Within(config, t)
  /\ capability \in config.grants

WrongToken(config, capability) ==
  [generations |-> config.generations, capability |-> capability,
   from |-> config.from, until |-> config.until + 1]

Token(config, capability) ==
  [generations |-> config.generations, capability |-> capability,
   from |-> config.from, until |-> config.until]

\* MutationAuthorization::validate
Validates(token, transport, capability, t) ==
  /\ token.generations = transport.generations
  /\ token.capability = capability
  /\ capability = "ManagePolicy" => transport.database
  /\ Within(token, t)

\* record_confirmed_provider_credential_reference: the authority the
\* credential was made under is still the current one.
Recordable(config, generations, t) ==
  /\ config # NoConfiguration
  /\ config.generations = generations
  /\ config.enabled
  /\ "CreateJoinCredential" \in config.grants
  /\ Within(config, t)
==============================================================================
