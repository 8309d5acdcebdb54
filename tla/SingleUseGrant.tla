--------------------------- MODULE SingleUseGrant ---------------------------
(***************************************************************************)
(* What an invitation promises (docs/invitations.md), without workers,     *)
(* requests, cleanup or certainty states: it is claimed at most once; that *)
(* one claim may bring one provider credential into being; the secret is   *)
(* handed out at most once, after the credential is on record; and the     *)
(* invitation is closed for good, at a time when no credential made for it *)
(* can be used and none can appear any more.                               *)
(***************************************************************************)
VARIABLES
  phase,       \* "open", "claimed" or "closed"
  credential,  \* "never", "usable" or "gone": the credential at the provider
  granted,     \* its exact reference is on record
  handed       \* the secret left Nodescale

gvars == <<phase, credential, granted, handed>>

Init ==
  /\ phase = "open"
  /\ credential = "never"
  /\ granted = FALSE
  /\ handed = FALSE

Claim ==
  /\ phase = "open"
  /\ phase' = "claimed"
  /\ UNCHANGED <<credential, granted, handed>>

\* The provider makes the credential, however late.
Appear ==
  /\ phase = "claimed"
  /\ credential = "never"
  /\ credential' = "usable"
  /\ UNCHANGED <<phase, granted, handed>>

\* It is revoked or expires; one made after its deadline was never usable.
Lapse ==
  /\ phase # "open"
  /\ credential # "gone"
  /\ credential' = "gone"
  /\ UNCHANGED <<phase, granted, handed>>

Grant ==
  /\ phase = "claimed"
  /\ credential # "never"
  /\ ~granted
  /\ granted' = TRUE
  /\ UNCHANGED <<phase, credential, handed>>

Hand ==
  /\ granted
  /\ ~handed
  /\ handed' = TRUE
  /\ UNCHANGED <<phase, credential, granted>>

Close ==
  /\ phase # "closed"
  /\ credential # "usable"
  /\ phase' = "closed"
  /\ UNCHANGED <<credential, granted, handed>>

Next == Claim \/ Appear \/ Lapse \/ Grant \/ Hand \/ Close

Spec == Init /\ [][Next]_gvars

=============================================================================
