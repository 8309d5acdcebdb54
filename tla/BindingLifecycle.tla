-------------------------- MODULE BindingLifecycle --------------------------
(***************************************************************************)
(* What the N6 binding store (nodescale-state/src/n6.rs) and the N7        *)
(* projection store (nodescale-state/src/n7.rs) may assume of each other   *)
(* for one device: the lifecycle of its binding generations, and the       *)
(* fence that unresolved Fleet authority puts around one of them           *)
(* (docs/n6 "Binding lifecycle", ADR 0011).  KeryxBinding implements it    *)
(* from the N6 side, FleetProjection from the N7 side.                     *)
(***************************************************************************)
EXTENDS Naturals

CONSTANTS Generations   \* binding generations, an initial segment of 1, 2, ...

VARIABLES
  state,   \* the lifecycle state of each generation
  fenced   \* generations Fleet may still hold authority under

lvars == <<state, fenced>>

Init ==
  /\ state = [g \in Generations |-> "none"]
  /\ fenced = {}

\* The first generation needs no authority but a challenge.
Issue ==
  /\ \A g \in Generations : state[g] = "none"
  /\ state' = [state EXCEPT ![1] = "pending"]
  /\ UNCHANGED fenced

Confirm(g) ==
  /\ state[g] = "pending"
  /\ state' = [state EXCEPT ![g] = "active"]
  /\ UNCHANGED fenced

\* A later generation only ever comes from rotating its predecessor.
Rotate(g) ==
  /\ g + 1 \in Generations
  /\ state[g] = "active"
  /\ state[g + 1] = "none"
  /\ g \notin fenced
  /\ state' = [state EXCEPT ![g] = "rotated", ![g + 1] = "pending"]
  /\ UNCHANGED fenced

Revoke(g) ==
  /\ state[g] \in {"pending", "active"}
  /\ g \notin fenced
  /\ state' = [state EXCEPT ![g] = "revoked"]
  /\ UNCHANGED fenced

\* Projections come and go; only an active binding gives rise to new ones.
SetFence(F) ==
  /\ \A g \in F \ fenced : state[g] = "active"
  /\ fenced' = F
  /\ UNCHANGED state

Next ==
  \/ Issue
  \/ \E g \in Generations : Confirm(g) \/ Rotate(g) \/ Revoke(g)
  \/ \E F \in SUBSET Generations : SetFence(F)

Spec == Init /\ [][Next]_lvars

=============================================================================
