---------------------------- MODULE SharedBinding ----------------------------
(***************************************************************************)
(* N6 and N7 of one device over the store they share.                      *)
(*                                                                         *)
(* KeryxBinding and FleetProjection each stand alone with the other as an  *)
(* environment: KeryxBinding lets any active generation be fenced and      *)
(* released, FleetProjection lets bindings be issued, confirmed, rotated   *)
(* and revoked.  Here neither has an environment.  Both work on the same   *)
(* rows of n6_binding_records, and the fence of N6 is the query that       *)
(* rotate_n6_binding and revoke_n6_binding run over the rows of N7 in      *)
(* their own transaction (nodescale-state/src/n6.rs).                      *)
(***************************************************************************)
EXTENDS FleetProjection

CONSTANTS
  Services, Peers, BindingOperations, MaxTime, ChallengeTtl, AuthorizationTtl,
  NoKey, NoNonce, NoService, NoPeer   \* as in KeryxBinding

VARIABLES
  revision, since, peer, reservation, challenge, confirmation, authorization,
  clock, delivered,   \* as in KeryxBinding
  step,               \* where each binding service is
  command             \* the command it is running

\* What only N6 writes, besides the states of the bindings.
ceremonies == <<revision, since, peer, reservation, challenge, confirmation,
                authorization, clock, delivered, step, command>>

allVars == <<vars, ceremonies>>

\* n6_fleet_authority_is_unresolved_tx
Fenced == {b \in Bindings : FleetAuthorityUnresolved(b)}

Keryx == INSTANCE KeryxBinding WITH
  Operations <- BindingOperations,
  MaxGeneration <- MaxBinding,
  state <- binding,
  fenced <- Fenced,
  pc <- step,
  call <- command

SharedInit == Init /\ Keryx!Init

\* A command or a transaction of a binding service, or the clock.
Bind ==
  /\ UNCHANGED <<store, worker, external>>
  /\ \/ \E w \in Services : Keryx!Call(w) \/ Keryx!Run(w)
     \/ Keryx!Tick

\* A step of a projection service or of Fleet.
Project ==
  /\ \/ \E r \in Reconcilers, o \in Operations, d \in Documents : Submit(r, o, d)
     \/ \E r \in Reconcilers, o \in Operations, g \in Generations : Resubmit(r, o, g)
     \/ \E r \in Reconcilers : Reconcile(r) \/ Crash(r)
     \/ \E d \in Documents : Deliver(d) \/ Lose(d)
  /\ UNCHANGED ceremonies

SharedNext == Bind \/ Project

SharedSpec == SharedInit /\ [][SharedNext]_allVars

-----------------------------------------------------------------------------
(***************************************************************************)
(* Properties                                                              *)
(***************************************************************************)

\* What either component assumes of the other is what the other does: the two
\* together behave as each does in its own module, so that whatever holds of
\* one with any environment holds of it with this one.
AssumptionsAreMet == Spec /\ Keryx!Spec

\* Some peer confirmed the binding, and it is the peer of its row.
ConfirmedByItsPeer(b) ==
  \E k \in Keryx!Keys : confirmation[k].generation = b /\ peer[b] = k.peer

\* A document that Fleet held, or may still get, is under a binding that an
\* authenticated peer confirmed: neither side alone can tell, the projection
\* service because it looks at the state of the binding only, the binding store
\* because it does not know what was sent (reserve_n7_projection,
\* confirm_n6_authenticated_binding).
FleetHearsOfConfirmedPeers ==
  \A d \in network \cup held : ConfirmedByItsPeer(d.binding)

=============================================================================
