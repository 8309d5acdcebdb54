---------------------------- MODULE KeryxBinding ----------------------------
(***************************************************************************)
(* N6: binding one device to an authenticated Keryx peer.                  *)
(*                                                                         *)
(* The store (nodescale-state/src/n6.rs, migration 0009) keeps a binding   *)
(* record per generation, challenge reservations and challenges by         *)
(* (peer, operation id), the completed confirmations, and the owner's      *)
(* one-use rotate and revoke authorizations.  Services (the binding actor  *)
(* of each process, nodescale-binding/src/production.rs) run one command   *)
(* at a time: the clock is read when the command is queued, the provider   *)
(* is asked whether the device is trusted, and then one or two store       *)
(* transactions run with the clock reading of the start.  Everything may   *)
(* happen in between, and a service may stop at any point.                 *)
(*                                                                         *)
(* The unique indexes on pending challenges, live reservations and active  *)
(* bindings are not guards here: the properties say that the code never    *)
(* gets to the point where one of them has to refuse.                      *)
(*                                                                         *)
(* Operators whose name begins with Wrong are deliberate mistakes a change *)
(* to the code could make; no action uses them.                            *)
(***************************************************************************)
EXTENDS Naturals

CONSTANTS
  Services,          \* processes that own a binding service
  Peers,             \* authenticated Keryx peers
  Operations,        \* caller-supplied operation ids
  MaxGeneration,     \* bound: the last binding generation
  MaxTime,           \* bound: the last instant of the clock
  ChallengeTtl,      \* challenge_ttl of the services
  AuthorizationTtl,  \* lifetime the owner gives an authorization
  NoKey, NoNonce, NoService, NoPeer

Generations == 1..MaxGeneration
Times == 0..MaxTime
Actions == {"rotate", "revoke"}

\* Reservations, challenges and confirmations are keyed by peer and operation.
Keys == [peer : Peers, operation : Operations]

\* A nonce is fresh per completed issuance; a service completes one at a time.
Nonces == [key : Keys, service : Services]

ASSUME BoundsAssumption ==
  /\ MaxGeneration \in Nat \ {0}
  /\ MaxTime \in Nat

ASSUME TtlAssumption ==
  /\ ChallengeTtl \in Nat \ {0}
  /\ AuthorizationTtl \in Nat \ {0}

ASSUME SentinelAssumption ==
  /\ NoKey \notin Keys
  /\ NoNonce \notin Nonces
  /\ NoService \notin Services
  /\ NoPeer \notin Peers

VARIABLES
  state,          \* n6_binding_records.binding_state, by generation
  revision,       \* its revision
  since,          \* when it was created or, later, confirmed
  peer,           \* its verified_peer_id
  reservation,    \* n6_challenge_reservations, by key
  challenge,      \* n6_binding_challenges, by the key of their reservation
  confirmation,   \* n6_control_operations, by key
  authorization,  \* n6_binding_authorizations, by generation and action
  fenced,         \* generations with unresolved Fleet authority (N7)
  clock,          \* N6Clock
  delivered,      \* nonces that reached their caller
  pc,             \* where each service is
  call            \* the command it is running

record == <<state, revision, since, peer>>
ceremony == <<reservation, challenge, confirmation>>
worker == <<pc, call>>
vars == <<state, revision, since, peer, reservation, challenge, confirmation,
          authorization, fenced, clock, delivered, pc, call>>

BindingStates == {"none", "pending", "active", "rotated", "revoked"}
Steps == {"idle", "generation", "reserve", "complete", "confirm", "authorize",
          "retire"}

Reservations == [state : {"none", "reserved", "issued", "abandoned"},
                 generation : Generations \cup {0}, at : Times]
Challenges == [state : {"none", "pending", "consumed", "invalidated"},
               service : Services \cup {NoService}, consumed : Times]
Confirmations == [generation : Generations \cup {0}, nonce : Nonces \cup {NoNonce}]
Authorizations == [state : {"none", "pending", "consumed"},
                   revision : Nat, at : Times, consumed : Times]
Calls == [key : Keys \cup {NoKey}, generation : Generations \cup {0},
          nonce : Nonces \cup {NoNonce}, action : Actions \cup {"none"}, at : Times]

TypeOK ==
  /\ state \in [Generations -> BindingStates]
  /\ revision \in [Generations -> Nat]
  /\ since \in [Generations -> Times]
  /\ peer \in [Generations -> Peers \cup {NoPeer}]
  /\ reservation \in [Keys -> Reservations]
  /\ challenge \in [Keys -> Challenges]
  /\ confirmation \in [Keys -> Confirmations]
  /\ authorization \in [Generations -> [Actions -> Authorizations]]
  /\ fenced \subseteq Generations
  /\ clock \in Times
  /\ delivered \subseteq Nonces
  /\ pc \in [Services -> Steps]
  /\ call \in [Services -> Calls]

Idle == [key |-> NoKey, generation |-> 0, nonce |-> NoNonce,
         action |-> "none", at |-> 0]

Init ==
  /\ state = [g \in Generations |-> "none"]
  /\ revision = [g \in Generations |-> 0]
  /\ since = [g \in Generations |-> 0]
  /\ peer = [g \in Generations |-> NoPeer]
  /\ reservation = [k \in Keys |-> [state |-> "none", generation |-> 0, at |-> 0]]
  /\ challenge = [k \in Keys |-> [state |-> "none", service |-> NoService, consumed |-> 0]]
  /\ confirmation = [k \in Keys |-> [generation |-> 0, nonce |-> NoNonce]]
  /\ authorization = [g \in Generations |-> [a \in Actions |->
       [state |-> "none", revision |-> 0, at |-> 0, consumed |-> 0]]]
  /\ fenced = {}
  /\ clock = 0
  /\ delivered = {}
  /\ pc = [w \in Services |-> "idle"]
  /\ call = [w \in Services |-> Idle]

-----------------------------------------------------------------------------
(***************************************************************************)
(* Commands                                                                *)
(***************************************************************************)

\* The public method reads the clock and queues the command.
Queue(w, step, command) ==
  /\ pc[w] = "idle"
  /\ pc' = [pc EXCEPT ![w] = step]
  /\ call' = [call EXCEPT ![w] = [command EXCEPT !.at = clock]]
  /\ UNCHANGED <<record, ceremony, authorization, fenced, clock, delivered>>

Return(w) ==
  /\ pc' = [pc EXCEPT ![w] = "idle"]
  /\ call' = [call EXCEPT ![w] = Idle]

\* The command ends and the store is as it was: the provider does not vouch
\* for the device, the transaction refuses, replays an earlier answer or
\* aborts, or the process stops.  All of these look alike from the store.
Leave(w) ==
  /\ pc[w] # "idle"
  /\ Return(w)
  /\ UNCHANGED <<record, ceremony, authorization, fenced, clock, delivered>>

-----------------------------------------------------------------------------
(***************************************************************************)
(* Issuing a challenge                                                     *)
(***************************************************************************)
Expires(k) == reservation[k].at + ChallengeTtl

LiveReservations(g) ==
  {k \in Keys : reservation[k].state = "reserved" /\ reservation[k].generation = g}

PendingChallenges(g) ==
  {k \in Keys : challenge[k].state = "pending" /\ reservation[k].generation = g}

IssueChallenge(w, k) == Queue(w, "generation", [Idle EXCEPT !.key = k])

\* n6_challenge_generation: the newest pending generation, or the initial one
\* for a device without any; read outside the reservation's transaction.
ChallengeGeneration(g) ==
  \/ /\ state[g] = "pending"
     /\ \A h \in Generations : state[h] = "pending" => h <= g
  \/ g = 1 /\ \A h \in Generations : state[h] = "none"

ReadGeneration(w, g) ==
  /\ pc[w] = "generation"
  /\ ChallengeGeneration(g)
  /\ pc' = [pc EXCEPT ![w] = "reserve"]
  /\ call' = [call EXCEPT ![w].generation = g]
  /\ UNCHANGED <<record, ceremony, authorization, fenced, clock, delivered>>

\* n6_challenge_fingerprint covers generation and expiry, and the expiry is
\* the instant of the call plus the configured lifetime.
SameRequest(w, r) == r.generation = call[w].generation /\ r.at = call[w].at

Resumable(w) ==
  LET r == reservation[call[w].key] IN r.state = "reserved" /\ SameRequest(w, r)

ReserveResumed(w) ==
  /\ pc[w] = "reserve"
  /\ Resumable(w)
  /\ pc' = [pc EXCEPT ![w] = "complete"]
  /\ UNCHANGED <<record, ceremony, authorization, fenced, clock, delivered, call>>

Challengeable(g) == state[g] = "pending" \/ (g = 1 /\ state[g] = "none")

\* Invalidating a challenge or abandoning a reservation before it was made is
\* refused (n6_decision_live_subject_fence and the checks on both tables).
ReplacesNoLaterOne(g, at) ==
  \A k \in LiveReservations(g) \cup PendingChallenges(g) : reservation[k].at <= at

WrongKeepsReserved(g) == reservation

Abandoned(g) ==
  [k \in Keys |-> IF k \in LiveReservations(g)
                  THEN [reservation[k] EXCEPT !.state = "abandoned"]
                  ELSE reservation[k]]

WrongKeepsChallenge(g) == challenge

WrongAbandonsChallenge(g) ==
  [k \in Keys |-> IF k \in PendingChallenges(g)
                  THEN [challenge[k] EXCEPT !.state = "abandoned"]
                  ELSE challenge[k]]

\* invalidate_n6_pending_challenge
Invalidated(g) ==
  [k \in Keys |-> IF k \in PendingChallenges(g)
                  THEN [challenge[k] EXCEPT !.state = "invalidated"]
                  ELSE challenge[k]]

\* reserve_n6_binding_challenge: a new reservation replaces whatever ceremony
\* the pending binding had; a device's first one creates the binding.
ReserveNew(w) ==
  LET k == call[w].key
      g == call[w].generation
      at == call[w].at IN
  /\ pc[w] = "reserve"
  /\ reservation[k].state = "none"
  /\ Challengeable(g)
  /\ ReplacesNoLaterOne(g, at)
  /\ state' = [state EXCEPT ![g] = "pending"]
  /\ revision' = [revision EXCEPT ![g] = 1]
  /\ since' = [since EXCEPT ![g] = IF state[g] = "none" THEN at ELSE @]
  /\ challenge' = Invalidated(g)
  /\ reservation' = [Abandoned(g) EXCEPT ![k] =
                       [state |-> "reserved", generation |-> g, at |-> at]]
  /\ pc' = [pc EXCEPT ![w] = "complete"]
  /\ UNCHANGED <<peer, confirmation, authorization, fenced, clock, delivered, call>>

WrongCompletable(r) == r.state \in {"reserved", "issued"}

Completable(r) == r.state = "reserved"

\* complete_n6_binding_challenge: the nonce exists from here on; its answer
\* may never reach the caller.
Complete(w) ==
  LET k == call[w].key
      nonce == [key |-> k, service |-> w] IN
  /\ pc[w] = "complete"
  /\ Completable(reservation[k])
  /\ state[reservation[k].generation] = "pending"
  /\ challenge' = [challenge EXCEPT ![k] =
                     [state |-> "pending", service |-> w, consumed |-> 0]]
  /\ reservation' = [reservation EXCEPT ![k].state = "issued"]
  /\ delivered' \in {delivered, delivered \cup {nonce}}
  /\ Return(w)
  /\ UNCHANGED <<record, confirmation, authorization, fenced, clock>>

-----------------------------------------------------------------------------
(***************************************************************************)
(* Confirming                                                              *)
(***************************************************************************)

\* Any peer may present any nonce that was handed out, under any operation id
\* and for any generation.
ConfirmBinding(w, k, g, n) ==
  Queue(w, "confirm", [Idle EXCEPT !.key = k, !.generation = g, !.nonce = n])

WrongVerifies(c, n) == TRUE

\* The stored verifier matches exactly the nonce of the issuance.
Verifies(c, n) == n = [key |-> c, service |-> challenge[c].service]

WrongAnyPeer(w, c) == TRUE

ExpectedPeer(w, c) == c.peer = call[w].key.peer

Accepts(w, c) ==
  /\ c \in PendingChallenges(call[w].generation)
  /\ ExpectedPeer(w, c)
  /\ reservation[c].at <= call[w].at
  /\ call[w].at < Expires(c)
  /\ Verifies(c, call[w].nonce)

\* confirm_n6_authenticated_binding: an operation id that was used before is
\* only answered; otherwise the challenge is consumed, the binding activated
\* and the operation recorded in one transaction.
Confirm(w, c) ==
  LET k == call[w].key
      g == call[w].generation
      at == call[w].at IN
  /\ pc[w] = "confirm"
  /\ confirmation[k].generation = 0
  /\ Accepts(w, c)
  /\ state[g] = "pending"
  /\ since[g] <= at
  /\ challenge' = [challenge EXCEPT ![c].state = "consumed", ![c].consumed = at]
  /\ state' = [state EXCEPT ![g] = "active"]
  /\ revision' = [revision EXCEPT ![g] = @ + 1]
  /\ since' = [since EXCEPT ![g] = at]
  /\ peer' = [peer EXCEPT ![g] = k.peer]
  /\ confirmation' = [confirmation EXCEPT ![k] =
                        [generation |-> g, nonce |-> call[w].nonce]]
  /\ Return(w)
  /\ UNCHANGED <<reservation, authorization, fenced, clock, delivered>>

-----------------------------------------------------------------------------
(***************************************************************************)
(* Owner authority: authorize, rotate, revoke                              *)
(***************************************************************************)
Eligible(action) == IF action = "rotate" THEN {"active"} ELSE {"pending", "active"}

AuthorizeBinding(w, g, a) ==
  Queue(w, "authorize", [Idle EXCEPT !.generation = g, !.action = a])

\* issue_n6_binding_authorization: for the revision of this moment, and only
\* while no other authorization for the action is pending
\* (n6_one_pending_authorization_per_action; none is ever settled but by use).
Authorize(w) ==
  LET g == call[w].generation
      a == call[w].action IN
  /\ pc[w] = "authorize"
  /\ state[g] \in Eligible(a)
  /\ authorization[g][a].state # "pending"
  /\ authorization' = [authorization EXCEPT ![g][a] =
       [state |-> "pending", revision |-> revision[g],
        at |-> call[w].at, consumed |-> 0]]
  /\ Return(w)
  /\ UNCHANGED <<record, ceremony, fenced, clock, delivered>>

\* The owner presents the authorization it was issued.
RetireBinding(w, g, a) ==
  /\ authorization[g][a].state # "none"
  /\ Queue(w, "retire", [Idle EXCEPT !.generation = g, !.action = a])

WrongAnyRevision(g, z) == TRUE

ExactRevision(g, z) == z.revision = revision[g]

\* Intent validation, the row snapshot and the consumption trigger.
Authorized(w) ==
  LET g == call[w].generation
      z == authorization[g][call[w].action] IN
  /\ z.state = "pending"
  /\ ExactRevision(g, z)
  /\ z.at <= call[w].at
  /\ call[w].at < z.at + AuthorizationTtl

WrongUnfenced(g) == TRUE

\* n6_fleet_authority_is_unresolved_tx
Unfenced(g) == g \notin fenced

MayRetire(w, a) ==
  LET g == call[w].generation IN
  /\ pc[w] = "retire"
  /\ call[w].action = a
  /\ Authorized(w)
  /\ state[g] \in Eligible(a)
  /\ since[g] <= call[w].at
  /\ Unfenced(g)

Consume(g, a, at) ==
  authorization' = [authorization EXCEPT ![g][a].state = "consumed",
                                         ![g][a].consumed = at]

\* The successor is inserted pending in the transaction that rotates.
Successor(s, g) == [s EXCEPT ![g] = "rotated", ![g + 1] = "pending"]

\* rotate_n6_binding
Rotate(w) ==
  LET g == call[w].generation IN
  /\ MayRetire(w, "rotate")
  /\ g < MaxGeneration
  /\ state' = Successor(state, g)
  /\ revision' = [revision EXCEPT ![g] = @ + 1, ![g + 1] = 1]
  /\ since' = [since EXCEPT ![g + 1] = call[w].at]
  /\ Consume(g, "rotate", call[w].at)
  /\ Return(w)
  /\ UNCHANGED <<peer, ceremony, fenced, clock, delivered>>

\* revoke_n6_binding
Revoke(w) ==
  LET g == call[w].generation IN
  /\ MayRetire(w, "revoke")
  /\ \A k \in PendingChallenges(g) : reservation[k].at <= call[w].at
  /\ challenge' = Invalidated(g)
  /\ state' = [state EXCEPT ![g] = "revoked"]
  /\ revision' = [revision EXCEPT ![g] = @ + 1]
  /\ Consume(g, "revoke", call[w].at)
  /\ Return(w)
  /\ UNCHANGED <<since, peer, reservation, confirmation, fenced, clock, delivered>>

-----------------------------------------------------------------------------
(***************************************************************************)
(* N7 and time                                                             *)
(***************************************************************************)

\* A dispatch under the binding is recorded, which needs it active; later
\* Fleet evidence resolves it.
Fence(g) ==
  /\ state[g] = "active"
  /\ fenced' = fenced \cup {g}
  /\ UNCHANGED <<record, ceremony, authorization, clock, delivered, worker>>

Release(g) ==
  /\ fenced' = fenced \ {g}
  /\ UNCHANGED <<record, ceremony, authorization, clock, delivered, worker>>

Tick ==
  /\ clock < MaxTime
  /\ clock' = clock + 1
  /\ UNCHANGED <<record, ceremony, authorization, fenced, delivered, worker>>

-----------------------------------------------------------------------------
Call(w) ==
  \/ \E k \in Keys : IssueChallenge(w, k)
  \/ \E k \in Keys, g \in Generations, n \in delivered : ConfirmBinding(w, k, g, n)
  \/ \E g \in Generations, a \in Actions : AuthorizeBinding(w, g, a) \/ RetireBinding(w, g, a)

Run(w) ==
  \/ \E g \in Generations : ReadGeneration(w, g)
  \/ ReserveResumed(w)
  \/ ReserveNew(w)
  \/ Complete(w)
  \/ \E c \in Keys : Confirm(w, c)
  \/ Authorize(w)
  \/ Rotate(w)
  \/ Revoke(w)
  \/ Leave(w)

Next ==
  \/ \E w \in Services : Call(w) \/ Run(w)
  \/ \E g \in Generations : Fence(g) \/ Release(g)
  \/ Tick

Spec == Init /\ [][Next]_vars

-----------------------------------------------------------------------------
(***************************************************************************)
(* Properties                                                              *)
(***************************************************************************)

\* docs/n6 "a new challenge for a still-pending binding invalidates its prior
\* pending challenge and abandons an unissued prior reservation": however the
\* two transactions of several issuances interleave, a binding has one live
\* ceremony at most, so neither unique index ever has to refuse.
OneLiveCeremony ==
  \A g \in Generations : \A k, l \in LiveReservations(g) \cup PendingChallenges(g) : k = l

\* Confirmation, revocation and rotation leave no challenge behind that could
\* still be confirmed, and a late completion creates none.
LiveChallengeIsOnPending ==
  \A k \in Keys :
    challenge[k].state = "pending" => state[reservation[k].generation] = "pending"

Consumed(c, g) == challenge[c].state = "consumed" /\ reservation[c].generation = g

\* docs/n6 "neither path turns a different peer or a consumed, invalidated or
\* expired challenge into an active binding": a verified peer stands on the
\* one consumed challenge of its generation, which expected that very peer,
\* was unexpired by the consuming command's clock and had been handed out.
ActivatedByItsChallenge ==
  \A g \in Generations :
    /\ state[g] \in {"active", "rotated"} => peer[g] # NoPeer
    /\ peer[g] # NoPeer =>
         \E c \in Keys :
           /\ Consumed(c, g)
           /\ \A d \in Keys : Consumed(d, g) => d = c
           /\ c.peer = peer[g]
           /\ reservation[c].at <= challenge[c].consumed
           /\ challenge[c].consumed < Expires(c)
           /\ [key |-> c, service |-> challenge[c].service] \in delivered

\* A binding is activated by its newest challenge, by the clock of the calls:
\* replacing a lost response really retires the lost nonce, even when the
\* replaced issuance was queued first and runs last.
NewestChallengeActivates ==
  \A g \in Generations, c, k \in Keys :
    /\ Consumed(c, g)
    /\ reservation[k].state = "issued"
    /\ reservation[k].generation = g
    => reservation[k].at <= reservation[c].at

\* Generations come only from rotating a confirmed predecessor, so at most the
\* last one is live (docs/n6 "exactly generation + 1").
RotationChain ==
  \A g \in Generations :
    /\ g > 1 /\ state[g] # "none" => state[g - 1] = "rotated"
    /\ state[g] = "rotated" => g < MaxGeneration /\ state[g + 1] # "none" /\ peer[g] # NoPeer

\* "Both actions require the exact expected revision; stale or reused
\* authorizations fail closed": a retired binding used up one authorization
\* for that action, of the revision it had, within its lifetime, issued and
\* used no earlier than the row it retires last changed; and no authorization
\* is used up without retiring its binding.
RetiredByExactAuthority ==
  \A g \in Generations, a \in Actions :
    LET z == authorization[g][a]
        retired == IF a = "rotate" THEN "rotated" ELSE "revoked" IN
    /\ state[g] = retired <=> z.state = "consumed"
    /\ z.state = "consumed" =>
         /\ z.revision + 1 = revision[g]
         /\ z.at <= z.consumed
         /\ z.consumed < z.at + AuthorizationTtl
         /\ since[g] <= z.consumed

\* "It never produces another nonce": services that resume the same
\* reservation, or retry it after a lost response, hand out one nonce at most,
\* and it is the one the stored verifier accepts.
OneNoncePerOperation ==
  \A n \in delivered :
    /\ challenge[n.key].state # "none"
    /\ n.service = challenge[n.key].service

\* A replayed confirmation is answered from its operation row: the row names a
\* binding activated by that very nonce for that very peer, and no two
\* operations claim the same binding.
ConfirmationsAreFaithful ==
  \A k \in Keys :
    LET g == confirmation[k].generation
        n == confirmation[k].nonce IN
    g # 0 =>
      /\ n \in delivered
      /\ Consumed(n.key, g)
      /\ n.service = challenge[n.key].service
      /\ k.peer = peer[g]
      /\ \A l \in Keys : confirmation[l].generation = g => l = k

Lifecycle == INSTANCE BindingLifecycle

\* The N6 store keeps the binding lifecycle N7 relies on, fence included.
KeepsLifecycle == Lifecycle!Spec

\* docs/n6 "Revocation accepts pending, active, or stale bindings" and "local
\* durable revocation remains available": the owner of a live binding holds a
\* usable revoke authorization or can still be issued one.
RevocationStaysAvailable ==
  \A g \in Generations :
    LET z == authorization[g]["revoke"] IN
    state[g] \in Eligible("revoke") /\ z.state # "none"
      => ExactRevision(g, z) /\ clock < z.at + AuthorizationTtl

=============================================================================
