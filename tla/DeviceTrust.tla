----------------------------- MODULE DeviceTrust -----------------------------
(***************************************************************************)
(* N5: logical devices, their provider bindings and the owner's trust      *)
(* (nodescale-state/src/n5.rs, migrations 0005, 0008, 0009 and 0011;       *)
(* nodescale-device-trust).                                                *)
(*                                                                         *)
(* Two kinds of calls take more than one step.  Confirming an identity and *)
(* reconciling a binding read the store, await the provider, and write in  *)
(* one transaction what the answer calls for; presenting an authorization  *)
(* checks it before its transaction.  Everything else is one transaction.  *)
(* Several processes do this on one store, and each may stop anywhere.     *)
(*                                                                         *)
(* A device is named by the join session it comes from: there is at most   *)
(* one for each.  Nodes are pairs of a node id and a machine key, and      *)
(* registered says whose credential the provider shows for each; a node    *)
(* that is expired or gone shows none.  The clock is left out: that an     *)
(* authorization or a credential is past its time is one of the refusals   *)
(* that change nothing.                                                    *)
(*                                                                         *)
(* Operators whose name begins with Wrong are deliberate mistakes a change *)
(* to the code could make; no action uses them.                            *)
(***************************************************************************)
EXTENDS Naturals

CONSTANTS
  Devices,      \* join sessions with a confirmed credential
  Nodes,        \* provider registrations
  Workers,      \* processes that run N5 commands
  Authorities,  \* trust authorities of the owner root
  Actions,      \* bound: trust authorizations outstanding at one time
  MaxRevision,  \* bound: the last revision of a provider binding
  NoDevice, NoNode

ASSUME RevisionAssumption == MaxRevision \in Nat \ {0}

ASSUME SentinelAssumption ==
  NoDevice \notin Devices /\ NoNode \notin Nodes

VARIABLES
  credential,     \* n4_provider_credential_metadata.invalidation_state
  registered,     \* the credential the provider shows for each node
  root,           \* n5_owner_trust_roots
  authority,      \* n5_trust_authorities
  authorization,  \* n5_trust_authorizations that are not consumed
  trust,          \* n5_device_trust_state.trust_state
  trustRevision,  \* n5_device_trust_state.trust_revision
  binding,        \* n5_provider_bindings.binding_state
  revision,       \* n5_provider_bindings.binding_revision
  node,           \* n5_provider_bindings.provider_node_id, machine key
  membership,     \* devices.membership_state
  overtaken,      \* history: workers whose answer is older than the binding's state
  pc,             \* where each worker is
  call            \* the command it runs, and what it read for it

owner == <<root, authority>>
standing == <<authorization, trust, trustRevision>>
bindings == <<binding, revision, node>>
vars == <<credential, registered, root, authority, authorization, trust,
          trustRevision, binding, revision, node, membership, pc, call, overtaken>>

TrustStates == {"none", "untrusted", "trusted", "revoked"}
BindingStates == {"none", "active", "stale", "cleanup_pending", "removed"}
AuthorityStates == {"none", "enabled", "revoked"}
MembershipStates == {"none", "pending", "active"}
Steps == {"idle", "list", "reread", "persist", "binding", "provider", "exact",
          "doubt", "affirmed"}

Authorizations ==
  [authority : Authorities, device : Devices, expects : {"untrusted", "trusted"},
   revision : Nat, target : {"trusted", "revoked"}]

NoAuthorization == [target |-> "none"]

Calls == [device : Devices \cup {NoDevice}, node : Nodes \cup {NoNode},
          trust : TrustStates,
          binding : BindingStates, revision : Nat]

TypeOK ==
  /\ credential \in [Devices -> {"active", "ended"}]
  /\ registered \in [Nodes -> Devices \cup {NoDevice}]
  /\ root \in AuthorityStates
  /\ authority \in [Authorities -> AuthorityStates]
  /\ authorization \in [Actions -> Authorizations \cup {NoAuthorization}]
  /\ trust \in [Devices -> TrustStates]
  /\ trustRevision \in [Devices -> Nat]
  /\ binding \in [Devices -> BindingStates]
  /\ revision \in [Devices -> Nat]
  /\ node \in [Devices -> Nodes \cup {NoNode}]
  /\ membership \in [Devices -> MembershipStates]
  /\ overtaken \subseteq Workers
  /\ pc \in [Workers -> Steps]
  /\ call \in [Workers -> Calls]

Idle == [device |-> NoDevice, node |-> NoNode,
         trust |-> "none", binding |-> "none", revision |-> 0]

Init ==
  /\ credential = [d \in Devices |-> "active"]
  /\ registered = [n \in Nodes |-> NoDevice]
  /\ root = "none"
  /\ authority = [a \in Authorities |-> "none"]
  /\ authorization = [x \in Actions |-> NoAuthorization]
  /\ trust = [d \in Devices |-> "none"]
  /\ trustRevision = [d \in Devices |-> 0]
  /\ binding = [d \in Devices |-> "none"]
  /\ revision = [d \in Devices |-> 0]
  /\ node = [d \in Devices |-> NoNode]
  /\ membership = [d \in Devices |-> "none"]
  /\ overtaken = {}
  /\ pc = [w \in Workers |-> "idle"]
  /\ call = [w \in Workers |-> Idle]

-----------------------------------------------------------------------------
(***************************************************************************)
(* Around N5: the provider, and N4 cleaning up a credential                *)
(***************************************************************************)
Register(n, d) ==
  /\ registered' = [registered EXCEPT ![n] = d]
  /\ UNCHANGED <<credential, owner, standing, bindings, membership, pc, call, overtaken>>

\* prepare_n4_cleanup leaves the active state for good.
EndCredential(d) ==
  /\ credential' = [credential EXCEPT ![d] = "ended"]
  /\ UNCHANGED <<registered, owner, standing, bindings, membership, pc, call, overtaken>>

-----------------------------------------------------------------------------
(***************************************************************************)
(* Commands                                                                *)
(***************************************************************************)
Start(w, step, c) ==
  /\ pc[w] = "idle"
  /\ pc' = [pc EXCEPT ![w] = step]
  /\ call' = [call EXCEPT ![w] = c]
  /\ UNCHANGED overtaken

\* w goes on with what it knows by now, and the calls of others are behind.
Advance(w, step, c, others) ==
  /\ pc' = [pc EXCEPT ![w] = step]
  /\ call' = [call EXCEPT ![w] = c]
  /\ overtaken' = (overtaken \cup others) \ {w}

GoTo(w, step, c) == Advance(w, step, c, {})

Return(w) == GoTo(w, "idle", Idle)

\* The command ends with the store as it is: a check or a trigger refuses, a
\* read fails, an answer was used, or the process stops.
Leave(w) ==
  /\ pc[w] # "idle"
  /\ Return(w)
  /\ UNCHANGED <<credential, registered, owner, standing, bindings, membership>>

-----------------------------------------------------------------------------
(***************************************************************************)
(* Identity                                                                *)
(***************************************************************************)
\* n5_one_active_binding_per_provider_node and _per_machine_key
NodeFree(d, n) == \A e \in Devices \ {d} : binding[e] = "active" => node[e] # n

\* confirm_n5_device_identity reads the correlation context.
Confirm(w, d) ==
  /\ credential[d] = "active"
  /\ Start(w, "list", [Idle EXCEPT !.device = d])
  /\ UNCHANGED <<credential, registered, owner, standing, bindings, membership>>

\* list_nodes shows exactly one node that registered with the credential.
Select(w, n) ==
  /\ pc[w] = "list"
  /\ {m \in Nodes : registered[m] = call[w].device} = {n}
  /\ GoTo(w, "reread", [call[w] EXCEPT !.node = n])
  /\ UNCHANGED <<credential, registered, owner, standing, bindings, membership>>

\* get_node still shows it.
Reread(w) ==
  /\ pc[w] = "reread"
  /\ registered[call[w].node] = call[w].device
  /\ GoTo(w, "persist", call[w])
  /\ UNCHANGED <<credential, registered, owner, standing, bindings, membership>>

WrongStillCorrelated(d) == binding[d] = "none"

\* The session has no device yet and its credential is active.
StillCorrelated(d) == binding[d] = "none" /\ credential[d] = "active"

\* persist_verified_n5_device_identity: device, identity, binding and trust
\* state in one transaction.  A session that has its device is only answered.
Persist(w) ==
  LET d == call[w].device
      n == call[w].node IN
  /\ pc[w] = "persist"
  /\ StillCorrelated(d)
  /\ NodeFree(d, n)
  /\ binding' = [binding EXCEPT ![d] = "active"]
  /\ revision' = [revision EXCEPT ![d] = 1]
  /\ node' = [node EXCEPT ![d] = n]
  /\ trust' = [trust EXCEPT ![d] = "untrusted"]
  /\ trustRevision' = [trustRevision EXCEPT ![d] = 1]
  /\ membership' = [membership EXCEPT ![d] = "pending"]
  /\ Return(w)
  /\ UNCHANGED <<credential, registered, owner, authorization>>

-----------------------------------------------------------------------------
(***************************************************************************)
(* The provider binding                                                    *)
(***************************************************************************)
\* Calls that hold an answer of the provider about this device.
Answered(d) == {w \in Workers : call[w].device = d /\ pc[w] \in {"exact", "doubt"}}

BindingFollows ==
  [from \in BindingStates |->
     CASE from = "active" -> {"stale", "cleanup_pending"}
       [] from = "stale" -> {"active", "cleanup_pending", "removed"}
       [] from = "cleanup_pending" -> {"removed"}
       [] OTHER -> {}]

Move(d, to) ==
  /\ to \in BindingFollows[binding[d]]
  /\ revision[d] < MaxRevision
  /\ binding' = [binding EXCEPT ![d] = to]
  /\ revision' = [revision EXCEPT ![d] = @ + 1]
  /\ UNCHANGED node

\* mark_n5_provider_binding_stale, _cleanup_pending and _removed, called with
\* the current revision: the others are refused.
MoveByHand(d, to) ==
  /\ to # "active"
  /\ Move(d, to)
  /\ overtaken' = overtaken \cup Answered(d)
  /\ UNCHANGED <<credential, registered, owner, standing, membership, pc, call>>

\* reconcile_n5_provider_binding: load_device_trust_view reads the trust state,
Reconcile(w, d) ==
  /\ trust[d] # "none"
  /\ Start(w, "binding", [Idle EXCEPT !.device = d, !.trust = trust[d]])
  /\ UNCHANGED <<credential, registered, owner, standing, bindings, membership>>

\* and, in another statement, the binding.
ReadBinding(w) ==
  LET d == call[w].device IN
  /\ pc[w] = "binding"
  /\ binding[d] \in {"active", "stale"}
  /\ GoTo(w, "provider", [call[w] EXCEPT !.binding = binding[d], !.revision = revision[d]])
  /\ UNCHANGED <<credential, registered, owner, standing, bindings, membership>>

Answer(w, what) ==
  /\ GoTo(w, what, call[w])
  /\ UNCHANGED <<credential, registered, owner, standing, bindings, membership>>

\* The provider shows the exact node with the device's own credential.
AnswerExact(w) ==
  /\ pc[w] = "provider"
  /\ registered[node[call[w].device]] = call[w].device
  /\ Answer(w, "exact")

\* It shows something else or nothing, or the read fails.
AnswerDoubt(w) == pc[w] = "provider" /\ Answer(w, "doubt")

WrongRevisionIsCurrent(w) == binding[call[w].device] = call[w].binding

\* The fence of both transitions: the binding is where this call read it.
RevisionIsCurrent(w) ==
  /\ binding[call[w].device] = call[w].binding
  /\ revision[call[w].device] = call[w].revision

\* An active binding that cannot be confirmed goes stale.
MarkStale(w) ==
  /\ pc[w] = "doubt"
  /\ call[w].binding = "active"
  /\ RevisionIsCurrent(w)
  /\ Move(call[w].device, "stale")
  /\ Advance(w, "idle", Idle, Answered(call[w].device))
  /\ UNCHANGED <<credential, registered, owner, standing, membership>>

\* currently_trusted: only an affirmative answer is worth remembering.
Affirm(w, state, others) ==
  IF state = "trusted"
  THEN Advance(w, "affirmed", call[w], others)
  ELSE Advance(w, "idle", Idle, others)

\* reactivate_exact_n5_provider_binding answers with a view of its own.
Reactivate(w) ==
  LET d == call[w].device IN
  /\ pc[w] = "exact"
  /\ call[w].binding = "stale"
  /\ RevisionIsCurrent(w)
  /\ NodeFree(d, node[d])
  /\ Move(d, "active")
  /\ Affirm(w, trust[d], Answered(d))
  /\ UNCHANGED <<credential, registered, owner, standing, membership>>

\* An active binding that is confirmed is answered from the view read first.
AnswerView(w) ==
  /\ pc[w] = "exact"
  /\ call[w].binding = "active"
  /\ Affirm(w, call[w].trust, {})
  /\ UNCHANGED <<credential, registered, owner, standing, bindings, membership>>

-----------------------------------------------------------------------------
(***************************************************************************)
(* The owner                                                               *)
(***************************************************************************)
\* One root for the network, ever.
BootstrapRoot ==
  /\ root = "none"
  /\ root' = "enabled"
  /\ UNCHANGED <<credential, registered, authority, standing, bindings, membership, pc, call, overtaken>>

Linked(a) == IF authority[a] = "enabled" THEN "revoked" ELSE authority[a]

\* revoke_n5_owner_trust_root disables the linked authorities with it.
RevokeRoot ==
  /\ root = "enabled"
  /\ root' = "revoked"
  /\ authority' = [a \in Authorities |-> Linked(a)]
  /\ UNCHANGED <<credential, registered, standing, bindings, membership, pc, call, overtaken>>

\* configure_n5_trust_authority (with both capabilities) and
\* revoke_n5_trust_authority
SetAuthority(a, from, to) ==
  /\ root = "enabled"
  /\ authority[a] = from
  /\ authority' = [authority EXCEPT ![a] = to]
  /\ UNCHANGED <<credential, registered, root, standing, bindings, membership, pc, call, overtaken>>

TrustFollows == [none |-> {}, untrusted |-> {"trusted", "revoked"},
                 trusted |-> {"revoked"}, revoked |-> {}]

\* issue_device_trust_authorization, asked with the current revision.
Issue(x, a, d, target) ==
  /\ root = "enabled"
  /\ authority[a] = "enabled"
  /\ authorization[x] = NoAuthorization
  /\ target \in TrustFollows[trust[d]]
  /\ authorization' = [authorization EXCEPT ![x] =
       [authority |-> a, device |-> d, expects |-> trust[d],
        revision |-> trustRevision[d], target |-> target]]
  /\ UNCHANGED <<credential, registered, owner, trust, trustRevision, bindings,
                 membership, pc, call, overtaken>>

\* An authorization outlives its authority.
WrongAuthorized(x) ==
  LET z == authorization[x] IN
  /\ root = "enabled"
  /\ trust[z.device] = z.expects
  /\ trustRevision[z.device] = z.revision
  /\ z.target = "trusted" => binding[z.device] = "active"

\* n5_trust_decision_valid
Authorized(x) ==
  LET z == authorization[x] IN
  /\ root = "enabled"
  /\ authority[z.authority] = "enabled"
  /\ trust[z.device] = z.expects
  /\ trustRevision[z.device] = z.revision
  /\ z.target = "trusted" => binding[z.device] = "active"

\* apply_n5_trust_decision and n5_apply_trust_decision: the decision consumes
\* its authorization and moves the trust state.
Decide(x) ==
  LET d == authorization[x].device IN
  /\ authorization[x] # NoAuthorization
  /\ Authorized(x)
  /\ authorization' = [authorization EXCEPT ![x] = NoAuthorization]
  /\ trust' = [trust EXCEPT ![d] = authorization[x].target]
  /\ trustRevision' = [trustRevision EXCEPT ![d] = @ + 1]
  /\ UNCHANGED <<credential, registered, owner, bindings, membership, pc, call, overtaken>>

WrongMayBeMember(d) == binding[d] = "active"

MayBeMember(d) == trust[d] = "trusted" /\ binding[d] = "active"

\* activate_trusted_device_membership, under the owner's own authority.
ActivateMembership(d, a) ==
  /\ root = "enabled"
  /\ authority[a] = "enabled"
  /\ membership[d] = "pending"
  /\ MayBeMember(d)
  /\ membership' = [membership EXCEPT ![d] = "active"]
  /\ UNCHANGED <<credential, registered, owner, standing, bindings, pc, call, overtaken>>

-----------------------------------------------------------------------------
Work(w) ==
  \/ Reread(w) \/ Persist(w)
  \/ ReadBinding(w) \/ AnswerExact(w) \/ AnswerDoubt(w)
  \/ MarkStale(w) \/ Reactivate(w) \/ AnswerView(w)
  \/ Leave(w)

Next ==
  \/ \E n \in Nodes, d \in Devices \cup {NoDevice} : Register(n, d)
  \/ \E d \in Devices : EndCredential(d)
  \/ \E w \in Workers, d \in Devices : Confirm(w, d) \/ Reconcile(w, d)
  \/ \E w \in Workers, n \in Nodes : Select(w, n)
  \/ \E w \in Workers : Work(w)
  \/ \E d \in Devices, to \in BindingStates : MoveByHand(d, to)
  \/ BootstrapRoot
  \/ RevokeRoot
  \/ \E a \in Authorities :
       SetAuthority(a, "none", "enabled") \/ SetAuthority(a, "enabled", "revoked")
  \/ \E x \in Actions, a \in Authorities, d \in Devices, t \in {"trusted", "revoked"} :
       Issue(x, a, d, t)
  \/ \E x \in Actions : Decide(x)
  \/ \E d \in Devices, a \in Authorities : ActivateMembership(d, a)

Spec == Init /\ [][Next]_vars

-----------------------------------------------------------------------------
(***************************************************************************)
(* Properties                                                              *)
(***************************************************************************)

\* "One provider node, active machine key, or join session cannot create two
\* active logical identities": two devices that confirm, go stale and come
\* back in any order never hold one node together.
OneDevicePerNode ==
  \A d, e \in Devices :
    binding[d] = "active" /\ binding[e] = "active" /\ node[d] = node[e] => d = e

\* confirm_n5_device_identity awaits the provider twice between its read of
\* the credential and its transaction: a device still only comes from a
\* credential that is active, once, and keeps the node it was confirmed on.
IdentityFromLiveCredential ==
  [][\A d \in Devices :
       /\ node[d] # NoNode => node'[d] = node[d]
       /\ node[d] = NoNode /\ node'[d] # NoNode => credential[d] = "active"
    ]_<<node, credential>>

\* A reconciliation stales or reactivates a binding on a provider answer that
\* is newer than the binding's last transition, whoever made that one: an
\* answer that was overtaken is never applied.
BindingFollowsEvidence ==
  [][\A w \in overtaken :
       LET d == call[w].device IN
       pc'[w] # pc[w] => binding'[d] = binding[d]]_<<pc, binding>>

\* "Headscale membership does not imply Nodescale trust", and neither do the
\* identity and the binding: a device becomes an active member, and a call
\* answers that it is currently trusted, only after its owner trusted it.
OwnerTrustedFirst ==
  /\ \A d \in Devices :
       membership[d] = "active" => trust[d] \in {"trusted", "revoked"}
  /\ \A w \in Workers :
       pc[w] = "affirmed" => trust[call[w].device] \in {"trusted", "revoked"}

-----------------------------------------------------------------------------
Live(x) ==
  authorization[x] # NoAuthorization /\ authority[authorization[x].authority] = "enabled"

Asks(x) == [device |-> authorization[x].device, version |-> authorization[x].revision,
            standing |-> authorization[x].target]

\* The owner's standing permits are the unconsumed authorizations of the
\* authorities that are enabled.
Permits == {Asks(x) : x \in {y \in Actions : Live(y)}}

StandingOf == [d \in Devices |-> IF trust[d] = "none" THEN "unknown" ELSE trust[d]]

Bound == {d \in Devices : binding[d] = "active"}

Standing == INSTANCE TrustStanding WITH
  open <- root = "enabled", permits <- Permits, standing <- StandingOf,
  version <- trustRevision, bound <- Bound

\* Whatever processes do in between, the trust of a device moves only by a
\* permit of its owner that still stands, and revocation is the end of it.
KeepsStanding == Standing!Spec

=============================================================================
