-------------------------- MODULE ProviderAdoption --------------------------
(***************************************************************************)
(* N2 observation of the provider, and adoption of a node found there.     *)
(*                                                                         *)
(* Reconcilers (each cycle of the daemon, and every --once process) read   *)
(* the clock, list the provider's nodes, and apply the whole list in one   *)
(* transaction (nodescale-state/src/lib.rs, reconcile_read_only).  Runs of *)
(* nodescale-adopt issue one owner-authorized action each, pinned to the   *)
(* observation as it stands, and confirm it with a fresh read of the       *)
(* provider (nodescale-state/src/n5.rs).  The owner may expire an action,  *)
(* and revoke the authority of a run or the root.  The processes share     *)
(* nothing but the store; anything may happen between the reading of the   *)
(* clock, the answer of the provider and the transaction.                  *)
(*                                                                         *)
(* The unique indexes are not guards here: the properties do not need      *)
(* them.  Operators whose name begins with Wrong are deliberate mistakes a *)
(* change to the code could make; no action uses them.                     *)
(***************************************************************************)
EXTENDS Naturals

CONSTANTS
  Nodes,          \* provider node ids
  MachineKeys,    \* stable: they identify the machine
  NodeKeys,       \* current: they rotate
  Reconcilers,    \* processes that run observation cycles
  Tools,          \* runs of nodescale-adopt, by authorization operation id
  Authorities,    \* trust authorities that may adopt
  MaxGeneration,  \* bound: the last semantic generation of an observation
  MaxTime,        \* bound: the last instant of the clock
  ActionTtl,      \* the five minutes an action stays open
  Absent, NoNode, NoTool, NoAuthority

Times == 0..MaxTime
Generations == 0..MaxGeneration

\* A node as the provider lists it.  "expired" stands for everything about it
\* that is neither key.
Records == [machine : MachineKeys, key : NodeKeys, expired : BOOLEAN]
Listed == Records \cup {Absent}
Pictures == [Nodes -> Listed]

ASSUME BoundsAssumption ==
  /\ MaxGeneration \in Nat
  /\ MaxTime \in Nat

ASSUME TtlAssumption == ActionTtl \in Nat \ {0}

ASSUME SentinelAssumption ==
  /\ Absent \notin Records
  /\ NoNode \notin Nodes
  /\ NoTool \notin Tools
  /\ NoAuthority \notin Authorities

VARIABLES
  provider,     \* what the provider holds, by node
  observation,  \* provider_observations, by node
  action,       \* n5_adoption_actions, by the run that issued it
  root,         \* the owner trust root is enabled
  revoked,      \* trust authorities that were revoked
  clock,
  cycle,        \* what each reconciler is doing
  tool,         \* what each run is doing
  shown         \* history: the runs whose evidence the provider held since the issue

vars == <<provider, observation, action, root, revoked, clock, cycle, tool, shown>>

Classes == {"none", "discovered_unmanaged", "provider_expired",
            "provider_missing", "identity_conflict"}
AdoptionStates == {"unmanaged", "pending_device_credential_proof", "adopted"}
ActionStates == {"none", "proof_pending", "confirmed", "conflicted", "expired"}

Observations == [class : Classes, record : Listed, generation : Generations,
                 adoption : AdoptionStates, device : Tools \cup {NoTool}]
Actions == [state : ActionStates, authority : Authorities \cup {NoAuthority},
            node : Nodes \cup {NoNode}, record : Listed, generation : Generations,
            issued : Times, expires : Nat]
Cycles == [step : {"idle", "list", "apply"}, at : Times, picture : Pictures]
Runs == [step : {"idle", "issue", "reread", "confirm"},
         authority : Authorities \cup {NoAuthority}, node : Nodes \cup {NoNode},
         at : Times, told : Listed]

TypeOK ==
  /\ provider \in Pictures
  /\ observation \in [Nodes -> Observations]
  /\ action \in [Tools -> Actions]
  /\ root \in BOOLEAN
  /\ revoked \subseteq Authorities
  /\ clock \in Times
  /\ cycle \in [Reconcilers -> Cycles]
  /\ tool \in [Tools -> Runs]
  /\ shown \subseteq Tools

IdleCycle == [step |-> "idle", at |-> 0, picture |-> [n \in Nodes |-> Absent]]
IdleRun == [step |-> "idle", authority |-> NoAuthority, node |-> NoNode,
            at |-> 0, told |-> Absent]

\* A network imported when its provider held no node; the nodes an import
\* would have found are those of the first cycle.
Init ==
  /\ provider \in Pictures
  /\ observation = [n \in Nodes |->
       [class |-> "none", record |-> Absent, generation |-> 0,
        adoption |-> "unmanaged", device |-> NoTool]]
  /\ action = [t \in Tools |->
       [state |-> "none", authority |-> NoAuthority, node |-> NoNode,
        record |-> Absent, generation |-> 0, issued |-> 0, expires |-> 0]]
  /\ root = TRUE
  /\ revoked = {}
  /\ clock = 0
  /\ cycle = [r \in Reconcilers |-> IdleCycle]
  /\ tool = [t \in Tools |-> IdleRun]
  /\ shown = {}

-----------------------------------------------------------------------------
(***************************************************************************)
(* Observation                                                             *)
(***************************************************************************)

\* run_cycle: the clock reading becomes the snapshot_at of the cycle.
BeginCycle(r) ==
  /\ cycle[r].step = "idle"
  /\ cycle' = [cycle EXCEPT ![r].step = "list", ![r].at = clock]
  /\ UNCHANGED <<provider, observation, action, root, revoked, clock, tool, shown>>

ListNodes(r) ==
  /\ cycle[r].step = "list"
  /\ cycle' = [cycle EXCEPT ![r].step = "apply", ![r].picture = provider]
  /\ UNCHANGED <<provider, observation, action, root, revoked, clock, tool, shown>>

\* The provider fails or is refused, the transaction aborts, the process stops.
AbandonCycle(r) ==
  /\ cycle[r].step # "idle"
  /\ cycle' = [cycle EXCEPT ![r] = IdleCycle]
  /\ UNCHANGED <<provider, observation, action, root, revoked, clock, tool, shown>>

\* next_classification; no observation is ever given the classes it preserves.
Classify(listed) == IF listed.expired THEN "provider_expired" ELSE "discovered_unmanaged"

\* The class and the record an observation takes on.  Another machine under a
\* known node id is a conflict, and what was recorded stays.
Seen(o, listed) ==
  IF listed = Absent
  THEN [class |-> IF o.class = "none" THEN "none" ELSE "provider_missing",
        record |-> o.record]
  ELSE IF o.class # "none" /\ listed.machine # o.record.machine
  THEN [class |-> "identity_conflict", record |-> o.record]
  ELSE [class |-> Classify(listed), record |-> listed]

Changes(o, listed) ==
  \/ Seen(o, listed).class # o.class
  \/ Seen(o, listed).record # o.record

\* What a change of the observation makes of an adoption.
AdoptionAfter(o) ==
  IF o.adoption = "pending_device_credential_proof" THEN "unmanaged" ELSE o.adoption

Observed(o, listed) ==
  IF Changes(o, listed)
  THEN [o EXCEPT !.class = Seen(o, listed).class, !.record = Seen(o, listed).record,
                 !.generation = @ + 1, !.adoption = AdoptionAfter(o)]
  ELSE o

Pending(t) == action[t].state = "proof_pending"

WrongTerminalized(r) ==
  {t \in Tools :
     /\ Pending(t)
     /\ observation[action[t].node].adoption = "pending_device_credential_proof"
     /\ cycle[r].picture[action[t].node] # Absent
     /\ Changes(observation[action[t].node], cycle[r].picture[action[t].node])}

\* terminalize_pending_adoption_for_observation: the actions the change of
\* their observation ends.
Terminalized(r) ==
  {t \in Tools :
     /\ Pending(t)
     /\ observation[action[t].node].adoption = "pending_device_credential_proof"
     /\ Changes(observation[action[t].node], cycle[r].picture[action[t].node])}

WrongMayTerminalize(t, at) == TRUE

\* The row check terminal_at_ms >= issued_at_ms, with snapshot_at as terminal_at.
MayTerminalize(t, at) == at >= action[t].issued

WrongOutcome == "rejected"

\* How such an action ends.
Outcome == "conflicted"

\* reconcile_read_only: the transaction, for all nodes or none.
Reconcile(r) ==
  LET after == [n \in Nodes |-> Observed(observation[n], cycle[r].picture[n])] IN
  /\ cycle[r].step = "apply"
  /\ \A n \in Nodes : after[n].generation <= MaxGeneration
  /\ \A t \in Terminalized(r) : MayTerminalize(t, cycle[r].at)
  /\ observation' = after
  /\ action' = [t \in Tools |->
       IF t \in Terminalized(r) THEN [action[t] EXCEPT !.state = Outcome] ELSE action[t]]
  /\ cycle' = [cycle EXCEPT ![r] = IdleCycle]
  /\ UNCHANGED <<provider, root, revoked, clock, tool, shown>>

-----------------------------------------------------------------------------
(***************************************************************************)
(* Adoption                                                                *)
(***************************************************************************)

\* Everything below leaves the provider, the clock, the root and the
\* reconcilers alone.
LeavesRest == UNCHANGED <<provider, root, revoked, clock, cycle>>

Return(t) == tool' = [tool EXCEPT ![t] = IdleRun]

\* The call ends and the store is as it was: refused, aborted, replayed, or
\* the process stopped.
Leave(t) ==
  /\ tool[t].step # "idle"
  /\ Return(t)
  /\ UNCHANGED <<observation, action, shown>>
  /\ LeavesRest

\* nodescale-adopt reads the clock and calls; an authorization operation id
\* that issued an action is used up.
BeginIssue(t, a, n) ==
  /\ tool[t].step = "idle"
  /\ action[t].state = "none"
  /\ tool' = [tool EXCEPT ![t] =
       [step |-> "issue", authority |-> a, node |-> n, at |-> clock, told |-> Absent]]
  /\ UNCHANGED <<observation, action, shown>>
  /\ LeavesRest

\* The exact unmanaged observation an action may be issued for.
Adoptable(o) ==
  /\ o.class = "discovered_unmanaged"
  /\ o.adoption = "unmanaged"
  /\ o.device = NoTool

Authorized(a) == root /\ a \notin revoked

\* The provider holds the node, unexpired, with the keys of the record.
Backs(listed, record) ==
  /\ listed # Absent
  /\ ~listed.expired
  /\ listed.machine = record.machine
  /\ listed.key = record.key

\* issue_existing_provider_adoption, and the trigger that marks the observation
Issue(t) ==
  LET n == tool[t].node IN
  /\ tool[t].step = "issue"
  /\ Authorized(tool[t].authority)
  /\ Adoptable(observation[n])
  /\ action' = [action EXCEPT ![t] =
       [state |-> "proof_pending", authority |-> tool[t].authority, node |-> n,
        record |-> observation[n].record, generation |-> observation[n].generation,
        issued |-> tool[t].at, expires |-> tool[t].at + ActionTtl]]
  /\ observation' = [observation EXCEPT ![n].adoption = "pending_device_credential_proof"]
  /\ shown' = IF Backs(provider[n], observation[n].record) THEN shown \cup {t} ELSE shown
  /\ Return(t)
  /\ LeavesRest

\* confirm_existing_provider_adoption up to the provider: the clock reading
\* and the observation are those of the start.
BeginConfirm(t) ==
  LET n == action[t].node IN
  /\ tool[t].step = "idle"
  /\ action[t].state # "none"
  /\ tool' = [tool EXCEPT ![t] =
       [step |-> "reread", authority |-> action[t].authority, node |-> n,
        at |-> clock, told |-> observation[n].record]]
  /\ UNCHANGED <<observation, action, shown>>
  /\ LeavesRest

\* get_node finds the node under the identity of the observation.  Its node
\* key is the one the target proved, or the call ends.
Reread(t) ==
  LET current == provider[tool[t].node] IN
  /\ tool[t].step = "reread"
  /\ current # Absent
  /\ current.machine = tool[t].told.machine
  /\ ~current.expired
  /\ tool' = [tool EXCEPT ![t].step = "confirm", ![t].told = current]
  /\ UNCHANGED <<observation, action, shown>>
  /\ LeavesRest

\* The observation is the one the action was issued for.
Unchanged(t) ==
  LET o == observation[action[t].node] IN
  /\ o.device = NoTool
  /\ o.generation = action[t].generation
  /\ o.record = action[t].record
  /\ o.adoption = "pending_device_credential_proof"

WrongProven(t) ==
  LET o == observation[action[t].node] IN
  /\ o.record.machine = action[t].record.machine
  /\ o.record.key = action[t].record.key

\* The provider's fresh answer carries the pinned keys.
Proven(t) ==
  /\ tool[t].told.machine = action[t].record.machine
  /\ tool[t].told.key = action[t].record.key

WrongConfirmable(t) ==
  /\ action[t].state # "none"
  /\ action[t].issued <= tool[t].at
  /\ tool[t].at < action[t].expires

\* The action is open, by the clock reading of the start of the call.
Confirmable(t) ==
  /\ Pending(t)
  /\ action[t].issued <= tool[t].at
  /\ tool[t].at < action[t].expires

\* The transaction of confirm_existing_provider_adoption: identity, binding,
\* trust, evidence and decision together.
Confirm(t) ==
  LET n == action[t].node IN
  /\ tool[t].step = "confirm"
  /\ Confirmable(t)
  /\ Authorized(action[t].authority)
  /\ Unchanged(t)
  /\ Proven(t)
  /\ observation[n].class = "discovered_unmanaged"
  /\ action' = [action EXCEPT ![t].state = "confirmed"]
  /\ observation' = [observation EXCEPT ![n].adoption = "adopted", ![n].device = t]
  /\ Return(t)
  /\ UNCHANGED shown
  /\ LeavesRest

\* expire_existing_provider_adoption.  The owner's clock reading may be old,
\* but it is past the deadline.
Expire(t) ==
  LET n == action[t].node IN
  /\ Pending(t)
  /\ clock >= action[t].expires
  /\ root
  /\ Unchanged(t)
  /\ action' = [action EXCEPT ![t].state = "expired"]
  /\ observation' = [observation EXCEPT ![n].adoption = "unmanaged"]
  /\ UNCHANGED <<tool, shown>>
  /\ LeavesRest

\* revoke_n5_owner_trust_root: for good, as a network has one root, and with it
\* every authority.
RevokeRoot ==
  /\ root
  /\ root' = FALSE
  /\ revoked' = Authorities
  /\ UNCHANGED <<provider, observation, action, clock, cycle, tool, shown>>

\* revoke_n5_trust_authority
RevokeAuthority(a) ==
  /\ root
  /\ a \notin revoked
  /\ revoked' = revoked \cup {a}
  /\ UNCHANGED <<provider, observation, action, root, clock, cycle, tool, shown>>

-----------------------------------------------------------------------------
\* At the provider nodes come, go, expire, rotate their key, or turn up as
\* another machine.
ProviderChanges(n, listed) ==
  /\ listed # provider[n]
  /\ provider' = [provider EXCEPT ![n] = listed]
  /\ shown' = shown \cup
       {t \in Tools : action[t].node = n /\ Backs(listed, action[t].record)}
  /\ UNCHANGED <<observation, action, root, revoked, clock, cycle, tool>>

Tick ==
  /\ clock < MaxTime
  /\ clock' = clock + 1
  /\ UNCHANGED <<provider, observation, action, root, revoked, cycle, tool, shown>>

Observing(r) == BeginCycle(r) \/ ListNodes(r) \/ Reconcile(r) \/ AbandonCycle(r)

Adopting(t) ==
  \/ \E a \in Authorities, n \in Nodes : BeginIssue(t, a, n)
  \/ Issue(t) \/ BeginConfirm(t) \/ Reread(t) \/ Confirm(t) \/ Leave(t)

Owning ==
  \/ \E t \in Tools : Expire(t)
  \/ RevokeRoot
  \/ \E a \in Authorities : RevokeAuthority(a)

Next ==
  \/ \E r \in Reconcilers : Observing(r)
  \/ \E t \in Tools : Adopting(t)
  \/ Owning
  \/ \E n \in Nodes, listed \in Listed : ProviderChanges(n, listed)
  \/ Tick

Spec == Init /\ [][Next]_vars

-----------------------------------------------------------------------------
(***************************************************************************)
(* Properties                                                              *)
(***************************************************************************)

\* An open action always stands on the observation it was issued for, still
\* discovered and unchanged, so that it can be confirmed or expired; and an
\* observation that waits for a proof has an action that can end the wait.
\* Reconciliation, confirmation and expiry, of several processes, each keep
\* the two tables together in a transaction of their own.
PendingIsPinned ==
  /\ \A t \in Tools : Pending(t) =>
       /\ Unchanged(t)
       /\ observation[action[t].node].class = "discovered_unmanaged"
  /\ \A n \in Nodes : observation[n].adoption = "pending_device_credential_proof" =>
       \E t \in Tools : Pending(t) /\ action[t].node = n

\* docs/existing-provider-adoption.md, step 7: a confirmed adoption rests on
\* evidence the provider itself held, unexpired, after the action was issued,
\* whatever the node became before, in between and while the call waited.
ConfirmedWasShown ==
  \A t \in Tools : action[t].state = "confirmed" => t \in shown

\* An observation cycle ends an open action only with a picture that shows
\* something else than the action was issued for, and that was asked for no
\* earlier than the action was issued: a slow cycle cannot undo an adoption
\* that began after it.
EndedByLaterPicture ==
  [][\A t \in Tools : Pending(t) /\ action'[t].state = "conflicted" =>
       \E r \in Reconcilers :
         /\ cycle[r].step = "apply"
         /\ cycle[r].at >= action[t].issued
         /\ cycle[r].picture[action[t].node] # action[t].record]_vars

Phase(t) ==
  CASE action[t].state = "none" -> "new"
    [] action[t].state = "proof_pending" -> "open"
    [] action[t].state = "confirmed" -> "confirmed"
    [] OTHER -> "ended"

Phases == [t \in Tools |-> Phase(t)]
Targets == [t \in Tools |-> action[t].node]
Adopters == [n \in Nodes |-> observation[n].device]

Grant == INSTANCE AdoptionGrant WITH
  Actions <- Tools, NoAction <- NoTool,
  phase <- Phases, target <- Targets, adopter <- Adopters, closed <- ~root

\* Adoption keeps its promise: one action at a time, one device for ever, and
\* nothing after the root.
KeepsGrant == Grant!Spec

=============================================================================
