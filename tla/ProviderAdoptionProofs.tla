----------------------- MODULE ProviderAdoptionProofs -----------------------
(***************************************************************************)
(* Theorems of ProviderAdoption, for any sets of nodes, keys, processes    *)
(* and authorities, and any bounds.                                        *)
(*                                                                         *)
(* The inductive invariant has five parts besides the types, the pinning   *)
(* and the evidence.  Recorded: an observation that was made has a record, *)
(* unexpired if the node is discovered.  Issued: an action that was issued *)
(* names a node and pins a record.  OneOpen: the row the partial unique    *)
(* index would guard, which the states of the observation already imply.   *)
(* Known: what a run works on is its own action, and if the provider told  *)
(* it of the pinned keys it did so after the issue.  NowShown: evidence    *)
(* the provider holds now counts as shown.                                 *)
(***************************************************************************)
EXTENDS ProviderAdoption, TLAPS

\* An observation that was made has a record.
Recorded ==
  \A n \in Nodes :
    /\ observation[n].class # "none" => observation[n].record \in Records
    /\ observation[n].class = "discovered_unmanaged" => ~observation[n].record.expired

\* What an issued action pins.
Issued ==
  \A t \in Tools :
    action[t].state # "none" =>
      /\ action[t].node \in Nodes
      /\ action[t].authority \in Authorities
      /\ action[t].record \in Records
      /\ ~action[t].record.expired

\* A node has one open action.
OneOpen ==
  \A t, u \in Tools : Pending(t) /\ Pending(u) /\ action[t].node = action[u].node => t = u

\* What a run knows.
Knows(t) ==
  /\ tool[t].step = "issue" =>
       /\ action[t].state = "none"
       /\ tool[t].node \in Nodes
       /\ tool[t].authority \in Authorities
  /\ tool[t].step \in {"reread", "confirm"} =>
       /\ action[t].state # "none"
       /\ tool[t].node = action[t].node
  /\ tool[t].step = "confirm" /\ Proven(t) => t \in shown

\* Every run knows so.
Known == \A t \in Tools : Knows(t)

\* What the provider holds of an issued action, it has shown.
NowShown ==
  \A t \in Tools :
    action[t].state # "none" /\ Backs(provider[action[t].node], action[t].record)
      => t \in shown

IInv ==
  /\ TypeOK
  /\ Recorded
  /\ Issued
  /\ PendingIsPinned
  /\ OneOpen
  /\ Known
  /\ NowShown
  /\ ConfirmedWasShown

-----------------------------------------------------------------------------
(***************************************************************************)
(* Types                                                                   *)
(***************************************************************************)

\* Listing a node leaves its observation within the types, its generation but
\* for the bound, which the reconciliation checks.
LEMMA ObservedTypes ==
  ASSUME NEW o \in Observations, NEW listed \in Listed
  PROVE  /\ Seen(o, listed).class \in Classes
         /\ Seen(o, listed).record \in Listed
         /\ Observed(o, listed).generation \in Nat
         /\ Observed(o, listed).generation <= MaxGeneration => Observed(o, listed) \in Observations
         /\ Observed(o, listed).device = o.device
<1>1. /\ Seen(o, listed).class \in Classes
      /\ Seen(o, listed).record \in Listed
  BY DEF Seen, Classify, Classes, Observations
<1>2. AdoptionAfter(o) \in AdoptionStates
  BY DEF AdoptionAfter, AdoptionStates, Observations
<1>3. CASE Changes(o, listed)
  <2> DEFINE c == Seen(o, listed).class
             r == Seen(o, listed).record
             a == AdoptionAfter(o)
  <2>1. Observed(o, listed) = [o EXCEPT !.class = c, !.record = r,
                                        !.generation = @ + 1, !.adoption = a]
    BY <1>3 DEF Observed
  <2>2. c \in Classes /\ r \in Listed /\ a \in AdoptionStates
    BY <1>1, <1>2
  <2> HIDE DEF c, r, a
  <2>3. /\ Observed(o, listed).generation = o.generation + 1
        /\ Observed(o, listed).device = o.device
        /\ o.generation \in Nat
    BY <2>1 DEF Observations, Generations
  <2>4. o.generation + 1 <= MaxGeneration => Observed(o, listed) \in Observations
    <3>1. o.generation + 1 <= MaxGeneration => o.generation + 1 \in Generations
      BY <2>3, BoundsAssumption DEF Generations
    <3> QED  BY <2>1, <2>2, <3>1 DEF Observations
  <2> QED  BY <1>1, <2>3, <2>4
<1>4. CASE ~Changes(o, listed)
  BY <1>1, <1>4, BoundsAssumption DEF Observed, Observations, Generations
<1> QED  BY <1>3, <1>4

LEMMA IdlesAreTyped == IdleCycle \in Cycles /\ IdleRun \in Runs
<1>1. [n \in Nodes |-> Absent] \in Pictures
  BY DEF Pictures, Listed
<1>2. 0 \in Times
  BY BoundsAssumption DEF Times
<1> QED  BY <1>1, <1>2 DEF IdleCycle, IdleRun, Cycles, Runs, Listed

\* Every step keeps the types.
LEMMA TypeStep ==
  ASSUME TypeOK, Issued, Known, [Next]_vars
  PROVE  TypeOK'
<1> USE DEF LeavesRest, Return
<1>1. ASSUME NEW r \in Reconcilers, BeginCycle(r) \/ ListNodes(r) \/ AbandonCycle(r)
      PROVE  TypeOK'
  <2>1. [cycle[r] EXCEPT !.step = "list", !.at = clock] \in Cycles
    BY DEF TypeOK, Cycles
  <2>2. [cycle[r] EXCEPT !.step = "apply", !.picture = provider] \in Cycles
    BY DEF TypeOK, Cycles
  <2>3. cycle' \in [Reconcilers -> Cycles]
    BY <1>1, <2>1, <2>2, IdlesAreTyped DEF BeginCycle, ListNodes, AbandonCycle, TypeOK
  <2> QED  BY <1>1, <2>3 DEF BeginCycle, ListNodes, AbandonCycle, TypeOK
<1>2. ASSUME NEW r \in Reconcilers, Reconcile(r)
      PROVE  TypeOK'
  <2>1. cycle[r].picture \in Pictures
    BY DEF TypeOK, Cycles
  <2>2. ASSUME NEW n \in Nodes
        PROVE  Observed(observation[n], cycle[r].picture[n]) \in Observations
    <3>1. observation[n] \in Observations /\ cycle[r].picture[n] \in Listed
      BY <2>1 DEF TypeOK, Pictures
    <3>2. Observed(observation[n], cycle[r].picture[n]).generation <= MaxGeneration
      BY <1>2 DEF Reconcile
    <3> QED  BY <3>1, <3>2, ObservedTypes
  <2>3. observation' \in [Nodes -> Observations]
    BY <1>2, <2>2 DEF Reconcile
  <2>4. ASSUME NEW t \in Tools
        PROVE  [action[t] EXCEPT !.state = Outcome] \in Actions
    BY DEF TypeOK, Actions, Outcome, ActionStates
  <2>5. action' \in [Tools -> Actions]
    BY <1>2, <2>4 DEF Reconcile, TypeOK
  <2> QED  BY <1>2, <2>3, <2>5, IdlesAreTyped DEF Reconcile, TypeOK
<1>3. ASSUME NEW t \in Tools, Leave(t)
      PROVE  TypeOK'
  BY <1>3, IdlesAreTyped DEF Leave, TypeOK
<1>4. ASSUME NEW t \in Tools, NEW a \in Authorities, NEW n \in Nodes, BeginIssue(t, a, n)
      PROVE  TypeOK'
  <2>1. [step |-> "issue", authority |-> a, node |-> n, at |-> clock, told |-> Absent] \in Runs
    BY DEF TypeOK, Runs, Listed
  <2> QED  BY <1>4, <2>1 DEF BeginIssue, TypeOK
<1>5. ASSUME NEW t \in Tools, Issue(t)
      PROVE  TypeOK'
  <2>1. tool[t].node \in Nodes /\ tool[t].authority \in Authorities /\ tool[t].at \in Times
    BY <1>5 DEF Issue, Known, Knows, TypeOK, Runs
  <2> DEFINE n == tool[t].node
             o == observation[n]
             x == [state |-> "proof_pending", authority |-> tool[t].authority, node |-> n,
                   record |-> o.record, generation |-> o.generation,
                   issued |-> tool[t].at, expires |-> tool[t].at + ActionTtl]
  <2>2. o \in Observations
    BY <2>1 DEF TypeOK
  <2>3. tool[t].at + ActionTtl \in Nat
    BY <2>1, TtlAssumption DEF Times
  <2>4. x \in Actions
    BY <2>1, <2>2, <2>3 DEF Actions, ActionStates, Observations
  <2>5. action' = [action EXCEPT ![t] = x]
    BY <1>5 DEF Issue
  <2>6. [o EXCEPT !.adoption = "pending_device_credential_proof"] \in Observations
    BY <2>2 DEF Observations, AdoptionStates
  <2>7. observation' \in [Nodes -> Observations]
    BY <1>5, <2>6 DEF Issue, TypeOK
  <2>8. shown' \subseteq Tools
    BY <1>5 DEF Issue, TypeOK
  <2> HIDE DEF x
  <2> QED  BY <1>5, <2>4, <2>5, <2>7, <2>8, IdlesAreTyped DEF Issue, TypeOK
<1>6. ASSUME NEW t \in Tools, BeginConfirm(t)
      PROVE  TypeOK'
  <2>1. /\ action[t].node \in Nodes
        /\ action[t].authority \in Authorities
    BY <1>6 DEF BeginConfirm, Issued
  <2>2. observation[action[t].node].record \in Listed
    BY <2>1 DEF TypeOK, Observations
  <2>3. [step |-> "reread", authority |-> action[t].authority, node |-> action[t].node,
         at |-> clock, told |-> observation[action[t].node].record] \in Runs
    BY <2>1, <2>2 DEF TypeOK, Runs
  <2> QED  BY <1>6, <2>3 DEF BeginConfirm, TypeOK
<1>7. ASSUME NEW t \in Tools, Reread(t)
      PROVE  TypeOK'
  <2>1. tool[t].node \in Nodes
    BY <1>7 DEF Reread, Known, Knows, Issued
  <2>2. provider[tool[t].node] \in Listed
    BY <2>1 DEF TypeOK, Pictures
  <2> DEFINE current == provider[tool[t].node]
  <2>3. tool[t] \in Runs
    BY DEF TypeOK
  <2> HIDE DEF current
  <2>4. [tool[t] EXCEPT !.step = "confirm", !.told = current] \in Runs
    BY <2>2, <2>3 DEF Runs, current
  <2>5. tool' = [tool EXCEPT ![t] = [tool[t] EXCEPT !.step = "confirm", !.told = current]]
    BY <1>7 DEF Reread, current
  <2> QED  BY <1>7, <2>4, <2>5 DEF Reread, TypeOK
<1>8. ASSUME NEW t \in Tools, Confirm(t)
      PROVE  TypeOK'
  <2>1. action[t].node \in Nodes
    BY <1>8 DEF Confirm, Confirmable, Pending, Issued
  <2>2. [action[t] EXCEPT !.state = "confirmed"] \in Actions
    BY DEF TypeOK, Actions, ActionStates
  <2>3. [observation[action[t].node] EXCEPT !.adoption = "adopted", !.device = t] \in Observations
    BY <2>1 DEF TypeOK, Observations, AdoptionStates
  <2> QED  BY <1>8, <2>2, <2>3, IdlesAreTyped DEF Confirm, TypeOK
<1>9. ASSUME NEW t \in Tools, Expire(t)
      PROVE  TypeOK'
  <2>1. action[t].node \in Nodes
    BY <1>9 DEF Expire, Pending, Issued
  <2>2. [action[t] EXCEPT !.state = "expired"] \in Actions
    BY DEF TypeOK, Actions, ActionStates
  <2>3. [observation[action[t].node] EXCEPT !.adoption = "unmanaged"] \in Observations
    BY <2>1 DEF TypeOK, Observations, AdoptionStates
  <2> QED  BY <1>9, <2>2, <2>3 DEF Expire, TypeOK
<1>10. ASSUME RevokeRoot \/ \E a \in Authorities : RevokeAuthority(a)
       PROVE  TypeOK'
  BY <1>10 DEF RevokeRoot, RevokeAuthority, TypeOK
<1>11. ASSUME NEW n \in Nodes, NEW listed \in Listed, ProviderChanges(n, listed)
       PROVE  TypeOK'
  BY <1>11 DEF ProviderChanges, Pictures, TypeOK
<1>12. ASSUME Tick
       PROVE  TypeOK'
  BY <1>12, BoundsAssumption DEF Tick, Times, TypeOK
<1>13. ASSUME UNCHANGED vars
       PROVE  TypeOK'
  BY <1>13 DEF vars, TypeOK
<1> QED
  BY <1>1, <1>2, <1>3, <1>4, <1>5, <1>6, <1>7, <1>8, <1>9, <1>10, <1>11, <1>12, <1>13
     DEF Next, Observing, Adopting, Owning

-----------------------------------------------------------------------------
(***************************************************************************)
(* What a step leaves alone                                                *)
(***************************************************************************)

\* Ends(t, to) == the action is open and takes on a final state.
Ends(t, to) == Pending(t) /\ action'[t] = [action[t] EXCEPT !.state = to]

\* An action is issued, ends in one of three ways, or stays as it is.
LEMMA ActionSteps ==
  ASSUME TypeOK, [Next]_vars, NEW t \in Tools
  PROVE  \/ action'[t] = action[t]
         \/ Issue(t)
         \/ (Confirm(t) /\ Ends(t, "confirmed"))
         \/ (Expire(t) /\ Ends(t, "expired"))
         \/ \E r \in Reconcilers : Reconcile(r) /\ t \in Terminalized(r) /\ Ends(t, "conflicted")
<1>1. action \in [Tools -> Actions]
  BY DEF TypeOK
<1>2. ASSUME NEW r \in Reconcilers, Observing(r)
      PROVE  \/ action'[t] = action[t]
             \/ (Reconcile(r) /\ t \in Terminalized(r) /\ Ends(t, "conflicted"))
  BY <1>2 DEF Observing, BeginCycle, ListNodes, AbandonCycle, Reconcile, Terminalized, Ends, Outcome
<1>3. ASSUME NEW u \in Tools, Adopting(u)
      PROVE  \/ action'[t] = action[t]
             \/ Issue(t)
             \/ (Confirm(t) /\ Ends(t, "confirmed"))
  BY <1>1, <1>3 DEF Adopting, BeginIssue, Issue, BeginConfirm, Reread, Confirm, Confirmable, Leave, Ends
<1>4. ASSUME Owning
      PROVE  action'[t] = action[t] \/ (Expire(t) /\ Ends(t, "expired"))
  BY <1>1, <1>4 DEF Owning, Expire, RevokeRoot, RevokeAuthority, Ends
<1> QED  BY <1>2, <1>3, <1>4 DEF Next, ProviderChanges, Tick, vars

\* What an issued action pins, it pins for good.
LEMMA PinsStay ==
  ASSUME TypeOK, Known, [Next]_vars, NEW t \in Tools, action[t].state # "none"
  PROVE  /\ action'[t].state # "none"
         /\ action'[t].node = action[t].node
         /\ action'[t].authority = action[t].authority
         /\ action'[t].record = action[t].record
         /\ action'[t].generation = action[t].generation
         /\ action'[t].issued = action[t].issued
         /\ Pending(t)' => Pending(t) /\ action'[t] = action[t]
<1>1. ~Issue(t)
  BY DEF Issue, Known, Knows
<1>2. action[t] \in Actions
  BY DEF TypeOK
<1> QED  BY <1>1, <1>2, ActionSteps DEF Ends, Actions, Pending

\* The observation a run or the owner marks, and the others.
LEMMA Marks ==
  ASSUME TypeOK, NEW n \in Nodes, NEW t \in Tools, Issue(t) \/ Confirm(t) \/ Expire(t)
  PROVE  /\ observation'[n].class = observation[n].class
         /\ observation'[n].record = observation[n].record
         /\ observation'[n].generation = observation[n].generation
         /\ Issue(t) =>
              /\ n # tool[t].node => observation'[n] = observation[n]
              /\ n = tool[t].node =>
                   observation'[n].adoption = "pending_device_credential_proof"
              /\ observation'[n].device = observation[n].device
         /\ Confirm(t) =>
              /\ n # action[t].node => observation'[n] = observation[n]
              /\ n = action[t].node => observation'[n].adoption = "adopted"
              /\ n = action[t].node => observation'[n].device = t
         /\ Expire(t) =>
              /\ n # action[t].node => observation'[n] = observation[n]
              /\ n = action[t].node => observation'[n].adoption = "unmanaged"
              /\ observation'[n].device = observation[n].device
<1>1. observation \in [Nodes -> Observations] /\ observation[n] \in Observations
  BY DEF TypeOK
<1>2. ASSUME NEW m, NEW x
      PROVE  /\ n # m => [observation EXCEPT ![m].adoption = x][n] = observation[n]
             /\ n = m => [observation EXCEPT ![m].adoption = x][n] =
                           [observation[n] EXCEPT !.adoption = x]
  BY <1>1
<1>3. ASSUME Issue(t)
      PROVE  /\ n # tool[t].node => observation'[n] = observation[n]
             /\ n = tool[t].node => observation'[n] = [observation[n] EXCEPT !.adoption = "pending_device_credential_proof"]
  <2>1. observation' = [observation EXCEPT ![tool[t].node].adoption = "pending_device_credential_proof"]
    BY <1>3 DEF Issue
  <2> QED  BY <1>2, <2>1, Zenon
<1>4. ASSUME Confirm(t)
      PROVE  /\ n # action[t].node => observation'[n] = observation[n]
             /\ n = action[t].node => observation'[n] = [observation[n] EXCEPT !.adoption = "adopted", !.device = t]
  <2>1. observation' = [observation EXCEPT ![action[t].node].adoption = "adopted", ![action[t].node].device = t]
    BY <1>4 DEF Confirm
  <2> DEFINE m == action[t].node
  <2>2. observation' = [observation EXCEPT ![m].adoption = "adopted", ![m].device = t]
    BY <2>1
  <2> HIDE DEF m
  <2>3. /\ n # m => observation'[n] = observation[n]
        /\ n = m => observation'[n] =
             [observation[n] EXCEPT !.adoption = "adopted", !.device = t]
    BY <1>1, <2>2
  <2> QED  BY <2>3 DEF m
<1>5. ASSUME Expire(t)
      PROVE  /\ n # action[t].node => observation'[n] = observation[n]
             /\ n = action[t].node => observation'[n] = [observation[n] EXCEPT !.adoption = "unmanaged"]
  <2>1. observation' = [observation EXCEPT ![action[t].node].adoption = "unmanaged"]
    BY <1>5 DEF Expire
  <2> QED  BY <1>2, <2>1, Zenon
<1>6. ASSUME Issue(t)
      PROVE  /\ observation'[n].class = observation[n].class
             /\ observation'[n].record = observation[n].record
             /\ observation'[n].generation = observation[n].generation
             /\ observation'[n].device = observation[n].device
             /\ n = tool[t].node =>
                  observation'[n].adoption = "pending_device_credential_proof"
  BY <1>1, <1>3, <1>6 DEF Observations
<1>7. ASSUME Confirm(t)
      PROVE  /\ observation'[n].class = observation[n].class
             /\ observation'[n].record = observation[n].record
             /\ observation'[n].generation = observation[n].generation
             /\ n = action[t].node => observation'[n].adoption = "adopted"
             /\ n = action[t].node => observation'[n].device = t
  BY <1>1, <1>4, <1>7 DEF Observations
<1>8. ASSUME Expire(t)
      PROVE  /\ observation'[n].class = observation[n].class
             /\ observation'[n].record = observation[n].record
             /\ observation'[n].generation = observation[n].generation
             /\ observation'[n].device = observation[n].device
             /\ n = action[t].node => observation'[n].adoption = "unmanaged"
  BY <1>1, <1>5, <1>8 DEF Observations
<1> QED  BY <1>3, <1>4, <1>5, <1>6, <1>7, <1>8, Zenon

\* The steps that write observations.
LEMMA Writers ==
  ASSUME [Next]_vars, \A r \in Reconcilers : ~Reconcile(r),
         \A t \in Tools : ~Issue(t) /\ ~Confirm(t) /\ ~Expire(t)
  PROVE  observation' = observation
  BY DEF Next, Observing, BeginCycle, ListNodes, AbandonCycle, Adopting, BeginIssue, BeginConfirm,
         Reread, Leave, LeavesRest, Owning, RevokeRoot, RevokeAuthority, ProviderChanges, Tick, vars

\* Outside a reconciliation an observation changes only in its adoption.
LEMMA ObservationSteps ==
  ASSUME TypeOK, [Next]_vars, \A r \in Reconcilers : ~Reconcile(r), NEW n \in Nodes
  PROVE  /\ observation'[n].class = observation[n].class
         /\ observation'[n].record = observation[n].record
         /\ observation'[n].generation = observation[n].generation
<1>1. CASE \E t \in Tools : Issue(t) \/ Confirm(t) \/ Expire(t)
  BY <1>1, Marks, Zenon
<1>2. CASE \A t \in Tools : ~Issue(t) /\ ~Confirm(t) /\ ~Expire(t)
  BY <1>2, Writers
<1> QED  BY <1>1, <1>2, Zenon

\* A run changes only by its own steps, and nothing unshows.
LEMMA ToolSteps ==
  ASSUME TypeOK, [Next]_vars, NEW t \in Tools
  PROVE  /\ \/ tool'[t] = tool[t]
            \/ tool'[t] = IdleRun
            \/ \E a \in Authorities, n \in Nodes : BeginIssue(t, a, n)
            \/ BeginConfirm(t)
            \/ Reread(t)
         /\ Issue(t) => tool'[t] = IdleRun
         /\ shown \subseteq shown'
<1>1. tool \in [Tools -> Runs]
  BY DEF TypeOK
<1>2. ASSUME NEW u \in Tools, Adopting(u)
      PROVE  /\ \/ tool'[t] = tool[t]
                \/ tool'[t] = IdleRun
                \/ \E a \in Authorities, n \in Nodes : BeginIssue(t, a, n)
                \/ BeginConfirm(t)
                \/ Reread(t)
             /\ shown \subseteq shown'
  <2>1. ASSUME Issue(u) \/ Confirm(u) \/ Leave(u)
        PROVE  tool'[t] = tool[t] \/ tool'[t] = IdleRun
    BY <1>1, <2>1 DEF Issue, Confirm, Leave, Return
  <2>2. ASSUME ~(Issue(u) \/ Confirm(u) \/ Leave(u)), u # t
        PROVE  tool'[t] = tool[t]
    BY <1>1, <1>2, <2>2 DEF Adopting, BeginIssue, BeginConfirm, Reread
  <2>3. shown \subseteq shown'
    BY <1>2 DEF Adopting, Issue, Confirm, Leave, BeginIssue, BeginConfirm, Reread
  <2> QED  BY <1>2, <2>1, <2>2, <2>3 DEF Adopting
<1>3. ASSUME ~ \E u \in Tools : Adopting(u)
      PROVE  tool'[t] = tool[t] /\ shown \subseteq shown'
  BY <1>3 DEF Next, Observing, BeginCycle, ListNodes, AbandonCycle, Reconcile, Owning, Expire,
              LeavesRest, RevokeRoot, RevokeAuthority, ProviderChanges, Tick, vars
<1>4. Issue(t) => tool'[t] = IdleRun
  BY <1>1 DEF Issue, Return
<1> QED  BY <1>2, <1>3, <1>4

-----------------------------------------------------------------------------
(***************************************************************************)
(* Observations and actions                                                *)
(***************************************************************************)

\* What a reconciliation does to one observation: nothing, or a change that
\* leaves no proof awaited.
LEMMA Reconciled ==
  ASSUME TypeOK, NEW r \in Reconcilers, Reconcile(r), NEW n \in Nodes
  PROVE  /\ ~Changes(observation[n], cycle[r].picture[n]) => observation'[n] = observation[n]
         /\ Changes(observation[n], cycle[r].picture[n]) =>
              /\ observation'[n].class = Seen(observation[n], cycle[r].picture[n]).class
              /\ observation'[n].record = Seen(observation[n], cycle[r].picture[n]).record
              /\ observation'[n].adoption # "pending_device_credential_proof"
         /\ observation'[n].device = observation[n].device
<1> DEFINE o == observation[n]
           p == cycle[r].picture[n]
<1>1. observation'[n] = Observed(o, p)
  BY DEF Reconcile
<1>2. o \in Observations /\ p \in Listed
  BY DEF TypeOK, Cycles, Pictures
<1> HIDE DEF o, p
<1>3. ~Changes(o, p) => Observed(o, p) = o
  BY DEF Observed
<1>4. ASSUME Changes(o, p)
      PROVE  /\ Observed(o, p).class = Seen(o, p).class
             /\ Observed(o, p).record = Seen(o, p).record
             /\ Observed(o, p).adoption # "pending_device_credential_proof"
  <2> DEFINE c == Seen(o, p).class
             rec == Seen(o, p).record
             a == AdoptionAfter(o)
  <2>1. Observed(o, p) = [o EXCEPT !.class = c, !.record = rec,
                                   !.generation = @ + 1, !.adoption = a]
    BY <1>4 DEF Observed
  <2>2. a # "pending_device_credential_proof"
    BY DEF AdoptionAfter
  <2> HIDE DEF c, rec, a
  <2>3. /\ Observed(o, p).class = c
        /\ Observed(o, p).record = rec
        /\ Observed(o, p).adoption = a
    BY <1>2, <2>1 DEF Observations
  <2> QED  BY <2>2, <2>3 DEF c, rec
<1>5. Observed(o, p).device = o.device
  BY <1>2, ObservedTypes
<1> QED  BY <1>1, <1>3, <1>4, <1>5 DEF o, p

\* What a picture makes of an observation is recorded as it should be.
LEMMA SeenIsRecorded ==
  ASSUME NEW o \in Observations, NEW listed \in Listed,
         o.class # "none" => o.record \in Records
  PROVE  /\ Seen(o, listed).class # "none" => Seen(o, listed).record \in Records
         /\ Seen(o, listed).class = "discovered_unmanaged" => ~Seen(o, listed).record.expired
  BY DEF Seen, Classify, Listed, Records

LEMMA RecordedStep ==
  ASSUME TypeOK, Recorded, Issued, Known, [Next]_vars
  PROVE  Recorded'
<1> SUFFICES ASSUME NEW n \in Nodes
             PROVE  /\ observation'[n].class # "none" => observation'[n].record \in Records
                    /\ observation'[n].class = "discovered_unmanaged" =>
                         ~observation'[n].record.expired
  BY DEF Recorded
<1>1. ASSUME NEW r \in Reconcilers, Reconcile(r)
      PROVE  /\ observation'[n].class # "none" => observation'[n].record \in Records
             /\ observation'[n].class = "discovered_unmanaged" =>
                  ~observation'[n].record.expired
  <2>1. observation[n] \in Observations /\ cycle[r].picture[n] \in Listed
    BY DEF TypeOK, Cycles, Pictures
  <2>2. observation[n].class # "none" => observation[n].record \in Records
    BY DEF Recorded
  <2>3. CASE Changes(observation[n], cycle[r].picture[n])
    BY <1>1, <2>1, <2>2, <2>3, Reconciled, SeenIsRecorded
  <2>4. CASE ~Changes(observation[n], cycle[r].picture[n])
    BY <1>1, <2>4, Reconciled DEF Recorded
  <2> QED  BY <2>3, <2>4
<1>2. CASE \A r \in Reconcilers : ~Reconcile(r)
  BY <1>2, ObservationSteps DEF Recorded
<1> QED  BY <1>1, <1>2

\* What an issue pins is what is observed.
LEMMA IssuePins ==
  ASSUME TypeOK, Recorded, Known, NEW t \in Tools, Issue(t)
  PROVE  /\ tool[t].node \in Nodes
         /\ tool[t].authority \in Authorities
         /\ action[t].state = "none"
         /\ Adoptable(observation[tool[t].node])
         /\ observation[tool[t].node].record \in Records
         /\ ~observation[tool[t].node].record.expired
         /\ action'[t].state = "proof_pending"
         /\ action'[t].node = tool[t].node
         /\ action'[t].authority = tool[t].authority
         /\ action'[t].record = observation[tool[t].node].record
         /\ action'[t].generation = observation[tool[t].node].generation
         /\ \A u \in Tools \ {t} : action'[u] = action[u]
<1>1. tool[t].node \in Nodes /\ tool[t].authority \in Authorities /\ action[t].state = "none"
  BY DEF Issue, Known, Knows
<1>2. Adoptable(observation[tool[t].node])
  BY DEF Issue
<1>3. observation[tool[t].node].record \in Records /\ ~observation[tool[t].node].record.expired
  BY <1>1, <1>2 DEF Adoptable, Recorded
<1>4. /\ action'[t] =
           [state |-> "proof_pending", authority |-> tool[t].authority, node |-> tool[t].node,
            record |-> observation[tool[t].node].record,
            generation |-> observation[tool[t].node].generation,
            issued |-> tool[t].at, expires |-> tool[t].at + ActionTtl]
      /\ \A u \in Tools \ {t} : action'[u] = action[u]
  BY DEF Issue, TypeOK
<1> QED  BY <1>1, <1>2, <1>3, <1>4

LEMMA IssuedStep ==
  ASSUME TypeOK, Recorded, Issued, Known, [Next]_vars
  PROVE  Issued'
<1> SUFFICES ASSUME NEW t \in Tools, action'[t].state # "none"
             PROVE  /\ action'[t].node \in Nodes
                    /\ action'[t].authority \in Authorities
                    /\ action'[t].record \in Records
                    /\ ~action'[t].record.expired
  BY DEF Issued
<1>1. CASE Issue(t)
  BY <1>1, IssuePins
<1>2. CASE action[t].state # "none"
  BY <1>2, PinsStay DEF Issued
<1>3. CASE ~Issue(t) /\ action[t].state = "none"
  BY <1>3, ActionSteps DEF Ends, Pending
<1> QED  BY <1>1, <1>2, <1>3

-----------------------------------------------------------------------------
(***************************************************************************)
(* Pinning                                                                 *)
(***************************************************************************)

\* An action that confirms or expires was the open one of its node.
LEMMA EndsOwn ==
  ASSUME TypeOK, Known, [Next]_vars, NEW t \in Tools, Confirm(t) \/ Expire(t)
  PROVE  Pending(t) /\ action'[t].state \in {"confirmed", "expired"} /\ ~Issue(t)
         /\ \A u \in Tools \ {t} : action'[u] = action[u]
<1>1. Pending(t) /\ ~Issue(t)
  BY DEF Confirm, Confirmable, Expire, Pending, Issue, Known, Knows
<1>2. action'[t].state \in {"confirmed", "expired"} /\ \A u \in Tools \ {t} : action'[u] = action[u]
  BY DEF Confirm, Expire, TypeOK, Actions
<1> QED  BY <1>1, <1>2

\* A reconciliation changes no observation an action left open stands on.
LEMMA ReconcilePins ==
  ASSUME TypeOK, Issued, PendingIsPinned, NEW r \in Reconcilers, Reconcile(r),
         NEW t \in Tools, Pending(t), action'[t] = action[t]
  PROVE  observation'[action[t].node] = observation[action[t].node]
<1>1. action[t].node \in Nodes
  BY DEF Issued, Pending
<1>2. t \notin Terminalized(r)
  BY DEF Reconcile, Outcome, TypeOK, Actions, Pending
<1>3. ~Changes(observation[action[t].node], cycle[r].picture[action[t].node])
  BY <1>2 DEF Terminalized, PendingIsPinned, Unchanged
<1> QED  BY <1>1, <1>3, Reconciled

\* The observation of an action that stays open stays as it is.
LEMMA OpenStays ==
  ASSUME TypeOK, Recorded, Issued, Known, PendingIsPinned, OneOpen, [Next]_vars,
         NEW t \in Tools, Pending(t), action'[t] = action[t]
  PROVE  observation'[action[t].node] = observation[action[t].node]
<1>1. action[t].node \in Nodes
  BY DEF Issued, Pending
<1>2. ASSUME NEW u \in Tools, Issue(u)
      PROVE  observation'[action[t].node] = observation[action[t].node]
  <2>1. tool[u].node # action[t].node
    BY <1>2, IssuePins DEF Adoptable, PendingIsPinned, Unchanged
  <2> QED  BY <1>1, <1>2, <2>1, Marks
<1>3. ASSUME NEW u \in Tools, Confirm(u) \/ Expire(u)
      PROVE  observation'[action[t].node] = observation[action[t].node]
  <2>1. u # t
    BY <1>3, EndsOwn DEF Pending
  <2>2. action[u].node # action[t].node
    BY <1>3, <2>1, EndsOwn DEF OneOpen
  <2> QED  BY <1>1, <1>3, <2>2, Marks
<1> QED  BY <1>2, <1>3, ReconcilePins, Writers

LEMMA PinnedStep ==
  ASSUME TypeOK, Recorded, Issued, Known, PendingIsPinned, OneOpen, [Next]_vars
  PROVE  PendingIsPinned'
<1>1. ASSUME NEW t \in Tools, Pending(t)'
      PROVE  Unchanged(t)' /\ observation'[action'[t].node].class = "discovered_unmanaged"
  <2>1. CASE Issue(t)
    <3>1. tool[t].node \in Nodes
      BY <2>1, IssuePins
    <3> QED  BY <2>1, <3>1, IssuePins, Marks DEF Unchanged, Adoptable
  <2>2. CASE ~Issue(t)
    <3>1. Pending(t) /\ action'[t] = action[t]
      BY <1>1, <2>2, ActionSteps, PinsStay DEF Ends, Pending
    <3> QED  BY <3>1, OpenStays DEF PendingIsPinned, Unchanged
  <2> QED  BY <2>1, <2>2
<1>2. ASSUME NEW n \in Nodes, observation'[n].adoption = "pending_device_credential_proof"
      PROVE  \E t \in Tools : Pending(t)' /\ action'[t].node = n
  <2>1. CASE \E t \in Tools : Issue(t) /\ tool[t].node = n
    BY <2>1, IssuePins DEF Pending
  <2>2. CASE \A t \in Tools : ~(Issue(t) /\ tool[t].node = n)
    <3>1. ASSUME NEW r \in Reconcilers, Reconcile(r)
          PROVE  /\ observation'[n] = observation[n]
                 /\ \A t \in Tools : action[t].node = n => action'[t] = action[t]
      <4>1. ~Changes(observation[n], cycle[r].picture[n])
        BY <1>2, <3>1, Reconciled
      <4>2. \A t \in Tools : action[t].node = n => t \notin Terminalized(r)
        BY <4>1 DEF Terminalized
      <4> QED  BY <3>1, <4>1, <4>2, Reconciled DEF Reconcile
    <3>2. ASSUME NEW t \in Tools, Issue(t)
          PROVE  /\ observation'[n] = observation[n]
                 /\ \A u \in Tools : Pending(u) => action'[u] = action[u]
      BY <2>2, <3>2, Marks, IssuePins DEF Pending
    <3>3. ASSUME NEW t \in Tools, Confirm(t) \/ Expire(t)
          PROVE  /\ observation'[n] = observation[n]
                 /\ \A u \in Tools : action[u].node = n => action'[u] = action[u]
      <4>1. action[t].node # n
        BY <1>2, <3>3, Marks
      <4> QED  BY <3>3, <4>1, Marks, EndsOwn
    <3>4. ASSUME \A r \in Reconcilers : ~Reconcile(r),
                 \A t \in Tools : ~Issue(t) /\ ~Confirm(t) /\ ~Expire(t)
          PROVE  /\ observation'[n] = observation[n]
                 /\ \A u \in Tools : action'[u] = action[u]
      BY <3>4, Writers, ActionSteps
    <3>5. /\ observation'[n] = observation[n]
          /\ \A t \in Tools : Pending(t) /\ action[t].node = n => action'[t] = action[t]
      BY <3>1, <3>2, <3>3, <3>4
    <3>6. PICK t \in Tools : Pending(t) /\ action[t].node = n
      BY <1>2, <3>5 DEF PendingIsPinned
    <3> QED  BY <3>5, <3>6 DEF Pending
  <2> QED  BY <2>1, <2>2
<1> QED  BY <1>1, <1>2 DEF PendingIsPinned

LEMMA OneOpenStep ==
  ASSUME TypeOK, Recorded, Issued, Known, PendingIsPinned, OneOpen, [Next]_vars
  PROVE  OneOpen'
<1> SUFFICES ASSUME NEW t \in Tools, NEW u \in Tools, Pending(t)', Pending(u)',
                    action'[t].node = action'[u].node, t # u
             PROVE  FALSE
  BY DEF OneOpen
<1>1. ASSUME NEW v \in Tools, Pending(v)', ~Issue(v)
      PROVE  Pending(v) /\ action'[v] = action[v]
  <2>1. action[v] \in Actions
    BY DEF TypeOK
  <2>2. action'[v].state = "proof_pending"
    BY <1>1 DEF Pending
  <2> QED  BY <1>1, <2>1, <2>2, ActionSteps DEF Ends, Pending, Actions
<1>2. ASSUME NEW v \in Tools, NEW w \in Tools, Issue(v), w # v, Pending(w)',
             action'[v].node = action'[w].node
      PROVE  FALSE
  <2>1. action'[w] = action[w] /\ action'[v].node = tool[v].node
    BY <1>2, IssuePins
  <2>2. observation[tool[v].node].adoption = "unmanaged"
    BY <1>2, IssuePins DEF Adoptable
  <2> QED  BY <1>2, <2>1, <2>2 DEF PendingIsPinned, Unchanged, Pending
<1> QED  BY <1>1, <1>2 DEF OneOpen

-----------------------------------------------------------------------------
(***************************************************************************)
(* Evidence                                                                *)
(***************************************************************************)

\* A run that goes on knows what it knew, as its action pins what it pinned.
LEMMA StillKnows ==
  ASSUME TypeOK, Known, [Next]_vars, NEW t \in Tools, tool'[t] = tool[t]
  PROVE  Knows(t)'
<1>1. Issue(t) => tool'[t].step = "idle"
  BY ToolSteps DEF IdleRun
<1>2. tool[t].step = "issue" /\ ~Issue(t) => action'[t] = action[t]
  BY ActionSteps DEF Known, Knows, Ends, Pending
<1>3. tool[t].step \in {"reread", "confirm"} =>
        /\ action'[t].state # "none"
        /\ action'[t].node = action[t].node
        /\ action'[t].record = action[t].record
  BY PinsStay DEF Known, Knows
<1>4. shown \subseteq shown'
  BY ToolSteps
<1> QED  BY <1>1, <1>2, <1>3, <1>4 DEF Known, Knows, Proven

LEMMA KnownStep ==
  ASSUME TypeOK, Issued, Known, NowShown, [Next]_vars
  PROVE  Known'
<1> SUFFICES ASSUME NEW t \in Tools
             PROVE  Knows(t)'
  BY DEF Known
<1>1. CASE tool'[t] = tool[t]
  BY <1>1, StillKnows
<1>2. CASE tool'[t] = IdleRun
  BY <1>2 DEF Knows, IdleRun
<1>3. ASSUME NEW a \in Authorities, NEW n \in Nodes, BeginIssue(t, a, n)
      PROVE  Knows(t)'
  BY <1>3 DEF BeginIssue, Knows, TypeOK
<1>4. CASE BeginConfirm(t)
  BY <1>4 DEF BeginConfirm, Knows, TypeOK
<1>5. CASE Reread(t)
  <2> DEFINE current == provider[tool[t].node]
  <2>1. tool[t] \in Runs /\ tool \in [Tools -> Runs]
    BY DEF TypeOK
  <2>2. /\ tool' = [tool EXCEPT ![t].step = "confirm", ![t].told = current]
        /\ current # Absent
        /\ ~current.expired
        /\ action' = action
        /\ shown' = shown
    BY <1>5 DEF Reread
  <2> HIDE DEF current
  <2>3. /\ tool'[t].step = "confirm"
        /\ tool'[t].told = current
        /\ tool'[t].node = tool[t].node
    BY <2>1, <2>2 DEF Runs
  <2>4. action[t].state # "none" /\ tool[t].node = action[t].node
    BY <1>5 DEF Reread, Known, Knows
  <2>5. Proven(t)' => t \in shown
    BY <2>2, <2>3, <2>4 DEF Proven, NowShown, Backs, current
  <2> QED  BY <2>2, <2>3, <2>4, <2>5 DEF Knows
<1> QED  BY <1>1, <1>2, <1>3, <1>4, <1>5, ToolSteps

LEMMA NowShownStep ==
  ASSUME TypeOK, Recorded, Issued, Known, NowShown, [Next]_vars
  PROVE  NowShown'
<1> SUFFICES ASSUME NEW t \in Tools, action'[t].state # "none",
                    Backs(provider'[action'[t].node], action'[t].record)
             PROVE  t \in shown'
  BY DEF NowShown, Backs
<1>1. CASE Issue(t)
  <2>1. provider' = provider
    BY <1>1 DEF Issue, LeavesRest
  <2>2. Backs(provider[tool[t].node], observation[tool[t].node].record)
    BY <1>1, <2>1, IssuePins
  <2> QED  BY <1>1, <2>2 DEF Issue
<1>2. CASE ~Issue(t)
  <2>1. action[t].state # "none"
    BY <1>2, ActionSteps DEF Ends, Pending
  <2>2. action'[t].node = action[t].node /\ action'[t].record = action[t].record
    BY <2>1, PinsStay
  <2>3. ASSUME NEW n \in Nodes, NEW listed \in Listed, ProviderChanges(n, listed)
        PROVE  t \in shown'
    <3>1. CASE action[t].node = n
      <4>1. provider'[n] = listed
        BY <2>3 DEF ProviderChanges, TypeOK, Pictures
      <4> QED  BY <2>2, <2>3, <3>1, <4>1 DEF ProviderChanges
    <3>2. CASE action[t].node # n
      <4>1. provider'[action[t].node] = provider[action[t].node]
        BY <2>1, <2>3, <3>2 DEF ProviderChanges, TypeOK, Pictures, Issued
      <4> QED  BY <2>1, <2>2, <2>3, <4>1 DEF ProviderChanges, NowShown
    <3> QED  BY <3>1, <3>2
  <2>4. CASE \A n \in Nodes, listed \in Listed : ~ProviderChanges(n, listed)
    <3>1. provider' = provider
      BY <2>4 DEF Next, Observing, BeginCycle, ListNodes, AbandonCycle, Reconcile, Adopting,
                  BeginIssue, Issue, BeginConfirm, Reread, Confirm, Leave, Owning, Expire,
                  LeavesRest, RevokeRoot, RevokeAuthority, Tick, vars
    <3> QED  BY <2>1, <2>2, <3>1, ToolSteps DEF NowShown
  <2> QED  BY <2>3, <2>4
<1> QED  BY <1>1, <1>2

LEMMA ConfirmedStep ==
  ASSUME TypeOK, Recorded, Known, ConfirmedWasShown, [Next]_vars
  PROVE  ConfirmedWasShown'
<1> SUFFICES ASSUME NEW t \in Tools, action'[t].state = "confirmed"
             PROVE  t \in shown'
  BY DEF ConfirmedWasShown
<1>1. shown \subseteq shown'
  BY ToolSteps
<1>2. action[t] \in Actions
  BY DEF TypeOK
<1>3. ~Issue(t)
  BY IssuePins
<1>4. action'[t] = action[t] \/ Confirm(t)
  BY <1>2, <1>3, ActionSteps DEF Ends, Actions
<1>5. CASE Confirm(t)
  BY <1>1, <1>5 DEF Confirm, Known, Knows
<1> QED  BY <1>1, <1>4, <1>5 DEF ConfirmedWasShown

-----------------------------------------------------------------------------
LEMMA InitialInvariant == Init => IInv
<1> SUFFICES ASSUME Init
             PROVE  IInv
  OBVIOUS
<1>1. 0 \in Times /\ 0 \in Generations
  BY BoundsAssumption DEF Times, Generations
<1>2. observation \in [Nodes -> Observations]
  BY <1>1 DEF Init, Observations, Classes, Listed, AdoptionStates
<1>3. action \in [Tools -> Actions]
  BY <1>1 DEF Init, Actions, ActionStates, Listed
<1>4. TypeOK
  BY <1>1, <1>2, <1>3, IdlesAreTyped DEF Init, TypeOK
<1>5. Known
  BY DEF Init, Known, Knows, IdleRun
<1>6. Recorded /\ Issued /\ PendingIsPinned /\ OneOpen /\ NowShown /\ ConfirmedWasShown
  BY DEF Init, Recorded, Issued, PendingIsPinned, Pending, OneOpen, NowShown, ConfirmedWasShown
<1> QED  BY <1>4, <1>5, <1>6 DEF IInv

LEMMA InductiveInvariant == IInv /\ [Next]_vars => IInv'
  BY TypeStep, RecordedStep, IssuedStep, PinnedStep, OneOpenStep, KnownStep, NowShownStep,
     ConfirmedStep DEF IInv

\* The inductive invariant holds in every state of every run.
THEOREM Invariance == Spec => []IInv
  BY InitialInvariant, InductiveInvariant, PTL DEF Spec

\* Every variable keeps its type: among others no run puts an action into a
\* state its table does not know.
THEOREM TypeCorrect == Spec => []TypeOK
<1>1. IInv => TypeOK
  BY DEF IInv
<1> QED  BY <1>1, Invariance, PTL

\* An open action stands on the observation it was issued for, and a wait for
\* a proof can be ended, with any number of cycles, runs and nodes.
THEOREM OpenIsPinned == Spec => []PendingIsPinned
<1>1. IInv => PendingIsPinned
  BY DEF IInv
<1> QED  BY <1>1, Invariance, PTL

\* Whoever is adopted was shown by the provider, with the pinned keys and
\* unexpired, after the owner's action was issued.
THEOREM AdoptionIsEvidenced == Spec => []ConfirmedWasShown
<1>1. IInv => ConfirmedWasShown
  BY DEF IInv
<1> QED  BY <1>1, Invariance, PTL

-----------------------------------------------------------------------------
\* A picture of exactly what was pinned changes nothing.
LEMMA PinnedPictureIsNoChange ==
  ASSUME TypeOK, Issued, PendingIsPinned, NEW t \in Tools, Pending(t)
  PROVE  ~Changes(observation[action[t].node], action[t].record)
<1>1. action[t].record \in Records /\ ~action[t].record.expired
  BY DEF Issued, Pending
<1>2. /\ observation[action[t].node].record = action[t].record
      /\ observation[action[t].node].class = "discovered_unmanaged"
  BY DEF PendingIsPinned, Unchanged
<1> QED  BY <1>1, <1>2, SentinelAssumption DEF Changes, Seen, Classify

LEMMA EndedStep ==
  ASSUME IInv, [Next]_vars, NEW t \in Tools, Pending(t), action'[t].state = "conflicted"
  PROVE  \E r \in Reconcilers :
           /\ cycle[r].step = "apply"
           /\ cycle[r].at >= action[t].issued
           /\ cycle[r].picture[action[t].node] # action[t].record
<1>1. action[t] \in Actions /\ ~Issue(t)
  BY DEF IInv, TypeOK, Pending, Issue, Known, Knows
<1>2. PICK r \in Reconcilers : Reconcile(r) /\ t \in Terminalized(r)
  BY <1>1, ActionSteps DEF IInv, Ends, Pending, Actions
<1>3. Changes(observation[action[t].node], cycle[r].picture[action[t].node])
  BY <1>2 DEF Terminalized
<1>4. cycle[r].picture[action[t].node] # action[t].record
  BY <1>3, PinnedPictureIsNoChange DEF IInv
<1> QED  BY <1>2, <1>4 DEF Reconcile, MayTerminalize

\* Only a picture asked for since the issue, and that shows something else,
\* ends an open action.
THEOREM EndIsByLaterPicture == Spec => EndedByLaterPicture
<1>1. IInv /\ [Next]_vars =>
        [\A t \in Tools : Pending(t) /\ action'[t].state = "conflicted" =>
           \E r \in Reconcilers :
             /\ cycle[r].step = "apply"
             /\ cycle[r].at >= action[t].issued
             /\ cycle[r].picture[action[t].node] # action[t].record]_vars
  BY EndedStep
<1> QED  BY <1>1, Invariance, PTL DEF Spec, EndedByLaterPicture

-----------------------------------------------------------------------------
(***************************************************************************)
(* Refinement: ProviderAdoption keeps AdoptionGrant                        *)
(***************************************************************************)

LEMMA InitKeepsGrant == Init => Grant!Init
  BY DEF Init, Grant!Init, Phases, Phase, Targets, Adopters

\* A picture ends the actions whose observations it changes.
LEMMA ReconcileEnds ==
  ASSUME IInv, NEW r \in Reconcilers, Reconcile(r)
  PROVE  Grant!Next
<1> DEFINE ended == Terminalized(r)
<1>1. ended \in SUBSET Tools /\ \A t \in ended : Pending(t)
  BY DEF Terminalized
<1>2. ASSUME NEW t \in Tools
      PROVE  /\ Phase(t)' = IF t \in ended THEN "ended" ELSE Phase(t)
             /\ action'[t].node = action[t].node
  <2>1. action'[t] = IF t \in ended THEN [action[t] EXCEPT !.state = Outcome] ELSE action[t]
    BY DEF Reconcile
  <2>2. action[t] \in Actions
    BY DEF IInv, TypeOK
  <2> QED  BY <2>1, <2>2 DEF Actions, Outcome, Phase
<1>3. ASSUME NEW n \in Nodes
      PROVE  observation'[n].device = observation[n].device
  BY Reconciled DEF IInv
<1>4. Adopters' = Adopters /\ Targets' = Targets
  BY <1>2, <1>3 DEF Adopters, Targets
<1>5. \A t \in ended : Phases[t] = "open"
  BY <1>1 DEF Phases, Phase, Pending
<1>6. Phases' = [t \in Tools |-> IF t \in ended THEN "ended" ELSE Phases[t]]
  BY <1>2 DEF Phases
<1>7. root' = root
  BY DEF Reconcile
<1> HIDE DEF ended
<1>8. Grant!End(ended)
  BY <1>4, <1>5, <1>6, <1>7 DEF Grant!End
<1> QED  BY <1>1, <1>8 DEF Grant!Next

\* An issue opens an action for a node that is free.
LEMMA IssueOpens ==
  ASSUME IInv, NEW t \in Tools, Issue(t)
  PROVE  Grant!Next
<1> DEFINE n == tool[t].node
<1> USE DEF IInv
<1>1. n \in Nodes
  BY IssuePins
<1>2. root /\ root' = root
  BY DEF Issue, Authorized, LeavesRest
<1>3. Phases[t] = "new"
  BY IssuePins DEF Phases, Phase
<1>4. observation[n].device = NoTool /\ observation[n].adoption = "unmanaged"
  BY DEF Issue, Adoptable
<1>5. ASSUME NEW u \in Tools, Phases[u] = "open"
      PROVE  Targets[u] # n
  <2>1. Pending(u)
    BY <1>5 DEF Phases, Phase, Pending
  <2>2. observation[action[u].node].adoption = "pending_device_credential_proof"
    BY <2>1 DEF PendingIsPinned, Unchanged
  <2> QED  BY <1>4, <2>2 DEF Targets
<1>6. Grant!Free(n)
  BY <1>1, <1>4, <1>5 DEF Grant!Free, Adopters
<1>7. ASSUME NEW u \in Tools
      PROVE  /\ Phase(u)' = IF u = t THEN "open" ELSE Phase(u)
             /\ action'[u].node = IF u = t THEN n ELSE action[u].node
  BY IssuePins DEF Phase
<1>8. Phases' = [Phases EXCEPT ![t] = "open"] /\ Targets' = [Targets EXCEPT ![t] = n]
  BY <1>7 DEF Phases, Targets
<1>9. Adopters' = Adopters
  BY Marks DEF Adopters
<1> HIDE DEF n
<1>10. Grant!Open(t, n)
  BY <1>2, <1>3, <1>6, <1>8, <1>9 DEF Grant!Open
<1> QED  BY <1>1, <1>10 DEF Grant!Next

\* A confirmation adopts a node nobody adopted.
LEMMA ConfirmAdopts ==
  ASSUME IInv, [Next]_vars, NEW t \in Tools, Confirm(t)
  PROVE  Grant!Next
<1> DEFINE n == action[t].node
<1> USE DEF IInv
<1>1. Pending(t) /\ n \in Nodes
  BY EndsOwn DEF Issued, Pending
<1>2. root /\ root' = root
  BY DEF Confirm, Authorized, LeavesRest
<1>3. Phases[t] = "open" /\ Targets[t] = n
  BY <1>1 DEF Phases, Phase, Pending, Targets
<1>4. Adopters[n] = NoTool
  BY <1>1 DEF Confirm, Unchanged, Adopters
<1>5. ASSUME NEW u \in Tools
      PROVE  /\ Phase(u)' = IF u = t THEN "confirmed" ELSE Phase(u)
             /\ action'[u].node = action[u].node
  <2>1. action[t] \in Actions /\ action'[t] = [action[t] EXCEPT !.state = "confirmed"]
    BY DEF Confirm, TypeOK
  <2> QED  BY <2>1, EndsOwn DEF Phase, Actions
<1>6. Phases' = [Phases EXCEPT ![t] = "confirmed"] /\ Targets' = Targets
  BY <1>5 DEF Phases, Targets
<1>7. ASSUME NEW m \in Nodes
      PROVE  observation'[m].device = IF m = n THEN t ELSE observation[m].device
  BY Marks
<1>8. Adopters' = [Adopters EXCEPT ![n] = t]
  BY <1>7 DEF Adopters
<1> HIDE DEF n
<1>9. Grant!Adopt(t)
  BY <1>2, <1>3, <1>4, <1>6, <1>8 DEF Grant!Adopt
<1> QED  BY <1>9 DEF Grant!Next

\* An expiry ends one action and leaves no trace.
LEMMA ExpireEnds ==
  ASSUME IInv, [Next]_vars, NEW t \in Tools, Expire(t)
  PROVE  Grant!Next
<1> USE DEF IInv
<1>1. \A u \in {t} : Phases[u] = "open"
  BY EndsOwn DEF Phases, Phase, Pending
<1>2. ASSUME NEW u \in Tools
      PROVE  /\ Phase(u)' = IF u \in {t} THEN "ended" ELSE Phase(u)
             /\ action'[u].node = action[u].node
  <2>1. action[t] \in Actions /\ action'[t] = [action[t] EXCEPT !.state = "expired"]
    BY DEF Expire, TypeOK
  <2> QED  BY <2>1, EndsOwn DEF Phase, Actions
<1>3. Phases' = [u \in Tools |-> IF u \in {t} THEN "ended" ELSE Phases[u]]
  BY <1>2 DEF Phases
<1>4. Targets' = Targets
  BY <1>2 DEF Targets
<1>5. Adopters' = Adopters
  BY Marks DEF Adopters
<1>6. root' = root
  BY DEF Expire, LeavesRest
<1>7. Grant!End({t})
  BY <1>1, <1>3, <1>4, <1>5, <1>6 DEF Grant!End
<1> QED  BY <1>7 DEF Grant!Next

\* Every step is one of the grant's steps or leaves it alone.
LEMMA StepKeepsGrant ==
  ASSUME IInv, [Next]_vars
  PROVE  [Grant!Next]_(Grant!gvars)
<1>1. ASSUME action' = action, observation' = observation
      PROVE  Phases' = Phases /\ Targets' = Targets /\ Adopters' = Adopters
  BY <1>1 DEF Phases, Phase, Targets, Adopters
<1>2. ASSUME NEW r \in Reconcilers, Observing(r)
      PROVE  [Grant!Next]_(Grant!gvars)
  <2>1. CASE Reconcile(r)
    BY <2>1, ReconcileEnds
  <2>2. CASE BeginCycle(r) \/ ListNodes(r) \/ AbandonCycle(r)
    BY <1>1, <2>2 DEF BeginCycle, ListNodes, AbandonCycle, Grant!gvars
  <2> QED  BY <1>2, <2>1, <2>2 DEF Observing
<1>3. ASSUME NEW t \in Tools, Adopting(t)
      PROVE  [Grant!Next]_(Grant!gvars)
  <2>1. CASE Issue(t)
    BY <2>1, IssueOpens
  <2>2. CASE Confirm(t)
    BY <2>2, ConfirmAdopts
  <2>3. CASE ~Issue(t) /\ ~Confirm(t)
    <3>1. UNCHANGED <<action, observation, root>>
      BY <1>3, <2>3 DEF Adopting, BeginIssue, BeginConfirm, Reread, Leave, LeavesRest
    <3> QED  BY <1>1, <3>1 DEF Grant!gvars
  <2> QED  BY <2>1, <2>2, <2>3
<1>4. ASSUME NEW t \in Tools, Expire(t)
      PROVE  Grant!Next
  BY <1>4, ExpireEnds
<1>5. CASE RevokeRoot
  <2>1. UNCHANGED <<Phases, Targets, Adopters>> /\ root' = FALSE
    BY <1>1, <1>5 DEF RevokeRoot
  <2>2. Grant!Close
    BY <2>1 DEF Grant!Close
  <2> QED  BY <2>2 DEF Grant!Next
<1>6. CASE \/ \E a \in Authorities : RevokeAuthority(a)
           \/ \E n \in Nodes, listed \in Listed : ProviderChanges(n, listed)
           \/ Tick
           \/ UNCHANGED vars
  <2>1. UNCHANGED <<action, observation, root>>
    BY <1>6 DEF RevokeAuthority, ProviderChanges, Tick, vars
  <2> QED  BY <1>1, <2>1 DEF Grant!gvars
<1> QED  BY <1>2, <1>3, <1>4, <1>5, <1>6 DEF Next, Owning

\* However cycles, runs and the owner interleave, a node is adopted by one
\* action, opened when nobody had it and ended by nothing since, and the root
\* ends it all.
THEOREM GrantRefinement == Spec => KeepsGrant
BY InitKeepsGrant, StepKeepsGrant, Invariance, PTL DEF Spec, KeepsGrant, Grant!Spec

=============================================================================
