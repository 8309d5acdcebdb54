-------------------------- MODULE DeviceTrustProofs --------------------------
(***************************************************************************)
(* Theorems of DeviceTrust, for any sets of devices, nodes, processes,     *)
(* authorities and outstanding authorizations.                             *)
(*                                                                         *)
(* The inductive invariant has four parts besides the types.  Enrolled: a  *)
(* session has its binding, node and trust state together or not at all.   *)
(* Owned: authorities exist only under the root, authorizations only under *)
(* authorities, and each asks for a change its device allowed.  Known: a   *)
(* call works on a device, what it knows of the trust state was once so,   *)
(* it knows no later revision of the binding than there is, and if it was  *)
(* overtaken it knows an earlier one.  OneDevicePerNode and                *)
(* OwnerTrustedFirst are inductive with these.                             *)
(***************************************************************************)
EXTENDS DeviceTrust, TLAPS

Given == {"trusted", "revoked"}

\* Identity, binding and trust state come in one transaction.
Enrolled ==
  \A d \in Devices :
    /\ binding[d] = "none" <=> node[d] = NoNode
    /\ binding[d] = "none" <=> trust[d] = "none"
    /\ binding[d] = "none" =>
         trustRevision[d] = 0 /\ revision[d] = 0 /\ membership[d] = "none"

\* The chain of authority above an outstanding authorization.
Owned ==
  /\ root # "enabled" => \A a \in Authorities : authority[a] # "enabled"
  /\ \A x \in Actions :
       authorization[x] # NoAuthorization =>
         /\ authority[authorization[x].authority] # "none"
         /\ authorization[x].target \in TrustFollows[authorization[x].expects]

\* What a call knows of the device it works on.
Knows(w) ==
  /\ pc[w] # "idle" => call[w].device \in Devices
  /\ pc[w] \in {"reread", "persist"} => call[w].node \in Nodes
  /\ call[w].trust = "trusted" => pc[w] # "idle" /\ trust[call[w].device] \in Given
  /\ pc[w] \in {"provider", "exact", "doubt"} =>
       call[w].revision <= revision[call[w].device]
  /\ w \in overtaken =>
       pc[w] \in {"exact", "doubt"} /\ call[w].revision < revision[call[w].device]

Known == \A w \in Workers : Knows(w)

IInv == TypeOK /\ Enrolled /\ Owned /\ Known /\ OwnerTrustedFirst /\ OneDevicePerNode

-----------------------------------------------------------------------------
(***************************************************************************)
(* Types                                                                   *)
(***************************************************************************)

\* Whatever TrustFollows allows is a state an authorization can target.
LEMMA TargetsAreStates ==
  ASSUME NEW s \in TrustStates, NEW t \in TrustFollows[s]
  PROVE  t \in {"trusted", "revoked"} /\ s \in {"untrusted", "trusted"}
  BY DEF TrustStates, TrustFollows

\* Whatever BindingFollows allows is a state of a binding that exists.
LEMMA MovesAreStates ==
  ASSUME NEW s \in BindingStates, NEW t \in BindingFollows[s]
  PROVE  t \in BindingStates /\ t # "none" /\ s # "none"
  BY DEF BindingStates, BindingFollows

\* A worker that advances within the types stays within them.
LEMMA AdvanceTypes ==
  ASSUME TypeOK, NEW w \in Workers, NEW step \in Steps, NEW c \in Calls,
         NEW others \in SUBSET Workers, Advance(w, step, c, others)
  PROVE  /\ pc' \in [Workers -> Steps]
         /\ call' \in [Workers -> Calls]
         /\ overtaken' \subseteq Workers
  BY DEF TypeOK, Advance

LEMMA IdleIsCall == Idle \in Calls
  BY DEF Idle, Calls, TrustStates, BindingStates

LEMMA AnsweredAreWorkers ==
  ASSUME NEW d
  PROVE  Answered(d) \in SUBSET Workers
  BY DEF Answered

\* Every step keeps the types.
LEMMA TypeStep ==
  ASSUME TypeOK, Enrolled, Known, [Next]_vars
  PROVE  TypeOK'
<1> USE DEF owner, standing, bindings, BindingStates, TrustStates, AuthorityStates,
            MembershipStates
<1>1. ASSUME NEW n \in Nodes, NEW d \in Devices \cup {NoDevice}, Register(n, d)
      PROVE  TypeOK'
  BY <1>1 DEF Register, TypeOK
<1>2. ASSUME NEW d \in Devices, EndCredential(d)
      PROVE  TypeOK'
  BY <1>2 DEF EndCredential, TypeOK
<1>3. ASSUME NEW w \in Workers, NEW d \in Devices, Confirm(w, d)
      PROVE  TypeOK'
  <2>1. [Idle EXCEPT !.device = d] \in Calls
    BY DEF Idle, Calls
  <2> QED  BY <1>3, <2>1 DEF Confirm, Start, Steps, TypeOK
<1>4. ASSUME NEW w \in Workers, NEW d \in Devices, Reconcile(w, d)
      PROVE  TypeOK'
  <2>1. [Idle EXCEPT !.device = d, !.trust = trust[d]] \in Calls
    BY DEF Idle, Calls, TypeOK
  <2> QED  BY <1>4, <2>1 DEF Reconcile, Start, Steps, TypeOK
<1>5. ASSUME NEW w \in Workers, NEW n \in Nodes, Select(w, n)
      PROVE  TypeOK'
  <2>1. [call[w] EXCEPT !.node = n] \in Calls
    BY DEF Calls, TypeOK
  <2> QED  BY <1>5, <2>1 DEF Select, GoTo, Advance, Steps, TypeOK
<1>6. ASSUME NEW w \in Workers, Reread(w)
      PROVE  TypeOK'
  BY <1>6 DEF Reread, GoTo, Advance, Steps, TypeOK
<1>7. ASSUME NEW w \in Workers, Persist(w)
      PROVE  TypeOK'
  <2>1. call[w].device \in Devices /\ call[w].node \in Nodes
    BY <1>7 DEF Persist, Known, Knows
  <2> QED  BY <1>7, <2>1, IdleIsCall DEF Persist, Return, GoTo, Advance, Steps, TypeOK
<1>8. ASSUME NEW w \in Workers, ReadBinding(w)
      PROVE  TypeOK'
  <2>1. call[w].device \in Devices
    BY <1>8 DEF ReadBinding, Known, Knows
  <2>2. [call[w] EXCEPT !.binding = binding[call[w].device],
                        !.revision = revision[call[w].device]] \in Calls
    <3> DEFINE b == binding[call[w].device]
               r == revision[call[w].device]
    <3>1. call[w] \in Calls /\ b \in BindingStates /\ r \in Nat
      BY <2>1 DEF TypeOK
    <3> HIDE DEF b, r
    <3>2. [call[w] EXCEPT !.binding = b, !.revision = r] \in Calls
      BY <3>1 DEF Calls
    <3> QED  BY <3>2 DEF b, r
  <2> QED  BY <1>8, <2>2 DEF ReadBinding, GoTo, Advance, Steps, TypeOK
<1>9. ASSUME NEW w \in Workers, AnswerExact(w) \/ AnswerDoubt(w)
      PROVE  TypeOK'
  BY <1>9 DEF AnswerExact, AnswerDoubt, Answer, GoTo, Advance, Steps, TypeOK
<1>10. ASSUME NEW d \in Devices, NEW to \in BindingStates, Move(d, to)
       PROVE  /\ binding' \in [Devices -> BindingStates]
              /\ revision' \in [Devices -> Nat]
              /\ node' = node
  BY <1>10 DEF Move, TypeOK
<1>11. ASSUME NEW w \in Workers, MarkStale(w)
       PROVE  TypeOK'
  <2>1. call[w].device \in Devices
    BY <1>11 DEF MarkStale, Known, Knows
  <2>2. /\ pc' \in [Workers -> Steps]
        /\ call' \in [Workers -> Calls]
        /\ overtaken' \subseteq Workers
    BY <1>11, IdleIsCall, AnsweredAreWorkers, AdvanceTypes DEF MarkStale, Steps
  <2>3. /\ binding' \in [Devices -> BindingStates]
        /\ revision' \in [Devices -> Nat]
        /\ node' = node
    BY <1>11, <1>10, <2>1 DEF MarkStale
  <2> QED  BY <1>11, <2>2, <2>3 DEF MarkStale, TypeOK
<1>12. ASSUME NEW w \in Workers, NEW s, NEW others \in SUBSET Workers, Affirm(w, s, others)
       PROVE  /\ pc' \in [Workers -> Steps]
              /\ call' \in [Workers -> Calls]
              /\ overtaken' \subseteq Workers
  BY <1>12, IdleIsCall DEF Affirm, Advance, Steps, TypeOK
<1>13. ASSUME NEW w \in Workers, Reactivate(w)
       PROVE  TypeOK'
  <2>1. call[w].device \in Devices
    BY <1>13 DEF Reactivate, Known, Knows
  <2>2. /\ pc' \in [Workers -> Steps]
        /\ call' \in [Workers -> Calls]
        /\ overtaken' \subseteq Workers
    BY <1>13, <1>12, AnsweredAreWorkers DEF Reactivate
  <2>3. /\ binding' \in [Devices -> BindingStates]
        /\ revision' \in [Devices -> Nat]
        /\ node' = node
    BY <1>13, <1>10, <2>1 DEF Reactivate
  <2> QED  BY <1>13, <2>2, <2>3 DEF Reactivate, TypeOK
<1>14. ASSUME NEW w \in Workers, AnswerView(w)
       PROVE  TypeOK'
  <2>1. /\ pc' \in [Workers -> Steps]
        /\ call' \in [Workers -> Calls]
        /\ overtaken' \subseteq Workers
    BY <1>14, <1>12 DEF AnswerView
  <2> QED  BY <1>14, <2>1 DEF AnswerView, TypeOK
<1>15. ASSUME NEW w \in Workers, Leave(w)
       PROVE  TypeOK'
  BY <1>15, IdleIsCall DEF Leave, Return, GoTo, Advance, Steps, TypeOK
<1>16. ASSUME NEW d \in Devices, NEW to \in BindingStates, MoveByHand(d, to)
       PROVE  TypeOK'
  BY <1>16, <1>10, AnsweredAreWorkers DEF MoveByHand, TypeOK
<1>17. ASSUME BootstrapRoot \/ RevokeRoot
       PROVE  TypeOK'
  BY <1>17 DEF BootstrapRoot, RevokeRoot, Linked, TypeOK
<1>18. ASSUME NEW a \in Authorities,
              SetAuthority(a, "none", "enabled") \/ SetAuthority(a, "enabled", "revoked")
       PROVE  TypeOK'
  BY <1>18 DEF SetAuthority, TypeOK
<1>19. ASSUME NEW x \in Actions, NEW a \in Authorities, NEW d \in Devices,
              NEW t \in {"trusted", "revoked"}, Issue(x, a, d, t)
       PROVE  TypeOK'
  <2>1. trust[d] \in {"untrusted", "trusted"}
    BY <1>19, TargetsAreStates DEF Issue, TypeOK
  <2>2. [authority |-> a, device |-> d, expects |-> trust[d],
         revision |-> trustRevision[d], target |-> t] \in Authorizations
    BY <2>1 DEF Authorizations, TypeOK
  <2> QED  BY <1>19, <2>2 DEF Issue, TypeOK
<1>20. ASSUME NEW x \in Actions, Decide(x)
       PROVE  TypeOK'
  <2>1. authorization[x] \in Authorizations
    BY <1>20 DEF Decide, TypeOK
  <2> QED  BY <1>20, <2>1 DEF Decide, Authorizations, TypeOK
<1>21. ASSUME NEW d \in Devices, NEW a \in Authorities, ActivateMembership(d, a)
       PROVE  TypeOK'
  BY <1>21 DEF ActivateMembership, TypeOK
<1>22. CASE UNCHANGED vars
  BY <1>22 DEF vars, TypeOK
<1> QED  BY <1>1, <1>2, <1>3, <1>4, <1>5, <1>6, <1>7, <1>8, <1>9, <1>11, <1>13, <1>14,
            <1>15, <1>16, <1>17, <1>18, <1>19, <1>20, <1>21, <1>22 DEF Next, Work

-----------------------------------------------------------------------------
(***************************************************************************)
(* Bindings                                                                *)
(***************************************************************************)

\* A binding moves by itself: nothing of the standing or the owner with it.
Moved(d, to) ==
  /\ Move(d, to)
  /\ to = "active" => NodeFree(d, node[d])
  /\ UNCHANGED <<owner, standing, membership>>

\* What a step can do to the devices and their bindings.
LEMMA DeviceSteps ==
  ASSUME TypeOK, Known, [Next]_vars
  PROVE  \/ \E w \in Workers : Persist(w)
         \/ \E d \in Devices, to \in BindingStates : Moved(d, to)
         \/ \E x \in Actions : Decide(x)
         \/ \E d \in Devices, a \in Authorities : ActivateMembership(d, a)
         \/ UNCHANGED <<bindings, trust, trustRevision, membership>>
<1>1. ASSUME NEW w \in Workers, MarkStale(w) \/ Reactivate(w)
      PROVE  \E d \in Devices, to \in BindingStates : Moved(d, to)
  <2>1. call[w].device \in Devices
    BY <1>1 DEF MarkStale, Reactivate, Known, Knows
  <2>2. Moved(call[w].device, "stale") \/ Moved(call[w].device, "active")
    BY <1>1 DEF MarkStale, Reactivate, Moved
  <2> QED  BY <2>1, <2>2 DEF BindingStates
<1>2. ASSUME NEW d \in Devices, NEW to \in BindingStates, MoveByHand(d, to)
      PROVE  Moved(d, to)
  BY <1>2 DEF MoveByHand, Moved
<1>3. ASSUME NEW w \in Workers,
             \/ Reread(w) \/ ReadBinding(w) \/ AnswerExact(w) \/ AnswerDoubt(w)
             \/ AnswerView(w) \/ Leave(w)
             \/ \E d \in Devices : Confirm(w, d) \/ Reconcile(w, d)
             \/ \E n \in Nodes : Select(w, n)
      PROVE  UNCHANGED <<bindings, trust, trustRevision, membership>>
  BY <1>3 DEF Reread, ReadBinding, AnswerExact, AnswerDoubt, Answer, AnswerView, Leave,
              Confirm, Reconcile, Select, standing
<1>4. ASSUME \/ \E n \in Nodes, d \in Devices \cup {NoDevice} : Register(n, d)
             \/ \E d \in Devices : EndCredential(d)
             \/ BootstrapRoot \/ RevokeRoot
             \/ \E a \in Authorities :
                  SetAuthority(a, "none", "enabled") \/ SetAuthority(a, "enabled", "revoked")
             \/ \E x \in Actions, a \in Authorities, d \in Devices,
                   t \in {"trusted", "revoked"} : Issue(x, a, d, t)
             \/ UNCHANGED vars
      PROVE  UNCHANGED <<bindings, trust, trustRevision, membership>>
  BY <1>4 DEF Register, EndCredential, BootstrapRoot, RevokeRoot, SetAuthority, Issue,
              vars, standing, bindings
<1> QED  BY <1>1, <1>2, <1>3, <1>4 DEF Next, Work

\* Every step keeps a session's rows together.
LEMMA EnrolledStep ==
  ASSUME TypeOK, Enrolled, Known, [Next]_vars
  PROVE  Enrolled'
<1>1. ASSUME NEW w \in Workers, Persist(w)
      PROVE  Enrolled'
  <2>1. call[w].device \in Devices /\ call[w].node \in Nodes
    BY <1>1 DEF Persist, Known, Knows
  <2> QED  BY <1>1, <2>1, SentinelAssumption DEF Persist, TypeOK, Enrolled
<1>2. ASSUME NEW d \in Devices, NEW to \in BindingStates, Moved(d, to)
      PROVE  Enrolled'
  <2>1. binding[d] # "none" /\ to # "none"
    BY <1>2, MovesAreStates DEF Moved, Move, TypeOK
  <2> QED  BY <1>2, <2>1 DEF Moved, Move, standing, TypeOK, Enrolled
<1>3. ASSUME NEW x \in Actions, Decide(x)
      PROVE  Enrolled'
  <2>1. authorization[x] \in Authorizations
    BY <1>3 DEF Decide, TypeOK
  <2> QED  BY <1>3, <2>1 DEF Decide, Authorized, Authorizations, bindings, TypeOK, Enrolled
<1>4. ASSUME NEW d \in Devices, NEW a \in Authorities, ActivateMembership(d, a)
      PROVE  Enrolled'
  BY <1>4 DEF ActivateMembership, MayBeMember, standing, bindings, TypeOK, Enrolled
<1>5. CASE UNCHANGED <<bindings, trust, trustRevision, membership>>
  BY <1>5 DEF bindings, Enrolled
<1> QED  BY <1>1, <1>2, <1>3, <1>4, <1>5, DeviceSteps

\* Only a new identity and a reactivation make a binding active, and both
\* find the node free.
LEMMA NodeStep ==
  ASSUME TypeOK, Enrolled, Known, OneDevicePerNode, [Next]_vars
  PROVE  OneDevicePerNode'
<1>1. ASSUME NEW w \in Workers, Persist(w)
      PROVE  OneDevicePerNode'
  <2>1. call[w].device \in Devices
    BY <1>1 DEF Persist, Known, Knows
  <2> QED  BY <1>1, <2>1 DEF Persist, NodeFree, TypeOK, OneDevicePerNode
<1>2. ASSUME NEW d \in Devices, NEW to \in BindingStates, Moved(d, to)
      PROVE  OneDevicePerNode'
  BY <1>2 DEF Moved, Move, NodeFree, TypeOK, OneDevicePerNode
<1>3. CASE UNCHANGED bindings
  BY <1>3 DEF bindings, OneDevicePerNode
<1> QED  BY <1>1, <1>2, <1>3, DeviceSteps DEF Decide, ActivateMembership

-----------------------------------------------------------------------------
(***************************************************************************)
(* The owner                                                               *)
(***************************************************************************)

\* What a step can do to the owner's rows.
LEMMA OwnerSteps ==
  ASSUME [Next]_vars
  PROVE  \/ BootstrapRoot
         \/ RevokeRoot
         \/ \E a \in Authorities :
              SetAuthority(a, "none", "enabled") \/ SetAuthority(a, "enabled", "revoked")
         \/ \E x \in Actions, a \in Authorities, d \in Devices, t \in {"trusted", "revoked"} :
              Issue(x, a, d, t)
         \/ \E x \in Actions : Decide(x)
         \/ UNCHANGED <<owner, authorization>>
<1>1. ASSUME NEW w \in Workers,
             \/ Work(w)
             \/ \E d \in Devices : Confirm(w, d) \/ Reconcile(w, d)
             \/ \E n \in Nodes : Select(w, n)
      PROVE  UNCHANGED <<owner, authorization>>
  BY <1>1 DEF Work, Reread, Persist, ReadBinding, AnswerExact, AnswerDoubt, Answer, MarkStale,
              Reactivate, AnswerView, Leave, Confirm, Reconcile, Select, standing
<1>2. ASSUME \/ \E n \in Nodes, d \in Devices \cup {NoDevice} : Register(n, d)
             \/ \E d \in Devices : EndCredential(d)
             \/ \E d \in Devices, to \in BindingStates : MoveByHand(d, to)
             \/ \E d \in Devices, a \in Authorities : ActivateMembership(d, a)
             \/ UNCHANGED vars
      PROVE  UNCHANGED <<owner, authorization>>
  BY <1>2 DEF Register, EndCredential, MoveByHand, ActivateMembership, vars, owner, standing
<1> QED  BY <1>1, <1>2 DEF Next

\* Every step keeps the chain of authority.
LEMMA OwnedStep ==
  ASSUME TypeOK, Owned, [Next]_vars
  PROVE  Owned'
<1>1. ASSUME BootstrapRoot
      PROVE  Owned'
  BY <1>1 DEF BootstrapRoot, standing, Owned
<1>2. ASSUME RevokeRoot
      PROVE  Owned'
  <2>1. \A a \in Authorities :
          authority'[a] # "enabled" /\ (authority[a] # "none" => authority'[a] # "none")
    BY <1>2 DEF RevokeRoot, Linked, TypeOK
  <2>2. \A x \in Actions :
          authorization[x] # NoAuthorization => authorization[x].authority \in Authorities
    BY DEF TypeOK, Authorizations
  <2> QED  BY <1>2, <2>1, <2>2 DEF RevokeRoot, standing, Owned
<1>3. ASSUME NEW a \in Authorities,
             SetAuthority(a, "none", "enabled") \/ SetAuthority(a, "enabled", "revoked")
      PROVE  Owned'
  <2>1. \A b \in Authorities : authority[b] # "none" => authority'[b] # "none"
    BY <1>3 DEF SetAuthority, TypeOK
  <2>2. \A x \in Actions :
          authorization[x] # NoAuthorization => authorization[x].authority \in Authorities
    BY DEF TypeOK, Authorizations
  <2> QED  BY <1>3, <2>1, <2>2 DEF SetAuthority, standing, Owned
<1>4. ASSUME NEW x \in Actions, NEW a \in Authorities, NEW d \in Devices,
             NEW t \in {"trusted", "revoked"}, Issue(x, a, d, t)
      PROVE  Owned'
  BY <1>4 DEF Issue, owner, TypeOK, Owned
<1>5. ASSUME NEW x \in Actions, Decide(x)
      PROVE  Owned'
  BY <1>5 DEF Decide, owner, TypeOK, Owned
<1>6. CASE UNCHANGED <<owner, authorization>>
  BY <1>6 DEF owner, Owned
<1> QED  BY <1>1, <1>2, <1>3, <1>4, <1>5, <1>6, OwnerSteps

-----------------------------------------------------------------------------
(***************************************************************************)
(* Calls                                                                   *)
(***************************************************************************)

\* What was trusted stays trusted or is revoked, and a device has a trust
\* state for good.
LEMMA TrustStays ==
  ASSUME TypeOK, Enrolled, Known, [Next]_vars
  PROVE  \A d \in Devices : trust[d] \in Given => trust'[d] \in Given
<1>1. ASSUME NEW w \in Workers, Persist(w)
      PROVE  \A d \in Devices : trust[d] \in Given => trust'[d] \in Given
  <2>1. call[w].device \in Devices
    BY <1>1 DEF Persist, Known, Knows
  <2> QED  BY <1>1, <2>1 DEF Persist, StillCorrelated, Enrolled, Given, TypeOK
<1>2. ASSUME NEW x \in Actions, Decide(x)
      PROVE  \A d \in Devices : trust[d] \in Given => trust'[d] \in Given
  <2>1. authorization[x] \in Authorizations
    BY <1>2 DEF Decide, TypeOK
  <2> QED  BY <1>2, <2>1 DEF Decide, Authorizations, Given, TypeOK
<1> QED  BY <1>1, <1>2, DeviceSteps DEF Moved, ActivateMembership, standing

\* Revisions only grow.
LEMMA RevisionsGrow ==
  ASSUME TypeOK, Enrolled, Known, [Next]_vars
  PROVE  \A d \in Devices : revision[d] <= revision'[d]
<1>1. ASSUME NEW w \in Workers, Persist(w)
      PROVE  \A d \in Devices : revision[d] <= revision'[d]
  <2>1. call[w].device \in Devices
    BY <1>1 DEF Persist, Known, Knows
  <2> QED  BY <1>1, <2>1 DEF Persist, StillCorrelated, Enrolled, TypeOK
<1>2. ASSUME NEW d \in Devices, NEW to \in BindingStates, Move(d, to)
      PROVE  \A e \in Devices : revision[e] <= revision'[e]
  BY <1>2 DEF Move, TypeOK
<1>3. CASE UNCHANGED revision
  BY <1>3 DEF TypeOK
<1> QED  BY <1>1, <1>2, <1>3, DeviceSteps DEF Moved, Decide, ActivateMembership, bindings

\* A call that a step leaves alone knows what it knew, and is overtaken only
\* by a move of its own binding.
LEMMA OthersKnow ==
  ASSUME TypeOK, Enrolled, Known, [Next]_vars, NEW v \in Workers,
         pc'[v] = pc[v], call'[v] = call[v],
         v \in overtaken' =>
           \/ v \in overtaken
           \/ /\ pc[v] \in {"exact", "doubt"}
              /\ revision[call[v].device] < revision'[call[v].device]
  PROVE  Knows(v)'
<1>1. call[v] \in Calls
  BY DEF TypeOK
<1>2. pc[v] # "idle" => /\ call[v].device \in Devices
                        /\ revision[call[v].device] \in Nat
                        /\ revision[call[v].device] <= revision'[call[v].device]
                        /\ trust[call[v].device] \in Given => trust'[call[v].device] \in Given
  BY TrustStays, RevisionsGrow DEF Known, Knows, TypeOK
<1>3. revision' \in [Devices -> Nat]
  BY TypeStep DEF TypeOK
<1>4. call[v].revision \in Nat
  BY <1>1 DEF Calls
<1> QED  BY <1>2, <1>3, <1>4 DEF Known, Knows

\* Every step keeps what the calls know.
LEMMA KnownStep ==
  ASSUME TypeOK, Enrolled, Known, [Next]_vars
  PROVE  Known'
<1> SUFFICES ASSUME NEW v \in Workers
             PROVE  Knows(v)'
  BY DEF Known
<1>a. call[v] \in Calls /\ Knows(v)
  BY DEF TypeOK, Known
<1>b. CASE UNCHANGED <<pc, call, overtaken>>
  BY <1>b, OthersKnow
<1>c. ASSUME NEW w \in Workers, NEW step, NEW c, w # v, Advance(w, step, c, {}) \/ Start(w, step, c)
      PROVE  Knows(v)'
  BY <1>c, OthersKnow DEF Advance, Start, TypeOK
<1>d. ASSUME NEW w \in Workers, w # v, NEW d \in Devices, NEW to, Move(d, to),
             NEW step, NEW c, Advance(w, step, c, Answered(d))
      PROVE  Knows(v)'
  <2>1. revision[d] < revision'[d]
    BY <1>d DEF Move, TypeOK
  <2> QED  BY <1>d, <2>1, OthersKnow DEF Advance, Answered, TypeOK
<1>1. ASSUME NEW w \in Workers, NEW d \in Devices, Confirm(w, d) \/ Reconcile(w, d)
      PROVE  Knows(v)'
  <2>1. CASE w # v
    BY <1>1, <2>1, <1>c DEF Confirm, Reconcile
  <2>2. CASE w = v
    <3>1. UNCHANGED trust
      BY <1>1 DEF Confirm, Reconcile, standing
    <3>2. pc'[v] \in {"list", "binding"} /\ v \notin overtaken'
      BY <1>1, <1>a, <2>2 DEF Confirm, Reconcile, Start, Knows, TypeOK
    <3>3. CASE Confirm(w, d)
      <4>1. call'[v] = [Idle EXCEPT !.device = d]
        BY <2>2, <3>3 DEF Confirm, Start, TypeOK
      <4>2. call'[v].device = d /\ call'[v].trust = "none"
        BY <4>1 DEF Idle
      <4> QED  BY <3>2, <4>2 DEF Knows
    <3>4. CASE Reconcile(w, d)
      <4>1. call'[v] = [Idle EXCEPT !.device = d, !.trust = trust[d]]
        BY <2>2, <3>4 DEF Reconcile, Start, TypeOK
      <4>2. call'[v].device = d /\ call'[v].trust = trust[d]
        BY <4>1 DEF Idle
      <4> QED  BY <3>1, <3>2, <4>2 DEF Knows, Given
    <3> QED  BY <1>1, <3>3, <3>4
  <2> QED  BY <2>1, <2>2
<1>2. ASSUME NEW w \in Workers, NEW n \in Nodes, Select(w, n)
      PROVE  Knows(v)'
  <2>1. CASE w # v
    BY <1>2, <2>1, <1>c DEF Select, GoTo
  <2>2. CASE w = v
    BY <1>2, <1>a, <2>2 DEF Select, GoTo, Advance, Calls, standing, Knows, TypeOK
  <2> QED  BY <2>1, <2>2
<1>3. ASSUME NEW w \in Workers, Reread(w)
      PROVE  Knows(v)'
  <2>1. CASE w # v
    BY <1>3, <2>1, <1>c DEF Reread, GoTo
  <2>2. CASE w = v
    BY <1>3, <1>a, <2>2 DEF Reread, GoTo, Advance, standing, Knows, TypeOK
  <2> QED  BY <2>1, <2>2
<1>4. ASSUME NEW w \in Workers, Persist(w) \/ Leave(w)
      PROVE  Knows(v)'
  <2>1. CASE w # v
    BY <1>4, <2>1, <1>c DEF Persist, Leave, Return, GoTo
  <2>2. CASE w = v
    BY <1>4, <1>a, <2>2 DEF Persist, Leave, Return, GoTo, Advance, Idle, Knows, TypeOK
  <2> QED  BY <2>1, <2>2
<1>5. ASSUME NEW w \in Workers, ReadBinding(w)
      PROVE  Knows(v)'
  <2>1. CASE w # v
    BY <1>5, <2>1, <1>c DEF ReadBinding, GoTo
  <2>2. CASE w = v
    <3>1. /\ call'[v].device = call[v].device
          /\ call'[v].trust = call[v].trust
          /\ call'[v].revision = revision[call[v].device]
      BY <1>5, <1>a, <2>2 DEF ReadBinding, GoTo, Advance, Calls, TypeOK
    <3>2. /\ pc[v] = "binding" /\ pc'[v] = "provider"
          /\ v \notin overtaken'
          /\ UNCHANGED <<revision, trust>>
      BY <1>5, <2>2 DEF ReadBinding, GoTo, Advance, standing, bindings, TypeOK
    <3>3. revision[call[v].device] \in Nat
      BY <1>a, <3>2 DEF Knows, TypeOK
    <3> QED  BY <1>a, <3>1, <3>2, <3>3 DEF Knows
  <2> QED  BY <2>1, <2>2
<1>6. ASSUME NEW w \in Workers, AnswerExact(w) \/ AnswerDoubt(w)
      PROVE  Knows(v)'
  <2>1. CASE w # v
    BY <1>6, <2>1, <1>c DEF AnswerExact, AnswerDoubt, Answer, GoTo
  <2>2. CASE w = v
    BY <1>6, <1>a, <2>2 DEF AnswerExact, AnswerDoubt, Answer, GoTo, Advance, standing, bindings,
                            Knows, TypeOK
  <2> QED  BY <2>1, <2>2
<1>7. ASSUME NEW w \in Workers, MarkStale(w)
      PROVE  Knows(v)'
  <2>1. CASE w # v
    BY <1>7, <2>1, <1>d DEF MarkStale, Known, Knows
  <2>2. CASE w = v
    BY <1>7, <1>a, <2>2 DEF MarkStale, Advance, Idle, Knows, TypeOK
  <2> QED  BY <2>1, <2>2
<1>8. ASSUME NEW w \in Workers, Reactivate(w)
      PROVE  Knows(v)'
  <2>1. CASE w # v
    BY <1>8, <2>1, <1>d DEF Reactivate, Affirm, Known, Knows
  <2>2. CASE w = v
    BY <1>8, <1>a, <2>2 DEF Reactivate, Affirm, Advance, Idle, standing, Knows, TypeOK
  <2> QED  BY <2>1, <2>2
<1>9. ASSUME NEW w \in Workers, AnswerView(w)
      PROVE  Knows(v)'
  <2>1. CASE w # v
    BY <1>9, <2>1, <1>c DEF AnswerView, Affirm
  <2>2. CASE w = v
    BY <1>9, <1>a, <2>2 DEF AnswerView, Affirm, Advance, Idle, standing, Knows, TypeOK
  <2> QED  BY <2>1, <2>2
<1>10. ASSUME NEW d \in Devices, NEW to \in BindingStates, MoveByHand(d, to)
       PROVE  Knows(v)'
  <2>1. revision[d] < revision'[d]
    BY <1>10 DEF MoveByHand, Move, TypeOK
  <2> QED  BY <1>10, <2>1, OthersKnow DEF MoveByHand, Answered
<1>11. ASSUME \/ \E n \in Nodes, d \in Devices \cup {NoDevice} : Register(n, d)
              \/ \E d \in Devices : EndCredential(d)
              \/ BootstrapRoot \/ RevokeRoot
              \/ \E a \in Authorities :
                   SetAuthority(a, "none", "enabled") \/ SetAuthority(a, "enabled", "revoked")
              \/ \E x \in Actions, a \in Authorities, d \in Devices,
                    t \in {"trusted", "revoked"} : Issue(x, a, d, t)
              \/ \E x \in Actions : Decide(x)
              \/ \E d \in Devices, a \in Authorities : ActivateMembership(d, a)
              \/ UNCHANGED vars
       PROVE  Knows(v)'
  BY <1>11, <1>b DEF Register, EndCredential, BootstrapRoot, RevokeRoot, SetAuthority, Issue,
                     Decide, ActivateMembership, vars
<1> QED  BY <1>1, <1>2, <1>3, <1>4, <1>5, <1>6, <1>7, <1>8, <1>9, <1>10, <1>11 DEF Next, Work

-----------------------------------------------------------------------------
(***************************************************************************)
(* The owner comes first                                                   *)
(***************************************************************************)

\* A call comes to the affirmative answer in two ways, and stays there.
LEMMA AffirmedSteps ==
  ASSUME TypeOK, [Next]_vars, NEW w \in Workers, pc'[w] = "affirmed"
  PROVE  \/ pc[w] = "affirmed" /\ call'[w] = call[w]
         \/ AnswerView(w)
         \/ Reactivate(w)
<1> DEFINE Stays == pc[w] = "affirmed" /\ call'[w] = call[w]
<1>1. ASSUME UNCHANGED <<pc, call>>
      PROVE  Stays
  BY <1>1
<1>2. ASSUME NEW v \in Workers, NEW step, NEW c, NEW others,
             Advance(v, step, c, others) \/ Start(v, step, c), step # "affirmed"
      PROVE  Stays
  BY <1>2 DEF Advance, Start, TypeOK
<1>3. ASSUME NEW v \in Workers, NEW step, NEW c, NEW others,
             Advance(v, step, c, others), v # w
      PROVE  Stays
  BY <1>3 DEF Advance, TypeOK
<1>4. ASSUME NEW v \in Workers, Work(v)
      PROVE  Stays \/ AnswerView(w) \/ Reactivate(w)
  <2>1. CASE Reread(v) \/ Persist(v) \/ ReadBinding(v) \/ Leave(v)
    BY <2>1, <1>2 DEF Reread, Persist, ReadBinding, Leave, Return, GoTo
  <2>2. CASE AnswerExact(v) \/ AnswerDoubt(v)
    BY <2>2, <1>2 DEF AnswerExact, AnswerDoubt, Answer, GoTo
  <2>3. CASE MarkStale(v)
    BY <2>3, <1>2 DEF MarkStale
  <2>4. CASE Reactivate(v) \/ AnswerView(v)
    BY <2>4, <1>3 DEF Reactivate, AnswerView, Affirm
  <2> QED  BY <1>4, <2>1, <2>2, <2>3, <2>4 DEF Work
<1>5. ASSUME NEW v \in Workers,
             \/ \E d \in Devices : Confirm(v, d) \/ Reconcile(v, d)
             \/ \E n \in Nodes : Select(v, n)
      PROVE  Stays
  <2>1. CASE \E d \in Devices : Confirm(v, d) \/ Reconcile(v, d)
    BY <2>1, <1>2 DEF Confirm, Reconcile
  <2>2. CASE \E n \in Nodes : Select(v, n)
    BY <2>2, <1>2 DEF Select, GoTo
  <2> QED  BY <1>5, <2>1, <2>2
<1>6. ASSUME \/ \E n \in Nodes, d \in Devices \cup {NoDevice} : Register(n, d)
             \/ \E d \in Devices : EndCredential(d)
             \/ \E d \in Devices, to \in BindingStates : MoveByHand(d, to)
             \/ BootstrapRoot \/ RevokeRoot
             \/ \E a \in Authorities :
                  SetAuthority(a, "none", "enabled") \/ SetAuthority(a, "enabled", "revoked")
             \/ \E x \in Actions, a \in Authorities, d \in Devices,
                   t \in {"trusted", "revoked"} : Issue(x, a, d, t)
             \/ \E x \in Actions : Decide(x)
             \/ \E d \in Devices, a \in Authorities : ActivateMembership(d, a)
             \/ UNCHANGED vars
      PROVE  Stays
  BY <1>6, <1>1 DEF Register, EndCredential, MoveByHand, BootstrapRoot, RevokeRoot, SetAuthority,
                    Issue, Decide, ActivateMembership, vars
<1> QED  BY <1>4, <1>5, <1>6 DEF Next

\* Membership and affirmative answers only follow the owner's decision.
LEMMA FirstStep ==
  ASSUME TypeOK, Enrolled, Known, OwnerTrustedFirst, [Next]_vars
  PROVE  OwnerTrustedFirst'
<1>1. ASSUME NEW d \in Devices, membership'[d] = "active"
      PROVE  trust'[d] \in Given
  <2>1. CASE membership[d] = "active"
    BY <2>1, TrustStays DEF OwnerTrustedFirst, Given
  <2>2. CASE membership[d] # "active"
    <3>1. ASSUME NEW w \in Workers, Persist(w)
          PROVE  FALSE
      <4>1. call[w].device \in Devices
        BY <3>1 DEF Persist, Known, Knows
      <4> QED  BY <1>1, <2>2, <3>1, <4>1 DEF Persist, TypeOK
    <3>2. PICK e \in Devices, a \in Authorities : ActivateMembership(e, a)
      BY <1>1, <2>2, <3>1, DeviceSteps DEF Moved, Decide
    <3>3. e = d
      BY <1>1, <2>2, <3>2 DEF ActivateMembership, TypeOK
    <3> QED  BY <3>2, <3>3 DEF ActivateMembership, MayBeMember, standing, Given
  <2> QED  BY <2>1, <2>2
<1>2. ASSUME NEW w \in Workers, pc'[w] = "affirmed"
      PROVE  trust'[call'[w].device] \in Given
  <2>1. CASE pc[w] = "affirmed" /\ call'[w] = call[w]
    BY <2>1, TrustStays DEF Known, Knows, OwnerTrustedFirst, Given
  <2>2. CASE AnswerView(w)
    <3>1. call[w].trust = "trusted" /\ call'[w] = call[w] /\ call[w].device \in Devices
      BY <1>2, <2>2 DEF AnswerView, Affirm, Advance, Known, Knows, TypeOK
    <3> QED  BY <3>1, TrustStays DEF Known, Knows
  <2>3. CASE Reactivate(w)
    <3>1. /\ trust[call[w].device] = "trusted"
          /\ call'[w] = call[w]
          /\ trust' = trust
      BY <1>2, <2>3 DEF Reactivate, Affirm, Advance, standing, TypeOK
    <3> QED  BY <3>1 DEF Given
  <2> QED  BY <1>2, <2>1, <2>2, <2>3, AffirmedSteps
<1> QED  BY <1>1, <1>2 DEF OwnerTrustedFirst, Given

-----------------------------------------------------------------------------
(***************************************************************************)
(* The inductive invariant                                                 *)
(***************************************************************************)

\* The invariant holds at first.
LEMMA InitialInvariant == Init => IInv
<1> SUFFICES ASSUME Init
             PROVE  IInv
  OBVIOUS
<1>1. TypeOK
  BY IdleIsCall DEF Init, TypeOK, TrustStates, BindingStates, AuthorityStates, MembershipStates,
                    Steps
<1>2. Enrolled /\ Owned /\ OwnerTrustedFirst /\ OneDevicePerNode
  BY DEF Init, Enrolled, Owned, OwnerTrustedFirst, OneDevicePerNode
<1>3. Known
  BY DEF Init, Known, Knows, Idle
<1> QED  BY <1>1, <1>2, <1>3 DEF IInv

\* Every step keeps it.
LEMMA InductiveInvariant == IInv /\ [Next]_vars => IInv'
BY TypeStep, EnrolledStep, OwnedStep, KnownStep, FirstStep, NodeStep DEF IInv

\* The invariant holds in every reachable state.
THEOREM Invariance == Spec => []IInv
BY InitialInvariant, InductiveInvariant, PTL DEF Spec

\* The variables keep their types.
THEOREM TypeCorrect == Spec => []TypeOK
<1>1. IInv => TypeOK
  BY DEF IInv
<1> QED  BY <1>1, Invariance, PTL

\* No two devices hold an active binding to one provider node.
THEOREM NodeIsExclusive == Spec => []OneDevicePerNode
<1>1. IInv => OneDevicePerNode
  BY DEF IInv
<1> QED  BY <1>1, Invariance, PTL

\* Active members and devices answered as trusted were trusted by the owner.
THEOREM OwnerComesFirst == Spec => []OwnerTrustedFirst
<1>1. IInv => OwnerTrustedFirst
  BY DEF IInv
<1> QED  BY <1>1, Invariance, PTL

-----------------------------------------------------------------------------
(***************************************************************************)
(* Action properties                                                       *)
(***************************************************************************)

\* A device's node is set once, from an active credential.
LEMMA IdentityStep ==
  ASSUME IInv, [Next]_vars, NEW d \in Devices
  PROVE  /\ node[d] # NoNode => node'[d] = node[d]
         /\ node[d] = NoNode /\ node'[d] # NoNode => credential[d] = "active"
<1> USE DEF IInv
<1>1. ASSUME NEW w \in Workers, Persist(w)
      PROVE  /\ node[d] # NoNode => node'[d] = node[d]
             /\ node[d] = NoNode /\ node'[d] # NoNode => credential[d] = "active"
  <2>1. call[w].device \in Devices
    BY <1>1 DEF Persist, Known, Knows
  <2> QED  BY <1>1, <2>1 DEF Persist, StillCorrelated, Enrolled, TypeOK
<1>2. CASE UNCHANGED node
  BY <1>2
<1> QED  BY <1>1, <1>2, DeviceSteps DEF Moved, Move, Decide, ActivateMembership, bindings

\* A device comes once, from a credential that is active, and keeps its node,
\* however long the confirmation awaited the provider.
THEOREM IdentityIsFromLiveCredential == Spec => IdentityFromLiveCredential
<1>1. IInv /\ [Next]_vars =>
        [\A d \in Devices :
           /\ node[d] # NoNode => node'[d] = node[d]
           /\ node[d] = NoNode /\ node'[d] # NoNode => credential[d] = "active"
        ]_<<node, credential>>
  BY IdentityStep
<1> QED  BY <1>1, Invariance, PTL DEF Spec, IdentityFromLiveCredential

\* What a step of a worker does to a binding it has an answer about, and
\* which worker it is.
LEMMA EvidenceSteps ==
  ASSUME IInv, [Next]_vars, NEW w \in Workers, pc[w] \in {"exact", "doubt"}, pc'[w] # pc[w]
  PROVE  \/ UNCHANGED binding
         \/ RevisionIsCurrent(w)
<1> USE DEF IInv
<1>1. ASSUME NEW v \in Workers, v # w, Work(v)
      PROVE  FALSE
  BY <1>1 DEF Work, Reread, Persist, ReadBinding, AnswerExact, AnswerDoubt, Answer, MarkStale,
              Reactivate, AnswerView, Affirm, Leave, Return, GoTo, Advance, TypeOK
<1>2. ASSUME Work(w)
      PROVE  UNCHANGED binding \/ RevisionIsCurrent(w)
  BY <1>2 DEF Work, Reread, Persist, ReadBinding, AnswerExact, AnswerDoubt, Answer, MarkStale,
              Reactivate, AnswerView, Leave, bindings
<1>3. ASSUME NEW v \in Workers,
             \/ \E d \in Devices : Confirm(v, d) \/ Reconcile(v, d)
             \/ \E n \in Nodes : Select(v, n)
      PROVE  UNCHANGED binding
  BY <1>3 DEF Confirm, Reconcile, Select, bindings
<1>4. ASSUME \/ \E n \in Nodes, d \in Devices \cup {NoDevice} : Register(n, d)
             \/ \E d \in Devices : EndCredential(d)
             \/ \E d \in Devices, to \in BindingStates : MoveByHand(d, to)
             \/ BootstrapRoot \/ RevokeRoot
             \/ \E a \in Authorities :
                  SetAuthority(a, "none", "enabled") \/ SetAuthority(a, "enabled", "revoked")
             \/ \E x \in Actions, a \in Authorities, d \in Devices,
                   t \in {"trusted", "revoked"} : Issue(x, a, d, t)
             \/ \E x \in Actions : Decide(x)
             \/ \E d \in Devices, a \in Authorities : ActivateMembership(d, a)
             \/ UNCHANGED vars
      PROVE  FALSE
  BY <1>4 DEF Register, EndCredential, MoveByHand, BootstrapRoot, RevokeRoot, SetAuthority,
              Issue, Decide, ActivateMembership, vars
<1> QED  BY <1>1, <1>2, <1>3, <1>4 DEF Next

\* An overtaken worker knows an earlier revision than there is: it ends
\* without moving the binding.
THEOREM BindingIsEvidenced == Spec => BindingFollowsEvidence
<1>1. ASSUME IInv, [Next]_vars, NEW w \in overtaken, pc'[w] # pc[w]
      PROVE  binding'[call[w].device] = binding[call[w].device]
  <2>1. w \in Workers /\ Knows(w)
    BY <1>1 DEF IInv, TypeOK, Known
  <2>2. /\ pc[w] \in {"exact", "doubt"}
        /\ call[w].device \in Devices
        /\ call[w].revision < revision[call[w].device]
    BY <1>1, <2>1 DEF Knows
  <2>3. call[w].revision \in Nat /\ revision[call[w].device] \in Nat
    BY <1>1, <2>1, <2>2 DEF IInv, TypeOK, Calls
  <2>4. ~RevisionIsCurrent(w)
    BY <2>2, <2>3 DEF RevisionIsCurrent
  <2> QED  BY <1>1, <2>1, <2>2, <2>4, EvidenceSteps
<1>2. IInv /\ [Next]_vars =>
        [\A w \in overtaken :
           LET d == call[w].device IN
           pc'[w] # pc[w] => binding'[d] = binding[d]]_<<pc, binding>>
  BY <1>1
<1> QED  BY <1>2, Invariance, PTL DEF Spec, BindingFollowsEvidence

-----------------------------------------------------------------------------
(***************************************************************************)
(* Refinement: DeviceTrust keeps TrustStanding                             *)
(***************************************************************************)

\* Nothing stands at first.
LEMMA InitKeepsStanding == Init => Standing!Init
BY DEF Init, Standing!Init, Permits, Live, StandingOf, Bound

\* The standing permits depend on the authorizations and authorities alone.
LEMMA PermitsUnchanged ==
  ASSUME UNCHANGED <<authority, authorization>>
  PROVE  Permits' = Permits
<1>1. \A x \in Actions : Live(x)' <=> Live(x)
  BY DEF Live
<1>2. \A x \in Actions : Asks(x)' = Asks(x)
  BY DEF Asks
<1> QED  BY <1>1, <1>2 DEF Permits

\* A new device gets its standing.
LEMMA PersistIdentifies ==
  ASSUME IInv, NEW w \in Workers, Persist(w)
  PROVE  Standing!Next
<1> DEFINE d == call[w].device
<1>1. d \in Devices /\ trust[d] = "none"
  BY DEF IInv, Known, Knows, Persist, StillCorrelated, Enrolled
<1>2. StandingOf[d] = "unknown"
  BY <1>1 DEF StandingOf
<1>3. StandingOf' = [StandingOf EXCEPT ![d] = "untrusted"]
  BY <1>1 DEF Persist, StandingOf, IInv, TypeOK
<1>4. trustRevision' = [trustRevision EXCEPT ![d] = 1]
  BY DEF Persist
<1>5. Bound' = Bound \cup {d}
  BY <1>1 DEF Persist, Bound, IInv, TypeOK
<1>6. Permits' = Permits /\ UNCHANGED root
  BY PermitsUnchanged DEF Persist, owner
<1>7. Standing!Identify(d)
  BY <1>2, <1>3, <1>4, <1>5, <1>6 DEF Standing!Identify
<1> QED  BY <1>1, <1>7 DEF Standing!Next

\* The owner's own steps open, close, permit and withdraw.
LEMMA OwnerKeepsStanding ==
  ASSUME IInv,
         \/ BootstrapRoot \/ RevokeRoot
         \/ \E a \in Authorities :
              SetAuthority(a, "none", "enabled") \/ SetAuthority(a, "enabled", "revoked")
  PROVE  [Standing!Next]_(Standing!svars)
<1>1. UNCHANGED <<StandingOf, trustRevision, Bound>>
  BY DEF BootstrapRoot, RevokeRoot, SetAuthority, standing, bindings, StandingOf, Bound
<1>2. \A x \in Actions :
        authorization[x] # NoAuthorization => /\ authorization[x].authority \in Authorities
                                              /\ authority[authorization[x].authority] # "none"
  BY DEF IInv, Owned, TypeOK, Authorizations
<1>3. CASE BootstrapRoot
  <2>1. Permits = {}
    BY <1>2, <1>3 DEF BootstrapRoot, IInv, Owned, Permits, Live
  <2>2. Permits' = Permits
    BY <1>3, PermitsUnchanged DEF BootstrapRoot, standing
  <2>3. Standing!Open
    BY <1>1, <1>3, <2>1, <2>2 DEF BootstrapRoot, Standing!Open
  <2> QED  BY <2>3 DEF Standing!Next
<1>4. CASE RevokeRoot
  <2>1. \A a \in Authorities : authority'[a] # "enabled"
    BY <1>4 DEF RevokeRoot, Linked, IInv, TypeOK
  <2>2. \A x \in Actions : ~Live(x)'
    BY <1>2, <1>4, <2>1 DEF RevokeRoot, standing, Live
  <2>3. Permits' = {}
    BY <2>2 DEF Permits
  <2>4. Standing!Close
    BY <1>1, <1>4, <2>3 DEF RevokeRoot, Standing!Close
  <2> QED  BY <2>4 DEF Standing!Next
<1>5. ASSUME NEW a \in Authorities, SetAuthority(a, "none", "enabled")
      PROVE  UNCHANGED Standing!svars
  <2>1. \A x \in Actions : Live(x)' <=> Live(x)
    BY <1>2, <1>5 DEF SetAuthority, standing, Live, IInv, TypeOK
  <2>2. \A x \in Actions : Asks(x)' = Asks(x)
    BY <1>5 DEF SetAuthority, standing, Asks
  <2>3. Permits' = Permits
    BY <2>1, <2>2 DEF Permits
  <2> QED  BY <1>1, <1>5, <2>3 DEF SetAuthority, Standing!svars
<1>6. ASSUME NEW a \in Authorities, SetAuthority(a, "enabled", "revoked")
      PROVE  Standing!Next
  <2>1. \A x \in Actions : Live(x)' => Live(x)
    BY <1>2, <1>6 DEF SetAuthority, standing, Live, IInv, TypeOK
  <2>2. \A x \in Actions : Asks(x)' = Asks(x)
    BY <1>6 DEF SetAuthority, standing, Asks
  <2>3. Permits' \subseteq Permits
    BY <2>1, <2>2 DEF Permits
  <2>4. Standing!Withdraw
    BY <1>1, <1>6, <2>3 DEF SetAuthority, Standing!Withdraw
  <2> QED  BY <2>4 DEF Standing!Next
<1> QED  BY <1>3, <1>4, <1>5, <1>6

\* An authorization is a permit.
LEMMA IssuePermits ==
  ASSUME IInv, NEW x \in Actions, NEW a \in Authorities, NEW d \in Devices,
         NEW t \in {"trusted", "revoked"}, Issue(x, a, d, t)
  PROVE  Standing!Next
<1> DEFINE p == [device |-> d, version |-> trustRevision[d], standing |-> t]
<1>1. t \in TrustFollows[trust[d]] /\ trust[d] \in {"untrusted", "trusted"}
  BY TargetsAreStates DEF Issue, IInv, TypeOK
<1>2. t \in Standing!May[StandingOf[d]]
  BY <1>1 DEF StandingOf, TrustFollows, Standing!May
<1>3. UNCHANGED <<root, StandingOf, trustRevision, Bound>>
  BY DEF Issue, owner, bindings, StandingOf, Bound
<1>4. \A y \in Actions \ {x} : (Live(y)' <=> Live(y)) /\ Asks(y)' = Asks(y)
  BY DEF Issue, owner, Live, Asks, IInv, TypeOK
<1>5. ~Live(x)
  BY DEF Issue, Live
<1>6. authorization'[x] = [authority |-> a, device |-> d, expects |-> trust[d],
                           revision |-> trustRevision[d], target |-> t]
  BY DEF Issue, IInv, TypeOK
<1>7. authorization'[x] # NoAuthorization
  BY <1>6 DEF NoAuthorization
<1>8. Live(x)' /\ Asks(x)' = p
  BY <1>6, <1>7 DEF Issue, owner, Live, Asks
<1> HIDE DEF p
<1>9. Permits' = Permits \cup {p}
  BY <1>4, <1>5, <1>8 DEF Permits
<1>10. Standing!Permit(d, t)
  BY <1>2, <1>3, <1>9 DEF Issue, Standing!Permit, p
<1> QED  BY <1>10 DEF Standing!Next

\* A decision uses a permit that still stands.
LEMMA DecideByPermit ==
  ASSUME IInv, NEW x \in Actions, Decide(x)
  PROVE  Standing!Next
<1> DEFINE z == authorization[x]
           d == z.device
<1>1. z \in Authorizations /\ z # NoAuthorization
  BY DEF Decide, IInv, TypeOK
<1>2. d \in Devices /\ z.authority \in Authorities
      /\ z.expects \in {"untrusted", "trusted"} /\ z.target \in {"trusted", "revoked"}
  BY <1>1 DEF Authorizations
<1>3. /\ authority[z.authority] = "enabled"
      /\ trust[d] = z.expects
      /\ trustRevision[d] = z.revision
      /\ z.target = "trusted" => binding[d] = "active"
  BY DEF Decide, Authorized
<1>4. z.target \in TrustFollows[z.expects]
  BY <1>1 DEF IInv, Owned
<1>5. Live(x)
  BY <1>1, <1>3 DEF Live
<1>6. Asks(x) \in Permits
  BY <1>5 DEF Permits
<1>7. Asks(x).device = d /\ Asks(x).version = trustRevision[d] /\ Asks(x).standing = z.target
  BY <1>3 DEF Asks
<1>8. z.target \in Standing!May[StandingOf[d]]
  BY <1>2, <1>3, <1>4 DEF StandingOf, TrustFollows, Standing!May
<1>9. z.target = "trusted" => d \in Bound
  BY <1>2, <1>3 DEF Bound
<1>10. StandingOf' = [StandingOf EXCEPT ![d] = z.target]
  BY <1>2 DEF Decide, StandingOf, IInv, TypeOK
<1>11. trustRevision' = [trustRevision EXCEPT ![d] = @ + 1]
  BY DEF Decide
<1>12. \A y \in Actions : Live(y)' => Live(y) /\ Asks(y)' = Asks(y)
  BY DEF Decide, owner, Live, Asks, IInv, TypeOK
<1>13. Permits' \subseteq Permits
  BY <1>12 DEF Permits
<1>14. UNCHANGED <<root, Bound>>
  BY DEF Decide, owner, bindings, Bound
<1> HIDE DEF z, d
<1>15. Standing!Decide(Asks(x))
  BY <1>6, <1>7, <1>8, <1>9, <1>10, <1>11, <1>13, <1>14 DEF Standing!Decide
<1> QED  BY <1>6, <1>15 DEF Standing!Next

\* Every step is one of the standing's steps or leaves it alone.
LEMMA StepKeepsStanding ==
  ASSUME IInv, [Next]_vars
  PROVE  [Standing!Next]_(Standing!svars)
<1>1. ASSUME UNCHANGED <<owner, authorization>>, UNCHANGED <<trust, trustRevision>>
      PROVE  [Standing!Next]_(Standing!svars)
  <2>1. Permits' = Permits
    BY <1>1, PermitsUnchanged DEF owner
  <2>2. UNCHANGED <<StandingOf, trustRevision>>
    BY <1>1 DEF StandingOf
  <2>3. Bound' \subseteq Devices
    BY DEF Bound
  <2>4. Standing!Rebind
    BY <1>1, <2>1, <2>2, <2>3 DEF Standing!Rebind, owner
  <2> QED  BY <2>4 DEF Standing!Next
<1>2. ASSUME NEW w \in Workers, Persist(w)
      PROVE  Standing!Next
  BY <1>2, PersistIdentifies
<1>3. ASSUME NEW d \in Devices, NEW to \in BindingStates, Moved(d, to)
      PROVE  [Standing!Next]_(Standing!svars)
  BY <1>3, <1>1 DEF Moved, standing
<1>4. ASSUME NEW d \in Devices, NEW a \in Authorities, ActivateMembership(d, a)
      PROVE  [Standing!Next]_(Standing!svars)
  BY <1>4, <1>1 DEF ActivateMembership, standing
<1>5. CASE UNCHANGED <<bindings, trust, trustRevision, membership>>
  <2>1. CASE UNCHANGED <<owner, authorization>>
    BY <1>1, <1>5, <2>1
  <2>2. ASSUME NEW x \in Actions, NEW a \in Authorities, NEW d \in Devices,
               NEW t \in {"trusted", "revoked"}, Issue(x, a, d, t)
        PROVE  Standing!Next
    BY <2>2, IssuePermits
  <2>3. ASSUME NEW x \in Actions, Decide(x)
        PROVE  Standing!Next
    BY <2>3, DecideByPermit
  <2> QED  BY <2>1, <2>2, <2>3, OwnerSteps, OwnerKeepsStanding
<1>6. ASSUME NEW x \in Actions, Decide(x)
      PROVE  Standing!Next
  BY <1>6, DecideByPermit
<1> QED  BY <1>2, <1>3, <1>4, <1>5, <1>6, DeviceSteps DEF IInv

\* However processes interleave, the trust of a device moves only by a permit
\* of its owner that still stands, and what is revoked stays so.
THEOREM StandingRefinement == Spec => KeepsStanding
BY InitKeepsStanding, StepKeepsStanding, Invariance, PTL
DEF Spec, KeepsStanding, Standing!Spec

=============================================================================
