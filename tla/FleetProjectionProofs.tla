------------------------ MODULE FleetProjectionProofs ------------------------
(***************************************************************************)
(* Theorems about FleetProjection for every number of reconcilers,         *)
(* operations, generations and bindings.                                   *)
(*                                                                         *)
(* The argument.  Fleet may read a request long after the reconciler that  *)
(* wrote it is gone, so the fence of nodescale-state/src/n6.rs has to be   *)
(* right about requests it cannot see.  It is, because of four facts that  *)
(* hold together: a request in flight carries exactly the body of a record *)
(* that is attempted or settled (AttemptIsDurableFirst); Fleet holds the   *)
(* newest document it ever accepted (Newest); an applied record was really *)
(* held (part of Witnessed); and a retired binding has, for every record   *)
(* that may still stand for authority, a later applied record that         *)
(* releases it (Released).  A later applied record therefore means Fleet   *)
(* has moved past the older request and its generation fence refuses it.   *)
(*                                                                         *)
(* The last section puts KeryxBinding in the place of the bindings         *)
(* (SharedBinding): each of the two does what the other assumes of it.     *)
(***************************************************************************)
EXTENDS SharedBinding, TLAPS

\* Records exist exactly below the counter and every row names its record.
Recorded ==
  /\ \A g \in Generations :
       /\ state[g] # "none" <=> g < generation
       /\ state[g] # "none" <=> desired[g] # NoDocument
       /\ desired[g] # NoDocument => desired[g].generation = g
       /\ state[g] \notin {"none", "desired"} => attempt[g] \in Operations
  /\ \A o \in Operations :
       operation[o] # NoDocument => desired[operation[o].generation] = operation[o]

\* Past its reservation a call works on the record of its own document, and
\* what it remembers of that record is consistent with where it is.
CallConsistent(r) ==
  /\ pc[r] # "idle" =>
       call[r].document \in Documents /\ call[r].operation \in Operations
  /\ pc[r] \notin {"idle", "reserve"} =>
       /\ SameRecord(call[r].document)
       /\ view[r] \in {"desired", "attempted"}
       /\ view[r] = "attempted" =>
            state[call[r].document.generation] \notin {"none", "desired"}
  /\ pc[r] \in {"dispatch", "inspect", "recover"} => view[r] = "attempted"
  /\ pc[r] = "attempt" /\ view[r] = "attempted" =>
       retry[r] /\ inspection[r] = NoDocument

Consistent == \A r \in Reconcilers : CallConsistent(r)

\* Fleet holds the newest document it ever accepted.
Newest ==
  /\ fleet = NoDocument <=> held = {}
  /\ fleet # NoDocument => fleet \in held
  /\ \A d \in held : d.generation <= fleet.generation

\* What was inspected and what was applied was really held.
Witnessed ==
  /\ \A r \in Reconcilers : inspection[r] \in Documents => inspection[r] \in held
  /\ AppliedWasHeld

\* At most one binding is pending or active, and it is the last one issued.
Chained ==
  \A b, c \in Bindings :
    binding[b] \in {"pending", "active"} /\ c > b => binding[c] = "none"

\* A reserved record carries a binding that has been active.
Provenance ==
  \A g \in Generations :
    state[g] # "none" => binding[desired[g].binding] \in {"active"} \cup Retired

\* A retired binding has no unresolved Fleet authority, and never regains any.
Released ==
  \A b \in Bindings : binding[b] \in Retired => ~FleetAuthorityUnresolved(b)

IInv ==
  /\ TypeOK
  /\ Recorded
  /\ Consistent
  /\ AttemptIsDurableFirst
  /\ Newest
  /\ Witnessed
  /\ Chained
  /\ Provenance
  /\ Released

-----------------------------------------------------------------------------
USE DEF store, worker, external

\* A step that touches none of the store's columns or bindings.
StoreUnchanged ==
  UNCHANGED <<generation, state, desired, attempt, operation, status, binding>>

\* Only a new reservation, an attempt and a settlement write records; only
\* the N6 operations write bindings (the transactions of n7.rs and n6.rs).
StoreStep ==
  \/ \E r \in Reconcilers : ReserveJoin(r) \/ ReserveNew(r) \/ RecordAttempt(r) \/ Settle(r)
  \/ IssueBinding
  \/ \E b \in Bindings : ConfirmBinding(b) \/ RotateBinding(b) \/ RevokeBinding(b)

LEMMA OthersLeaveTheStore ==
  ASSUME [Next]_vars PROVE StoreStep \/ StoreUnchanged
BY DEF Next, Reconcile, Reserve, StoreStep, StoreUnchanged, Submit, Resubmit, Begin,
       ReserveReplay, ReserveRefused, CapabilitiesConfirmed, CapabilitiesFailed,
       AttemptRefused, DispatchSent, DispatchUnavailable, InspectAnswered,
       InspectUnavailable, Inspect, KeepAttempted, RecoverAborted, Crash, Deliver,
       Lose, vars

LEMMA GenerationsAreNaturals ==
  /\ Generations \subseteq Nat
  /\ \A d \in Documents : d.generation \in Generations /\ d.binding \in Bindings
  /\ \A b \in Bindings : b \in Nat
BY BoundsAssumption DEF Generations, Bindings, Documents

-----------------------------------------------------------------------------
LEMMA InitialTypes == Init => TypeOK
BY BoundsAssumption, SentinelAssumption
DEF Init, TypeOK, Idle, Calls, RecordStates, Statuses, BindingStates, Steps, Inspections,
    Generations

LEMMA ReturnTypes ==
  ASSUME TypeOK, NEW r \in Reconcilers, Return(r)
  PROVE  /\ pc' \in [Reconcilers -> Steps]
         /\ call' \in [Reconcilers -> Calls]
         /\ view' \in [Reconcilers -> RecordStates]
         /\ retry' \in [Reconcilers -> BOOLEAN]
         /\ inspection' \in [Reconcilers -> Inspections]
BY DEF TypeOK, Return, Idle, Calls, RecordStates, Steps, Inspections

LEMMA ReservedTypes ==
  ASSUME TypeOK, NEW r \in Reconcilers, NEW s \in RecordStates, Reserved(r, s)
  PROVE  /\ pc' \in [Reconcilers -> Steps]
         /\ call' \in [Reconcilers -> Calls]
         /\ view' \in [Reconcilers -> RecordStates]
         /\ retry' \in [Reconcilers -> BOOLEAN]
         /\ inspection' \in [Reconcilers -> Inspections]
<1>1. CASE s \in Settled
  BY <1>1, ReturnTypes DEF Reserved
<1>2. CASE s \notin Settled
  BY <1>2 DEF Reserved, Goto, TypeOK, Steps
<1> QED BY <1>1, <1>2

LEMMA InCall ==
  ASSUME TypeOK, Consistent, NEW r \in Reconcilers, pc[r] # "idle"
  PROVE  /\ call[r].document \in Documents
         /\ call[r].document.generation \in Generations
         /\ call[r].operation \in Operations
         /\ state[call[r].document.generation] \in RecordStates
BY GenerationsAreNaturals DEF Consistent, CallConsistent, TypeOK

\* Everything a step inside a reconcile call assigns has its type.
LEMMA ReconcileTypes ==
  ASSUME TypeOK, Consistent, NEW r \in Reconcilers, Reconcile(r)
  PROVE  TypeOK'
<1> DEFINE d == call[r].document
           o == call[r].operation
           g == d.generation
<1>1. CASE ReserveReplay(r)
  BY <1>1, InCall, ReservedTypes DEF ReserveReplay, TypeOK, external
<1>2. CASE ReserveJoin(r)
  <2>1. operation' \in [Operations -> Documents \cup {NoDocument}]
    BY <1>2, InCall DEF ReserveJoin, TypeOK
  <2> QED BY <1>2, <2>1, InCall, ReservedTypes DEF ReserveJoin, TypeOK
<1>3. CASE ReserveRefused(r)
  BY <1>3, ReturnTypes DEF ReserveRefused, TypeOK
<1>4. CASE ReserveNew(r)
  <2>1. d \in Documents /\ g \in Generations /\ o \in Operations
    BY <1>4, InCall DEF ReserveNew
  <2>2. generation' \in 1..MaxGeneration + 1
    BY <1>4, <2>1, BoundsAssumption DEF ReserveNew, Generations
  <2>3. /\ state' \in [Generations -> RecordStates]
        /\ desired' \in [Generations -> Documents \cup {NoDocument}]
        /\ operation' \in [Operations -> Documents \cup {NoDocument}]
        /\ status' \in Statuses
    BY <1>4, <2>1 DEF ReserveNew, TypeOK, RecordStates, Statuses
  <2>4. "desired" \in RecordStates
    BY DEF RecordStates
  <2>5. Reserved(r, "desired")
    BY <1>4 DEF ReserveNew
  <2> QED BY <1>4, <2>2, <2>3, <2>4, <2>5, ReservedTypes DEF ReserveNew, TypeOK
<1>5. CASE CapabilitiesConfirmed(r)
  <2>1. FirstStep(view[r]) \in Steps
    BY DEF FirstStep, Steps
  <2> QED BY <1>5, <2>1 DEF CapabilitiesConfirmed, Goto, TypeOK
<1>6. CASE CapabilitiesFailed(r)
  BY <1>6, ReturnTypes DEF CapabilitiesFailed, TypeOK
<1>7. CASE RecordAttempt(r)
  BY <1>7, InCall DEF RecordAttempt, Goto, TypeOK, RecordStates, Steps
<1>8. CASE AttemptRefused(r)
  BY <1>8, ReturnTypes DEF AttemptRefused, TypeOK
<1>9. CASE DispatchSent(r)
  BY <1>9, InCall DEF DispatchSent, Goto, TypeOK, Steps
<1>10. CASE DispatchUnavailable(r)
  BY <1>10, ReturnTypes DEF DispatchUnavailable, TypeOK
<1>11. CASE InspectAnswered(r) \/ InspectUnavailable(r)
  BY <1>11 DEF InspectAnswered, InspectUnavailable, Inspect, Goto, TypeOK, Steps, Inspections
<1>12. CASE Settle(r)
  <2>1. Verdict(d, inspection[r]) \in RecordStates \cap Statuses
    BY DEF Verdict, RecordStates, Statuses
  <2> QED BY <1>12, <2>1, ReturnTypes DEF Settle, TypeOK
<1>13. CASE KeepAttempted(r)
  <2>1. CASE MayDispatchAgain(r)
    BY <1>13, <2>1 DEF KeepAttempted, Goto, TypeOK, Steps
  <2>2. CASE ~MayDispatchAgain(r)
    BY <1>13, <2>2, ReturnTypes DEF KeepAttempted, TypeOK
  <2> QED BY <2>1, <2>2
<1>14. CASE RecoverAborted(r)
  BY <1>14, ReturnTypes DEF RecoverAborted, TypeOK
<1> QED
  BY <1>1, <1>2, <1>3, <1>4, <1>5, <1>6, <1>7, <1>8, <1>9, <1>10, <1>11, <1>12, <1>13,
     <1>14 DEF Reconcile, Reserve

LEMMA BeginTypes ==
  ASSUME TypeOK, NEW r \in Reconcilers, NEW o \in Operations,
         NEW d \in Documents \cup {NoDocument}, Begin(r, o, d)
  PROVE  TypeOK'
BY DEF Begin, Goto, TypeOK, Steps, Calls

LEMMA BindingTypes ==
  ASSUME TypeOK,
         IssueBinding \/ \E b \in Bindings : ConfirmBinding(b) \/ RotateBinding(b) \/ RevokeBinding(b)
  PROVE  TypeOK'
<1>1. binding' \in [Bindings -> BindingStates]
  BY DEF TypeOK, IssueBinding, ConfirmBinding, RotateBinding, RevokeBinding, BindingStates
<1> QED
  BY <1>1 DEF TypeOK, IssueBinding, ConfirmBinding, RotateBinding, RevokeBinding

LEMMA StepTypes ==
  ASSUME TypeOK, Consistent, [Next]_vars
  PROVE  TypeOK'
<1>1. CASE \E r \in Reconcilers, o \in Operations, d \in Documents : Submit(r, o, d)
  BY <1>1, BeginTypes DEF Submit
<1>2. CASE \E r \in Reconcilers, o \in Operations, g \in Generations : Resubmit(r, o, g)
  <2>1. PICK r \in Reconcilers, o \in Operations, g \in Generations : Resubmit(r, o, g)
    BY <1>2
  <2>2. desired[g] \in Documents \cup {NoDocument}
    BY DEF TypeOK
  <2> QED BY <2>1, <2>2, BeginTypes DEF Resubmit
<1>3. CASE \E r \in Reconcilers : Reconcile(r)
  BY <1>3, ReconcileTypes
<1>4. CASE \E r \in Reconcilers : Crash(r)
  BY <1>4, ReturnTypes DEF Crash, TypeOK
<1>5. CASE \E d \in Documents : Deliver(d) \/ Lose(d)
  BY <1>5 DEF Deliver, Lose, TypeOK
<1>6. CASE IssueBinding
  BY <1>6, BindingTypes
<1>7. CASE \E b \in Bindings : ConfirmBinding(b) \/ RotateBinding(b) \/ RevokeBinding(b)
  BY <1>7, BindingTypes
<1>8. CASE UNCHANGED vars
  BY <1>8 DEF vars, TypeOK
<1> QED BY <1>1, <1>2, <1>3, <1>4, <1>5, <1>6, <1>7, <1>8 DEF Next

-----------------------------------------------------------------------------
\* The revision fence of record_n7_projection_dispatch_attempt: the record is
\* where the call saw it.
LEMMA AttemptSeesRecord ==
  ASSUME TypeOK, Consistent, NEW r \in Reconcilers, RecordAttempt(r)
  PROVE  LET d == call[r].document IN
         /\ d \in Documents /\ d.generation \in Generations
         /\ desired[d.generation] = d
         /\ state[d.generation] = view[r]
         /\ state[d.generation] \in {"desired", "attempted"}
         /\ binding[d.binding] = "active"
<1> DEFINE d == call[r].document
<1>1. /\ d \in Documents /\ d.generation \in Generations
      /\ state[d.generation] \in RecordStates
  BY InCall DEF RecordAttempt
<1>2. view[r] \in {"desired", "attempted"} /\ desired[d.generation] = d
  BY DEF RecordAttempt, Consistent, CallConsistent, SameRecord
<1>3. Revision(view[r]) = Revision(state[d.generation]) /\ binding[d.binding] = "active"
  BY DEF RecordAttempt, AttemptAdmitted, RevisionMatches, BindingActive
<1>4. state[d.generation] = view[r]
  BY <1>1, <1>2, <1>3 DEF Revision, RecordStates
<1> QED BY <1>1, <1>2, <1>3, <1>4

\* The same fence in recover_n7_projection_from_inspection: only an attempted
\* record is settled.
LEMMA SettleSeesAttempted ==
  ASSUME TypeOK, Consistent, NEW r \in Reconcilers, Settle(r)
  PROVE  LET d == call[r].document IN
         /\ d \in Documents /\ d.generation \in Generations
         /\ desired[d.generation] = d
         /\ state[d.generation] = "attempted"
         /\ Verdict(d, inspection[r]) \in Settled
<1> DEFINE d == call[r].document
<1>1. /\ d \in Documents /\ d.generation \in Generations
      /\ state[d.generation] \in RecordStates
  BY InCall DEF Settle
<1>2. view[r] = "attempted" /\ desired[d.generation] = d
  BY DEF Settle, Consistent, CallConsistent, SameRecord
<1>3. Revision(view[r]) = Revision(state[d.generation])
  BY DEF Settle, InspectionAdmitted, RevisionMatches
<1>4. state[d.generation] = "attempted"
  BY <1>1, <1>2, <1>3 DEF Revision, RecordStates
<1> QED BY <1>1, <1>2, <1>4 DEF Verdict, Settled

LEMMA StepRecorded ==
  ASSUME TypeOK, Consistent, Recorded, [Next]_vars
  PROVE  Recorded'
<1> USE GenerationsAreNaturals
<1>1. ASSUME NEW r \in Reconcilers, ReserveJoin(r) PROVE Recorded'
  BY <1>1, InCall DEF ReserveJoin, SameRecord, Recorded, TypeOK
<1>2. ASSUME NEW r \in Reconcilers, ReserveNew(r) PROVE Recorded'
  <2> DEFINE d == call[r].document
             g == d.generation
             o == call[r].operation
  <2>1. d \in Documents /\ g \in Generations /\ o \in Operations
    BY <1>2, InCall DEF ReserveNew
  <2>2. /\ state' = [state EXCEPT ![g] = "desired"]
        /\ desired' = [desired EXCEPT ![g] = d]
        /\ operation' = [operation EXCEPT ![o] = d]
        /\ generation = g /\ generation' = g + 1
    BY <1>2 DEF ReserveNew
  <2>3. d # NoDocument
    BY <2>1, SentinelAssumption
  <2>4. ASSUME NEW h \in Generations
        PROVE  /\ state'[h] # "none" <=> h < generation'
               /\ state'[h] # "none" <=> desired'[h] # NoDocument
               /\ desired'[h] # NoDocument => desired'[h].generation = h
               /\ state'[h] \notin {"none", "desired"} => attempt'[h] \in Operations
    BY <1>2, <2>1, <2>2, <2>3 DEF ReserveNew, Recorded, TypeOK
  <2>5. ASSUME NEW p \in Operations, operation'[p] # NoDocument
        PROVE  desired'[operation'[p].generation] = operation'[p]
    <3>1. CASE p = o
      BY <2>1, <2>2, <3>1 DEF TypeOK
    <3>2. CASE p # o
      <4>1. operation[p] \in Documents /\ desired[operation[p].generation] = operation[p]
        BY <2>2, <2>5, <3>2 DEF Recorded, TypeOK
      <4>2. operation[p].generation # g
        BY <1>2, <2>1, <4>1, SentinelAssumption DEF Recorded, ReserveNew
      <4> QED BY <2>1, <2>2, <3>2, <4>1, <4>2 DEF TypeOK
    <3> QED BY <3>1, <3>2
  <2> QED BY <2>4, <2>5 DEF Recorded
<1>3. ASSUME NEW r \in Reconcilers, RecordAttempt(r) PROVE Recorded'
  <2> DEFINE g == call[r].document.generation
  <2>1. g \in Generations /\ state[g] # "none"
    BY <1>3, AttemptSeesRecord
  <2>2. state' = [state EXCEPT ![g] = "attempted"] /\ UNCHANGED <<generation, desired, operation>>
    BY <1>3 DEF RecordAttempt
  <2>3. \A h \in Generations : state'[h] # "none" <=> state[h] # "none"
    BY <2>1, <2>2 DEF TypeOK
  <2>4. \A h \in Generations : state'[h] \notin {"none", "desired"} => attempt'[h] \in Operations
    <3>1. call[r].operation \in Operations /\ attempt' = [attempt EXCEPT ![g] = call[r].operation]
      BY <1>3, InCall DEF RecordAttempt
    <3> QED BY <2>1, <2>2, <3>1 DEF Recorded, TypeOK
  <2> HIDE DEF g
  <2> QED BY <2>2, <2>3, <2>4 DEF Recorded
<1>4. ASSUME NEW r \in Reconcilers, Settle(r) PROVE Recorded'
  BY <1>4, SettleSeesAttempted DEF Settle, Settled, Recorded, TypeOK
<1>5. CASE IssueBinding \/ \E b \in Bindings : ConfirmBinding(b) \/ RotateBinding(b) \/ RevokeBinding(b)
  BY <1>5 DEF IssueBinding, ConfirmBinding, RotateBinding, RevokeBinding, Recorded
<1>6. CASE StoreUnchanged
  BY <1>6 DEF StoreUnchanged, Recorded
<1> QED BY <1>1, <1>2, <1>3, <1>4, <1>5, <1>6, OthersLeaveTheStore DEF StoreStep

-----------------------------------------------------------------------------
LEMMA StepChained ==
  ASSUME TypeOK, Chained, [Next]_vars
  PROVE  Chained'
<1> USE GenerationsAreNaturals
<1>1. CASE IssueBinding
  BY <1>1, BoundsAssumption DEF IssueBinding, Chained, TypeOK, Bindings
<1>2. ASSUME NEW a \in Bindings, ConfirmBinding(a) PROVE Chained'
  BY <1>2 DEF ConfirmBinding, Chained, TypeOK
<1>3. ASSUME NEW a \in Bindings, RotateBinding(a) PROVE Chained'
  <2>1. a + 1 \in Bindings
    BY <1>3, BoundsAssumption DEF RotateBinding, Bindings
  <2>2. /\ binding[a] = "active"
        /\ binding' = [binding EXCEPT ![a] = "rotated", ![a + 1] = "pending"]
    BY <1>3 DEF RotateBinding
  <2>3. \A c \in Bindings : c > a => binding[c] = "none"
    BY <2>2 DEF Chained
  <2> QED BY <2>1, <2>2, <2>3 DEF Chained, TypeOK
<1>4. ASSUME NEW a \in Bindings, RevokeBinding(a) PROVE Chained'
  BY <1>4 DEF RevokeBinding, Chained, TypeOK
<1>5. CASE UNCHANGED binding
  BY <1>5 DEF Chained
<1> QED
  BY <1>1, <1>2, <1>3, <1>4, <1>5, OthersLeaveTheStore
  DEF StoreStep, StoreUnchanged, ReserveJoin, ReserveNew, RecordAttempt, Settle

LEMMA StepProvenance ==
  ASSUME TypeOK, Consistent, Recorded, Chained, Provenance, [Next]_vars
  PROVE  Provenance'
<1> USE GenerationsAreNaturals
<1>0. \A g \in Generations :
        state[g] # "none" => desired[g] \in Documents /\ desired[g].binding \in Bindings
  BY DEF Recorded, TypeOK
<1>1. ASSUME NEW r \in Reconcilers, ReserveJoin(r) PROVE Provenance'
  BY <1>1 DEF ReserveJoin, Provenance
<1>2. ASSUME NEW r \in Reconcilers, ReserveNew(r) PROVE Provenance'
  BY <1>2, InCall DEF ReserveNew, BindingActive, Provenance, TypeOK
<1>3. ASSUME NEW r \in Reconcilers, RecordAttempt(r) PROVE Provenance'
  <2> DEFINE g == call[r].document.generation
  <2>1. g \in Generations /\ state[g] # "none"
    BY <1>3, AttemptSeesRecord
  <2>2. state' = [state EXCEPT ![g] = "attempted"] /\ UNCHANGED <<desired, binding>>
    BY <1>3 DEF RecordAttempt
  <2>3. \A h \in Generations : state'[h] # "none" => state[h] # "none"
    BY <2>1, <2>2 DEF TypeOK
  <2> HIDE DEF g
  <2> QED BY <2>2, <2>3 DEF Provenance
<1>4. ASSUME NEW r \in Reconcilers, Settle(r) PROVE Provenance'
  BY <1>4, SettleSeesAttempted DEF Settle, Provenance, TypeOK
<1>5. CASE IssueBinding
  <2>1. \A b \in Bindings : binding[b] = "none"
    BY <1>5 DEF IssueBinding
  <2> QED BY <1>0, <1>5, <2>1 DEF IssueBinding, Provenance, Retired
<1>6. ASSUME NEW a \in Bindings, ConfirmBinding(a) PROVE Provenance'
  BY <1>0, <1>6 DEF ConfirmBinding, Provenance, Retired, TypeOK
<1>7. ASSUME NEW a \in Bindings, RotateBinding(a) PROVE Provenance'
  <2>1. a + 1 \in Bindings
    BY <1>7, BoundsAssumption DEF RotateBinding, Bindings
  <2>2. binding[a + 1] = "none"
    BY <1>7, <2>1 DEF RotateBinding, Chained
  <2> QED BY <1>0, <1>7, <2>1, <2>2 DEF RotateBinding, Provenance, Retired, TypeOK
<1>8. ASSUME NEW a \in Bindings, RevokeBinding(a) PROVE Provenance'
  BY <1>0, <1>8 DEF RevokeBinding, Provenance, Retired, TypeOK
<1>9. CASE StoreUnchanged
  BY <1>9 DEF StoreUnchanged, Provenance
<1> QED
  BY <1>1, <1>2, <1>3, <1>4, <1>5, <1>6, <1>7, <1>8, <1>9, OthersLeaveTheStore DEF StoreStep

-----------------------------------------------------------------------------
\* Records advance: the body of a reserved one never changes, an attempted one
\* stays attempted or is settled, a settled one stays as it is.
LEMMA RecordsOnlyAdvance ==
  ASSUME TypeOK, Consistent, Recorded, [Next]_vars, NEW g \in Generations
  PROVE  /\ state[g] # "none" => state'[g] # "none" /\ desired'[g] = desired[g]
         /\ state[g] \notin {"none", "desired"} => state'[g] \notin {"none", "desired"}
         /\ state[g] \in Settled => state'[g] = state[g]
<1> DEFINE Advance ==
      /\ state[g] # "none" => state'[g] # "none" /\ desired'[g] = desired[g]
      /\ state[g] \notin {"none", "desired"} => state'[g] \notin {"none", "desired"}
      /\ state[g] \in Settled => state'[g] = state[g]
<1>1. ASSUME NEW r \in Reconcilers, ReserveJoin(r) PROVE Advance
  BY <1>1 DEF ReserveJoin
<1>2. ASSUME NEW r \in Reconcilers, ReserveNew(r) PROVE Advance
  BY <1>2, InCall DEF ReserveNew, Settled, TypeOK
<1>3. ASSUME NEW r \in Reconcilers, RecordAttempt(r) PROVE Advance
  BY <1>3, AttemptSeesRecord DEF RecordAttempt, Settled, TypeOK
<1>4. ASSUME NEW r \in Reconcilers, Settle(r) PROVE Advance
  BY <1>4, SettleSeesAttempted DEF Settle, Settled, TypeOK
<1>5. CASE IssueBinding \/ \E b \in Bindings : ConfirmBinding(b) \/ RotateBinding(b) \/ RevokeBinding(b)
  BY <1>5 DEF IssueBinding, ConfirmBinding, RotateBinding, RevokeBinding
<1>6. CASE StoreUnchanged
  BY <1>6 DEF StoreUnchanged
<1> QED BY <1>1, <1>2, <1>3, <1>4, <1>5, <1>6, OthersLeaveTheStore DEF StoreStep

\* A call that does not move stays consistent whatever the others do.
LEMMA WaitingIsConsistent ==
  ASSUME TypeOK, Consistent, Recorded, [Next]_vars, NEW s \in Reconcilers,
         pc'[s] = pc[s], call'[s] = call[s], view'[s] = view[s], retry'[s] = retry[s],
         inspection'[s] = inspection[s]
  PROVE  CallConsistent(s)'
<1> DEFINE d == call[s].document
<1>1. CallConsistent(s)
  BY DEF Consistent
<1>2. CASE pc[s] \in {"idle", "reserve"}
  BY <1>1, <1>2 DEF CallConsistent
<1>3. CASE pc[s] \notin {"idle", "reserve"}
  <2>1. d \in Documents /\ d.generation \in Generations /\ desired[d.generation] = d
    BY <1>1, <1>3, GenerationsAreNaturals DEF CallConsistent, SameRecord
  <2>2. state[d.generation] # "none"
    BY <2>1, SentinelAssumption DEF Recorded
  <2>3. desired'[d.generation] = d
    BY <2>1, <2>2, RecordsOnlyAdvance
  <2>4. state[d.generation] \notin {"none", "desired"} =>
          state'[d.generation] \notin {"none", "desired"}
    BY <2>1, RecordsOnlyAdvance
  <2> QED BY <1>1, <1>3, <2>3, <2>4 DEF CallConsistent, SameRecord
<1> QED BY <1>2, <1>3

LEMMA ReturnIsConsistent ==
  ASSUME TypeOK, NEW s \in Reconcilers, Return(s)
  PROVE  CallConsistent(s)'
BY DEF Return, CallConsistent, TypeOK

LEMMA ReservedIsConsistent ==
  ASSUME TypeOK, NEW s \in Reconcilers, NEW t \in RecordStates \ {"none"}, Reserved(s, t),
         call[s].document \in Documents, call[s].operation \in Operations,
         desired'[call[s].document.generation] = call[s].document,
         state'[call[s].document.generation] = t
  PROVE  CallConsistent(s)'
<1>1. CASE t \in Settled
  BY <1>1, ReturnIsConsistent DEF Reserved
<1>2. CASE t \notin Settled
  <2>1. t \in {"desired", "attempted"}
    BY <1>2 DEF RecordStates, Settled
  <2> QED BY <1>2, <2>1 DEF Reserved, Goto, CallConsistent, SameRecord, TypeOK
<1> QED BY <1>1, <1>2

\* A reconciler moves only itself.
LEMMA OthersWait ==
  ASSUME TypeOK, NEW r \in Reconcilers, NEW s \in Reconcilers, s # r,
         \/ \E o \in Operations, d \in Documents \cup {NoDocument} : Begin(r, o, d)
         \/ Reconcile(r)
         \/ Crash(r)
  PROVE  /\ pc'[s] = pc[s] /\ call'[s] = call[s] /\ view'[s] = view[s]
         /\ retry'[s] = retry[s] /\ inspection'[s] = inspection[s]
BY DEF Begin, Reconcile, Reserve, ReserveReplay, ReserveJoin, ReserveRefused, ReserveNew,
       CapabilitiesConfirmed, CapabilitiesFailed, RecordAttempt, AttemptRefused, DispatchSent,
       DispatchUnavailable, InspectAnswered, InspectUnavailable, Inspect, Settle,
       KeepAttempted, RecoverAborted, Crash, Return, Reserved, Goto, TypeOK

LEMMA ReconcileConsistent ==
  ASSUME TypeOK, Consistent, Recorded, NEW s \in Reconcilers, Reconcile(s), TypeOK'
  PROVE  CallConsistent(s)'
<1> DEFINE d == call[s].document
           o == call[s].operation
           g == d.generation
<1> USE GenerationsAreNaturals
<1>0. CallConsistent(s)
  BY DEF Consistent
<1>1. CASE ReserveReplay(s)
  <2>1. d \in Documents /\ o \in Operations /\ g \in Generations /\ operation[o] = d
    BY <1>1, InCall DEF ReserveReplay
  <2>2. desired[g] = d /\ desired' = desired /\ state' = state
    BY <1>1, <2>1, SentinelAssumption DEF ReserveReplay, Recorded
  <2>3. state[g] \in RecordStates \ {"none"}
    BY <2>1, <2>2, SentinelAssumption DEF Recorded, TypeOK
  <2>4. Reserved(s, state[g])
    BY <1>1 DEF ReserveReplay
  <2> QED BY <2>1, <2>2, <2>3, <2>4, ReservedIsConsistent
<1>2. CASE ReserveJoin(s)
  <2>1. d \in Documents /\ o \in Operations /\ g \in Generations
    BY <1>2, InCall DEF ReserveJoin
  <2>2. desired[g] = d /\ desired' = desired /\ state' = state
    BY <1>2 DEF ReserveJoin, SameRecord
  <2>3. state[g] \in RecordStates \ {"none"}
    BY <2>1, <2>2, SentinelAssumption DEF Recorded, TypeOK
  <2>4. Reserved(s, state[g])
    BY <1>2 DEF ReserveJoin
  <2> QED BY <2>1, <2>2, <2>3, <2>4, ReservedIsConsistent
<1>3. CASE ReserveRefused(s)
  BY <1>3, ReturnIsConsistent DEF ReserveRefused
<1>4. CASE ReserveNew(s)
  <2>1. d \in Documents /\ o \in Operations /\ g \in Generations
    BY <1>4, InCall DEF ReserveNew
  <2>2. desired'[g] = d /\ state'[g] = "desired"
    BY <1>4, <2>1 DEF ReserveNew, TypeOK
  <2>3. Reserved(s, "desired") /\ "desired" \in RecordStates \ {"none"}
    BY <1>4 DEF ReserveNew, RecordStates
  <2> QED BY <2>1, <2>2, <2>3, ReservedIsConsistent
<1>5. CASE CapabilitiesConfirmed(s)
  <2>1. pc'[s] = FirstStep(view[s]) /\ UNCHANGED <<state, desired, call, view>>
    BY <1>5 DEF CapabilitiesConfirmed, Goto, TypeOK
  <2>2. pc[s] = "capabilities" /\ view[s] \in {"desired", "attempted"}
    BY <1>0, <1>5 DEF CapabilitiesConfirmed, CallConsistent
  <2>3. /\ view[s] = "attempted" => pc'[s] = "inspect"
        /\ view[s] = "desired" => pc'[s] = "attempt"
    BY <2>1 DEF FirstStep
  <2> QED BY <1>0, <2>1, <2>2, <2>3 DEF CallConsistent, SameRecord
<1>6. CASE CapabilitiesFailed(s) \/ AttemptRefused(s) \/ DispatchUnavailable(s) \/ RecoverAborted(s)
  BY <1>6, ReturnIsConsistent
  DEF CapabilitiesFailed, AttemptRefused, DispatchUnavailable, RecoverAborted
<1>7. CASE RecordAttempt(s)
  <2>1. d \in Documents /\ o \in Operations /\ g \in Generations /\ desired[g] = d
    BY <1>7, InCall, AttemptSeesRecord DEF RecordAttempt
  <2>2. /\ pc'[s] = "dispatch" /\ view'[s] = "attempted" /\ call' = call
        /\ state'[g] = "attempted" /\ desired' = desired
    BY <1>7, <2>1 DEF RecordAttempt, Goto, TypeOK
  <2> QED BY <2>1, <2>2 DEF CallConsistent, SameRecord
<1>8. CASE DispatchSent(s)
  <2>1. pc'[s] = "inspect"
    BY <1>8 DEF DispatchSent, Goto, TypeOK
  <2> QED BY <1>0, <1>8, <2>1 DEF DispatchSent, CallConsistent, SameRecord
<1>9. CASE InspectAnswered(s) \/ InspectUnavailable(s)
  <2>1. pc'[s] = "recover" /\ pc[s] = "inspect"
    BY <1>9 DEF InspectAnswered, InspectUnavailable, Inspect, Goto, TypeOK
  <2>2. UNCHANGED <<state, desired, call, view>>
    BY <1>9 DEF InspectAnswered, InspectUnavailable, Inspect
  <2> QED BY <1>0, <2>1, <2>2 DEF CallConsistent, SameRecord
<1>10. CASE Settle(s)
  BY <1>10, ReturnIsConsistent DEF Settle
<1>11. CASE KeepAttempted(s)
  <2>1. CASE MayDispatchAgain(s)
    <3>1. pc'[s] = "attempt"
      BY <1>11, <2>1 DEF KeepAttempted, Goto, TypeOK
    <3> QED BY <1>0, <1>11, <2>1, <3>1 DEF KeepAttempted, MayDispatchAgain, CallConsistent, SameRecord
  <2>2. CASE ~MayDispatchAgain(s)
    BY <1>11, <2>2, ReturnIsConsistent DEF KeepAttempted
  <2> QED BY <2>1, <2>2
<1> QED
  BY <1>1, <1>2, <1>3, <1>4, <1>5, <1>6, <1>7, <1>8, <1>9, <1>10, <1>11
  DEF Reconcile, Reserve

LEMMA StepConsistent ==
  ASSUME TypeOK, Consistent, Recorded, [Next]_vars
  PROVE  Consistent'
<1>1. TypeOK'
  BY StepTypes
<1> SUFFICES ASSUME NEW s \in Reconcilers PROVE CallConsistent(s)'
  BY DEF Consistent
<1>2. CASE UNCHANGED worker
  BY <1>2, WaitingIsConsistent
<1>3. ASSUME NEW r \in Reconcilers, NEW o \in Operations, NEW d \in Documents \cup {NoDocument},
             Begin(r, o, d), d \in Documents
      PROVE  CallConsistent(s)'
  <2>1. CASE s = r
    BY <1>3, <2>1 DEF Begin, Goto, CallConsistent, TypeOK
  <2>2. CASE s # r
    BY <1>3, <2>2, OthersWait, WaitingIsConsistent
  <2> QED BY <2>1, <2>2
<1>4. ASSUME NEW r \in Reconcilers, NEW o \in Operations, NEW g \in Generations, Resubmit(r, o, g)
      PROVE  CallConsistent(s)'
  <2>1. desired[g] \in Documents /\ Begin(r, o, desired[g])
    BY <1>4 DEF Resubmit, Recorded, TypeOK
  <2> QED BY <1>3, <2>1
<1>5. ASSUME NEW r \in Reconcilers, Reconcile(r) PROVE CallConsistent(s)'
  <2>1. CASE s = r
    BY <1>1, <1>5, <2>1, ReconcileConsistent
  <2>2. CASE s # r
    BY <1>5, <2>2, OthersWait, WaitingIsConsistent
  <2> QED BY <2>1, <2>2
<1>6. ASSUME NEW r \in Reconcilers, Crash(r) PROVE CallConsistent(s)'
  <2>1. CASE s = r
    BY <1>6, <2>1, ReturnIsConsistent DEF Crash
  <2>2. CASE s # r
    BY <1>6, <2>2, OthersWait, WaitingIsConsistent
  <2> QED BY <2>1, <2>2
<1>7. (\E d \in Documents : Deliver(d) \/ Lose(d)) => UNCHANGED worker
  BY DEF Deliver, Lose
<1>8. (\/ IssueBinding
       \/ \E b \in Bindings : ConfirmBinding(b) \/ RotateBinding(b) \/ RevokeBinding(b)
       \/ UNCHANGED vars) => UNCHANGED worker
  BY DEF IssueBinding, ConfirmBinding, RotateBinding, RevokeBinding, vars
<1> QED
  BY <1>2, <1>3, <1>4, <1>5, <1>6, <1>7, <1>8 DEF Next, Submit

-----------------------------------------------------------------------------
\* Only a dispatch writes to Fleet's socket and only Fleet itself moves what it
\* holds.
LEMMA WhoMovesFleet ==
  ASSUME [Next]_vars
  PROVE  \/ \E r \in Reconcilers : DispatchSent(r)
         \/ \E d \in Documents : Deliver(d) \/ Lose(d)
         \/ UNCHANGED external
<1>1. ASSUME NEW r \in Reconcilers, Reconcile(r)
      PROVE  DispatchSent(r) \/ UNCHANGED external
  <2>1. ASSUME Reserve(r)
        PROVE  UNCHANGED external
    BY <2>1 DEF Reserve, ReserveReplay, ReserveJoin, ReserveNew, ReserveRefused
  <2> QED
    BY <1>1, <2>1 DEF Reconcile, CapabilitiesConfirmed, CapabilitiesFailed, RecordAttempt,
       AttemptRefused, DispatchUnavailable, InspectAnswered, InspectUnavailable, Inspect,
       Settle, KeepAttempted, RecoverAborted
<1>2. ASSUME NEW r \in Reconcilers, NEW o, NEW d, Begin(r, o, d) \/ Crash(r)
      PROVE  UNCHANGED external
  BY <1>2 DEF Begin, Crash
<1>3. CASE \/ IssueBinding
           \/ \E b \in Bindings : ConfirmBinding(b) \/ RotateBinding(b) \/ RevokeBinding(b)
           \/ UNCHANGED vars
  BY <1>3 DEF IssueBinding, ConfirmBinding, RotateBinding, RevokeBinding, vars
<1> QED BY <1>1, <1>2, <1>3 DEF Next, Submit, Resubmit

LEMMA StepDurable ==
  ASSUME TypeOK, Consistent, Recorded, AttemptIsDurableFirst, [Next]_vars, Recorded'
  PROVE  AttemptIsDurableFirst'
<1> USE GenerationsAreNaturals
<1>1. ASSUME NEW d \in network' \cup held'
      PROVE  /\ d \in Documents /\ desired[d.generation] = d
             /\ state[d.generation] \notin {"none", "desired"}
  <2>1. CASE d \in network \cup held
    BY <2>1 DEF AttemptIsDurableFirst, TypeOK
  <2>2. ASSUME NEW r \in Reconcilers, DispatchSent(r), d \notin network \cup held
        PROVE  /\ d \in Documents /\ desired[d.generation] = d
               /\ state[d.generation] \notin {"none", "desired"}
    <3>1. d = call[r].document /\ pc[r] = "dispatch"
      BY <1>1, <2>2 DEF DispatchSent
    <3> QED BY <3>1, InCall DEF Consistent, CallConsistent, SameRecord
  <2>3. (\E e \in Documents : Deliver(e) \/ Lose(e)) \/ UNCHANGED external => d \in network \cup held
    BY <1>1 DEF Deliver, Lose
  <2> QED BY <2>1, <2>2, <2>3, WhoMovesFleet
<1>2. ASSUME NEW d \in network' \cup held'
      PROVE  /\ desired'[d.generation] = d
             /\ attempt'[d.generation] \in Operations
             /\ state'[d.generation] \notin {"none", "desired"}
  <2>1. d.generation \in Generations
    BY <1>1, <1>2
  <2>2. /\ desired'[d.generation] = d
        /\ state'[d.generation] \notin {"none", "desired"}
    BY <1>1, <1>2, <2>1, RecordsOnlyAdvance
  <2> QED BY <2>1, <2>2 DEF Recorded
<1> QED BY <1>2 DEF AttemptIsDurableFirst

LEMMA StepNewest ==
  ASSUME TypeOK, Newest, [Next]_vars
  PROVE  Newest'
<1> USE GenerationsAreNaturals
<1>1. ASSUME NEW d \in Documents, Deliver(d) PROVE Newest'
  <2>1. CASE FleetAccepts(d)
    <3>1. fleet' = d /\ held' = held \cup {d} /\ d # NoDocument
      BY <1>1, <2>1, SentinelAssumption DEF Deliver
    <3>2. ASSUME NEW e \in held PROVE e.generation <= d.generation
      <4>1. fleet # NoDocument /\ fleet \in Documents /\ e \in Documents
        BY DEF Newest, TypeOK
      <4>2. /\ e.generation \in Nat /\ fleet.generation \in Nat /\ d.generation \in Nat
            /\ e.generation <= fleet.generation
        BY <4>1 DEF Newest
      <4>3. d.generation = fleet.generation + 1
        BY <2>1, <4>1 DEF FleetAccepts
      <4> QED BY <4>2, <4>3
    <3>3. d.generation \in Nat
      OBVIOUS
    <3>4. \A e \in held' : e.generation <= fleet'.generation
      BY <3>1, <3>2, <3>3
    <3> QED BY <3>1, <3>4 DEF Newest
  <2>2. CASE ~FleetAccepts(d)
    BY <1>1, <2>2 DEF Deliver, Newest
  <2> QED BY <2>1, <2>2
<1>2. ASSUME NEW d \in Documents, Lose(d) PROVE Newest'
  BY <1>2 DEF Lose, Newest
<1>3. ASSUME NEW r \in Reconcilers, DispatchSent(r) PROVE Newest'
  BY <1>3 DEF DispatchSent, Newest
<1>4. CASE UNCHANGED external
  BY <1>4 DEF Newest
<1> QED BY <1>1, <1>2, <1>3, <1>4, WhoMovesFleet

\* Fleet's history only grows.
LEMMA HistoryGrows ==
  ASSUME [Next]_vars PROVE held \subseteq held'
BY WhoMovesFleet DEF DispatchSent, Deliver, Lose

LEMMA StepWitnessed ==
  ASSUME TypeOK, Consistent, Recorded, Newest, Witnessed, [Next]_vars
  PROVE  Witnessed'
<1> USE GenerationsAreNaturals, HistoryGrows
<1>1. ASSUME NEW s \in Reconcilers, inspection'[s] \in Documents
      PROVE  inspection'[s] \in held'
  <2>1. CASE inspection'[s] = inspection[s]
    BY <1>1, <2>1 DEF Witnessed
  <2>2. CASE inspection'[s] = NoDocument
    BY <1>1, <2>2, SentinelAssumption
  <2>3. CASE inspection'[s] \in {fleet, Unavailable}
    BY <1>1, <2>3, SentinelAssumption DEF Newest
  <2>4. inspection'[s] \in {inspection[s], NoDocument, fleet, Unavailable}
    <3>1. ASSUME NEW r \in Reconcilers, Reconcile(r)
          PROVE  inspection'[s] \in {inspection[s], NoDocument, fleet, Unavailable}
      BY <3>1 DEF Reconcile, Reserve, ReserveReplay, ReserveJoin, ReserveNew, ReserveRefused,
                  CapabilitiesConfirmed, CapabilitiesFailed, RecordAttempt, AttemptRefused,
                  DispatchSent, DispatchUnavailable, InspectAnswered, InspectUnavailable,
                  Inspect, Settle, KeepAttempted, RecoverAborted, Return, Reserved, TypeOK
    <3>2. ASSUME NEW r \in Reconcilers, NEW o, NEW d, Begin(r, o, d) \/ Crash(r)
          PROVE  inspection'[s] \in {inspection[s], NoDocument, fleet, Unavailable}
      BY <3>2 DEF Begin, Crash, Return, TypeOK
    <3>3. CASE ~ \E r \in Reconcilers : Reconcile(r) \/ Crash(r) \/ \E o, d : Begin(r, o, d)
      BY <3>3 DEF Next, Submit, Resubmit, Deliver, Lose, IssueBinding, ConfirmBinding,
                  RotateBinding, RevokeBinding, vars
    <3> QED BY <3>1, <3>2, <3>3
  <2> QED BY <2>1, <2>2, <2>3, <2>4
<1>2. ASSUME NEW g \in Generations, state'[g] = "applied"
      PROVE  desired'[g] \in held'
  <2>1. CASE state[g] = "applied"
    BY <1>2, <2>1, RecordsOnlyAdvance DEF Witnessed, AppliedWasHeld
  <2>2. CASE state[g] # "applied"
    <3>1. ASSUME NEW r \in Reconcilers, Settle(r) PROVE desired'[g] \in held'
      <4>1. /\ call[r].document \in Documents
            /\ desired[call[r].document.generation] = call[r].document
        BY <3>1, SettleSeesAttempted
      <4>2. /\ state' = [state EXCEPT ![call[r].document.generation] =
                                          Verdict(call[r].document, inspection[r])]
            /\ inspection[r] \in Documents /\ desired' = desired
        BY <3>1 DEF Settle
      <4>3. /\ g = call[r].document.generation
            /\ Verdict(call[r].document, inspection[r]) = "applied"
        BY <1>2, <2>2, <4>1, <4>2 DEF TypeOK
      <4>4. inspection[r] = desired[g]
        BY <4>1, <4>3 DEF Verdict
      <4> QED BY <4>2, <4>4 DEF Witnessed
    <3>2. ASSUME NEW r \in Reconcilers, ReserveJoin(r) \/ ReserveNew(r) \/ RecordAttempt(r)
          PROVE  state'[g] # "applied"
      BY <2>2, <3>2, InCall DEF ReserveJoin, ReserveNew, RecordAttempt, TypeOK
    <3>3. (\/ IssueBinding
           \/ \E b \in Bindings : ConfirmBinding(b) \/ RotateBinding(b) \/ RevokeBinding(b)
           \/ StoreUnchanged) => state' = state
      BY DEF IssueBinding, ConfirmBinding, RotateBinding, RevokeBinding, StoreUnchanged
    <3> QED BY <1>2, <2>2, <3>1, <3>2, <3>3, OthersLeaveTheStore DEF StoreStep
  <2> QED BY <2>1, <2>2
<1> QED BY <1>1, <1>2 DEF Witnessed, AppliedWasHeld

-----------------------------------------------------------------------------
\* A release is permanent: a superseding record stays applied, with its body.
LEMMA SupersededForGood ==
  ASSUME TypeOK, Consistent, Recorded, [Next]_vars,
         NEW g \in Generations, state[g] # "none",
         NEW h \in Generations, SupersededBy(h, g)
  PROVE  SupersededBy(h, g)'
<1>1. state[h] = "applied" /\ state'[h] = "applied" /\ desired'[h] = desired[h]
  BY RecordsOnlyAdvance DEF SupersededBy, Settled
<1>2. desired'[g] = desired[g]
  BY RecordsOnlyAdvance
<1> QED BY <1>1, <1>2 DEF SupersededBy

\* A record gains authority only under an active binding; settling it only
\* narrows what it stands for.
LEMMA AuthorityNeedsActiveBinding ==
  ASSUME TypeOK, Consistent, Recorded, [Next]_vars,
         NEW g \in Generations, LiveAuthority(g)', ~LiveAuthority(g)
  PROVE  binding[desired'[g].binding] = "active" /\ binding' = binding
<1>1. ASSUME NEW r \in Reconcilers, ReserveNew(r) PROVE FALSE
  <2>1. call[r].document.generation \in Generations
    BY <1>1, InCall DEF ReserveNew
  <2> QED BY <1>1, <2>1 DEF ReserveNew, LiveAuthority, TypeOK
<1>2. ASSUME NEW r \in Reconcilers, RecordAttempt(r)
      PROVE  binding[desired'[g].binding] = "active" /\ binding' = binding
  <2>1. /\ call[r].document.generation \in Generations
        /\ desired[call[r].document.generation] = call[r].document
        /\ binding[call[r].document.binding] = "active"
    BY <1>2, AttemptSeesRecord
  <2>2. g = call[r].document.generation
    BY <1>2, <2>1 DEF RecordAttempt, LiveAuthority, TypeOK
  <2> QED BY <1>2, <2>1, <2>2 DEF RecordAttempt
<1>3. ASSUME NEW r \in Reconcilers, Settle(r) PROVE FALSE
  <2>1. /\ call[r].document.generation \in Generations
        /\ state[call[r].document.generation] = "attempted"
    BY <1>3, SettleSeesAttempted
  <2> QED BY <1>3, <2>1 DEF Settle, LiveAuthority, TypeOK
<1>4. (\/ IssueBinding
       \/ \E b \in Bindings : ConfirmBinding(b) \/ RotateBinding(b) \/ RevokeBinding(b)
       \/ StoreUnchanged
       \/ \E r \in Reconcilers : ReserveJoin(r)) => UNCHANGED <<state, desired>>
  BY DEF IssueBinding, ConfirmBinding, RotateBinding, RevokeBinding, StoreUnchanged,
         ReserveJoin
<1>5. UNCHANGED <<state, desired>> => FALSE
  BY DEF LiveAuthority
<1> QED BY <1>1, <1>2, <1>3, <1>4, <1>5, OthersLeaveTheStore DEF StoreStep

\* A binding is retired only behind the fence (rotate_n6_binding and
\* revoke_n6_binding), and stays retired.
LEMMA RetiredBehindFence ==
  ASSUME TypeOK, Chained, [Next]_vars, NEW b \in Bindings
  PROVE  /\ binding[b] \in Retired => binding'[b] = binding[b]
         /\ binding[b] \notin Retired /\ binding'[b] \in Retired =>
              ~FleetAuthorityUnresolved(b) /\ UNCHANGED <<state, desired>>
<1> USE GenerationsAreNaturals DEF Retired
<1>1. CASE IssueBinding
  BY <1>1, BoundsAssumption DEF IssueBinding, TypeOK
<1>2. ASSUME NEW a \in Bindings, ConfirmBinding(a)
      PROVE  /\ binding[b] \in Retired => binding'[b] = binding[b]
             /\ ~(binding[b] \notin Retired /\ binding'[b] \in Retired)
  BY <1>2 DEF ConfirmBinding, TypeOK
<1>3. ASSUME NEW a \in Bindings, RotateBinding(a)
      PROVE  /\ binding[b] \in Retired => binding'[b] = binding[b]
             /\ binding[b] \notin Retired /\ binding'[b] \in Retired =>
                  ~FleetAuthorityUnresolved(b) /\ UNCHANGED <<state, desired>>
  <2>1. a + 1 \in Bindings /\ a + 1 > a
    BY <1>3, BoundsAssumption DEF RotateBinding, Bindings
  <2>2. binding[a + 1] = "none"
    BY <1>3, <2>1 DEF RotateBinding, Chained
  <2> QED BY <1>3, <2>1, <2>2 DEF RotateBinding, TypeOK
<1>4. ASSUME NEW a \in Bindings, RevokeBinding(a)
      PROVE  /\ binding[b] \in Retired => binding'[b] = binding[b]
             /\ binding[b] \notin Retired /\ binding'[b] \in Retired =>
                  ~FleetAuthorityUnresolved(b) /\ UNCHANGED <<state, desired>>
  BY <1>4 DEF RevokeBinding, TypeOK
<1>5. (\E r \in Reconcilers : ReserveJoin(r) \/ ReserveNew(r) \/ RecordAttempt(r) \/ Settle(r))
        \/ StoreUnchanged => binding' = binding
  BY DEF ReserveJoin, ReserveNew, RecordAttempt, Settle, StoreUnchanged
<1> QED BY <1>1, <1>2, <1>3, <1>4, <1>5, OthersLeaveTheStore DEF StoreStep

LEMMA StepReleased ==
  ASSUME TypeOK, Consistent, Recorded, Chained, Released, [Next]_vars
  PROVE  Released'
<1> SUFFICES ASSUME NEW b \in Bindings, binding'[b] \in Retired,
                    NEW g \in Generations, LiveAuthority(g)', desired'[g].binding = b
             PROVE  \E h \in Generations : SupersededBy(h, g)'
  BY DEF Released, FleetAuthorityUnresolved
<1>1. LiveAuthority(g)
  <2> SUFFICES ASSUME ~LiveAuthority(g) PROVE FALSE
    OBVIOUS
  <2>1. binding[b] = "active" /\ binding'[b] = "active"
    BY AuthorityNeedsActiveBinding
  <2> QED BY <2>1 DEF Retired
<1>2. state[g] # "none" /\ desired[g].binding = b
  BY <1>1, RecordsOnlyAdvance DEF LiveAuthority
<1>3. ~FleetAuthorityUnresolved(b)
  BY RetiredBehindFence DEF Released
<1>4. PICK h \in Generations : SupersededBy(h, g)
  BY <1>1, <1>2, <1>3 DEF FleetAuthorityUnresolved
<1> QED BY <1>2, <1>4, SupersededForGood

-----------------------------------------------------------------------------
(***************************************************************************)
(* The theorems                                                            *)
(***************************************************************************)
LEMMA InitialInvariant == Init => IInv
<1> SUFFICES ASSUME Init PROVE IInv
  OBVIOUS
<1> USE GenerationsAreNaturals
<1>1. TypeOK
  BY InitialTypes
<1>2. Recorded
  BY BoundsAssumption DEF Init, Recorded, Generations
<1>3. Consistent
  BY DEF Init, Consistent, CallConsistent
<1>4. AttemptIsDurableFirst /\ Newest
  BY DEF Init, AttemptIsDurableFirst, Newest
<1>5. Witnessed
  BY SentinelAssumption DEF Init, Witnessed, AppliedWasHeld
<1>6. Chained /\ Provenance /\ Released
  BY DEF Init, Chained, Provenance, Released, Retired
<1> QED BY <1>1, <1>2, <1>3, <1>4, <1>5, <1>6 DEF IInv

LEMMA InductiveInvariant == IInv /\ [Next]_vars => IInv'
<1> SUFFICES ASSUME IInv, [Next]_vars PROVE IInv'
  OBVIOUS
<1>1. /\ TypeOK /\ Recorded /\ Consistent /\ AttemptIsDurableFirst /\ Newest /\ Witnessed
      /\ Chained /\ Provenance /\ Released
  BY DEF IInv
<1>2. Recorded'
  BY <1>1, StepRecorded
<1> QED
  BY <1>1, <1>2, StepTypes, StepConsistent, StepDurable, StepNewest, StepWitnessed,
     StepChained, StepProvenance, StepReleased
  DEF IInv

\* IInv is inductive: reserved records, attempts, requests in flight, what Fleet
\* holds and the bindings stay related as the fence needs, in every behaviour.
THEOREM Invariance == Spec => []IInv
BY InitialInvariant, InductiveInvariant, PTL DEF Spec

\* Every variable keeps its type.
THEOREM TypeCorrect == Spec => []TypeOK
<1>1. IInv => TypeOK
  BY DEF IInv
<1> QED BY <1>1, Invariance, PTL

\* What Fleet holds, and what may still reach it, stands for an unresolved
\* authority unless it removes the node or a later applied record released it.
LEMMA SeenByTheFence ==
  ASSUME IInv, NEW d \in network \cup held, d.enrollment # "removed",
         binding[d.binding] \in Retired
  PROVE  \E h \in Generations : h > d.generation /\ desired[h] \in held
                                  /\ desired[h].generation = h
<1> DEFINE g == d.generation
<1>1. /\ d \in Documents /\ g \in Generations /\ d.binding \in Bindings
      /\ desired[g] = d /\ state[g] \notin {"none", "desired"}
  BY GenerationsAreNaturals DEF IInv, TypeOK, AttemptIsDurableFirst
<1>2. LiveAuthority(g)
  <2>1. state[g] \in {"attempted", "applied", "conflict"}
    BY <1>1 DEF IInv, TypeOK, RecordStates
  <2> QED BY <1>1, <2>1 DEF LiveAuthority
<1>3. ~FleetAuthorityUnresolved(d.binding)
  BY <1>1 DEF IInv, Released
<1>4. PICK h \in Generations : SupersededBy(h, g)
  BY <1>1, <1>2, <1>3 DEF FleetAuthorityUnresolved
<1>5. h > g /\ state[h] = "applied"
  BY <1>4 DEF SupersededBy
<1>6. desired[h] \in held /\ desired[h].generation = h
  BY <1>5, SentinelAssumption DEF IInv, Witnessed, AppliedWasHeld, Recorded
<1> QED BY <1>5, <1>6

LEMMA FenceHolds == IInv => FenceSafety
<1> SUFFICES ASSUME IInv, fleet # NoDocument, fleet.enrollment # "removed",
                    binding[fleet.binding] \in Retired
             PROVE  FALSE
  BY DEF FenceSafety
<1>1. fleet \in held /\ fleet \in Documents /\ fleet.generation \in Nat
  BY GenerationsAreNaturals DEF IInv, Newest, TypeOK
<1>2. PICK h \in Generations : h > fleet.generation /\ desired[h] \in held
                                 /\ desired[h].generation = h
  BY <1>1, SeenByTheFence
<1>3. h <= fleet.generation
  BY <1>2 DEF IInv, Newest
<1> QED BY <1>1, <1>2, <1>3, GenerationsAreNaturals

LEMMA LateRequestsRefused == IInv => LateRequestsAreHarmless
<1> SUFFICES ASSUME IInv, NEW d \in network, d.enrollment # "removed",
                    binding[d.binding] \in Retired, FleetAccepts(d)
             PROVE  FALSE
  BY DEF LateRequestsAreHarmless
<1>1. PICK h \in Generations : h > d.generation /\ desired[h] \in held
                                 /\ desired[h].generation = h
  BY SeenByTheFence
<1>2. fleet # NoDocument /\ fleet \in Documents /\ h <= fleet.generation
  BY <1>1 DEF IInv, Newest, TypeOK
<1>3. d \in Documents /\ d.generation = fleet.generation + 1
  BY <1>2 DEF FleetAccepts, IInv, TypeOK
<1>4. d.generation \in Nat /\ fleet.generation \in Nat /\ h \in Nat
  BY <1>2, <1>3, GenerationsAreNaturals
<1> QED BY <1>1, <1>2, <1>3, <1>4

\* The N6 fence of issue, rotate and revoke keeps Fleet authority and binding
\* authority together for every interleaving, crash and late request.
THEOREM FenceIsSafe == Spec => []FenceSafety
BY Invariance, FenceHolds, PTL

\* The store's fence also covers the requests it cannot see.
THEOREM LateRequestsStayHarmless == Spec => []LateRequestsAreHarmless
BY Invariance, LateRequestsRefused, PTL

\* Nothing is called applied that Fleet did not hold.
THEOREM AppliedIsEvidence == Spec => []AppliedWasHeld
<1>1. IInv => AppliedWasHeld
  BY DEF IInv, Witnessed
<1> QED BY <1>1, Invariance, PTL

\* A durable attempted record precedes everything Fleet may see.
THEOREM AttemptPrecedesDispatch == Spec => []AttemptIsDurableFirst
<1>1. IInv => AttemptIsDurableFirst
  BY DEF IInv
<1> QED BY <1>1, Invariance, PTL

\* Records, operation rows and the generation counter move together.
THEOREM RecordsMoveTogether == Spec => []RecordsFollowGeneration
<1>1. IInv => RecordsFollowGeneration
  BY DEF IInv, Recorded, RecordsFollowGeneration
<1> QED BY <1>1, Invariance, PTL

LEMMA AttemptedBindingHolds == IInv => AttemptedKeepsBinding
<1> SUFFICES ASSUME IInv, NEW g \in Generations, state[g] = "attempted",
                    binding[desired[g].binding] # "active"
             PROVE  \E h \in Generations : SupersededBy(h, g)
  BY DEF AttemptedKeepsBinding
<1>1. binding[desired[g].binding] \in Retired
  BY DEF IInv, Provenance
<1>2. desired[g].binding \in Bindings
  BY GenerationsAreNaturals DEF IInv, Recorded, TypeOK
<1> QED BY <1>1, <1>2 DEF IInv, Released, FleetAuthorityUnresolved, LiveAuthority

\* The binding of an attempted record stays active until it is released.
THEOREM AttemptedBindingStays == Spec => []AttemptedKeepsBinding
BY Invariance, AttemptedBindingHolds, PTL

LEMMA StepTakesNothingBack ==
  ASSUME IInv, [Next]_vars
  PROVE  /\ \A g \in Generations :
              /\ state[g] # "none" => desired'[g] = desired[g]
              /\ state[g] \in Settled => state'[g] = state[g]
              /\ state[g] = "attempted" => state'[g] \notin {"none", "desired"}
         /\ \A o \in Operations : operation[o] # NoDocument => operation'[o] = operation[o]
         /\ \A b \in Bindings : binding[b] \in Retired => binding'[b] = binding[b]
<1>1. \A o \in Operations : operation[o] # NoDocument => operation'[o] = operation[o]
  <2>1. ASSUME NEW r \in Reconcilers, ReserveJoin(r) \/ ReserveNew(r), NEW o \in Operations,
               operation[o] # NoDocument
        PROVE  operation'[o] = operation[o]
    BY <2>1, InCall DEF ReserveJoin, ReserveNew, IInv, TypeOK
  <2>2. StoreUnchanged \/ (\E r \in Reconcilers : RecordAttempt(r) \/ Settle(r))
          \/ IssueBinding
          \/ (\E b \in Bindings : ConfirmBinding(b) \/ RotateBinding(b) \/ RevokeBinding(b))
        => operation' = operation
    BY DEF StoreUnchanged, RecordAttempt, Settle, IssueBinding, ConfirmBinding,
           RotateBinding, RevokeBinding
  <2> QED BY <2>1, <2>2, OthersLeaveTheStore DEF StoreStep
<1>2. \A b \in Bindings : binding[b] \in Retired => binding'[b] = binding[b]
  BY RetiredBehindFence DEF IInv
<1>3. \A g \in Generations :
        /\ state[g] # "none" => desired'[g] = desired[g]
        /\ state[g] \in Settled => state'[g] = state[g]
        /\ state[g] = "attempted" => state'[g] \notin {"none", "desired"}
  BY RecordsOnlyAdvance DEF IInv
<1> QED BY <1>1, <1>2, <1>3

\* Reserved bodies, settled records, operation rows and retired bindings are
\* final.
THEOREM NothingEverTakenBack == Spec => NothingIsTakenBack
<1>1. IInv /\ [Next]_vars =>
        [ /\ \A g \in Generations :
               /\ state[g] # "none" => desired'[g] = desired[g]
               /\ state[g] \in Settled => state'[g] = state[g]
               /\ state[g] = "attempted" => state'[g] \notin {"none", "desired"}
          /\ \A o \in Operations : operation[o] # NoDocument => operation'[o] = operation[o]
          /\ \A b \in Bindings : binding[b] \in Retired => binding'[b] = binding[b]
        ]_<<state, desired, operation, binding>>
  BY StepTakesNothingBack
<1> QED BY <1>1, Invariance, PTL DEF NothingIsTakenBack, Spec

LEMMA StepRetriesAfterMissing ==
  ASSUME IInv, [Next]_vars, NEW r \in Reconcilers,
         pc[r] = "attempt", pc'[r] = "dispatch",
         state[call[r].document.generation] = "attempted"
  PROVE  retry[r] /\ inspection[r] = NoDocument
<1> USE DEF IInv
<1>1. RecordAttempt(r)
  <2>1. ~ UNCHANGED pc
    OBVIOUS
  <2>2. PICK s \in Reconcilers :
          \/ \E o \in Operations, d \in Documents \cup {NoDocument} : Begin(s, o, d)
          \/ Reconcile(s)
          \/ Crash(s)
    <3>1. \A g \in Generations : desired[g] \in Documents \cup {NoDocument}
      BY DEF TypeOK
    <3> QED
      BY <2>1, <3>1 DEF Next, Submit, Resubmit, Deliver, Lose, IssueBinding, ConfirmBinding,
                   RotateBinding, RevokeBinding, vars
  <2>3. s = r
    BY <2>2, OthersWait
  <2> QED
    BY <2>2, <2>3 DEF Begin, Reconcile, Reserve, ReserveReplay, ReserveJoin, ReserveRefused,
       ReserveNew, CapabilitiesConfirmed, CapabilitiesFailed, AttemptRefused, DispatchSent,
       DispatchUnavailable, InspectAnswered, InspectUnavailable, Inspect, Settle,
       KeepAttempted, RecoverAborted, Crash, Return, Goto, TypeOK
<1>2. view[r] = "attempted"
  BY <1>1, AttemptSeesRecord
<1> QED BY <1>2 DEF Consistent, CallConsistent

\* A request is written again only after Fleet said it held nothing.
THEOREM RetriesAfterMissing == Spec => RetryOnlyAfterMissing
<1>1. IInv /\ [Next]_vars =>
        [\A r \in Reconcilers :
            LET g == call[r].document.generation IN
            pc[r] = "attempt" /\ pc'[r] = "dispatch" /\ state[g] = "attempted"
              => retry[r] /\ inspection[r] = NoDocument]_<<pc, state>>
  BY StepRetriesAfterMissing
<1> QED BY <1>1, Invariance, PTL DEF RetryOnlyAfterMissing, Spec

-----------------------------------------------------------------------------
(***************************************************************************)
(* Refinement: FleetProjection implements FleetAuthority                   *)
(***************************************************************************)
\* The verdict the abstract contract sees.
Judged == [g \in Generations |->
             IF state[g] \in {"desired", "attempted"} THEN "open" ELSE state[g]]

RetiredBindings == {b \in Bindings : binding[b] \in Retired}

\* Reservations ask, settlements judge, accepted deliveries accept and the N6
\* operations retire; every other step is a stutter of the contract.
LEMMA StepRefines ==
  ASSUME IInv, [Next]_vars
  PROVE  [Promise!Next]_(Promise!avars)
<1> USE GenerationsAreNaturals
<1>0. TypeOK /\ Consistent /\ Recorded /\ Chained
  BY DEF IInv
<1> DEFINE Still == UNCHANGED <<desired, Judged, fleet, held, RetiredBindings>>
<1>1. Still => UNCHANGED Promise!avars
  BY DEF Promise!avars, Judged, RetiredBindings
<1>2. ASSUME NEW r \in Reconcilers, ReserveNew(r) PROVE Promise!Next
  <2>0. PICK d \in Documents : d = call[r].document
    BY <1>0, <1>2, InCall DEF ReserveNew
  <2> DEFINE g == d.generation
  <2>1. g \in Generations /\ d.binding \in Bindings
    OBVIOUS
  <2>2. /\ state[g] = "none" /\ binding[d.binding] = "active"
        /\ state' = [state EXCEPT ![g] = "desired"]
        /\ desired' = [desired EXCEPT ![g] = d]
        /\ UNCHANGED <<binding, fleet, held>>
    BY <1>2, <2>0 DEF ReserveNew, BindingActive
  <2>3. Judged[g] = "none" /\ Judged' = [Judged EXCEPT ![g] = "open"]
    BY <1>0, <2>1, <2>2 DEF Judged, TypeOK
  <2>4. d.binding \notin RetiredBindings /\ RetiredBindings' = RetiredBindings
    BY <2>2 DEF RetiredBindings, Retired
  <2>5. Promise!Ask(d)
    BY <2>1, <2>2, <2>3, <2>4 DEF Promise!Ask, Judged, RetiredBindings
  <2> QED BY <2>5 DEF Promise!Next
<1>3. ASSUME NEW r \in Reconcilers, RecordAttempt(r) PROVE Still
  <2>1. /\ call[r].document.generation \in Generations
        /\ state[call[r].document.generation] \in {"desired", "attempted"}
    BY <1>0, <1>3, AttemptSeesRecord
  <2>2. Judged' = Judged
    BY <1>0, <1>3, <2>1 DEF RecordAttempt, Judged, TypeOK
  <2> QED BY <1>3, <2>2 DEF RecordAttempt, RetiredBindings
<1>4. ASSUME NEW r \in Reconcilers, Settle(r) PROVE Promise!Next
  <2> DEFINE d == call[r].document
  <2>0. PICK g \in Generations, v \in {"applied", "conflict"} :
          g = d.generation /\ v = Verdict(d, inspection[r])
    BY <1>0, <1>4, SettleSeesAttempted DEF Settled
  <2>1. desired[g] = d /\ state[g] = "attempted"
    BY <1>0, <1>4, <2>0, SettleSeesAttempted
  <2>2. /\ state' = [state EXCEPT ![g] = v]
        /\ inspection[r] \in Documents
        /\ UNCHANGED <<desired, binding, fleet, held>>
    BY <1>4, <2>0 DEF Settle
  <2>3. Judged[g] = "open" /\ Judged' = [Judged EXCEPT ![g] = v]
    BY <1>0, <2>1, <2>2 DEF Judged, TypeOK
  <2>4. v = "applied" => desired[g] \in held
    BY <2>0, <2>1, <2>2 DEF Verdict, IInv, Witnessed
  <2>5. Promise!Judge(g, v)
    BY <2>2, <2>3, <2>4 DEF Promise!Judge, Judged, RetiredBindings
  <2> QED BY <2>5 DEF Promise!Next
<1>5. ASSUME NEW d \in Documents, Deliver(d) PROVE [Promise!Next]_(Promise!avars)
  <2>1. UNCHANGED <<state, desired, binding>>
    BY <1>5 DEF Deliver
  <2>2. UNCHANGED <<Judged, RetiredBindings>>
    BY <2>1 DEF Judged, RetiredBindings
  <2>3. CASE ~FleetAccepts(d)
    BY <1>1, <1>5, <2>1, <2>2, <2>3 DEF Deliver
  <2>4. CASE FleetAccepts(d)
    <3>1. fleet' = d /\ held' = held \cup {d} /\ d \in network
      BY <1>5, <2>4 DEF Deliver
    <3>2. desired[d.generation] = d
      BY <3>1 DEF IInv, AttemptIsDurableFirst
    <3>3. fleet # NoDocument => fleet.generation < d.generation
      <4> SUFFICES ASSUME fleet # NoDocument PROVE fleet.generation < d.generation
        OBVIOUS
      <4>1. fleet.generation \in Nat /\ d.generation \in Nat
        BY <1>0 DEF TypeOK
      <4> QED BY <2>4, <4>1 DEF FleetAccepts
    <3>4. d.binding \in RetiredBindings => d.enrollment = "removed"
      BY <2>4, <3>1, LateRequestsRefused DEF LateRequestsAreHarmless, RetiredBindings
    <3>5. Promise!Accept(d)
      BY <2>1, <2>2, <3>1, <3>2, <3>3, <3>4 DEF Promise!Accept, Judged, RetiredBindings
    <3> QED BY <3>5 DEF Promise!Next
  <2> QED BY <2>3, <2>4
<1>6. ASSUME NEW d \in Documents, Lose(d) PROVE Still
  BY <1>6 DEF Lose, Judged, RetiredBindings
<1>7. ASSUME NEW b \in Bindings, RotateBinding(b) \/ RevokeBinding(b)
      PROVE  [Promise!Next]_(Promise!avars)
  <2>1. UNCHANGED <<state, desired, fleet, held>>
    BY <1>7 DEF RotateBinding, RevokeBinding
  <2>2. Judged' = Judged
    BY <2>1 DEF Judged
  <2>3. binding'[b] \in Retired /\ binding[b] \notin Retired
    <3>1. b + 1 # b
      OBVIOUS
    <3> QED BY <1>0, <1>7, <3>1 DEF RotateBinding, RevokeBinding, Retired, TypeOK
  <2>4. ASSUME NEW c \in Bindings, c # b
        PROVE  binding'[c] \in Retired <=> binding[c] \in Retired
    <3>1. CASE RevokeBinding(b)
      BY <1>0, <2>4, <3>1 DEF RevokeBinding, TypeOK
    <3>2. CASE RotateBinding(b)
      <4>1. b + 1 \in Bindings /\ b + 1 > b
        BY <3>2, BoundsAssumption DEF RotateBinding, Bindings
      <4>2. binding[b + 1] = "none"
        BY <1>0, <3>2, <4>1 DEF RotateBinding, Chained
      <4> QED BY <1>0, <2>4, <3>2, <4>1, <4>2 DEF RotateBinding, Retired, TypeOK
    <3> QED BY <1>7, <3>1, <3>2
  <2>5. RetiredBindings' = RetiredBindings \cup {b}
    BY <2>3, <2>4 DEF RetiredBindings
  <2>6. ~FleetAuthorityUnresolved(b)
    BY <1>7 DEF RotateBinding, RevokeBinding
  <2>7. ~Promise!Serves(fleet, b)
    <3> SUFFICES ASSUME fleet # NoDocument, fleet.enrollment # "removed", fleet.binding = b
                 PROVE  FALSE
      BY DEF Promise!Serves
    <3> DEFINE g == fleet.generation
    <3>1. fleet \in held /\ fleet \in Documents /\ g \in Generations /\ g \in Nat
      BY DEF IInv, Newest, TypeOK
    <3>2. desired[g] = fleet /\ state[g] \in {"attempted", "applied", "conflict"}
      BY <3>1 DEF IInv, AttemptIsDurableFirst, TypeOK, RecordStates
    <3>3. LiveAuthority(g)
      BY <3>2 DEF LiveAuthority
    <3>4. PICK h \in Generations : h > g /\ state[h] = "applied"
      BY <2>6, <3>1, <3>2, <3>3 DEF FleetAuthorityUnresolved, SupersededBy
    <3>5. desired[h] \in held /\ desired[h].generation = h
      BY <3>4, SentinelAssumption DEF IInv, Witnessed, AppliedWasHeld, Recorded
    <3>6. h <= g
      BY <3>5 DEF IInv, Newest
    <3> QED BY <3>1, <3>4, <3>6
  <2>8. Promise!Retire(b)
    BY <2>1, <2>2, <2>5, <2>7 DEF Promise!Retire, Judged, RetiredBindings
  <2> QED BY <2>8 DEF Promise!Next
<1>8. CASE IssueBinding
  <2>1. RetiredBindings' = RetiredBindings
    BY <1>0, <1>8, BoundsAssumption DEF IssueBinding, RetiredBindings, Retired, TypeOK
  <2> QED BY <1>1, <1>8, <2>1 DEF IssueBinding, Judged
<1>9. ASSUME NEW b \in Bindings, ConfirmBinding(b) PROVE Still
  <2>1. RetiredBindings' = RetiredBindings
    BY <1>0, <1>9 DEF ConfirmBinding, RetiredBindings, Retired, TypeOK
  <2> QED BY <1>9, <2>1 DEF ConfirmBinding, Judged
<1>10. CASE UNCHANGED <<state, desired, binding, fleet, held>>
  BY <1>1, <1>10 DEF Judged, RetiredBindings
<1>11. (\E r \in Reconcilers : DispatchSent(r) \/ ReserveJoin(r)) \/ (StoreUnchanged /\ UNCHANGED external)
         => UNCHANGED <<state, desired, binding, fleet, held>>
  BY DEF DispatchSent, ReserveJoin, StoreUnchanged
<1>12. ASSUME StoreStep PROVE [Promise!Next]_(Promise!avars)
  BY <1>1, <1>2, <1>3, <1>4, <1>7, <1>8, <1>9, <1>10, <1>11, <1>12 DEF StoreStep
<1>13. ASSUME StoreUnchanged PROVE [Promise!Next]_(Promise!avars)
  BY <1>1, <1>5, <1>6, <1>10, <1>11, <1>13, WhoMovesFleet
<1> QED BY <1>12, <1>13, OthersLeaveTheStore

LEMMA InitRefines == Init => Promise!Init
BY DEF Init, Promise!Init, Retired

\* The reconcilers, their store and Fleet together do only what the abstract
\* authority contract allows.
THEOREM Refinement == Spec => KeepsPromise
BY InitRefines, StepRefines, Invariance, PTL DEF Spec, KeepsPromise, Promise!Spec

-----------------------------------------------------------------------------
(***************************************************************************)
(* Refinement: FleetProjection keeps BindingLifecycle                      *)
(***************************************************************************)
LEMMA InitKeepsLifecycle == Init => Lifecycle!Init
BY DEF Init, Lifecycle!Init, FleetAuthorityUnresolved, LiveAuthority

\* A binding is newly fenced only by an attempt under it, while it is active.
LEMMA FenceNeedsActiveBinding ==
  ASSUME TypeOK, Consistent, Recorded, [Next]_vars,
         NEW b \in Bindings, b \in Fenced', b \notin Fenced
  PROVE  binding[b] = "active"
<1>1. PICK g \in Generations : /\ LiveAuthority(g)'
                               /\ desired'[g].binding = b
                               /\ \A h \in Generations : ~SupersededBy(h, g)'
  BY DEF Fenced, FleetAuthorityUnresolved
<1>2. CASE LiveAuthority(g)
  <2>1. state[g] # "none" /\ desired[g].binding = b
    BY <1>1, <1>2, RecordsOnlyAdvance DEF LiveAuthority
  <2>2. \A h \in Generations : ~SupersededBy(h, g)
    BY <1>1, <2>1, SupersededForGood
  <2> QED BY <1>2, <2>1, <2>2 DEF Fenced, FleetAuthorityUnresolved
<1>3. CASE ~LiveAuthority(g)
  BY <1>1, <1>3, AuthorityNeedsActiveBinding
<1> QED BY <1>2, <1>3

\* The N6 operations take the lifecycle's steps; attempts and settlements move
\* only the fence.
LEMMA StepKeepsLifecycle ==
  ASSUME IInv, [Next]_vars
  PROVE  [Lifecycle!Next]_(Lifecycle!lvars)
<1> USE GenerationsAreNaturals
<1>0. TypeOK /\ Consistent /\ Recorded /\ Chained
  BY DEF IInv
<1>1. UNCHANGED <<state, desired>> => Fenced' = Fenced
  BY DEF Fenced, FleetAuthorityUnresolved, LiveAuthority, SupersededBy
<1>2. CASE binding' = binding
  <2>1. Fenced' \in SUBSET Bindings
    BY DEF Fenced
  <2>2. \A b \in Fenced' \ Fenced : binding[b] = "active"
    BY <1>0, <2>1, FenceNeedsActiveBinding
  <2>3. Lifecycle!SetFence(Fenced')
    BY <1>2, <2>2 DEF Lifecycle!SetFence, Fenced
  <2> QED BY <2>1, <2>3 DEF Lifecycle!Next
<1>3. CASE IssueBinding
  <2>1. Lifecycle!Issue
    BY <1>1, <1>3 DEF IssueBinding, Lifecycle!Issue, Fenced
  <2> QED BY <2>1 DEF Lifecycle!Next
<1>4. ASSUME NEW b \in Bindings, ConfirmBinding(b) PROVE Lifecycle!Next
  <2>1. Lifecycle!Confirm(b)
    BY <1>1, <1>4 DEF ConfirmBinding, Lifecycle!Confirm, Fenced
  <2> QED BY <2>1 DEF Lifecycle!Next
<1>5. ASSUME NEW b \in Bindings, RotateBinding(b) PROVE Lifecycle!Next
  <2>1. b + 1 \in Bindings /\ b + 1 > b
    BY <1>5, BoundsAssumption DEF RotateBinding, Bindings
  <2>2. binding[b + 1] = "none"
    BY <1>0, <1>5, <2>1 DEF RotateBinding, Chained
  <2>3. Lifecycle!Rotate(b)
    BY <1>1, <1>5, <2>1, <2>2 DEF RotateBinding, Lifecycle!Rotate, Fenced
  <2> QED BY <2>3 DEF Lifecycle!Next
<1>6. ASSUME NEW b \in Bindings, RevokeBinding(b) PROVE Lifecycle!Next
  <2>1. Lifecycle!Revoke(b)
    BY <1>1, <1>6 DEF RevokeBinding, Lifecycle!Revoke, Fenced
  <2> QED BY <2>1 DEF Lifecycle!Next
<1>7. ASSUME NEW r \in Reconcilers,
             ReserveJoin(r) \/ ReserveNew(r) \/ RecordAttempt(r) \/ Settle(r)
      PROVE  binding' = binding
  BY <1>7 DEF ReserveJoin, ReserveNew, RecordAttempt, Settle
<1>8. StoreUnchanged => binding' = binding
  BY DEF StoreUnchanged
<1> QED
  BY <1>2, <1>3, <1>4, <1>5, <1>6, <1>7, <1>8, OthersLeaveTheStore DEF StoreStep

\* The projection store keeps its side of the fence: Fleet authority arises
\* only under an active binding, which stays active until it is resolved.
THEOREM LifecycleRefinement == Spec => KeepsLifecycle
BY InitKeepsLifecycle, StepKeepsLifecycle, Invariance, PTL
DEF Spec, KeepsLifecycle, Lifecycle!Spec

-----------------------------------------------------------------------------
(***************************************************************************)
(* Composition: N6 and N7 over one store                                   *)
(***************************************************************************)

\* Unresolved authority is under the binding that is active, of which there is
\* one at most.
FenceIsActive ==
  /\ \A b \in Fenced : binding[b] = "active"
  /\ \A b, c \in Bindings : binding[b] = "active" /\ binding[c] = "active" => b = c

LEMMA OneIsFenced == IInv => FenceIsActive
<1> SUFFICES ASSUME IInv PROVE FenceIsActive
  OBVIOUS
<1>1. ASSUME NEW b \in Fenced PROVE b \in Bindings /\ binding[b] = "active"
  <2>1. PICK g \in Generations : LiveAuthority(g) /\ desired[g].binding = b
    BY DEF Fenced, FleetAuthorityUnresolved
  <2>2. binding[b] \in {"active"} \cup Retired
    BY <2>1 DEF LiveAuthority, IInv, Provenance
  <2>3. b \in Bindings /\ binding[b] \notin Retired
    BY DEF Fenced, IInv, Released
  <2> QED  BY <2>2, <2>3
<1>2. ASSUME NEW b \in Bindings, NEW c \in Bindings, binding[b] = "active", binding[c] = "active"
      PROVE  b = c
  <2>1. ~(c > b) /\ ~(b > c)
    BY <1>2 DEF IInv, Chained
  <2> QED  BY <2>1, GenerationsAreNaturals
<1> QED  BY <1>1, <1>2 DEF FenceIsActive

\* Only the binding services write the states of the bindings.
LEMMA ProjectKeepsBindings ==
  ASSUME Project
  PROVE  Next /\ binding' = binding
<1>1. Next
  BY DEF Project, Next
<1>2. \A r \in Reconcilers : Reconcile(r) \/ Crash(r) => binding' = binding
  BY DEF Reconcile, Reserve, ReserveReplay, ReserveJoin, ReserveRefused, ReserveNew,
         CapabilitiesConfirmed, CapabilitiesFailed, RecordAttempt, AttemptRefused, DispatchSent,
         DispatchUnavailable, InspectAnswered, InspectUnavailable, Inspect, Settle,
         KeepAttempted, RecoverAborted, Crash
<1>3. ASSUME NEW r \in Reconcilers, NEW o \in Operations
      PROVE  /\ \A d \in Documents : Submit(r, o, d) => binding' = binding
             /\ \A g \in Generations : Resubmit(r, o, g) => binding' = binding
  BY DEF Submit, Resubmit, Begin
<1>4. \A d \in Documents : Deliver(d) \/ Lose(d) => binding' = binding
  BY DEF Deliver, Lose
<1> QED  BY <1>1, <1>2, <1>3, <1>4 DEF Project

\* A step of N7 is, for N6, one that fences the active binding, one that
\* releases it, or none.
LEMMA ProjectIsAllowed ==
  ASSUME IInv, IInv', Project
  PROVE  [Next]_vars /\ [Keryx!Next]_(Keryx!vars)
<1>1. Next /\ binding' = binding
  BY ProjectKeepsBindings
<1>2. UNCHANGED ceremonies
  BY DEF Project
<1>3. FenceIsActive /\ FenceIsActive'
  <2>1. IInv' => FenceIsActive'
    BY OneIsFenced, PTL
  <2> QED  BY <2>1, OneIsFenced
<1>4. Fenced \subseteq Bindings /\ Fenced' \subseteq Bindings
  BY DEF Fenced
<1>5. Keryx!Generations = Bindings
  BY DEF Keryx!Generations, Bindings
<1>6. CASE Fenced' = Fenced
  <2>1. UNCHANGED (Keryx!vars)
    BY <1>1, <1>2, <1>6 DEF Keryx!vars, ceremonies
  <2> QED  BY <1>1, <2>1
<1>7. \A b \in Fenced : binding[b] = "active"
  BY <1>3 DEF FenceIsActive
<1>8. \A b \in Fenced' : binding[b] = "active"
  BY <1>1, <1>3 DEF FenceIsActive
<1>9. \A b, c \in Fenced \cup Fenced' : b = c
  BY <1>3, <1>4, <1>7, <1>8 DEF FenceIsActive
<1>10. ASSUME NEW b \in Fenced, b \notin Fenced' PROVE Keryx!Next
  <2>1. Fenced' = Fenced \ {b}
    BY <1>9, <1>10
  <2>2. Keryx!Release(b)
    BY <1>1, <1>2, <2>1
    DEF Keryx!Release, Keryx!record, Keryx!ceremony, Keryx!worker, ceremonies
  <2> QED  BY <1>4, <1>5, <2>2 DEF Keryx!Next
<1>11. ASSUME NEW b \in Fenced', b \notin Fenced PROVE Keryx!Next
  <2>1. Fenced' = Fenced \cup {b}
    BY <1>9, <1>11
  <2>2. Keryx!Fence(b)
    BY <1>1, <1>2, <1>8, <2>1
    DEF Keryx!Fence, Keryx!record, Keryx!ceremony, Keryx!worker, ceremonies
  <2> QED  BY <1>4, <1>5, <2>2 DEF Keryx!Next
<1> QED  BY <1>1, <1>6, <1>10, <1>11

\* What a command of a binding service is, as far as the store depends on it.
Commands ==
  [key : Keryx!Keys \cup {NoKey}, generation : Bindings \cup {0},
   nonce : Keryx!Nonces \cup {NoNonce}, action : Keryx!Actions \cup {"none"}, at : Nat]

\* The commands keep their types, and a transaction works on a binding and on
\* the key of the request.
Commanded ==
  /\ clock \in Nat /\ delivered \subseteq Keryx!Nonces
  /\ step \in [Services -> Keryx!Steps] /\ command \in [Services -> Commands]
  /\ \A w \in Services :
       /\ step[w] \in {"generation", "reserve", "complete", "confirm"} =>
            command[w].key \in Keryx!Keys
       /\ step[w] \in {"reserve", "confirm", "authorize", "retire"} =>
            command[w].generation \in Bindings

\* The first generation is the first to be issued.
StartsWithOne == binding[1] = "none" => \A b \in Bindings : binding[b] = "none"

LEMMA KeryxSets ==
  /\ Keryx!Generations = Bindings /\ 1 \in Bindings /\ 0 \notin Bindings
  /\ Keryx!Idle \in Commands
  /\ \A b \in Bindings : b \in Nat
  /\ \A k \in Keryx!Keys, w \in Services : [key |-> k, service |-> w] \in Keryx!Nonces
  BY BoundsAssumption
  DEF Keryx!Generations, Bindings, Keryx!Idle, Commands, Keryx!Nonces

LEMMA CommandedAtFirst == Keryx!Init => Commanded
  BY KeryxSets DEF Keryx!Init, Commanded, Keryx!Steps

\* A command is taken up.
LEMMA QueueKeepsCommanded ==
  ASSUME Commanded, NEW w \in Services, NEW s \in Keryx!Steps, NEW c \in Commands,
         Keryx!Queue(w, s, c),
         s \in {"generation", "reserve", "complete", "confirm"} => c.key \in Keryx!Keys,
         s \in {"reserve", "confirm", "authorize", "retire"} => c.generation \in Bindings
  PROVE  Commanded' /\ binding' = binding
<1>1. [c EXCEPT !.at = clock] \in Commands
  BY DEF Commanded, Commands
<1>2. /\ step' = [step EXCEPT ![w] = s] /\ command' = [command EXCEPT ![w] = [c EXCEPT !.at = clock]]
      /\ clock' = clock /\ delivered' = delivered /\ binding' = binding
  BY DEF Keryx!Queue, Keryx!record
<1>3. command'[w].key = c.key /\ command'[w].generation = c.generation
  BY <1>2 DEF Commanded, Commands
<1> QED  BY <1>1, <1>2, <1>3 DEF Commanded

\* A command ends.
LEMMA ReturnKeepsCommanded ==
  ASSUME Commanded, NEW w \in Services, Keryx!Return(w), clock' = clock,
         delivered' \subseteq Keryx!Nonces
  PROVE  Commanded'
<1>1. step' = [step EXCEPT ![w] = "idle"] /\ command' = [command EXCEPT ![w] = Keryx!Idle]
  BY DEF Keryx!Return
<1>2. "idle" \in Keryx!Steps
  BY DEF Keryx!Steps
<1> QED  BY <1>1, <1>2, KeryxSets DEF Commanded

LEMMA BindKeepsCommanded ==
  ASSUME Commanded, Bind
  PROVE  Commanded'
<1>1. ASSUME NEW w \in Services, Keryx!Call(w) PROVE Commanded'
  <2> USE KeryxSets DEF Keryx!Steps
  <2>1. ASSUME NEW k \in Keryx!Keys, Keryx!IssueChallenge(w, k) PROVE Commanded'
    <3>1. [Keryx!Idle EXCEPT !.key = k] \in Commands /\ [Keryx!Idle EXCEPT !.key = k].key = k
      BY DEF Keryx!Idle, Commands
    <3> QED  BY <2>1, <3>1, QueueKeepsCommanded DEF Keryx!IssueChallenge
  <2>2. ASSUME NEW k \in Keryx!Keys, NEW g \in Bindings, NEW n \in delivered,
               Keryx!ConfirmBinding(w, k, g, n)
        PROVE  Commanded'
    <3> DEFINE c == [Keryx!Idle EXCEPT !.key = k, !.generation = g, !.nonce = n]
    <3>1. c \in Commands /\ c.key = k /\ c.generation = g
      BY DEF Keryx!Idle, Commands, Commanded
    <3> QED  BY <2>2, <3>1, QueueKeepsCommanded DEF Keryx!ConfirmBinding
  <2>3. ASSUME NEW g \in Bindings, NEW a \in Keryx!Actions,
               Keryx!AuthorizeBinding(w, g, a) \/ Keryx!RetireBinding(w, g, a)
        PROVE  Commanded'
    <3> DEFINE c == [Keryx!Idle EXCEPT !.generation = g, !.action = a]
    <3>1. c \in Commands /\ c.generation = g
      BY DEF Keryx!Idle, Commands, Keryx!Actions
    <3> QED  BY <2>3, <3>1, QueueKeepsCommanded DEF Keryx!AuthorizeBinding, Keryx!RetireBinding
  <2> QED  BY <1>1, <2>1, <2>2, <2>3 DEF Keryx!Call
<1>2. ASSUME NEW w \in Services, Keryx!Run(w) PROVE Commanded'
  <2>1. ASSUME NEW g \in Bindings, Keryx!ReadGeneration(w, g) PROVE Commanded'
    <3>1. [command[w] EXCEPT !.generation = g] \in Commands
      BY DEF Commanded, Commands
    <3>2. /\ step' = [step EXCEPT ![w] = "reserve"]
          /\ command' = [command EXCEPT ![w] = [command[w] EXCEPT !.generation = g]]
          /\ clock' = clock /\ delivered' = delivered /\ step[w] = "generation"
      BY <2>1 DEF Keryx!ReadGeneration, Commanded
    <3>3. command'[w].key = command[w].key /\ command'[w].generation = g
      BY <3>2 DEF Commanded, Commands
    <3> QED  BY <3>1, <3>2, <3>3 DEF Commanded, Keryx!Steps
  <2>2. ASSUME Keryx!ReserveResumed(w) \/ Keryx!ReserveNew(w) PROVE Commanded'
    <3>1. /\ step' = [step EXCEPT ![w] = "complete"] /\ command' = command
          /\ clock' = clock /\ delivered' = delivered /\ step[w] = "reserve"
      BY <2>2 DEF Keryx!ReserveResumed, Keryx!ReserveNew
    <3> QED  BY <3>1 DEF Commanded, Keryx!Steps
  <2>3. ASSUME Keryx!Complete(w) PROVE Commanded'
    <3>1. command[w].key \in Keryx!Keys
      BY <2>3 DEF Keryx!Complete, Commanded
    <3>2. delivered' \subseteq Keryx!Nonces
      BY <2>3, <3>1, KeryxSets DEF Keryx!Complete, Commanded
    <3> QED  BY <2>3, <3>2, ReturnKeepsCommanded DEF Keryx!Complete
  <2>4. ASSUME (\E c \in Keryx!Keys : Keryx!Confirm(w, c)) \/ Keryx!Authorize(w)
                 \/ Keryx!Rotate(w) \/ Keryx!Revoke(w) \/ Keryx!Leave(w)
        PROVE  Commanded'
    <3>1. Keryx!Return(w) /\ clock' = clock /\ delivered' = delivered
      BY <2>4 DEF Keryx!Confirm, Keryx!Authorize, Keryx!Rotate, Keryx!Revoke, Keryx!Leave
    <3> QED  BY <3>1, ReturnKeepsCommanded DEF Commanded
  <2> QED  BY <1>2, <2>1, <2>2, <2>3, <2>4, KeryxSets DEF Keryx!Run
<1>3. ASSUME Keryx!Tick PROVE Commanded'
  BY <1>3 DEF Keryx!Tick, Keryx!worker, Commanded
<1> QED  BY <1>1, <1>2, <1>3 DEF Bind

\* What N6 does to the bindings is what N7 expects of it.
LEMMA BindIsAllowed ==
  ASSUME IInv, Commanded, StartsWithOne, Bind
  PROVE  [Next]_vars /\ [Keryx!Next]_(Keryx!vars)
<1>1. Keryx!Next
  BY DEF Bind, Keryx!Next
<1>2. UNCHANGED <<store, worker, external>>
  BY DEF Bind
<1>3. binding \in [Bindings -> BindingStates]
  BY DEF IInv, TypeOK
<1>4. CASE binding' = binding
  BY <1>1, <1>2, <1>4 DEF vars, store, worker, external
<1>5. ASSUME NEW w \in Services, Keryx!Call(w) PROVE binding' = binding
  BY <1>5 DEF Keryx!Call, Keryx!IssueChallenge, Keryx!ConfirmBinding, Keryx!AuthorizeBinding,
              Keryx!RetireBinding, Keryx!Queue, Keryx!record
<1>6. ASSUME NEW w \in Services,
             \/ \E g \in Keryx!Generations : Keryx!ReadGeneration(w, g)
             \/ Keryx!ReserveResumed(w) \/ Keryx!Complete(w)
             \/ Keryx!Authorize(w) \/ Keryx!Leave(w)
      PROVE  binding' = binding
  BY <1>6 DEF Keryx!ReadGeneration, Keryx!ReserveResumed, Keryx!Complete, Keryx!Authorize,
              Keryx!Leave, Keryx!record
<1>7. Keryx!Tick => binding' = binding
  BY DEF Keryx!Tick, Keryx!record
<1>8. ASSUME NEW w \in Services, Keryx!ReserveNew(w) PROVE binding' = binding \/ IssueBinding
  <2> DEFINE g == command[w].generation
  <2>1. step[w] = "reserve" /\ Keryx!Challengeable(g) /\ binding' = [binding EXCEPT ![g] = "pending"]
    BY <1>8 DEF Keryx!ReserveNew
  <2>2. g \in Bindings
    BY <2>1 DEF Commanded
  <2>3. CASE binding[g] = "pending"
    BY <1>3, <2>1, <2>2, <2>3
  <2>4. CASE g = 1 /\ binding[1] = "none"
    BY <1>2, <2>1, <2>4 DEF IssueBinding, StartsWithOne
  <2> QED  BY <2>1, <2>3, <2>4 DEF Keryx!Challengeable
<1>9. ASSUME NEW w \in Services, NEW c \in Keryx!Keys, Keryx!Confirm(w, c)
      PROVE  \E b \in Bindings : ConfirmBinding(b)
  <2> DEFINE g == command[w].generation
  <2>1. step[w] = "confirm" /\ binding[g] = "pending" /\ binding' = [binding EXCEPT ![g] = "active"]
    BY <1>9 DEF Keryx!Confirm
  <2>2. g \in Bindings
    BY <2>1 DEF Commanded
  <2> QED  BY <1>2, <2>1, <2>2 DEF ConfirmBinding
<1>10. ASSUME NEW w \in Services, NEW a, Keryx!MayRetire(w, a)
       PROVE  /\ command[w].generation \in Bindings
              /\ binding[command[w].generation] \in Keryx!Eligible(a)
              /\ ~FleetAuthorityUnresolved(command[w].generation)
  BY <1>10 DEF Keryx!MayRetire, Keryx!Unfenced, Fenced, Commanded
<1>11. ASSUME NEW w \in Services, Keryx!Rotate(w) PROVE \E b \in Bindings : RotateBinding(b)
  <2> DEFINE g == command[w].generation
  <2>1. /\ Keryx!MayRetire(w, "rotate") /\ g < MaxBinding
        /\ binding' = [binding EXCEPT ![g] = "rotated", ![g + 1] = "pending"]
    BY <1>11 DEF Keryx!Rotate, Keryx!Successor
  <2>2. g \in Bindings /\ binding[g] = "active" /\ ~FleetAuthorityUnresolved(g)
    BY <1>10, <2>1 DEF Keryx!Eligible
  <2> QED  BY <1>2, <2>1, <2>2 DEF RotateBinding
<1>12. ASSUME NEW w \in Services, Keryx!Revoke(w) PROVE \E b \in Bindings : RevokeBinding(b)
  <2> DEFINE g == command[w].generation
  <2>1. Keryx!MayRetire(w, "revoke") /\ binding' = [binding EXCEPT ![g] = "revoked"]
    BY <1>12 DEF Keryx!Revoke
  <2>2. g \in Bindings /\ binding[g] \in {"pending", "active"} /\ ~FleetAuthorityUnresolved(g)
    BY <1>10, <2>1 DEF Keryx!Eligible
  <2> QED  BY <1>2, <2>1, <2>2 DEF RevokeBinding
<1>13. binding' = binding \/ IssueBinding
         \/ \E b \in Bindings : ConfirmBinding(b) \/ RotateBinding(b) \/ RevokeBinding(b)
  <2>1. ASSUME NEW w \in Services, Keryx!Run(w)
        PROVE  binding' = binding \/ IssueBinding
                 \/ \E b \in Bindings : ConfirmBinding(b) \/ RotateBinding(b) \/ RevokeBinding(b)
    BY <1>6, <1>8, <1>9, <1>11, <1>12, <2>1 DEF Keryx!Run
  <2> QED  BY <1>5, <1>7, <2>1 DEF Bind
<1> QED  BY <1>1, <1>4, <1>13 DEF Next

\* No operation of N6 skips the first generation.
LEMMA StepStartsWithOne ==
  ASSUME TypeOK, StartsWithOne, [Next]_vars
  PROVE  StartsWithOne'
<1>1. CASE IssueBinding
  BY <1>1, KeryxSets DEF IssueBinding, TypeOK, StartsWithOne
<1>2. ASSUME NEW b \in Bindings, ConfirmBinding(b) \/ RotateBinding(b) \/ RevokeBinding(b)
      PROVE  StartsWithOne'
  <2>1. binding[1] # "none"
    BY <1>2 DEF ConfirmBinding, RotateBinding, RevokeBinding, StartsWithOne
  <2>2. binding'[1] # "none"
    BY <1>2, <2>1, KeryxSets DEF ConfirmBinding, RotateBinding, RevokeBinding, TypeOK
  <2> QED  BY <2>2 DEF StartsWithOne
<1>3. CASE binding' = binding
  BY <1>3 DEF StartsWithOne
<1>4. \A r \in Reconcilers :
        ReserveJoin(r) \/ ReserveNew(r) \/ RecordAttempt(r) \/ Settle(r) => binding' = binding
  BY DEF ReserveJoin, ReserveNew, RecordAttempt, Settle
<1>5. StoreUnchanged => binding' = binding
  BY DEF StoreUnchanged
<1> QED  BY <1>1, <1>2, <1>3, <1>4, <1>5, OthersLeaveTheStore DEF StoreStep

\* The shared store, seen from both sides.
SharedInv == IInv /\ Commanded /\ StartsWithOne

LEMMA SharedStep ==
  ASSUME SharedInv, [SharedNext]_allVars
  PROVE  SharedInv' /\ [Next]_vars /\ [Keryx!Next]_(Keryx!vars)
<1>1. IInv /\ Commanded /\ StartsWithOne
  BY DEF SharedInv
<1>2. CASE Bind
  <2>1. [Next]_vars /\ [Keryx!Next]_(Keryx!vars)
    BY <1>1, <1>2, BindIsAllowed
  <2>2. IInv' /\ StartsWithOne'
    BY <1>1, <2>1, InductiveInvariant, StepStartsWithOne DEF IInv
  <2> QED  BY <1>1, <1>2, <2>1, <2>2, BindKeepsCommanded DEF SharedInv
<1>3. CASE Project
  <2>1. Next
    BY <1>3, ProjectKeepsBindings
  <2>2. IInv' /\ StartsWithOne'
    BY <1>1, <2>1, InductiveInvariant, StepStartsWithOne DEF IInv
  <2>3. [Next]_vars /\ [Keryx!Next]_(Keryx!vars)
    BY <1>1, <1>3, <2>2, ProjectIsAllowed
  <2>4. Commanded'
    BY <1>1, <1>3 DEF Project, ceremonies, Commanded
  <2> QED  BY <2>2, <2>3, <2>4 DEF SharedInv
<1>4. CASE UNCHANGED allVars
  <2>1. UNCHANGED vars /\ UNCHANGED ceremonies
    BY <1>4 DEF allVars
  <2>2. Fenced' = Fenced /\ binding' = binding
    BY <2>1 DEF vars, Fenced, FleetAuthorityUnresolved, LiveAuthority, SupersededBy
  <2>3. UNCHANGED (Keryx!vars)
    BY <2>1, <2>2 DEF Keryx!vars, ceremonies
  <2>4. IInv' /\ StartsWithOne'
    BY <1>1, <2>1, InductiveInvariant, StepStartsWithOne DEF IInv
  <2>5. Commanded'
    BY <1>1, <2>1 DEF ceremonies, Commanded
  <2> QED  BY <2>1, <2>3, <2>4, <2>5 DEF SharedInv
<1> QED  BY <1>2, <1>3, <1>4 DEF SharedNext

LEMMA SharedAtFirst == SharedInit => SharedInv
<1>1. Init => StartsWithOne
  BY DEF Init, StartsWithOne
<1> QED  BY <1>1, InitialInvariant, CommandedAtFirst DEF SharedInit, SharedInv

\* Neither component needs an environment: the binding services change bindings
\* only as FleetProjection expects, and what projections leave in the store
\* fences and releases only as KeryxBinding expects, so the two together are
\* behaviours of either specification and have the properties of both.
THEOREM EachMeetsTheOther == SharedSpec => AssumptionsAreMet
<1>1. SharedInit => Init /\ Keryx!Init
  BY DEF SharedInit
<1>2. SharedInv /\ [SharedNext]_allVars
        => SharedInv' /\ [Next]_vars /\ [Keryx!Next]_(Keryx!vars)
  BY SharedStep
<1> QED  BY <1>1, <1>2, SharedAtFirst, PTL DEF SharedSpec, AssumptionsAreMet, Spec, Keryx!Spec

Confirmations == [generation : Bindings \cup {0}, nonce : Keryx!Nonces \cup {NoNonce}]

\* An active or rotated binding has been confirmed, and so has every binding a
\* record is under.
Confirmed ==
  /\ peer = [b \in Bindings |-> peer[b]]
  /\ confirmation \in [Keryx!Keys -> Confirmations]
  /\ \A b \in Bindings : binding[b] \in {"active", "rotated"} => ConfirmedByItsPeer(b)
  /\ \A g \in Generations : state[g] # "none" => ConfirmedByItsPeer(desired[g].binding)

LEMMA BindKeepsConfirmed ==
  ASSUME SharedInv, Confirmed, Bind
  PROVE  Confirmed'
<1>1. binding \in [Bindings -> BindingStates] /\ Commanded /\ Recorded /\ TypeOK /\ Chained
  BY DEF SharedInv, IInv, TypeOK
<1>2. UNCHANGED <<state, desired>>
  BY DEF Bind, store
<1>3. CASE UNCHANGED <<peer, confirmation>>
           /\ \A b \in Bindings :
                binding'[b] \in {"active", "rotated"} => binding[b] \in {"active", "rotated"}
  BY <1>2, <1>3 DEF Confirmed, ConfirmedByItsPeer
<1>4. ASSUME NEW w \in Services, NEW c \in Keryx!Keys, Keryx!Confirm(w, c)
      PROVE  Confirmed'
  <2> DEFINE k == command[w].key
             g == command[w].generation
             After(b) == \E l \in Keryx!Keys : confirmation'[l].generation = b /\ peer'[b] = l.peer
  <2>1. /\ step[w] = "confirm" /\ confirmation[k].generation = 0
        /\ binding' = [binding EXCEPT ![g] = "active"] /\ peer' = [peer EXCEPT ![g] = k.peer]
        /\ confirmation' = [confirmation EXCEPT ![k] = [generation |-> g, nonce |-> command[w].nonce]]
    BY <1>4 DEF Keryx!Confirm
  <2>2. k \in Keryx!Keys /\ g \in Bindings /\ command[w].nonce \in Keryx!Nonces \cup {NoNonce}
    BY <1>1, <2>1 DEF Commanded, Commands
  <2>3. /\ peer' = [b \in Bindings |-> peer'[b]] /\ peer'[g] = k.peer
        /\ \A b \in Bindings \ {g} : peer'[b] = peer[b] /\ binding'[b] = binding[b]
    BY <1>1, <2>1, <2>2 DEF Confirmed
  <2>4. /\ confirmation' \in [Keryx!Keys -> Confirmations]
        /\ confirmation'[k].generation = g
        /\ \A l \in Keryx!Keys \ {k} : confirmation'[l] = confirmation[l]
    BY <2>1, <2>2 DEF Confirmed, Confirmations
  <2> HIDE DEF k, g
  <2>5. After(g)
    BY <2>2, <2>3, <2>4
  <2>6. ASSUME NEW b \in Bindings, b # g, ConfirmedByItsPeer(b) PROVE After(b)
    <3>1. PICK l \in Keryx!Keys : confirmation[l].generation = b /\ peer[b] = l.peer
      BY <2>6 DEF ConfirmedByItsPeer
    <3>2. l # k
      BY <2>1, <2>6, <3>1, KeryxSets
    <3> QED  BY <2>3, <2>4, <2>6, <3>1, <3>2
  <2>7. \A b \in Bindings : binding'[b] \in {"active", "rotated"} => After(b)
    BY <2>3, <2>5, <2>6 DEF Confirmed
  <2>8. ASSUME NEW h \in Generations, state[h] # "none" PROVE After(desired[h].binding)
    <3>1. desired[h].binding \in Bindings
      BY <1>1, <2>8, GenerationsAreNaturals DEF Recorded, TypeOK
    <3>2. ConfirmedByItsPeer(desired[h].binding)
      BY <2>8 DEF Confirmed
    <3> QED  BY <2>5, <2>6, <3>1, <3>2
  <2> QED  BY <1>2, <2>3, <2>4, <2>7, <2>8 DEF Confirmed, ConfirmedByItsPeer
<1>5. ASSUME NEW w \in Services, Keryx!Call(w) PROVE Confirmed'
  BY <1>3, <1>5 DEF Keryx!Call, Keryx!IssueChallenge, Keryx!ConfirmBinding, Keryx!AuthorizeBinding,
              Keryx!RetireBinding, Keryx!Queue, Keryx!record, Keryx!ceremony
<1>6. ASSUME NEW w \in Services,
             \/ \E g \in Keryx!Generations : Keryx!ReadGeneration(w, g)
             \/ Keryx!ReserveResumed(w) \/ Keryx!Complete(w)
             \/ Keryx!Authorize(w) \/ Keryx!Leave(w)
      PROVE  Confirmed'
  BY <1>3, <1>6 DEF Keryx!ReadGeneration, Keryx!ReserveResumed, Keryx!Complete, Keryx!Authorize,
              Keryx!Leave, Keryx!record, Keryx!ceremony
<1>7. Keryx!Tick => Confirmed'
  BY <1>3 DEF Keryx!Tick, Keryx!record, Keryx!ceremony
<1>8. ASSUME NEW w \in Services, Keryx!ReserveNew(w) PROVE Confirmed'
  <2>1. /\ binding' = [binding EXCEPT ![command[w].generation] = "pending"]
        /\ UNCHANGED <<peer, confirmation>>
    BY <1>8 DEF Keryx!ReserveNew
  <2> QED  BY <1>1, <1>3, <2>1
<1>9. ASSUME NEW w \in Services, Keryx!Rotate(w) PROVE Confirmed'
  <2> DEFINE g == command[w].generation
  <2>1. /\ Keryx!MayRetire(w, "rotate")
        /\ binding' = [binding EXCEPT ![g] = "rotated", ![g + 1] = "pending"]
        /\ UNCHANGED <<peer, confirmation>>
    BY <1>9 DEF Keryx!Rotate, Keryx!Successor, Keryx!ceremony
  <2>2. binding[g] = "active"
    BY <2>1 DEF Keryx!MayRetire, Keryx!Eligible
  <2> QED  BY <1>1, <1>3, <2>1, <2>2
<1>10. ASSUME NEW w \in Services, Keryx!Revoke(w) PROVE Confirmed'
  <2>1. /\ binding' = [binding EXCEPT ![command[w].generation] = "revoked"]
        /\ UNCHANGED <<peer, confirmation>>
    BY <1>10 DEF Keryx!Revoke
  <2> QED  BY <1>1, <1>3, <2>1
<1>11. ASSUME NEW w \in Services, Keryx!Run(w) PROVE Confirmed'
  BY <1>4, <1>6, <1>8, <1>9, <1>10, <1>11 DEF Keryx!Run
<1> QED  BY <1>5, <1>7, <1>11 DEF Bind

\* A record is reserved only under a binding that is active at that moment.
LEMMA ProjectKeepsConfirmed ==
  ASSUME SharedInv, Confirmed, Project
  PROVE  Confirmed'
<1>1. Next /\ binding' = binding /\ TypeOK /\ Consistent /\ Recorded
  BY ProjectKeepsBindings DEF SharedInv, IInv
<1>2. UNCHANGED <<peer, confirmation>>
  BY DEF Project, ceremonies
<1> DEFINE After(b) == \E l \in Keryx!Keys : confirmation'[l].generation = b /\ peer'[b] = l.peer
<1>3. \A b : ConfirmedByItsPeer(b) => After(b)
  BY <1>2 DEF ConfirmedByItsPeer
<1>4. ASSUME NEW g \in Generations, state'[g] # "none"
      PROVE  After(desired'[g].binding)
  <2> HIDE DEF After
  <2>1. CASE state[g] # "none"
    BY <1>1, <1>3, <2>1, RecordsOnlyAdvance DEF Confirmed
  <2>2. ASSUME NEW r \in Reconcilers, ReserveNew(r), state[g] = "none" PROVE After(desired'[g].binding)
    <3> DEFINE d == call[r].document
    <3>1. d \in Documents /\ d.generation \in Generations /\ d.binding \in Bindings
      BY <1>1, <2>2, InCall, GenerationsAreNaturals DEF ReserveNew
    <3>2. /\ binding[d.binding] = "active" /\ state' = [state EXCEPT ![d.generation] = "desired"]
          /\ desired' = [desired EXCEPT ![d.generation] = d]
      BY <2>2 DEF ReserveNew, BindingActive
    <3>3. g = d.generation /\ desired'[g] = d
      BY <1>1, <1>4, <2>2, <3>1, <3>2 DEF TypeOK
    <3> QED  BY <1>3, <3>1, <3>2, <3>3 DEF Confirmed
  <2>3. ASSUME NEW r \in Reconcilers, ReserveJoin(r) \/ RecordAttempt(r) \/ Settle(r), state[g] = "none"
        PROVE  FALSE
    BY <1>1, <1>4, <2>3, AttemptSeesRecord, SettleSeesAttempted
    DEF ReserveJoin, RecordAttempt, Settle, TypeOK
  <2>4. StoreUnchanged \/ IssueBinding
          \/ (\E b \in Bindings : ConfirmBinding(b) \/ RotateBinding(b) \/ RevokeBinding(b))
        => UNCHANGED state
    BY DEF StoreUnchanged, IssueBinding, ConfirmBinding, RotateBinding, RevokeBinding, store
  <2> QED  BY <1>1, <1>4, <2>1, <2>2, <2>3, <2>4, OthersLeaveTheStore DEF StoreStep
<1> HIDE DEF After
<1>5. \A b \in Bindings : binding'[b] \in {"active", "rotated"} => After(b)
  BY <1>1, <1>3 DEF Confirmed
<1> USE DEF After
<1> QED  BY <1>2, <1>4, <1>5 DEF Confirmed, ConfirmedByItsPeer

LEMMA ConfirmedAtFirst == SharedInit => Confirmed
  BY DEF SharedInit, Init, Keryx!Init, Confirmed, Confirmations, Keryx!Generations, Bindings

\* Whatever Fleet held or may still get is under a binding that an authenticated
\* peer confirmed, whichever processes of either side stop, retry or race.
THEOREM FleetNamesConfirmedPeers == SharedSpec => []FleetHearsOfConfirmedPeers
<1>1. ASSUME SharedInv, Confirmed, [SharedNext]_allVars PROVE Confirmed'
  <2>1. CASE UNCHANGED allVars
    BY <1>1, <2>1 DEF allVars, vars, ceremonies, Confirmed, ConfirmedByItsPeer
  <2> QED  BY <1>1, <2>1, BindKeepsConfirmed, ProjectKeepsConfirmed DEF SharedNext
<1>2. ASSUME SharedInv, Confirmed PROVE FleetHearsOfConfirmedPeers
  <2>1. ASSUME NEW d \in network \cup held PROVE ConfirmedByItsPeer(d.binding)
    <3>1. d.generation \in Generations /\ desired[d.generation] = d /\ state[d.generation] # "none"
      BY <1>2, GenerationsAreNaturals DEF SharedInv, IInv, TypeOK, AttemptIsDurableFirst
    <3> QED  BY <1>2, <3>1 DEF Confirmed
  <2> QED  BY <2>1 DEF FleetHearsOfConfirmedPeers
<1> QED  BY <1>1, <1>2, SharedAtFirst, ConfirmedAtFirst, SharedStep, PTL DEF SharedSpec

=============================================================================
