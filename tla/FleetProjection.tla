--------------------------- MODULE FleetProjection ---------------------------
(***************************************************************************)
(* N7: one device's projection into Hermes Fleet.                          *)
(*                                                                         *)
(* The store (SQLite, nodescale-state/src/n7.rs and migration 0007) keeps  *)
(* one record per projection generation.  Reconcilers (the projection      *)
(* service of each process, nodescale-projection/src/lib.rs) drive a       *)
(* record from desired through attempted to applied or conflict, one store *)
(* transaction or one Fleet request at a time, and may stop between any    *)
(* two of them.  Fleet is external and is modelled from ADR 0011: it holds *)
(* one document per device and accepts only the exact successor            *)
(* generation.  The N6 binding whose provenance a record carries may be    *)
(* rotated or revoked meanwhile, behind the Fleet-authority fence of       *)
(* nodescale-state/src/n6.rs.                                              *)
(*                                                                         *)
(* A document stands for the canonical projection body: bodies are equal   *)
(* exactly when generation, enrollment state and binding provenance are.   *)
(*                                                                         *)
(* Operators whose name begins with Wrong are deliberate mistakes a change *)
(* to the code could make; no action uses them.  They serve to check that  *)
(* each property would notice (mutants in PROJECT.json).                   *)
(***************************************************************************)
EXTENDS Naturals

CONSTANTS
  Reconcilers,    \* processes that own a projection service
  Operations,     \* caller-supplied operation ids
  MaxGeneration,  \* bound: the last projection generation reserved
  MaxBinding,     \* bound: the last N6 binding generation
  Enrollments,    \* the enrollment states callers ask for
  NoDocument,     \* no managed record, or no operation row
  Unavailable,    \* an inspection Fleet did not answer
  NoOperation     \* no dispatch attempt recorded

Generations == 1..MaxGeneration
Bindings == 1..MaxBinding

Documents ==
  [generation : Generations, enrollment : Enrollments, binding : Bindings]

Inspections == Documents \cup {NoDocument, Unavailable}

ASSUME BoundsAssumption ==
  /\ MaxGeneration \in Nat
  /\ MaxBinding \in Nat \ {0}

ASSUME EnrollmentAssumption ==
  Enrollments \subseteq {"active", "disabled", "removed"}

ASSUME SentinelAssumption ==
  /\ NoDocument \notin Documents
  /\ Unavailable \notin Documents \cup {NoDocument}
  /\ NoOperation \notin Operations

VARIABLES
  generation,  \* device_generations.fleet_projection_generation
  state,       \* n7_fleet_projection_records.projection_state, by generation
  desired,     \* the record's desired body, by generation
  attempt,     \* operation id of the record's current attempt, by generation
  operation,   \* n7_fleet_projection_operations, by operation id
  status,      \* devices.fleet_projection_status
  binding,     \* n6_binding_records.binding_state, by binding generation
  fleet,       \* the document Fleet holds for this device
  network,     \* apply requests written to the socket and not yet read
  pc,          \* where each reconciler is
  call,        \* the operation id and document it was called with
  view,        \* the projection state it last read from the store
  retry,       \* retry_dispatch_allowed
  inspection,  \* the inspection it is about to record
  held         \* history: every document Fleet ever held

store == <<generation, state, desired, attempt, operation, status>>
worker == <<pc, call, view, retry, inspection>>
external == <<fleet, network, held>>
vars == <<generation, state, desired, attempt, operation, status, binding,
          fleet, network, pc, call, view, retry, inspection, held>>

RecordStates == {"none", "desired", "attempted", "applied", "conflict"}
Settled == {"applied", "conflict"}
Statuses == {"not_requested", "pending", "applied", "failed_retryable",
             "conflict", "revoked"}
BindingStates == {"none", "pending", "active", "rotated", "revoked"}
Retired == {"rotated", "revoked"}
Steps == {"idle", "reserve", "capabilities", "attempt", "dispatch",
          "inspect", "recover"}
Calls == [operation : Operations \cup {NoOperation},
          document : Documents \cup {NoDocument}]

TypeOK ==
  /\ generation \in 1..MaxGeneration + 1
  /\ state \in [Generations -> RecordStates]
  /\ desired \in [Generations -> Documents \cup {NoDocument}]
  /\ attempt \in [Generations -> Operations \cup {NoOperation}]
  /\ operation \in [Operations -> Documents \cup {NoDocument}]
  /\ status \in Statuses
  /\ binding \in [Bindings -> BindingStates]
  /\ fleet \in Documents \cup {NoDocument}
  /\ network \subseteq Documents
  /\ pc \in [Reconcilers -> Steps]
  /\ call \in [Reconcilers -> Calls]
  /\ view \in [Reconcilers -> RecordStates]
  /\ retry \in [Reconcilers -> BOOLEAN]
  /\ inspection \in [Reconcilers -> Inspections]
  /\ held \subseteq Documents

Idle == [operation |-> NoOperation, document |-> NoDocument]

Init ==
  /\ generation = 1
  /\ state = [g \in Generations |-> "none"]
  /\ desired = [g \in Generations |-> NoDocument]
  /\ attempt = [g \in Generations |-> NoOperation]
  /\ operation = [o \in Operations |-> NoDocument]
  /\ status = "not_requested"
  /\ binding = [b \in Bindings |-> "none"]
  /\ fleet = NoDocument
  /\ network = {}
  /\ pc = [r \in Reconcilers |-> "idle"]
  /\ call = [r \in Reconcilers |-> Idle]
  /\ view = [r \in Reconcilers |-> "none"]
  /\ retry = [r \in Reconcilers |-> FALSE]
  /\ inspection = [r \in Reconcilers |-> NoDocument]
  /\ held = {}

-----------------------------------------------------------------------------
(***************************************************************************)
(* The store                                                               *)
(***************************************************************************)

\* The revision column is a function of the state: desired 1, attempted 2,
\* terminal 3.  Every transition is fenced by the revision the caller read.
Revision(s) == CASE s = "desired" -> 1
                 [] s = "attempted" -> 2
                 [] OTHER -> 3

WrongNoRevisionFence(seen, s) == TRUE

RevisionMatches(seen, s) == Revision(seen) = Revision(s)

\* ProjectionStatus::transition, with the identity n7_set_device_status skips.
StatusMayBecome(from, to) ==
  \/ from = to
  \/ /\ from \in {"not_requested", "failed_retryable", "conflict", "applied"}
     /\ to \in {"pending", "revoked"}
  \/ /\ from = "pending"
     /\ to \in {"applied", "failed_retryable", "conflict", "revoked"}

WrongBindingKnown(d) == binding[d.binding] # "none"

BindingActive(d) == binding[d.binding] = "active"

\* The record of this generation carries exactly this tuple.
SameRecord(d) == desired[d.generation] = d

WrongLiveOnceSettled(g) ==
  \/ state[g] = "conflict"
  \/ state[g] = "applied" /\ desired[g].enrollment # "removed"

\* A record that may still stand for authority in Fleet.
LiveAuthority(g) ==
  \/ state[g] \in {"attempted", "conflict"}
  \/ state[g] = "applied" /\ desired[g].enrollment # "removed"

\* A later applied record that removes the node or carries another binding.
SupersededBy(h, g) ==
  /\ h > g
  /\ state[h] = "applied"
  /\ \/ desired[h].binding # desired[g].binding
     \/ desired[h].enrollment = "removed"

WrongFenceIgnoringConflict(b) ==
  \E g \in Generations :
    /\ state[g] \in {"attempted", "applied"}
    /\ desired[g].binding = b
    /\ state[g] = "applied" => desired[g].enrollment # "removed"
    /\ \A h \in Generations : ~SupersededBy(h, g)

\* n6_fleet_authority_is_unresolved_tx
FleetAuthorityUnresolved(b) ==
  \E g \in Generations :
    /\ LiveAuthority(g)
    /\ desired[g].binding = b
    /\ \A h \in Generations : ~SupersededBy(h, g)

-----------------------------------------------------------------------------
(***************************************************************************)
(* One reconcile call: reconcile_one and inspect_and_recover               *)
(***************************************************************************)

\* The call returns to its caller (an outcome or an error) and keeps nothing.
Return(r) ==
  /\ pc' = [pc EXCEPT ![r] = "idle"]
  /\ call' = [call EXCEPT ![r] = Idle]
  /\ view' = [view EXCEPT ![r] = "none"]
  /\ retry' = [retry EXCEPT ![r] = FALSE]
  /\ inspection' = [inspection EXCEPT ![r] = NoDocument]

Goto(r, step) == pc' = [pc EXCEPT ![r] = step]

\* The caller built its document from the state it read: an upsert with the
\* active binding, or the disable/remove successor of a reserved document.
BuiltFromCurrentState(d) ==
  /\ d.generation = generation
  /\ \/ d.enrollment = "active" /\ BindingActive(d)
     \/ /\ d.enrollment # "active"
        /\ \E g \in Generations :
             /\ g + 1 = generation
             /\ desired[g].enrollment # "removed"
             /\ d.binding = desired[g].binding

Begin(r, o, d) ==
  /\ pc[r] = "idle"
  /\ Goto(r, "reserve")
  /\ call' = [call EXCEPT ![r] = [operation |-> o, document |-> d]]
  /\ UNCHANGED <<store, binding, external, view, retry, inspection>>

Submit(r, o, d) == BuiltFromCurrentState(d) /\ Begin(r, o, d)

\* A caller retries a projection it reserved before, under any operation id.
Resubmit(r, o, g) ==
  /\ state[g] # "none"
  /\ Begin(r, o, desired[g])

\* reserve_n7_projection answers with the record's view.
Reserved(r, s) ==
  IF s \in Settled
  THEN Return(r)
  ELSE /\ Goto(r, "capabilities")
       /\ view' = [view EXCEPT ![r] = s]
       /\ UNCHANGED <<call, retry, inspection>>

\* The exact tuple of this operation id was stored before.
ReserveReplay(r) ==
  LET d == call[r].document IN
  /\ pc[r] = "reserve"
  /\ operation[call[r].operation] = d
  /\ Reserved(r, state[d.generation])
  /\ UNCHANGED <<store, binding, external>>

\* Another operation id names the same record exactly: one more operation row.
ReserveJoin(r) ==
  LET d == call[r].document
      o == call[r].operation IN
  /\ pc[r] = "reserve"
  /\ operation[o] = NoDocument
  /\ SameRecord(d)
  /\ operation' = [operation EXCEPT ![o] = d]
  /\ Reserved(r, state[d.generation])
  /\ UNCHANGED <<generation, state, desired, attempt, status, binding, external>>

\* The operation id or the generation is taken by a different tuple, the
\* generation is not the device's current one, or the binding is not active.
ReserveRefused(r) ==
  LET d == call[r].document
      o == call[r].operation IN
  /\ pc[r] = "reserve"
  /\ operation[o] # d
  /\ \/ operation[o] # NoDocument
     \/ /\ ~SameRecord(d)
        /\ \/ state[d.generation] # "none"
           \/ d.generation # generation
           \/ ~BindingActive(d)
  /\ Return(r)
  /\ UNCHANGED <<store, binding, external>>

\* A new record, its operation row, the device status and the generation
\* counter move in one transaction.
ReserveNew(r) ==
  LET d == call[r].document
      o == call[r].operation
      g == d.generation IN
  /\ pc[r] = "reserve"
  /\ operation[o] = NoDocument
  /\ state[g] = "none"
  /\ g = generation
  /\ BindingActive(d)
  /\ StatusMayBecome(status, "pending")
  /\ state' = [state EXCEPT ![g] = "desired"]
  /\ desired' = [desired EXCEPT ![g] = d]
  /\ operation' = [operation EXCEPT ![o] = d]
  /\ status' = "pending"
  /\ generation' = g + 1
  /\ Reserved(r, "desired")
  /\ UNCHANGED <<attempt, binding, external>>

\* ensure_capabilities, then inspect first whatever was attempted before.
FirstStep(s) == IF s = "attempted" THEN "inspect" ELSE "attempt"

CapabilitiesConfirmed(r) ==
  /\ pc[r] = "capabilities"
  /\ Goto(r, FirstStep(view[r]))
  /\ retry' = [retry EXCEPT ![r] = view[r] = "attempted"]
  /\ UNCHANGED <<store, binding, external, call, view, inspection>>

CapabilitiesFailed(r) ==
  /\ pc[r] = "capabilities"
  /\ Return(r)
  /\ UNCHANGED <<store, binding, external>>

\* record_n7_projection_dispatch_attempt admits the attempt.
AttemptAdmitted(r) ==
  LET d == call[r].document IN
  /\ RevisionMatches(view[r], state[d.generation])
  /\ BindingActive(d)

RecordAttempt(r) ==
  LET g == call[r].document.generation IN
  /\ pc[r] = "attempt"
  /\ AttemptAdmitted(r)
  /\ state' = [state EXCEPT ![g] = "attempted"]
  /\ attempt' = [attempt EXCEPT ![g] = call[r].operation]
  /\ view' = [view EXCEPT ![r] = "attempted"]
  /\ Goto(r, "dispatch")
  /\ UNCHANGED <<generation, desired, operation, status, binding, external,
                 call, retry, inspection>>

AttemptRefused(r) ==
  /\ pc[r] = "attempt"
  /\ ~AttemptAdmitted(r)
  /\ Return(r)
  /\ UNCHANGED <<store, binding, external>>

\* transport.apply: the request is written.  Whatever comes back, or nothing,
\* the next step is an inspection that may not dispatch again.
DispatchSent(r) ==
  /\ pc[r] = "dispatch"
  /\ network' = network \cup {call[r].document}
  /\ Goto(r, "inspect")
  /\ retry' = [retry EXCEPT ![r] = FALSE]
  /\ UNCHANGED <<store, binding, fleet, held, call, view, inspection>>

\* transport.apply: no connection.  The durable attempt stays as evidence.
DispatchUnavailable(r) ==
  /\ pc[r] = "dispatch"
  /\ Return(r)
  /\ UNCHANGED <<store, binding, external>>

\* transport.inspect: Fleet's durable document or null, or no answer.
Inspect(r, answer) ==
  /\ pc[r] = "inspect"
  /\ inspection' = [inspection EXCEPT ![r] = answer]
  /\ Goto(r, "recover")
  /\ UNCHANGED <<store, binding, external, call, view, retry>>

InspectAnswered(r) == Inspect(r, fleet)
InspectUnavailable(r) == Inspect(r, Unavailable)

WrongVerdictByState(d, observed) ==
  IF observed.enrollment = d.enrollment THEN "applied" ELSE "conflict"

WrongVerdictRetryable(d, observed) ==
  IF observed = d THEN "applied"
  ELSE IF observed.generation < d.generation THEN "failed_retryable" ELSE "conflict"

Verdict(d, observed) == IF observed = d THEN "applied" ELSE "conflict"

\* n7_projection_inspection_exact_subject: the inspecting operation must be
\* the one that made the record's current attempt.
InspectionAdmitted(r) ==
  LET g == call[r].document.generation IN
  /\ RevisionMatches(view[r], state[g])
  /\ attempt[g] = call[r].operation

\* recover_n7_projection_from_inspection settles the record from an observed
\* body; the device status must be able to follow.
Settle(r) ==
  LET d == call[r].document
      g == d.generation
      verdict == Verdict(d, inspection[r]) IN
  /\ pc[r] = "recover"
  /\ inspection[r] \in Documents
  /\ InspectionAdmitted(r)
  /\ StatusMayBecome(status, verdict)
  /\ state' = [state EXCEPT ![g] = verdict]
  /\ status' = verdict
  /\ Return(r)
  /\ UNCHANGED <<generation, desired, attempt, operation, binding, external>>

\* Only an authoritative Missing on the retry path appends another attempt.
MayDispatchAgain(r) == inspection[r] = NoDocument /\ retry[r]

KeepAttempted(r) ==
  /\ pc[r] = "recover"
  /\ inspection[r] \notin Documents
  /\ InspectionAdmitted(r)
  /\ IF MayDispatchAgain(r)
     THEN Goto(r, "attempt") /\ UNCHANGED <<call, view, retry, inspection>>
     ELSE Return(r)
  /\ UNCHANGED <<store, binding, external>>

\* The transaction aborts and the error is the caller's.
RecoverAborted(r) ==
  /\ pc[r] = "recover"
  /\ \/ ~InspectionAdmitted(r)
     \/ /\ inspection[r] \in Documents
        /\ ~StatusMayBecome(status, Verdict(call[r].document, inspection[r]))
  /\ Return(r)
  /\ UNCHANGED <<store, binding, external>>

\* The process stops: only the store survives.
Crash(r) ==
  /\ pc[r] # "idle"
  /\ Return(r)
  /\ UNCHANGED <<store, binding, external>>

-----------------------------------------------------------------------------
(***************************************************************************)
(* Fleet (external) and the N6 binding lifecycle                           *)
(***************************************************************************)

\* A fresh identity accepts any generation, a known one its exact successor;
\* replays, stale, gapped and conflicting documents change nothing.
FleetAccepts(d) ==
  \/ fleet = NoDocument
  \/ d.generation = fleet.generation + 1

\* The same document may be in flight for several attempts, so handling one
\* need not empty the socket of it.
Deliver(d) ==
  /\ d \in network
  /\ network' \in {network, network \ {d}}
  /\ fleet' = IF FleetAccepts(d) THEN d ELSE fleet
  /\ held' = IF FleetAccepts(d) THEN held \cup {d} ELSE held
  /\ UNCHANGED <<store, binding, worker>>

\* Fleet stops before reading the request.
Lose(d) ==
  /\ d \in network
  /\ network' = network \ {d}
  /\ UNCHANGED <<store, binding, worker, fleet, held>>

IssueBinding ==
  /\ \A b \in Bindings : binding[b] = "none"
  /\ binding' = [binding EXCEPT ![1] = "pending"]
  /\ UNCHANGED <<store, worker, external>>

ConfirmBinding(b) ==
  /\ binding[b] = "pending"
  /\ binding' = [binding EXCEPT ![b] = "active"]
  /\ UNCHANGED <<store, worker, external>>

RotateBinding(b) ==
  /\ binding[b] = "active"
  /\ b < MaxBinding
  /\ ~FleetAuthorityUnresolved(b)
  /\ binding' = [binding EXCEPT ![b] = "rotated", ![b + 1] = "pending"]
  /\ UNCHANGED <<store, worker, external>>

RevokeBinding(b) ==
  /\ binding[b] \in {"pending", "active"}
  /\ ~FleetAuthorityUnresolved(b)
  /\ binding' = [binding EXCEPT ![b] = "revoked"]
  /\ UNCHANGED <<store, worker, external>>

-----------------------------------------------------------------------------
Reserve(r) ==
  ReserveReplay(r) \/ ReserveJoin(r) \/ ReserveRefused(r) \/ ReserveNew(r)

Reconcile(r) ==
  \/ Reserve(r)
  \/ CapabilitiesConfirmed(r)
  \/ CapabilitiesFailed(r)
  \/ RecordAttempt(r)
  \/ AttemptRefused(r)
  \/ DispatchSent(r)
  \/ DispatchUnavailable(r)
  \/ InspectAnswered(r)
  \/ InspectUnavailable(r)
  \/ Settle(r)
  \/ KeepAttempted(r)
  \/ RecoverAborted(r)

Next ==
  \/ \E r \in Reconcilers, o \in Operations, d \in Documents : Submit(r, o, d)
  \/ \E r \in Reconcilers, o \in Operations, g \in Generations : Resubmit(r, o, g)
  \/ \E r \in Reconcilers : Reconcile(r)
  \/ \E r \in Reconcilers : Crash(r)
  \/ \E d \in Documents : Deliver(d) \/ Lose(d)
  \/ IssueBinding
  \/ \E b \in Bindings : ConfirmBinding(b) \/ RotateBinding(b) \/ RevokeBinding(b)

Spec == Init /\ [][Next]_vars

-----------------------------------------------------------------------------
(***************************************************************************)
(* Properties                                                              *)
(***************************************************************************)

\* ADR 0011 "N6 binding rotation and revocation are ordered behind this
\* authority boundary": while Fleet holds a document that has not removed the
\* node, the binding it names is neither rotated nor revoked, whatever
\* requests are still in flight and whichever processes stopped.
FenceSafety ==
  fleet # NoDocument /\ fleet.enrollment # "removed"
    => binding[fleet.binding] \notin Retired

\* A request written under a binding that has since been retired can no
\* longer be accepted by Fleet, however late it is read.
LateRequestsAreHarmless ==
  \A d \in network :
    d.enrollment # "removed" /\ binding[d.binding] \in Retired
      => ~FleetAccepts(d)

\* recover_n7_projection_from_inspection: a record is applied only if Fleet
\* really held exactly its desired document, not because a request was
\* acknowledged or something was observed.
AppliedWasHeld ==
  \A g \in Generations : state[g] = "applied" => desired[g] \in held

\* "Persists desired bytes and exact N6 binding provenance before any adapter
\* dispatch": no document is in flight or in Fleet without a durable record of
\* that very document with a recorded attempt.
AttemptIsDurableFirst ==
  \A d \in network \cup held :
    /\ desired[d.generation] = d
    /\ attempt[d.generation] \in Operations
    /\ state[d.generation] \notin {"none", "desired"}

\* The generation counter and the records move together: the records are
\* exactly those below the counter and every operation row names the record
\* of its tuple (reserve_n7_projection is one transaction).
RecordsFollowGeneration ==
  /\ \A g \in Generations :
       /\ state[g] # "none" <=> g < generation
       /\ desired[g] # NoDocument => desired[g].generation = g
  /\ \A o \in Operations :
       operation[o] # NoDocument => desired[operation[o].generation] = operation[o]

\* The binding of a record whose dispatch was attempted stays active until a
\* later applied record releases it (the fence, seen from the N7 side).
AttemptedKeepsBinding ==
  \A g \in Generations :
    state[g] = "attempted" /\ binding[desired[g].binding] # "active"
      => \E h \in Generations : SupersededBy(h, g)

\* No step changes the body of a reserved record, reopens a settled one or
\* takes an attempted one back, and a retired binding stays retired.
NothingIsTakenBack ==
  [][ /\ \A g \in Generations :
           /\ state[g] # "none" => desired'[g] = desired[g]
           /\ state[g] \in Settled => state'[g] = state[g]
           /\ state[g] = "attempted" => state'[g] \notin {"none", "desired"}
      /\ \A o \in Operations : operation[o] # NoDocument => operation'[o] = operation[o]
      /\ \A b \in Bindings : binding[b] \in Retired => binding'[b] = binding[b]
    ]_<<state, desired, operation, binding>>

\* "A durable attempted operation is inspected before every retry": a
\* reconciler is about to write a request again for a record that was already
\* attempted only after Fleet answered that call that it held nothing.
RetryOnlyAfterMissing ==
  [][\A r \in Reconcilers :
        LET g == call[r].document.generation IN
        pc[r] = "attempt" /\ pc'[r] = "dispatch" /\ state[g] = "attempted"
          => retry[r] /\ inspection[r] = NoDocument]_<<pc, state>>

-----------------------------------------------------------------------------
\* What is asked, judged and retired, read off the records and the bindings.
Promise == INSTANCE FleetAuthority WITH
  asked <- desired,
  verdict <- [g \in Generations |->
               IF state[g] \in {"desired", "attempted"} THEN "open" ELSE state[g]],
  authority <- fleet,
  history <- held,
  retired <- {b \in Bindings : binding[b] \in Retired}

\* Reconcilers that crash, retry, race and lose responses still only do what
\* the abstract authority contract allows.
KeepsPromise == Promise!Spec

\* The bindings and their fence as the N6 side sees them.
Lifecycle == INSTANCE BindingLifecycle WITH
  Generations <- Bindings,
  state <- binding,
  fenced <- {b \in Bindings : FleetAuthorityUnresolved(b)}

\* The assumption KeryxBinding makes of N7: Fleet authority arises only under
\* an active binding, and stays on it until it is resolved.
KeepsLifecycle == Lifecycle!Spec

-----------------------------------------------------------------------------
(***************************************************************************)
(* Fairness: a running reconciler takes its steps, Fleet reads what is in  *)
(* its socket, and the caller of an operation resubmits it as long as its  *)
(* record is open.  Faults may happen for a while, not for ever: without   *)
(* that nothing outside the store need ever answer.                        *)
(***************************************************************************)
\* A call that ends without any of the code's own answers: a crash, or a
\* Fleet that cannot be reached.
CutShort(r) ==
  /\ Crash(r)
  /\ ~(Reserve(r) \/ AttemptRefused(r) \/ KeepAttempted(r) \/ RecoverAborted(r) \/ Settle(r))

Fault ==
  \/ \E r \in Reconcilers : CutShort(r) \/ InspectUnavailable(r)
  \/ \E d \in Documents : Lose(d)

KeepRetrying(r, o) ==
  /\ operation[o] # NoDocument
  /\ state[operation[o].generation] \notin Settled
  /\ Resubmit(r, o, operation[o].generation)

FairSpec ==
  /\ Spec
  /\ \A r \in Reconcilers : WF_vars(Reconcile(r))
  /\ \A r \in Reconcilers, o \in Operations : SF_vars(KeepRetrying(r, o))
  /\ \A d \in Documents : WF_vars(Deliver(d))
  /\ <>[][~Fault]_vars

\* An attempted projection is not left open: inspection after response loss,
\* unavailability or a restart settles it.
AttemptedIsSettled ==
  \A g \in Generations : state[g] = "attempted" ~> state[g] \in Settled

=============================================================================
