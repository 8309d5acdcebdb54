--------------------------- MODULE JoinInvitation ---------------------------
(***************************************************************************)
(* N4: one single-use invitation and the provider credential made for it.  *)
(*                                                                         *)
(* The store (nodescale-state/src/lib.rs, migration 0004) keeps the        *)
(* invitation, its one join session, the dispatch row of the credential    *)
(* request, the confirmed reference and the invalidation state of the      *)
(* credential.  Workers (the redemption ingress thread, and whoever calls  *)
(* revoke or expire of nodescale-invitation) run one command at a time:    *)
(* the clock is read once, then store transactions and provider requests   *)
(* alternate.  Anything may happen between two of them; a worker may stop  *)
(* anywhere, while its request lives on at the provider.                   *)
(*                                                                         *)
(* The one join session of the invitation is the one its claimant made, so *)
(* credentials are named by the worker that asked for them.                *)
(*                                                                         *)
(* Operators whose name begins with Wrong are deliberate mistakes a change *)
(* to the code could make; no action uses them.                            *)
(***************************************************************************)
EXTENDS Naturals

CONSTANTS
  Workers,   \* processes that run invitation commands
  Deadline,  \* expires_at of the invitation, its session and its credential
  MaxTime,   \* bound: the last instant of the clock
  NoWorker

Times == 0..MaxTime
Intents == {"revoked", "expired"}

ASSUME DeadlineAssumption == MaxTime \in Nat /\ Deadline \in Nat \ {0}

ASSUME SentinelAssumption == NoWorker \notin Workers

VARIABLES
  invitation,    \* invitations.state
  revision,      \* n4_invitation_details.revision
  session,       \* join_sessions.state
  dispatch,      \* n4_join_session_dispatches.dispatch_state
  reference,     \* whose credential is the confirmed provider reference
  invalidation,  \* n4_provider_credential_metadata.invalidation_state
  provider,      \* what became of each worker's create request
  handed,        \* workers whose secret was serialized for its caller
  clock,         \* the clock of the commands
  pc,            \* where each worker is
  call           \* the command it is running

rows == <<invitation, revision, session, dispatch, reference, invalidation>>
vars == <<invitation, revision, session, dispatch, reference, invalidation,
          provider, handed, clock, pc, call>>

InvitationStates == {"issued", "redeeming", "consumed", "revoking", "expiring",
                     "failed", "expired", "revoked"}
SessionStates == {"none", "validated", "issuing", "issued", "ambiguous",
                  "revocation_pending", "expired", "failed", "revoked"}
DispatchStates == {"none", "reserved", "dispatch_started", "confirmed",
                   "ambiguous", "failed_no_apply", "revocation_pending",
                   "revoked", "expired"}
InvalidationStates == {"none", "active", "pending", "confirmed", "retryable",
                       "ambiguous", "blocked"}
RequestStates == {"unsent", "requested", "refused", "live", "revoked"}
Steps == {"idle", "reserve", "begin", "create", "answer", "confirm", "contain",
          "fail", "handoff", "prepare", "invalidate", "settle"}

Calls == [now : Times, revision : Nat, intent : Intents \cup {"none"},
          reference : Workers \cup {NoWorker},
          outcome : {"none", "failed_no_apply"} \cup InvalidationStates]

TypeOK ==
  /\ invitation \in InvitationStates
  /\ revision \in Nat
  /\ session \in SessionStates
  /\ dispatch \in DispatchStates
  /\ reference \in Workers \cup {NoWorker}
  /\ invalidation \in InvalidationStates
  /\ provider \in [Workers -> RequestStates]
  /\ handed \subseteq Workers
  /\ clock \in Times
  /\ pc \in [Workers -> Steps]
  /\ call \in [Workers -> Calls]

Idle == [now |-> 0, revision |-> 0, intent |-> "none", reference |-> NoWorker,
         outcome |-> "none"]

\* issue_n4_invitation
Init ==
  /\ invitation = "issued"
  /\ revision = 1
  /\ session = "none"
  /\ dispatch = "none"
  /\ reference = NoWorker
  /\ invalidation = "none"
  /\ provider = [w \in Workers |-> "unsent"]
  /\ handed = {}
  /\ clock = 0
  /\ pc = [w \in Workers |-> "idle"]
  /\ call = [w \in Workers |-> Idle]

-----------------------------------------------------------------------------
(***************************************************************************)
(* The transition rules                                                    *)
(***************************************************************************)

\* InvitationState::transition, of the states N4 uses.
InvitationFollows ==
  [from \in InvitationStates |->
     {from} \cup
     CASE from = "issued" -> {"redeeming", "revoking", "expiring", "expired", "revoked"}
       [] from = "redeeming" -> InvitationStates \ {"issued", "redeeming"}
       [] from \in {"failed", "consumed"} -> {"revoking", "expiring"}
       [] from = "revoking" -> {"revoked", "failed"}
       [] from = "expiring" -> {"expired", "failed"}
       [] OTHER -> {}]

Ended == {"expired", "failed", "revoked"}

WrongSessionFollows == [from \in SessionStates |-> SessionStates]

\* JoinSession::advance_n4: nothing leaves an ended session, and an issued
\* credential is only left through its cleanup.
SessionFollows ==
  [from \in SessionStates |->
     CASE from = "validated" -> {"validated", "issuing"} \cup Ended
       [] from = "issuing" -> {"issuing", "issued", "ambiguous", "revocation_pending"} \cup Ended
       [] from = "issued" -> {"revocation_pending"}
       [] from = "ambiguous" -> {"ambiguous", "revocation_pending"} \cup Ended
       [] from = "revocation_pending" -> {"revocation_pending"} \cup Ended
       [] OTHER -> {}]

\* The trigger n4_dispatch_state_transitions, and the CHECK that any row but a
\* reserved one names the authority it was dispatched under: only begin fills
\* that in, so a reserved row goes nowhere else.
DispatchFollows ==
  [from \in DispatchStates |->
     {from} \cup
     CASE from = "reserved" -> {"dispatch_started"}
       [] from = "dispatch_started" ->
            {"confirmed", "ambiguous", "failed_no_apply", "revocation_pending"}
       [] from \in {"confirmed", "ambiguous"} -> {"revocation_pending", "revoked", "expired"}
       [] from = "revocation_pending" -> {"revoked", "expired"}
       [] OTHER -> {}]

SetRows(i, s, d) ==
  /\ i \in InvitationFollows[invitation]
  /\ s \in SessionFollows[session]
  /\ d \in DispatchFollows[dispatch]
  /\ invitation' = i
  /\ session' = s
  /\ dispatch' = d

-----------------------------------------------------------------------------
(***************************************************************************)
(* Commands                                                                *)
(***************************************************************************)
GoTo(w, step) == pc' = [pc EXCEPT ![w] = step] /\ UNCHANGED call

Return(w) ==
  /\ pc' = [pc EXCEPT ![w] = "idle"]
  /\ call' = [call EXCEPT ![w] = Idle]

\* The command ends with the store as it is: a transaction is refused or
\* aborts, the provider authority is not issuable, or the process stops.
Leave(w) ==
  /\ pc[w] # "idle"
  /\ Return(w)
  /\ UNCHANGED <<rows, provider, handed, clock>>

\* redeem reads the candidate, whose token verifies, and its revision.  A
\* worker that has sent its request once would be refused in Reserve anyway.
Redeem(w) ==
  /\ pc[w] = "idle"
  /\ provider[w] = "unsent"
  /\ pc' = [pc EXCEPT ![w] = "reserve"]
  /\ call' = [call EXCEPT ![w] = [Idle EXCEPT !.now = clock, !.revision = revision]]
  /\ UNCHANGED <<rows, provider, handed, clock>>

\* revoke and expire
CleanUp(w, intent) ==
  /\ pc[w] = "idle"
  /\ pc' = [pc EXCEPT ![w] = "prepare"]
  /\ call' = [call EXCEPT ![w] = [Idle EXCEPT !.now = clock, !.intent = intent]]
  /\ UNCHANGED <<rows, provider, handed, clock>>

-----------------------------------------------------------------------------
(***************************************************************************)
(* Redemption                                                              *)
(***************************************************************************)
Reservable(w) ==
  /\ invitation = "issued"
  /\ revision = call[w].revision
  /\ call[w].now < Deadline

\* reserve_n4_redemption
Reserve(w) ==
  /\ pc[w] = "reserve"
  /\ Reservable(w)
  /\ invitation' = "redeeming"
  /\ session' = "validated"
  /\ dispatch' = "reserved"
  /\ revision' = revision + 1
  /\ GoTo(w, "begin")
  /\ UNCHANGED <<reference, invalidation, provider, handed, clock>>

\* begin_n4_credential_dispatch_with_authorization: from here on the request
\* may have been sent.
Begin(w) ==
  /\ pc[w] = "begin"
  /\ dispatch = "reserved"
  /\ session = "validated"
  /\ SetRows(invitation, "issuing", "dispatch_started")
  /\ GoTo(w, "create")
  /\ UNCHANGED <<revision, reference, invalidation, provider, handed, clock>>

Create(w) ==
  /\ pc[w] = "create"
  /\ provider' = [provider EXCEPT ![w] = "requested"]
  /\ GoTo(w, "answer")
  /\ UNCHANGED <<rows, handed, clock>>

\* The provider acts on a request whenever it reads it.
Provide(w) ==
  /\ provider[w] = "requested"
  /\ \E verdict \in {"live", "refused"} : provider' = [provider EXCEPT ![w] = verdict]
  /\ UNCHANGED <<rows, handed, clock, pc, call>>

AnswerIssued(w) ==
  /\ pc[w] = "answer"
  /\ provider[w] = "live"
  /\ GoTo(w, "confirm")
  /\ UNCHANGED <<rows, provider, handed, clock>>

WrongDefinite(w) == provider[w] # "live"

\* Only a refusal is known not to have applied.
Definite(w) == provider[w] = "refused"

AnswerFailed(w, outcome) ==
  /\ pc[w] = "answer"
  /\ outcome = "failed_no_apply" => Definite(w)
  /\ pc' = [pc EXCEPT ![w] = "fail"]
  /\ call' = [call EXCEPT ![w].outcome = outcome]
  /\ UNCHANGED <<rows, provider, handed, clock>>

\* confirm_n4_credential
Confirm(w) ==
  /\ pc[w] = "confirm"
  /\ dispatch = "dispatch_started"
  /\ invitation = "redeeming"
  /\ call[w].now < Deadline
  /\ SetRows("consumed", "issued", "confirmed")
  /\ revision' = revision + 1
  /\ reference' = w
  /\ invalidation' = "active"
  /\ GoTo(w, "handoff")
  /\ UNCHANGED <<provider, handed, clock>>

\* Whatever the reason the confirmation fails for, the secret is dropped.
ConfirmFails(w) ==
  /\ pc[w] = "confirm"
  /\ GoTo(w, "contain")
  /\ UNCHANGED <<rows, provider, handed, clock>>

\* One attempt to revoke the unrecorded credential; its result is ignored.
Contain(w) ==
  /\ pc[w] = "contain"
  /\ \E after \in {provider[w], "revoked"} : provider' = [provider EXCEPT ![w] = after]
  /\ pc' = [pc EXCEPT ![w] = "fail"]
  /\ call' = [call EXCEPT ![w].outcome = "ambiguous"]
  /\ UNCHANGED <<rows, handed, clock>>

\* fail_n4_credential_dispatch; the invitation is set to failed from any
\* state, and only the session's own rule keeps that from an ended one.
Fail(w) ==
  /\ pc[w] = "fail"
  /\ dispatch = "dispatch_started"
  /\ invitation' = "failed"
  /\ session' = IF call[w].outcome = "ambiguous" THEN "ambiguous" ELSE "failed"
  /\ session' \in SessionFollows[session]
  /\ dispatch' = call[w].outcome
  /\ dispatch' \in DispatchFollows[dispatch]
  /\ Return(w)
  /\ UNCHANGED <<revision, reference, invalidation, provider, handed, clock>>

\* RedemptionHandoff::serialize
HandOff(w) ==
  /\ pc[w] = "handoff"
  /\ handed' = handed \cup {w}
  /\ Return(w)
  /\ UNCHANGED <<rows, provider, clock>>

\* The HTTP handler is gone before it took the secret: the worker revokes.
HandoffLost(w) ==
  /\ pc[w] = "handoff"
  /\ pc' = [pc EXCEPT ![w] = "prepare"]
  /\ call' = [call EXCEPT ![w] = [Idle EXCEPT !.now = clock, !.intent = "revoked"]]
  /\ UNCHANGED <<rows, provider, handed, clock>>

-----------------------------------------------------------------------------
(***************************************************************************)
(* Cleanup: revoke and expire                                              *)
(***************************************************************************)
Terminal == {"revoked", "expired"}
Pending(intent) == IF intent = "revoked" THEN "revoking" ELSE "expiring"
Due(w) == call[w].now >= Deadline

\* An expiry whose deadline has come, of a credential that was never recorded.
LocalExpiry(w) == call[w].intent = "expired" /\ reference = NoWorker /\ Due(w)

\* The exact target goes on to the provider; without one there is nothing to
\* ask for.
Target(w) ==
  IF reference = NoWorker
  THEN Return(w)
  ELSE /\ pc' = [pc EXCEPT ![w] = "invalidate"]
       /\ call' = [call EXCEPT ![w].reference = reference]

Preparing(w) ==
  /\ pc[w] = "prepare"
  /\ call[w].intent = "expired" => Due(w)

AlreadyPrepared(w) ==
  invitation \in Terminal \/ (dispatch = "revocation_pending" /\ ~LocalExpiry(w))

PrepareNothing(w) ==
  /\ Preparing(w)
  /\ AlreadyPrepared(w)
  /\ Target(w)
  /\ UNCHANGED <<rows, provider, handed, clock>>

WrongUncertain(w) == FALSE

\* A request that may have been applied, and no reference to invalidate.
Uncertain(w) ==
  /\ reference = NoWorker
  /\ dispatch \in {"dispatch_started", "ambiguous"}
  /\ ~LocalExpiry(w)

\* prepare_n4_cleanup, the two branches that only mark the cleanup pending
PreparePending(w) ==
  /\ Preparing(w)
  /\ ~AlreadyPrepared(w)
  /\ Uncertain(w) \/ dispatch = "confirmed"
  /\ SetRows(Pending(call[w].intent), "revocation_pending", "revocation_pending")
  /\ invalidation' = IF dispatch = "confirmed" THEN "pending" ELSE invalidation
  /\ Target(w)
  /\ UNCHANGED <<revision, reference, provider, handed, clock>>

\* The dispatch states the direct cleanup sweeps up; a started or ambiguous
\* one, which only a due expiry gets here, is left as it is.
Swept == {"reserved", "failed_no_apply", "revocation_pending"}

LocalSession(intent) == IF session \in {"none", "failed", intent} THEN session ELSE intent
LocalDispatch(intent) == IF dispatch \in Swept THEN intent ELSE dispatch

\* The rules the direct cleanup goes through.  Expiry takes a revoking
\* invitation straight to expired.
LocalAllowed(intent) ==
  /\ \/ intent = "expired" /\ invitation = "revoking"
     \/ Pending(intent) \in InvitationFollows[invitation]
  /\ LocalSession(intent) \in {session} \cup SessionFollows[session]
  /\ LocalDispatch(intent) \in DispatchFollows[dispatch]

\* prepare_n4_cleanup, its last branch: nothing to ask the provider for.
PrepareLocal(w) ==
  LET intent == call[w].intent IN
  /\ Preparing(w)
  /\ ~AlreadyPrepared(w)
  /\ ~Uncertain(w)
  /\ dispatch # "confirmed"
  /\ LocalAllowed(intent)
  /\ invitation' = intent
  /\ session' = LocalSession(intent)
  /\ dispatch' = LocalDispatch(intent)
  /\ revision' = revision + 1
  /\ Target(w)
  /\ UNCHANGED <<reference, invalidation, provider, handed, clock>>

WrongAtProvider(c) == "expired"

\* Asked to expire a credential, the provider does so.
AtProvider(c) == "revoked"

Usable(c) == provider[c] = "live" /\ clock < Deadline

\* Confirmed or already satisfied: the provider's read-back shows that the
\* credential is gone.
InvalidateDone(w) ==
  LET c == call[w].reference IN
  /\ pc[w] = "invalidate"
  /\ provider' = IF Usable(c) THEN [provider EXCEPT ![c] = AtProvider(c)] ELSE provider
  /\ pc' = [pc EXCEPT ![w] = "settle"]
  /\ call' = [call EXCEPT ![w].outcome = "confirmed"]
  /\ UNCHANGED <<rows, handed, clock>>

\* Any other outcome, which may still have reached the credential.
InvalidateFails(w, outcome) ==
  LET c == call[w].reference IN
  /\ pc[w] = "invalidate"
  /\ \E after \in {provider[c], "revoked"} : provider' = [provider EXCEPT ![c] = after]
  /\ pc' = [pc EXCEPT ![w] = "settle"]
  /\ call' = [call EXCEPT ![w].outcome = outcome]
  /\ UNCHANGED <<rows, handed, clock>>

Unsettled == {"pending", "retryable", "ambiguous", "blocked"}

\* settle_n4_credential_invalidation, with evidence
Settle(w) ==
  LET intent == call[w].intent IN
  /\ pc[w] = "settle"
  /\ call[w].outcome = "confirmed"
  /\ dispatch = "revocation_pending"
  /\ invalidation \in Unsettled
  /\ SetRows(intent, intent, intent)
  /\ invalidation' = "confirmed"
  /\ revision' = revision + 1
  /\ Return(w)
  /\ UNCHANGED <<reference, provider, handed, clock>>

\* ... and without: the cleanup stays pending, with its last outcome.
SettleLater(w) ==
  /\ pc[w] = "settle"
  /\ call[w].outcome # "confirmed"
  /\ invalidation \in Unsettled
  /\ invalidation' = call[w].outcome
  /\ Return(w)
  /\ UNCHANGED <<invitation, revision, session, dispatch, reference, provider,
                 handed, clock>>

-----------------------------------------------------------------------------
Tick ==
  /\ clock < MaxTime
  /\ clock' = clock + 1
  /\ UNCHANGED <<rows, provider, handed, pc, call>>

Redemption(w) ==
  \/ Redeem(w) \/ Reserve(w) \/ Begin(w) \/ Create(w) \/ Provide(w)
  \/ AnswerIssued(w)
  \/ \E outcome \in {"failed_no_apply", "ambiguous"} : AnswerFailed(w, outcome)
  \/ Confirm(w) \/ ConfirmFails(w) \/ Contain(w) \/ Fail(w)
  \/ HandOff(w) \/ HandoffLost(w)

Cleanup(w) ==
  \/ \E intent \in Intents : CleanUp(w, intent)
  \/ PrepareNothing(w) \/ PreparePending(w) \/ PrepareLocal(w)
  \/ InvalidateDone(w)
  \/ \E outcome \in {"retryable", "ambiguous", "blocked"} : InvalidateFails(w, outcome)
  \/ Settle(w) \/ SettleLater(w)

Next == Tick \/ \E w \in Workers : Redemption(w) \/ Cleanup(w) \/ Leave(w)

Spec == Init /\ [][Next]_vars

-----------------------------------------------------------------------------
(***************************************************************************)
(* Properties                                                              *)
(***************************************************************************)

\* docs/invitations.md "Provider credential creation is dispatched at most
\* once for a reserved invitation", and repeated presentation "is rejected
\* without a second provider credential creation": however the workers
\* interleave, stop and come back, one create request is ever sent.
OneDispatch ==
  \A v, w \in Workers : provider[v] # "unsent" /\ provider[w] # "unsent" => v = w

\* What the store says for certain of the provider is so, and stays so: a
\* dispatch that did not apply left no credential and no request that could
\* still make one, a confirmed invalidation left none usable, and neither did
\* a revoked invitation.
CertaintyIsEarned ==
  /\ dispatch = "failed_no_apply" =>
       \A w \in Workers : provider[w] \in {"unsent", "refused"}
  /\ invalidation = "confirmed" => reference # NoWorker /\ ~Usable(reference)
  /\ invitation = "revoked" =>
       \A w \in Workers : provider[w] # "requested" /\ ~Usable(w)

\* The rows written by redemption, failure, cleanup and settlement, each in a
\* transaction of its own worker, tell one story: a credential is recorded
\* with an invalidation state, which follows the dispatch; invitation, session
\* and dispatch wait for cleanup together and end together.
RowsAgree ==
  /\ reference = NoWorker <=> invalidation = "none"
  /\ invalidation = "active" <=> dispatch = "confirmed"
  /\ invalidation = "confirmed" <=> reference # NoWorker /\ dispatch \in Terminal
  /\ dispatch = "confirmed" <=> invitation = "consumed"
  /\ dispatch = "confirmed" <=> session = "issued"
  /\ dispatch = "revocation_pending" <=> invitation \in {"revoking", "expiring"}
  /\ dispatch = "revocation_pending" <=> session = "revocation_pending"
  /\ invitation \in Terminal =>
       /\ session \in {"none", invitation}
       /\ dispatch \in {"none", invitation} \/ (invitation = "expired" /\ reference = NoWorker)

\* A revoked or expired invitation is over: no late answer, failure record or
\* settlement of a slower worker rewrites it, its session or its credential.
TerminalIsFinal ==
  [][(invitation \in Terminal) => rows' = rows]_vars

Phase ==
  IF invitation = "issued" THEN "open"
  ELSE IF invitation \in Terminal THEN "closed" ELSE "claimed"

\* A provider credential was made.
Made(c) == provider[c] \in {"live", "revoked"}

Credential ==
  IF \E w \in Workers : Usable(w) THEN "usable"
  ELSE IF \E w \in Workers : Made(w) THEN "gone" ELSE "never"

Grant == INSTANCE SingleUseGrant WITH
  phase <- Phase, credential <- Credential, granted <- reference # NoWorker,
  handed <- handed # {}

\* Redemption and cleanup keep the promise of a single-use invitation.
KeepsGrant == Grant!Spec

\* docs/invitations.md, durable lifecycle: from reserved as from issued, an
\* invitation goes to revoking and revoked, and to expiring and expired.  An
\* invitation that was reserved and never dispatched, or whose dispatch did
\* not apply, is accepted by the cleanup that is meant to end it.
CleanupIsAccepted ==
  \A w \in Workers :
    Preparing(w) /\ dispatch \in Swept /\ reference = NoWorker /\ ~AlreadyPrepared(w)
      => LocalAllowed(call[w].intent)

=============================================================================
