------------------------- MODULE JoinInvitationProofs -------------------------
(***************************************************************************)
(* Theorems of JoinInvitation, for any set of workers, deadline and clock. *)
(*                                                                         *)
(* The inductive invariant has five parts besides the types.  Shaped: the  *)
(* states invitation, session and dispatch can be in together.  Recorded:  *)
(* how the reference and the state of its invalidation go with them.       *)
(* OneClaim: one worker at most got past the reservation.  Placed: what    *)
(* holds of a worker for where it is.  Settled: what a final state of the  *)
(* rows says of the workers and of the provider.                           *)
(***************************************************************************)
EXTENDS JoinInvitation, TLAPS

Shapes ==
  {<<"issued", "none", "none">>, <<"revoked", "none", "none">>, <<"expired", "none", "none">>,
   <<"redeeming", "validated", "reserved">>, <<"redeeming", "issuing", "dispatch_started">>,
   <<"consumed", "issued", "confirmed">>, <<"failed", "ambiguous", "ambiguous">>,
   <<"failed", "failed", "failed_no_apply">>,
   <<"revoking", "revocation_pending", "revocation_pending">>,
   <<"expiring", "revocation_pending", "revocation_pending">>,
   <<"revoked", "revoked", "revoked">>, <<"expired", "expired", "expired">>,
   <<"expired", "expired", "dispatch_started">>, <<"expired", "expired", "ambiguous">>}

Shaped == <<invitation, session, dispatch>> \in Shapes

Recorded ==
  /\ reference = NoWorker <=> invalidation = "none"
  /\ reference # NoWorker => dispatch \in {"confirmed", "revocation_pending", "revoked", "expired"}
  /\ dispatch \in {"confirmed", "revoked"} => reference # NoWorker
  /\ invalidation = "active" <=> dispatch = "confirmed"
  /\ invalidation = "confirmed" <=> reference # NoWorker /\ dispatch \in Terminal

\* Where a worker is that made the reservation.
Redeeming == {"begin", "create", "answer", "confirm", "contain", "fail", "handoff"}

Claims(w) == pc[w] \in Redeeming \/ provider[w] # "unsent"

OneClaim ==
  /\ \A v, w \in Workers : Claims(v) /\ Claims(w) => v = w
  /\ dispatch = "none" => \A w \in Workers : ~Claims(w)

PlacedAt(w) ==
  /\ pc[w] \in {"reserve", "begin", "create"} => provider[w] = "unsent"
  /\ pc[w] \in {"confirm", "contain", "handoff"} => Made(w)
  /\ pc[w] = "handoff" => reference # NoWorker
  /\ pc[w] \in Redeeming => w \notin handed
  /\ w \in handed => provider[w] # "unsent"
  /\ pc[w] = "fail" => \/ call[w].outcome = "ambiguous"
                       \/ call[w].outcome = "failed_no_apply" /\ provider[w] = "refused"
  /\ pc[w] \in {"prepare", "invalidate", "settle"} => call[w].intent \in Intents
  /\ pc[w] \in {"invalidate", "settle"} => reference # NoWorker
  /\ pc[w] = "invalidate" => call[w].reference = reference
  /\ pc[w] = "settle" => call[w].outcome \in {"confirmed", "retryable", "ambiguous", "blocked"}
  /\ pc[w] = "settle" /\ call[w].outcome = "confirmed" => ~Usable(reference)
  /\ call[w].now <= clock

Placed ==
  /\ \A w \in Workers : PlacedAt(w)
  /\ reference # NoWorker => Made(reference)

Settled ==
  /\ dispatch = "failed_no_apply" =>
       \A w \in Workers : pc[w] \notin Redeeming /\ provider[w] \in {"unsent", "refused"}
  /\ invalidation = "confirmed" => ~Usable(reference)
  /\ invitation \in Terminal =>
       \A w \in Workers :
         /\ ~Usable(w)
         /\ provider[w] = "requested" \/ pc[w] \in {"begin", "create"} =>
              invitation = "expired" /\ clock >= Deadline

IInv == TypeOK /\ Shaped /\ Recorded /\ OneClaim /\ Placed /\ Settled

-----------------------------------------------------------------------------
(***************************************************************************)
(* Types                                                                   *)
(***************************************************************************)
\* The idle command is a command.
LEMMA IdleIsCall == Idle \in Calls
  BY DeadlineAssumption DEF Idle, Calls, Times, Intents

\* The rules lead from states to states.
LEMMA FollowersAreStates ==
  /\ \A s \in InvitationStates : InvitationFollows[s] \subseteq InvitationStates
  /\ \A s \in SessionStates : SessionFollows[s] \subseteq SessionStates
  /\ \A s \in DispatchStates : DispatchFollows[s] \subseteq DispatchStates
<1>1. \A s \in InvitationStates : InvitationFollows[s] \subseteq InvitationStates
  BY DEF InvitationStates, InvitationFollows
<1>2. \A s \in SessionStates : SessionFollows[s] \subseteq SessionStates
  BY DEF SessionStates, SessionFollows, Ended
<1>3. \A s \in DispatchStates : DispatchFollows[s] \subseteq DispatchStates
  BY DEF DispatchStates, DispatchFollows
<1> QED  BY <1>1, <1>2, <1>3

\* Rows that are set are set to states.
LEMMA SetRowsTypes ==
  ASSUME TypeOK, NEW i, NEW s, NEW d, SetRows(i, s, d)
  PROVE  /\ invitation' \in InvitationStates
         /\ session' \in SessionStates
         /\ dispatch' \in DispatchStates
BY FollowersAreStates DEF SetRows, TypeOK

\* Every step keeps the types.
LEMMA TypeStep ==
  ASSUME TypeOK, Recorded, Placed, [Next]_vars
  PROVE  TypeOK'
<1> USE DEF rows
<1>1. CASE Tick
  BY <1>1, DeadlineAssumption DEF Tick, TypeOK, Times
<1>2. ASSUME NEW w \in Workers, Redeem(w)
      PROVE  TypeOK'
  <2>1. [Idle EXCEPT !.now = clock, !.revision = revision] \in Calls
    BY IdleIsCall DEF Calls, TypeOK
  <2> QED  BY <1>2, <2>1 DEF Redeem, Steps, TypeOK
<1>3. ASSUME NEW w \in Workers, NEW i \in Intents, CleanUp(w, i)
      PROVE  TypeOK'
  <2>1. [Idle EXCEPT !.now = clock, !.intent = i] \in Calls
    BY IdleIsCall DEF Calls, TypeOK
  <2> QED  BY <1>3, <2>1 DEF CleanUp, Steps, TypeOK
<1>4. ASSUME NEW w \in Workers, Reserve(w)
      PROVE  TypeOK'
  BY <1>4 DEF Reserve, GoTo, TypeOK, InvitationStates, SessionStates, DispatchStates, Steps
<1>5. ASSUME NEW w \in Workers, Begin(w)
      PROVE  TypeOK'
  <2>1. /\ invitation' \in InvitationStates
        /\ session' \in SessionStates
        /\ dispatch' \in DispatchStates
    BY <1>5, SetRowsTypes DEF Begin
  <2> QED  BY <1>5, <2>1 DEF Begin, GoTo, TypeOK, Steps
<1>6. ASSUME NEW w \in Workers, Create(w) \/ Provide(w) \/ AnswerIssued(w) \/ ConfirmFails(w)
      PROVE  TypeOK'
  BY <1>6 DEF Create, Provide, AnswerIssued, ConfirmFails, GoTo, TypeOK, Steps, RequestStates
<1>7. ASSUME NEW w \in Workers, NEW o \in {"failed_no_apply", "ambiguous"}, AnswerFailed(w, o)
      PROVE  TypeOK'
  <2>1. [call[w] EXCEPT !.outcome = o] \in Calls
    BY DEF Calls, TypeOK, InvalidationStates
  <2> QED  BY <1>7, <2>1 DEF AnswerFailed, TypeOK, Steps
<1>8. ASSUME NEW w \in Workers, Confirm(w)
      PROVE  TypeOK'
  <2>1. /\ invitation' \in InvitationStates
        /\ session' \in SessionStates
        /\ dispatch' \in DispatchStates
    BY <1>8, SetRowsTypes DEF Confirm
  <2> QED  BY <1>8, <2>1 DEF Confirm, GoTo, TypeOK, Steps, InvalidationStates
<1>9. ASSUME NEW w \in Workers, Contain(w)
      PROVE  TypeOK'
  <2>1. [call[w] EXCEPT !.outcome = "ambiguous"] \in Calls
    BY DEF Calls, TypeOK, InvalidationStates
  <2> QED  BY <1>9, <2>1 DEF Contain, TypeOK, Steps, RequestStates
<1>10. ASSUME NEW w \in Workers, Fail(w)
       PROVE  TypeOK'
  <2>1. session' \in SessionStates /\ dispatch' \in DispatchStates
    BY <1>10, FollowersAreStates DEF Fail, TypeOK
  <2> QED  BY <1>10, <2>1, IdleIsCall DEF Fail, Return, TypeOK, InvitationStates, Steps
<1>11. ASSUME NEW w \in Workers, HandOff(w) \/ Leave(w)
       PROVE  TypeOK'
  BY <1>11, IdleIsCall DEF HandOff, Leave, Return, TypeOK, Steps
<1>12. ASSUME NEW w \in Workers, HandoffLost(w)
       PROVE  TypeOK'
  <2>1. [Idle EXCEPT !.now = clock, !.intent = "revoked"] \in Calls
    BY IdleIsCall DEF Calls, TypeOK, Intents
  <2> QED  BY <1>12, <2>1 DEF HandoffLost, Steps, TypeOK
<1>13. ASSUME NEW w \in Workers, Target(w)
       PROVE  pc' \in [Workers -> Steps] /\ call' \in [Workers -> Calls]
  <2>1. [call[w] EXCEPT !.reference = reference] \in Calls
    BY DEF Calls, TypeOK
  <2> QED  BY <1>13, <2>1, IdleIsCall DEF Target, Return, TypeOK, Steps
<1>14. ASSUME NEW w \in Workers, PrepareNothing(w)
       PROVE  TypeOK'
  BY <1>14, <1>13 DEF PrepareNothing, TypeOK
<1>15. ASSUME NEW w \in Workers, PreparePending(w)
       PROVE  TypeOK'
  <2>1. /\ invitation' \in InvitationStates
        /\ session' \in SessionStates
        /\ dispatch' \in DispatchStates
    BY <1>15, SetRowsTypes DEF PreparePending
  <2> QED  BY <1>15, <1>13, <2>1 DEF PreparePending, TypeOK, InvalidationStates
<1>16. ASSUME NEW w \in Workers, PrepareLocal(w)
       PROVE  TypeOK'
  <2>1. call[w].intent \in Intents
    BY <1>16 DEF PrepareLocal, Preparing, Placed, PlacedAt
  <2>2. /\ invitation' \in InvitationStates
        /\ session' \in SessionStates
        /\ dispatch' \in DispatchStates
    BY <1>16, <2>1 DEF PrepareLocal, LocalSession, LocalDispatch, Intents, TypeOK,
                       InvitationStates, SessionStates, DispatchStates
  <2> QED  BY <1>16, <1>13, <2>2 DEF PrepareLocal, TypeOK
<1>17. ASSUME NEW w \in Workers, NEW o \in {"confirmed", "retryable", "ambiguous", "blocked"},
              call' = [call EXCEPT ![w].outcome = o]
       PROVE  call' \in [Workers -> Calls]
  <2>1. [call[w] EXCEPT !.outcome = o] \in Calls
    BY DEF Calls, TypeOK, InvalidationStates
  <2> QED  BY <1>17, <2>1 DEF TypeOK
<1>18. ASSUME NEW w \in Workers, InvalidateDone(w)
       PROVE  TypeOK'
  <2>1. call' \in [Workers -> Calls]
    BY <1>18, <1>17 DEF InvalidateDone
  <2>2. provider' \in [Workers -> RequestStates]
    BY <1>18 DEF InvalidateDone, AtProvider, TypeOK, RequestStates
  <2> QED  BY <1>18, <2>1, <2>2 DEF InvalidateDone, TypeOK, Steps
<1>19. ASSUME NEW w \in Workers, NEW o \in {"retryable", "ambiguous", "blocked"},
              InvalidateFails(w, o)
       PROVE  TypeOK'
  <2>1. call' \in [Workers -> Calls]
    BY <1>19, <1>17 DEF InvalidateFails
  <2>2. call[w].reference \in Workers
    BY <1>19 DEF InvalidateFails, Placed, PlacedAt, TypeOK
  <2>3. provider' \in [Workers -> RequestStates]
    BY <1>19, <2>2 DEF InvalidateFails, TypeOK, RequestStates
  <2> QED  BY <1>19, <2>1, <2>3 DEF InvalidateFails, TypeOK, Steps
<1>20. ASSUME NEW w \in Workers, Settle(w)
       PROVE  TypeOK'
  <2>1. /\ invitation' \in InvitationStates
        /\ session' \in SessionStates
        /\ dispatch' \in DispatchStates
    BY <1>20, SetRowsTypes DEF Settle
  <2> QED  BY <1>20, <2>1, IdleIsCall DEF Settle, Return, TypeOK, InvalidationStates, Steps
<1>21. ASSUME NEW w \in Workers, SettleLater(w)
       PROVE  TypeOK'
  <2>1. call[w].outcome \in InvalidationStates
    BY <1>21 DEF SettleLater, Placed, PlacedAt, InvalidationStates
  <2> QED  BY <1>21, <2>1, IdleIsCall DEF SettleLater, Return, TypeOK, Steps
<1>22. CASE UNCHANGED vars
  BY <1>22 DEF vars, TypeOK
<1> QED  BY <1>1, <1>2, <1>3, <1>4, <1>5, <1>6, <1>7, <1>8, <1>9, <1>10, <1>11, <1>12, <1>14,
            <1>15, <1>16, <1>18, <1>19, <1>20, <1>21, <1>22 DEF Next, Redemption, Cleanup

-----------------------------------------------------------------------------
(***************************************************************************)
(* The rows                                                                *)
(***************************************************************************)

\* The steps that write rows.
LEMMA RowSteps ==
  ASSUME [Next]_vars
  PROVE  \/ \E w \in Workers : \/ Reserve(w) \/ Begin(w) \/ Confirm(w) \/ Fail(w)
                               \/ PreparePending(w) \/ PrepareLocal(w)
                               \/ Settle(w) \/ SettleLater(w)
         \/ UNCHANGED rows
<1>1. ASSUME NEW w \in Workers, Redemption(w)
      PROVE  Reserve(w) \/ Begin(w) \/ Confirm(w) \/ Fail(w) \/ UNCHANGED rows
  BY <1>1 DEF Redemption, Redeem, Create, Provide, AnswerIssued, AnswerFailed, ConfirmFails, Contain,
              HandOff, HandoffLost, rows
<1>2. ASSUME NEW w \in Workers, Cleanup(w)
      PROVE  PreparePending(w) \/ PrepareLocal(w) \/ Settle(w) \/ SettleLater(w) \/ UNCHANGED rows
  BY <1>2 DEF Cleanup, CleanUp, PrepareNothing, InvalidateDone, InvalidateFails, rows
<1>3. ASSUME NEW w \in Workers, Leave(w)
      PROVE  UNCHANGED rows
  BY <1>3 DEF Leave, rows
<1>4. CASE Tick \/ UNCHANGED vars
  BY <1>4 DEF Tick, vars, rows
<1> QED BY <1>1, <1>2, <1>3, <1>4 DEF Next

\* What the rules allow out of the states in question.
LEMMA Rules ==
  /\ SessionFollows["expired"] = {}
  /\ DispatchFollows["reserved"] = {"reserved", "dispatch_started"}
  /\ DispatchFollows["failed_no_apply"] = {"failed_no_apply"}
<1>1. "expired" \in SessionStates
  BY DEF SessionStates
<1>2. "reserved" \in DispatchStates /\ "failed_no_apply" \in DispatchStates
  BY DEF DispatchStates
<1> QED  BY <1>1, <1>2 DEF SessionFollows, DispatchFollows

\* The direct cleanup ends an invitation that nobody claimed, or one that is
\* due and has no recorded credential.
LEMMA LocalCases ==
  ASSUME TypeOK, Shaped, Recorded, Placed, NEW w \in Workers, PrepareLocal(w)
  PROVE  \/ /\ <<invitation, session, dispatch>> = <<"issued", "none", "none">>
            /\ <<invitation', session', dispatch'>> = <<call[w].intent, "none", "none">>
            /\ call[w].intent \in Intents
         \/ /\ LocalExpiry(w)
            /\ dispatch \in {"dispatch_started", "ambiguous", "revocation_pending"}
            /\ <<invitation', session'>> = <<"expired", "expired">>
            /\ dispatch' = IF dispatch = "revocation_pending" THEN "expired" ELSE dispatch
<1>1. call[w].intent \in Intents
  BY DEF PrepareLocal, Preparing, Placed, PlacedAt
<1>2. invitation \notin Terminal /\ dispatch # "confirmed"
  BY DEF PrepareLocal, AlreadyPrepared
<1>3. dispatch = "revocation_pending" => LocalExpiry(w)
  BY DEF PrepareLocal, AlreadyPrepared
<1>4. dispatch \in {"dispatch_started", "ambiguous"} => LocalExpiry(w)
  BY DEF PrepareLocal, Uncertain, Recorded
<1>5. dispatch \notin {"reserved", "failed_no_apply"}
  <2>1. LocalDispatch(call[w].intent) \in DispatchFollows[dispatch]
    BY DEF PrepareLocal, LocalAllowed
  <2> QED  BY <1>1, <2>1, Rules DEF LocalDispatch, Swept, Intents
<1>6. /\ invitation' = call[w].intent
      /\ session' = LocalSession(call[w].intent)
      /\ dispatch' = LocalDispatch(call[w].intent)
  BY DEF PrepareLocal
<1>7. CASE dispatch = "none"
  <2>1. invitation = "issued" /\ session = "none"
    BY <1>2, <1>7 DEF Shaped, Shapes, Terminal
  <2> QED  BY <1>1, <1>6, <1>7, <2>1 DEF LocalSession, LocalDispatch, Swept
<1>8. CASE dispatch # "none"
  <2>1. dispatch \in {"dispatch_started", "ambiguous", "revocation_pending"}
    BY <1>2, <1>5, <1>8 DEF Shaped, Shapes, Terminal
  <2>2. LocalExpiry(w) /\ call[w].intent = "expired"
    BY <1>3, <1>4, <2>1 DEF LocalExpiry
  <2>3. session \in {"issuing", "ambiguous", "revocation_pending"}
    BY <1>2, <2>1 DEF Shaped, Shapes, Terminal
  <2> QED  BY <1>6, <2>1, <2>2, <2>3 DEF LocalSession, LocalDispatch, Swept
<1> QED  BY <1>7, <1>8

\* A failure is recorded only while the invitation is being redeemed.
LEMMA FailCases ==
  ASSUME TypeOK, Shaped, Placed, NEW w \in Workers, Fail(w)
  PROVE  /\ invitation = "redeeming"
         /\ <<invitation', session', dispatch'>> \in
              {<<"failed", "ambiguous", "ambiguous">>, <<"failed", "failed", "failed_no_apply">>}
         /\ dispatch' = call[w].outcome
<1>1. session # "expired"
  BY Rules DEF Fail
<1>2. invitation = "redeeming"
  BY <1>1 DEF Fail, Shaped, Shapes
<1>3. call[w].outcome \in {"ambiguous", "failed_no_apply"}
  BY DEF Fail, Placed, PlacedAt
<1> QED  BY <1>2, <1>3 DEF Fail

\* Every step leads from shape to shape.
LEMMA ShapedStep ==
  ASSUME TypeOK, Shaped, Recorded, Placed, [Next]_vars
  PROVE  Shaped'
<1>1. ASSUME NEW w \in Workers, Reserve(w)
      PROVE  Shaped'
  BY <1>1 DEF Reserve, Shaped, Shapes
<1>2. ASSUME NEW w \in Workers, Begin(w)
      PROVE  Shaped'
  <2>1. invitation = "redeeming"
    BY <1>2 DEF Begin, Shaped, Shapes
  <2> QED  BY <1>2, <2>1 DEF Begin, SetRows, Shaped, Shapes
<1>3. ASSUME NEW w \in Workers, Confirm(w)
      PROVE  Shaped'
  BY <1>3 DEF Confirm, SetRows, Shaped, Shapes
<1>4. ASSUME NEW w \in Workers, Fail(w)
      PROVE  Shaped'
  BY <1>4, FailCases DEF Shaped, Shapes
<1>5. ASSUME NEW w \in Workers, PreparePending(w)
      PROVE  Shaped'
  <2>1. Pending(call[w].intent) \in {"revoking", "expiring"}
    BY DEF Pending
  <2> QED  BY <1>5, <2>1 DEF PreparePending, SetRows, Shaped, Shapes
<1>6. ASSUME NEW w \in Workers, PrepareLocal(w)
      PROVE  Shaped'
  BY <1>6, LocalCases DEF Shaped, Shapes, Intents
<1>7. ASSUME NEW w \in Workers, Settle(w)
      PROVE  Shaped'
  <2>1. call[w].intent \in Intents
    BY <1>7 DEF Settle, Placed, PlacedAt
  <2> QED  BY <1>7, <2>1 DEF Settle, SetRows, Shaped, Shapes, Intents
<1>8. CASE UNCHANGED <<invitation, session, dispatch>>
  BY <1>8 DEF Shaped
<1> QED  BY <1>1, <1>2, <1>3, <1>4, <1>5, <1>6, <1>7, <1>8, RowSteps DEF SettleLater, rows

\* Every step keeps the reference and its invalidation with the dispatch.
LEMMA RecordedStep ==
  ASSUME TypeOK, Shaped, Recorded, Placed, [Next]_vars
  PROVE  Recorded'
<1> USE DEF Terminal
<1>1. ASSUME NEW w \in Workers, Reserve(w)
      PROVE  Recorded'
  <2>1. dispatch = "none"
    BY <1>1 DEF Reserve, Reservable, Shaped, Shapes
  <2> QED  BY <1>1, <2>1 DEF Reserve, Recorded
<1>2. ASSUME NEW w \in Workers, Begin(w)
      PROVE  Recorded'
  BY <1>2 DEF Begin, SetRows, Recorded
<1>3. ASSUME NEW w \in Workers, Confirm(w)
      PROVE  Recorded'
  BY <1>3, SentinelAssumption DEF Confirm, SetRows, Recorded
<1>4. ASSUME NEW w \in Workers, Fail(w)
      PROVE  Recorded'
  <2>1. dispatch = "dispatch_started" /\ UNCHANGED <<reference, invalidation>>
    BY <1>4 DEF Fail
  <2> QED  BY <1>4, <2>1, FailCases DEF Recorded
<1>5. ASSUME NEW w \in Workers, PreparePending(w)
      PROVE  Recorded'
  BY <1>5 DEF PreparePending, Uncertain, SetRows, Recorded
<1>6. ASSUME NEW w \in Workers, PrepareLocal(w)
      PROVE  Recorded'
  <2>1. UNCHANGED <<reference, invalidation>>
    BY <1>6 DEF PrepareLocal
  <2> QED  BY <1>6, <2>1, LocalCases DEF LocalExpiry, Recorded
<1>7. ASSUME NEW w \in Workers, Settle(w)
      PROVE  Recorded'
  <2>1. call[w].intent \in Intents
    BY <1>7 DEF Settle, Placed, PlacedAt
  <2> QED  BY <1>7, <2>1 DEF Settle, SetRows, Unsettled, Recorded, Intents
<1>8. ASSUME NEW w \in Workers, SettleLater(w)
      PROVE  Recorded'
  <2>1. call[w].outcome \in {"retryable", "ambiguous", "blocked"}
    BY <1>8 DEF SettleLater, Placed, PlacedAt
  <2> QED  BY <1>8, <2>1 DEF SettleLater, Unsettled, Recorded
<1>9. CASE UNCHANGED rows
  BY <1>9 DEF rows, Recorded
<1> QED  BY <1>1, <1>2, <1>3, <1>4, <1>5, <1>6, <1>7, <1>8, <1>9, RowSteps

\* What ended stays as it is, row by row.
LEMMA EndedStays ==
  ASSUME TypeOK, Shaped, Recorded, Placed, [Next]_vars, invitation \in Terminal
  PROVE  UNCHANGED rows
<1> USE DEF Terminal
<1>1. dispatch \notin {"reserved", "confirmed", "revocation_pending"}
  BY DEF Shaped, Shapes
<1>2. invalidation \notin Unsettled
  BY <1>1 DEF Recorded, Unsettled
<1>3. ASSUME NEW w \in Workers, PreparePending(w) \/ PrepareLocal(w)
      PROVE  FALSE
  BY <1>3 DEF PreparePending, PrepareLocal, AlreadyPrepared
<1>4. ASSUME NEW w \in Workers, Fail(w)
      PROVE  FALSE
  BY <1>4, FailCases
<1>5. ASSUME NEW w \in Workers,
             Reserve(w) \/ Begin(w) \/ Confirm(w) \/ Settle(w) \/ SettleLater(w)
      PROVE  FALSE
  BY <1>1, <1>2, <1>5 DEF Reserve, Reservable, Begin, Confirm, Settle, SettleLater
<1> QED  BY <1>3, <1>4, <1>5, RowSteps

-----------------------------------------------------------------------------
(***************************************************************************)
(* Workers and the provider                                                *)
(***************************************************************************)

\* A worker is where it was, or took the step.
LEMMA WorkerSteps ==
  ASSUME TypeOK, [Next]_vars, NEW v \in Workers
  PROVE  \/ pc'[v] = pc[v] /\ call'[v] = call[v]
         \/ Redemption(v) \/ Cleanup(v) \/ Leave(v)
<1>1. ASSUME NEW w \in Workers, w # v, Redemption(w) \/ Cleanup(w) \/ Leave(w)
      PROVE  pc'[v] = pc[v] /\ call'[v] = call[v]
  BY <1>1 DEF Redemption, Cleanup, Redeem, Reserve, Begin, Create, Provide, AnswerIssued,
              AnswerFailed, Confirm, ConfirmFails, Contain, Fail, HandOff, HandoffLost, CleanUp,
              PrepareNothing, PreparePending, PrepareLocal, InvalidateDone, InvalidateFails,
              Settle, SettleLater, Leave, Target, Return, GoTo, TypeOK
<1>2. CASE Tick \/ UNCHANGED vars
  BY <1>2 DEF Tick, vars
<1> QED  BY <1>1, <1>2 DEF Next

\* The reference of a call under way at the provider is the recorded one.
LEMMA CallReference ==
  ASSUME Placed, NEW w \in Workers, pc[w] = "invalidate"
  PROVE  call[w].reference = reference /\ reference # NoWorker /\ Made(call[w].reference)
BY DEF Placed, PlacedAt

\* A request is sent once, answered once, and a credential revoked for good.
LEMMA ProviderSteps ==
  ASSUME TypeOK, Placed, [Next]_vars, NEW v \in Workers
  PROVE  \/ provider'[v] = provider[v]
         \/ Create(v) /\ provider'[v] = "requested"
         \/ Provide(v) /\ provider'[v] \in {"live", "refused"}
         \/ Made(v) /\ provider'[v] = "revoked" /\ UNCHANGED clock
<1>1. ASSUME NEW w \in Workers, Create(w) \/ Provide(w)
      PROVE  \/ provider'[v] = provider[v]
             \/ Create(v) /\ provider'[v] = "requested"
             \/ Provide(v) /\ provider'[v] \in {"live", "refused"}
  BY <1>1 DEF Create, Provide, TypeOK
<1>2. ASSUME NEW w \in Workers, Contain(w)
      PROVE  provider'[v] = provider[v] \/ (Made(v) /\ provider'[v] = "revoked" /\ UNCHANGED clock)
  BY <1>2 DEF Contain, Placed, PlacedAt, TypeOK
<1>3. ASSUME NEW w \in Workers, InvalidateDone(w)
      PROVE  provider'[v] = provider[v] \/ (Made(v) /\ provider'[v] = "revoked" /\ UNCHANGED clock)
  <2>1. Made(call[w].reference)
    BY <1>3, CallReference DEF InvalidateDone
  <2> QED  BY <1>3, <2>1 DEF InvalidateDone, AtProvider, TypeOK
<1>4. ASSUME NEW w \in Workers, NEW o, InvalidateFails(w, o)
      PROVE  provider'[v] = provider[v] \/ (Made(v) /\ provider'[v] = "revoked" /\ UNCHANGED clock)
  <2>1. Made(call[w].reference)
    BY <1>4, CallReference DEF InvalidateFails
  <2> QED  BY <1>4, <2>1 DEF InvalidateFails, TypeOK
<1>5. ASSUME NEW w \in Workers,
             \/ Redeem(w) \/ Reserve(w) \/ Begin(w) \/ AnswerIssued(w) \/ Confirm(w)
             \/ \E o \in {"failed_no_apply", "ambiguous"} : AnswerFailed(w, o)
             \/ ConfirmFails(w) \/ Fail(w) \/ HandOff(w) \/ HandoffLost(w)
             \/ \E i \in Intents : CleanUp(w, i)
             \/ PrepareNothing(w) \/ PreparePending(w) \/ PrepareLocal(w)
             \/ Settle(w) \/ SettleLater(w) \/ Leave(w)
      PROVE  provider' = provider
  BY <1>5 DEF Redeem, Reserve, Begin, AnswerIssued, Confirm, AnswerFailed, ConfirmFails, Fail,
              HandOff, HandoffLost, CleanUp, PrepareNothing, PreparePending, PrepareLocal,
              Settle, SettleLater, Leave
<1>6. CASE Tick \/ UNCHANGED vars
  BY <1>6 DEF Tick, vars
<1> QED  BY <1>1, <1>2, <1>3, <1>4, <1>5, <1>6 DEF Next, Redemption, Cleanup

\* The clock only goes on.
LEMMA ClockSteps ==
  ASSUME TypeOK, [Next]_vars
  PROVE  clock \in Nat /\ clock' \in Nat /\ clock <= clock'
<1>1. clock \in Nat
  BY DeadlineAssumption DEF TypeOK, Times
<1>2. CASE Tick
  BY <1>1, <1>2 DEF Tick
<1>3. ASSUME NEW w \in Workers, Redemption(w) \/ Cleanup(w) \/ Leave(w)
      PROVE  clock' = clock
  BY <1>3 DEF Redemption, Cleanup, Redeem, Reserve, Begin, Create, Provide, AnswerIssued,
              AnswerFailed, Confirm, ConfirmFails, Contain, Fail, HandOff, HandoffLost, CleanUp,
              PrepareNothing, PreparePending, PrepareLocal, InvalidateDone, InvalidateFails,
              Settle, SettleLater, Leave
<1>4. CASE UNCHANGED vars
  BY <1>1, <1>4 DEF vars
<1> QED  BY <1>1, <1>2, <1>3, <1>4 DEF Next

\* A credential that was made stays made, and once it cannot be used it never
\* can be again.
LEMMA UsableFalls ==
  ASSUME TypeOK, Placed, [Next]_vars, NEW v \in Workers, Made(v)
  PROVE  Made(v)' /\ (~Usable(v) => ~Usable(v)')
<1>1. provider'[v] = provider[v] \/ provider'[v] = "revoked"
  <2>1. ~Provide(v)
    BY DEF Provide, Made
  <2>2. ~Create(v)
    BY DEF Create, Made, Placed, PlacedAt
  <2> QED  BY <2>1, <2>2, ProviderSteps
<1> QED  BY <1>1, ClockSteps, DeadlineAssumption DEF Made, Usable

\* The reference is recorded once.
LEMMA ReferenceSteps ==
  ASSUME Recorded, [Next]_vars
  PROVE  \/ reference' = reference
         \/ reference = NoWorker /\ \E w \in Workers : Confirm(w)
<1>1. ASSUME NEW w \in Workers, Confirm(w)
      PROVE  reference = NoWorker
  BY <1>1 DEF Confirm, Recorded
<1> QED  BY <1>1, RowSteps DEF Reserve, Begin, Fail, PreparePending, PrepareLocal, Settle,
                               SettleLater, rows

-----------------------------------------------------------------------------
(***************************************************************************)
(* One claim                                                               *)
(***************************************************************************)

\* Nobody claims but by the reservation.
LEMMA ClaimsArise ==
  ASSUME TypeOK, Placed, [Next]_vars, NEW v \in Workers, Claims(v)'
  PROVE  Claims(v) \/ Reserve(v)
<1>1. CASE provider'[v] # "unsent"
  BY <1>1, ProviderSteps DEF Claims, Redeeming, Create, Provide, Made
<1>2. CASE pc'[v] \in Redeeming
  <2>1. CASE pc'[v] = pc[v]
    BY <1>2, <2>1 DEF Claims
  <2>2. CASE Redemption(v)
    BY <1>2, <2>2 DEF Redemption, Redeem, Reserve, Begin, Create, Provide, AnswerIssued,
              AnswerFailed, Confirm, ConfirmFails, Contain, Fail, HandOff, HandoffLost,
              Return, GoTo, TypeOK, Claims, Redeeming
  <2>3. CASE Cleanup(v) \/ Leave(v)
    BY <1>2, <2>3 DEF Cleanup, CleanUp, PrepareNothing, PreparePending, PrepareLocal,
              InvalidateDone, InvalidateFails, Settle, SettleLater, Leave, Target, Return,
              TypeOK, Redeeming
  <2> QED  BY <2>1, <2>2, <2>3, WorkerSteps
<1> QED  BY <1>1, <1>2 DEF Claims

\* The reservation takes an invitation nobody has claimed.
LEMMA OneClaimStep ==
  ASSUME TypeOK, Shaped, Recorded, Placed, OneClaim, [Next]_vars
  PROVE  OneClaim'
<1>1. CASE \E w \in Workers : Reserve(w)
  <2>1. PICK w \in Workers : Reserve(w)
    BY <1>1
  <2>2. dispatch = "none" /\ dispatch' = "reserved"
    BY <2>1 DEF Reserve, Reservable, Shaped, Shapes
  <2>3. \A v \in Workers : ~Claims(v)
    BY <2>2 DEF OneClaim
  <2>4. \A v \in Workers : v # w => ~Claims(v)'
    BY <2>1, <2>3 DEF Reserve, GoTo, Claims, TypeOK
  <2> QED  BY <2>2, <2>4 DEF OneClaim
<1>2. CASE ~ \E w \in Workers : Reserve(w)
  <2>1. \A v \in Workers : Claims(v)' => Claims(v)
    BY <1>2, ClaimsArise
  <2>2. dispatch' = "none" => dispatch = "none"
    <3>1. ASSUME NEW w \in Workers, PrepareLocal(w), dispatch' = "none"
          PROVE  dispatch = "none"
      BY <3>1, LocalCases
    <3>2. ASSUME NEW w \in Workers, Settle(w)
          PROVE  dispatch' # "none"
      BY <3>2 DEF Settle, SetRows, Placed, PlacedAt, Intents
    <3>3. ASSUME NEW w \in Workers, Fail(w)
          PROVE  dispatch' # "none"
      BY <3>3, FailCases
    <3> QED  BY <1>2, <3>1, <3>2, <3>3, RowSteps DEF Begin, Confirm, PreparePending, SettleLater,
                                                     SetRows, rows
  <2> QED  BY <2>1, <2>2 DEF OneClaim
<1> QED  BY <1>1, <1>2

-----------------------------------------------------------------------------
(***************************************************************************)
(* Where workers are                                                       *)
(***************************************************************************)

\* A worker that does not move stays placed.
LEMMA StillPlaced ==
  ASSUME TypeOK, Recorded, Placed, [Next]_vars, NEW v \in Workers,
         pc'[v] = pc[v], call'[v] = call[v], v \in handed' => v \in handed
  PROVE  PlacedAt(v)'
<1>1. PlacedAt(v)
  BY DEF Placed
<1>2. ~Create(v)
  BY DEF Create, GoTo, TypeOK
<1>3. pc[v] \in {"reserve", "begin", "create"} => provider'[v] = "unsent"
  BY <1>1, <1>2, ProviderSteps DEF PlacedAt, Provide, Made
<1>4. Made(v) => Made(v)'
  BY UsableFalls
<1>5. provider[v] # "unsent" => provider'[v] # "unsent"
  BY <1>2, ProviderSteps
<1>6. provider[v] = "refused" => provider'[v] = "refused"
  BY <1>2, ProviderSteps DEF Provide, Made
<1>7. reference # NoWorker =>
        reference' = reference /\ (~Usable(reference) => ~Usable(reference)')
  BY ReferenceSteps, UsableFalls DEF Placed, TypeOK
<1>8. call[v].now \in Nat
  BY DeadlineAssumption DEF TypeOK, Calls, Times
<1> USE DEF PlacedAt
<1>9. call'[v].now <= clock'
  BY <1>1, <1>8, ClockSteps
<1>10. pc'[v] \in {"reserve", "begin", "create"} => provider'[v] = "unsent"
  BY <1>3
<1>11. pc'[v] \in {"confirm", "contain", "handoff"} => Made(v)'
  BY <1>1, <1>4
<1>12. pc'[v] \in {"handoff", "invalidate", "settle"} => reference' # NoWorker
  BY <1>1, <1>7
<1>13. pc'[v] = "settle" /\ call'[v].outcome = "confirmed" => ~Usable(reference)'
  BY <1>1, <1>7
<1>14. pc'[v] = "invalidate" => call'[v].reference = reference'
  BY <1>1, <1>7
<1> QED  BY <1>1, <1>5, <1>6, <1>9, <1>10, <1>11, <1>12, <1>13, <1>14

\* A worker that moves is placed where it comes.
LEMMA MoverPlaced ==
  ASSUME TypeOK, Recorded, Placed, OneClaim, [Next]_vars, NEW v \in Workers,
         Redemption(v) \/ Cleanup(v) \/ Leave(v)
  PROVE  PlacedAt(v)' \/ (pc'[v] = pc[v] /\ call'[v] = call[v])
<1> USE DEF PlacedAt
<1>a. PlacedAt(v) /\ call[v] \in Calls
  BY DEF Placed, TypeOK
<1>b. clock \in Nat /\ clock' \in Nat /\ clock <= clock'
  BY ClockSteps
<1>c. call[v].now \in Nat /\ call[v].now <= clock'
  BY <1>a, <1>b, DeadlineAssumption DEF Calls, Times
<1>d. v \in Workers /\ reference # NoWorker => reference \in Workers
  BY DEF TypeOK
<1>e. Idle.now = 0 /\ 0 <= clock'
  BY <1>b DEF Idle
<1>1. CASE Redeem(v)
  <2>1. call'[v] = [Idle EXCEPT !.now = clock, !.revision = revision]
    BY <1>1 DEF Redeem, TypeOK
  <2>2. call'[v].now = clock
    BY <2>1 DEF Idle
  <2>3. pc'[v] = "reserve" /\ UNCHANGED <<provider, handed, clock>> /\ provider[v] = "unsent"
    BY <1>1 DEF Redeem, TypeOK
  <2> QED  BY <1>a, <1>b, <2>2, <2>3 DEF Redeeming
<1>2. CASE Reserve(v) \/ Begin(v)
  <2>1. /\ pc'[v] \in {"begin", "create"} /\ call'[v] = call[v]
        /\ pc[v] \in {"reserve", "begin"}
        /\ UNCHANGED <<provider, handed, clock>>
    BY <1>2 DEF Reserve, Begin, GoTo, TypeOK
  <2> QED  BY <1>a, <2>1 DEF Redeeming
<1>3. CASE Create(v)
  <2>1. /\ pc'[v] = "answer" /\ call'[v] = call[v] /\ pc[v] = "create"
        /\ provider'[v] = "requested"
        /\ UNCHANGED <<handed, clock>>
    BY <1>3 DEF Create, GoTo, TypeOK
  <2> QED  BY <1>a, <2>1 DEF Redeeming
<1>4. CASE Provide(v)
  BY <1>4 DEF Provide
<1>5. CASE AnswerIssued(v) \/ ConfirmFails(v)
  <2>1. /\ pc'[v] \in {"confirm", "contain"} /\ call'[v] = call[v]
        /\ pc[v] \in {"answer", "confirm"}
        /\ UNCHANGED <<provider, handed, clock>>
        /\ pc[v] = "answer" => provider[v] = "live"
    BY <1>5 DEF AnswerIssued, ConfirmFails, GoTo, TypeOK
  <2>2. Made(v)'
    BY <1>a, <2>1 DEF Made
  <2> QED  BY <1>a, <2>1, <2>2 DEF Redeeming
<1>6. ASSUME NEW o \in {"failed_no_apply", "ambiguous"}, AnswerFailed(v, o)
      PROVE  PlacedAt(v)'
  <2>1. /\ pc'[v] = "fail" /\ pc[v] = "answer"
        /\ UNCHANGED <<provider, handed, clock>>
        /\ o = "failed_no_apply" => provider[v] = "refused"
    BY <1>6 DEF AnswerFailed, Definite, TypeOK
  <2>2. call'[v] = [call[v] EXCEPT !.outcome = o]
    BY <1>6 DEF AnswerFailed, TypeOK
  <2>3. call'[v].now = call[v].now /\ call'[v].outcome = o
    BY <1>a, <2>2 DEF Calls
  <2> QED  BY <1>a, <1>6, <2>1, <2>3 DEF Redeeming
<1>7. CASE Confirm(v)
  <2>1. /\ pc'[v] = "handoff" /\ pc[v] = "confirm" /\ call'[v] = call[v]
        /\ UNCHANGED <<provider, handed, clock>>
        /\ reference' = v
    BY <1>7 DEF Confirm, GoTo, TypeOK
  <2>2. Made(v)'
    BY <1>a, <2>1 DEF Made
  <2> QED  BY <1>a, <2>1, <2>2, SentinelAssumption DEF Redeeming
<1>8. CASE Contain(v)
  <2>1. /\ pc'[v] = "fail" /\ pc[v] = "contain"
        /\ provider'[v] \in {provider[v], "revoked"}
        /\ UNCHANGED <<handed, clock>>
    BY <1>8 DEF Contain, TypeOK
  <2>2. call'[v] = [call[v] EXCEPT !.outcome = "ambiguous"]
    BY <1>8 DEF Contain, TypeOK
  <2>3. call'[v].now = call[v].now /\ call'[v].outcome = "ambiguous"
    BY <1>a, <2>2 DEF Calls
  <2> QED  BY <1>a, <2>1, <2>3 DEF Redeeming
<1>9. CASE Fail(v) \/ Leave(v) \/ Settle(v) \/ SettleLater(v)
  <2>1. /\ pc'[v] = "idle" /\ call'[v] = Idle
        /\ UNCHANGED <<provider, handed, clock>>
    BY <1>9 DEF Fail, Leave, Settle, SettleLater, Return, TypeOK
  <2> QED  BY <1>a, <1>e, <2>1 DEF Redeeming
<1>10. CASE HandOff(v)
  <2>1. /\ pc'[v] = "idle" /\ call'[v] = Idle /\ pc[v] = "handoff"
        /\ UNCHANGED <<provider, clock>>
    BY <1>10 DEF HandOff, Return, TypeOK
  <2>2. provider[v] # "unsent"
    BY <1>a, <2>1 DEF Made
  <2> QED  BY <1>a, <1>e, <2>1, <2>2 DEF Redeeming
<1>11. ASSUME NEW i \in Intents, CleanUp(v, i) \/ (HandoffLost(v) /\ i = "revoked")
       PROVE  PlacedAt(v)'
  <2>1. call'[v] = [Idle EXCEPT !.now = clock, !.intent = i]
    BY <1>11 DEF CleanUp, HandoffLost, TypeOK
  <2>2. call'[v].now = clock /\ call'[v].intent = i
    BY <2>1 DEF Idle
  <2>3. pc'[v] = "prepare" /\ UNCHANGED <<provider, handed, clock>>
    BY <1>11 DEF CleanUp, HandoffLost, TypeOK
  <2> QED  BY <1>a, <1>b, <2>2, <2>3 DEF Redeeming
<1>12. CASE PrepareNothing(v) \/ PreparePending(v) \/ PrepareLocal(v)
  <2>1. /\ pc[v] = "prepare"
        /\ UNCHANGED <<reference, provider, handed, clock>>
        /\ Target(v)
    BY <1>12 DEF PrepareNothing, PreparePending, PrepareLocal, Preparing, rows
  <2>2. CASE reference = NoWorker
    <3>1. pc'[v] = "idle" /\ call'[v] = Idle
      BY <2>1, <2>2 DEF Target, Return, TypeOK
    <3> QED  BY <1>a, <1>e, <2>1, <3>1 DEF Redeeming
  <2>3. CASE reference # NoWorker
    <3>1. pc'[v] = "invalidate" /\ call'[v] = [call[v] EXCEPT !.reference = reference]
      BY <2>1, <2>3 DEF Target, TypeOK
    <3>2. /\ call'[v].reference = reference
          /\ call'[v].now = call[v].now
          /\ call'[v].intent = call[v].intent
      BY <1>a, <3>1 DEF Calls
    <3> QED  BY <1>a, <2>1, <2>3, <3>1, <3>2 DEF Redeeming
  <2> QED  BY <2>2, <2>3
<1>13. ASSUME NEW o \in {"confirmed", "retryable", "ambiguous", "blocked"},
              \/ InvalidateDone(v) /\ o = "confirmed"
              \/ InvalidateFails(v, o) /\ o # "confirmed"
       PROVE  PlacedAt(v)'
  <2>1. /\ pc[v] = "invalidate" /\ pc'[v] = "settle"
        /\ UNCHANGED <<reference, handed, clock>>
    BY <1>13 DEF InvalidateDone, InvalidateFails, rows, TypeOK
  <2>2. call'[v] = [call[v] EXCEPT !.outcome = o]
    BY <1>13 DEF InvalidateDone, InvalidateFails, TypeOK
  <2>3. /\ call'[v].outcome = o
        /\ call'[v].now = call[v].now
        /\ call'[v].intent = call[v].intent
    BY <1>a, <2>2 DEF Calls
  <2>4. provider[v] # "unsent" => provider'[v] # "unsent"
    BY ProviderSteps
  <2>5. call[v].reference = reference /\ reference # NoWorker /\ reference \in Workers
    BY <1>a, <1>d, <2>1
  <2>6. o = "confirmed" => ~Usable(reference)'
    BY <1>13, <2>1, <2>5 DEF InvalidateDone, Usable, AtProvider, TypeOK
  <2> QED  BY <1>13, <1>a, <2>1, <2>3, <2>4, <2>5, <2>6 DEF Redeeming
<1> QED  BY <1>1, <1>2, <1>3, <1>4, <1>5, <1>6, <1>7, <1>8, <1>9, <1>10, <1>11, <1>12, <1>13
         DEF Redemption, Cleanup, Intents

\* Handing over moves the worker whose secret it is.
LEMMA HandedSteps ==
  ASSUME [Next]_vars
  PROVE  \/ handed' = handed
         \/ \E w \in Workers : HandOff(w)
BY DEF Next, Redemption, Cleanup, Tick, Redeem, Reserve, Begin, Create, Provide, AnswerIssued,
       AnswerFailed, Confirm, ConfirmFails, Contain, Fail, HandoffLost, CleanUp, PrepareNothing,
       PreparePending, PrepareLocal, InvalidateDone, InvalidateFails, Settle, SettleLater, Leave,
       vars

\* Every step keeps the workers placed.
LEMMA PlacedStep ==
  ASSUME TypeOK, Recorded, Placed, OneClaim, [Next]_vars
  PROVE  Placed'
<1>1. ASSUME NEW v \in Workers, pc'[v] = pc[v], call'[v] = call[v]
      PROVE  PlacedAt(v)'
  <2>1. v \in handed' => v \in handed
    BY <1>1, HandedSteps DEF HandOff, Return, TypeOK
  <2> QED  BY <1>1, <2>1, StillPlaced
<1>2. ASSUME NEW v \in Workers
      PROVE  PlacedAt(v)'
  BY <1>1, WorkerSteps, MoverPlaced
<1>3. ASSUME reference' # NoWorker
      PROVE  Made(reference)'
  <2>1. CASE reference' = reference
    BY <1>3, <2>1, UsableFalls DEF Placed, TypeOK, Made
  <2>2. ASSUME NEW w \in Workers, Confirm(w)
        PROVE  Made(reference)'
    BY <2>2 DEF Confirm, Placed, PlacedAt, Made
  <2> QED  BY <2>1, <2>2, ReferenceSteps
<1> QED  BY <1>2, <1>3 DEF Placed

-----------------------------------------------------------------------------
(***************************************************************************)
(* What is settled                                                         *)
(***************************************************************************)

\* A failure that did not apply is recorded by the one claimant, whose request
\* was refused, and nothing is asked for after it.
LEMMA NoApplyStep ==
  ASSUME IInv, [Next]_vars, dispatch' = "failed_no_apply", NEW v \in Workers
  PROVE  pc'[v] \notin Redeeming /\ provider'[v] \in {"unsent", "refused"}
<1> USE DEF IInv
<1>1. ~Reserve(v)
  BY DEF Reserve
<1>2. CASE dispatch = "failed_no_apply"
  <2>1. pc[v] \notin Redeeming /\ provider[v] \in {"unsent", "refused"}
    BY <1>2 DEF Settled
  <2>2. provider'[v] = provider[v]
    BY <2>1, ProviderSteps DEF Create, Provide, Made, Redeeming
  <2>3. pc'[v] \notin Redeeming
    <3>1. CASE provider[v] = "unsent"
      BY <1>1, <2>1, <3>1, ClaimsArise DEF Claims
    <3>2. CASE pc'[v] = pc[v]
      BY <2>1, <3>2
    <3>3. CASE Redemption(v)
      BY <1>1, <2>1, <3>3 DEF Redemption, Redeem, Begin, Create, Provide, AnswerIssued,
           AnswerFailed, Confirm, ConfirmFails, Contain, Fail, HandOff, HandoffLost, Return,
           GoTo, TypeOK, Redeeming
    <3>4. CASE Cleanup(v) \/ Leave(v)
      BY <3>4 DEF Cleanup, CleanUp, PrepareNothing, PreparePending, PrepareLocal,
           InvalidateDone, InvalidateFails, Settle, SettleLater, Leave, Target, Return,
           TypeOK, Redeeming
    <3> QED  BY <3>2, <3>3, <3>4, WorkerSteps
  <2> QED  BY <2>1, <2>2, <2>3
<1>3. CASE dispatch # "failed_no_apply"
  <2>1. PICK w \in Workers : Fail(w)
    <3>1. ASSUME NEW w \in Workers, PrepareLocal(w)
          PROVE  FALSE
      BY <1>3, <3>1, LocalCases
    <3>2. ASSUME NEW w \in Workers, Settle(w)
          PROVE  FALSE
      BY <3>2 DEF Settle, SetRows, Placed, PlacedAt, Intents
    <3> QED  BY <1>3, <3>1, <3>2, RowSteps DEF Reserve, Begin, Confirm, PreparePending,
                                               SettleLater, SetRows, rows
  <2>2. provider[w] = "refused" /\ pc[w] = "fail"
    BY <2>1, FailCases DEF Fail, Placed, PlacedAt
  <2>3. pc' = [pc EXCEPT ![w] = "idle"] /\ provider' = provider
    BY <2>1 DEF Fail, Return
  <2>4. v # w => ~Claims(v)
    BY <2>2 DEF OneClaim, Claims, Redeeming
  <2> QED  BY <2>2, <2>3, <2>4 DEF Claims, Redeeming, TypeOK
<1> QED  BY <1>2, <1>3

\* An invalidation is confirmed for a credential that cannot be used.
LEMMA InvalidatedStep ==
  ASSUME IInv, [Next]_vars, invalidation' = "confirmed"
  PROVE  ~Usable(reference)'
<1> USE DEF IInv
<1>1. CASE invalidation = "confirmed"
  <2>1. reference # NoWorker /\ Made(reference) /\ ~Usable(reference)
    BY <1>1 DEF Recorded, Placed, Settled
  <2>2. reference' = reference /\ reference \in Workers
    BY <2>1, ReferenceSteps DEF TypeOK
  <2> QED  BY <2>1, <2>2, UsableFalls
<1>2. CASE invalidation # "confirmed"
  <2>1. PICK w \in Workers : Settle(w)
    <3>1. ASSUME NEW w \in Workers, SettleLater(w)
          PROVE  FALSE
      BY <1>2, <3>1 DEF SettleLater, Placed, PlacedAt
    <3> QED  BY <1>2, <3>1, RowSteps DEF Reserve, Begin, Confirm, Fail, PreparePending,
                                         PrepareLocal, rows
  <2>2. ~Usable(reference) /\ UNCHANGED <<reference, provider, clock>>
    BY <2>1 DEF Settle, Placed, PlacedAt
  <2> QED  BY <2>2 DEF Usable
<1> QED  BY <1>1, <1>2

\* An ended invitation has no credential that can be used, and a request that
\* is still under way comes too late.
LEMMA EndedStep ==
  ASSUME IInv, [Next]_vars, invitation' \in Terminal, NEW v \in Workers
  PROVE  /\ ~Usable(v)'
         /\ provider'[v] = "requested" \/ pc'[v] \in {"begin", "create"} =>
              invitation' = "expired" /\ clock' >= Deadline
<1> USE DEF IInv
<1>1. CASE invitation \in Terminal
  <2>1. UNCHANGED rows
    BY <1>1, EndedStays
  <2>2. /\ ~Usable(v)
        /\ provider[v] = "requested" \/ pc[v] \in {"begin", "create"} =>
              invitation = "expired" /\ clock >= Deadline
    BY <1>1 DEF Settled
  <2>3. ~Reserve(v)
    BY <1>1 DEF Reserve, Reservable, Terminal
  <2>4. pc'[v] \in {"begin", "create"} => pc[v] \in {"begin", "create"}
    <3>1. CASE Redemption(v)
      BY <2>3, <3>1 DEF Redemption, Redeem, Begin, Create, Provide, AnswerIssued,
           AnswerFailed, Confirm, ConfirmFails, Contain, Fail, HandOff, HandoffLost, Return,
           GoTo, TypeOK
    <3>2. CASE Cleanup(v) \/ Leave(v)
      BY <3>2 DEF Cleanup, CleanUp, PrepareNothing, PreparePending, PrepareLocal,
           InvalidateDone, InvalidateFails, Settle, SettleLater, Leave, Target, Return, TypeOK
    <3> QED  BY <3>1, <3>2, WorkerSteps
  <2>5. provider'[v] = "requested" => provider[v] = "requested" \/ pc[v] = "create"
    BY ProviderSteps DEF Create
  <2>6. Usable(v)' => provider[v] = "requested"
    BY <2>2, ProviderSteps, ClockSteps, DeadlineAssumption DEF Usable, Provide
  <2>7. invitation' = invitation
    BY <2>1 DEF rows
  <2>8. clock >= Deadline => clock' >= Deadline /\ ~Usable(v)'
    BY ClockSteps, DeadlineAssumption DEF Usable
  <2> QED  BY <2>2, <2>4, <2>5, <2>6, <2>7, <2>8
<1>2. CASE invitation \notin Terminal
  <2>1. ASSUME NEW w \in Workers, PrepareLocal(w), dispatch = "none"
        PROVE  /\ ~Usable(v)'
               /\ provider'[v] # "requested" /\ pc'[v] \notin {"begin", "create"}
    <3>1. provider'[v] = "unsent"
      BY <2>1 DEF PrepareLocal, OneClaim, Claims
    <3>2. pc'[v] \notin {"begin", "create"}
      <4>1. ~Claims(v)
        BY <2>1 DEF OneClaim
      <4> QED  BY <2>1, <4>1 DEF PrepareLocal, Target, Return, Claims, Redeeming, TypeOK
    <3> QED  BY <3>1, <3>2 DEF Usable
  <2>2. ASSUME NEW w \in Workers, PrepareLocal(w), LocalExpiry(w)
        PROVE  ~Usable(v)' /\ invitation' = "expired" /\ clock' >= Deadline
    <3>1. clock' = clock /\ call[w].now <= clock /\ call[w].now \in Nat /\ clock \in Nat
      BY <2>2, DeadlineAssumption DEF PrepareLocal, Placed, PlacedAt, TypeOK, Calls, Times
    <3>2. clock' >= Deadline
      BY <2>2, <3>1, DeadlineAssumption DEF LocalExpiry, Due
    <3>3. invitation' = "expired"
      BY <2>2 DEF PrepareLocal, LocalExpiry
    <3> QED  BY <3>1, <3>2, <3>3, DeadlineAssumption DEF Usable
  <2>3. ASSUME NEW w \in Workers, Settle(w)
        PROVE  /\ ~Usable(v)'
               /\ provider'[v] # "requested" /\ pc'[v] \notin {"begin", "create"}
    <3>1. /\ UNCHANGED <<provider, clock>>
          /\ reference # NoWorker
          /\ ~Usable(reference)
          /\ pc' = [pc EXCEPT ![w] = "idle"]
      BY <2>3 DEF Settle, Return, Placed, PlacedAt
    <3>2. reference \in Workers /\ Made(reference)
      BY <3>1 DEF TypeOK, Placed
    <3>3. CASE v = reference
      BY <3>1, <3>2, <3>3 DEF Usable, Made, Placed, PlacedAt, TypeOK
    <3>4. CASE v # reference
      <4>1. ~Claims(v)
        BY <3>2, <3>4 DEF OneClaim, Claims, Made
      <4> QED  BY <3>1, <4>1 DEF Usable, Claims, Redeeming, TypeOK
    <3> QED  BY <3>3, <3>4
  <2>4. \E w \in Workers : PrepareLocal(w) \/ Settle(w)
    <3>1. ASSUME NEW w \in Workers, Fail(w)
          PROVE  FALSE
      BY <3>1 DEF Fail, Terminal
    <3> QED  BY <1>2, <3>1, RowSteps DEF Reserve, Begin, Confirm, PreparePending, Pending,
                                         SettleLater, SetRows, rows, Terminal
  <2> QED  BY <2>1, <2>2, <2>3, <2>4, LocalCases
<1> QED  BY <1>1, <1>2

\* Every step keeps what is settled.
LEMMA SettledStep ==
  ASSUME IInv, [Next]_vars
  PROVE  Settled'
BY NoApplyStep, InvalidatedStep, EndedStep DEF Settled

-----------------------------------------------------------------------------
(***************************************************************************)
(* The invariant and what follows from it                                  *)
(***************************************************************************)

\* An invitation is issued with everything in order.
LEMMA InitialInvariant == Init => IInv
<1> SUFFICES ASSUME Init
             PROVE  IInv
  OBVIOUS
<1>1. TypeOK
  BY IdleIsCall, DeadlineAssumption
  DEF Init, TypeOK, InvitationStates, SessionStates, DispatchStates, InvalidationStates,
      RequestStates, Steps, Times
<1>2. Shaped /\ Recorded /\ OneClaim
  BY DEF Init, Shaped, Shapes, Recorded, OneClaim, Claims, Redeeming, Terminal
<1>3. Placed
  BY DEF Init, Placed, PlacedAt, Redeeming, Idle
<1>4. Settled
  BY DEF Init, Settled, Terminal
<1> QED  BY <1>1, <1>2, <1>3, <1>4 DEF IInv

\* Every step keeps the invariant.
LEMMA InductiveInvariant == IInv /\ [Next]_vars => IInv'
BY TypeStep, ShapedStep, RecordedStep, OneClaimStep, PlacedStep, SettledStep DEF IInv

\* The invariant holds of every state the workers and the provider can reach,
\* in whatever order their steps come.
THEOREM Invariance == Spec => []IInv
BY InitialInvariant, InductiveInvariant, PTL DEF Spec

\* Every variable stays within its type, the recorded states within the lists
\* of the schema.
THEOREM TypeCorrect == Spec => []TypeOK
<1>1. IInv => TypeOK
  BY DEF IInv
<1> QED  BY <1>1, Invariance, PTL

\* One invitation sends one create request, whoever stops, retries or races.
THEOREM OneRequest == Spec => []OneDispatch
<1>1. IInv => OneDispatch
  BY DEF IInv, OneClaim, Claims, OneDispatch
<1> QED  BY <1>1, Invariance, PTL

\* What the rows say for certain of the provider is so.
THEOREM CertaintyHolds == Spec => []CertaintyIsEarned
<1>1. IInv => CertaintyIsEarned
  <2> SUFFICES ASSUME IInv
               PROVE  CertaintyIsEarned
    OBVIOUS
  <2>1. dispatch = "failed_no_apply" =>
          \A w \in Workers : provider[w] \in {"unsent", "refused"}
    BY DEF IInv, Settled
  <2>2. invalidation = "confirmed" => reference # NoWorker /\ ~Usable(reference)
    BY DEF IInv, Settled, Recorded
  <2>3. invitation = "revoked" => \A w \in Workers : provider[w] # "requested" /\ ~Usable(w)
    BY DEF IInv, Settled, Terminal
  <2> QED  BY <2>1, <2>2, <2>3 DEF CertaintyIsEarned
<1> QED  BY <1>1, Invariance, PTL

\* Invitation, session, dispatch, reference and invalidation, each written by
\* several transactions, agree.
THEOREM RowsStayInAgreement == Spec => []RowsAgree
<1>1. IInv => RowsAgree
  BY DEF IInv, Shaped, Shapes, Recorded, RowsAgree, Terminal
<1> QED  BY <1>1, Invariance, PTL

\* Nothing a slower worker still does rewrites a revoked or expired invitation.
THEOREM EndIsFinal == Spec => TerminalIsFinal
<1>1. IInv /\ [Next]_vars => [(invitation \in Terminal) => rows' = rows]_vars
  BY EndedStays DEF IInv
<1> QED  BY <1>1, Invariance, PTL DEF Spec, TerminalIsFinal

-----------------------------------------------------------------------------
(***************************************************************************)
(* The single-use grant                                                    *)
(***************************************************************************)

\* The credential of the invitation is the one its claimant asked for.
LEMMA CredentialIsClaimants ==
  ASSUME OneClaim, NEW v \in Workers, Claims(v)
  PROVE  Credential = IF Usable(v) THEN "usable" ELSE IF Made(v) THEN "gone" ELSE "never"
<1>1. \A w \in Workers : w # v => provider[w] = "unsent"
  BY DEF OneClaim, Claims
<1>2. \A w \in Workers : w # v => ~Usable(w) /\ ~Made(w)
  BY <1>1 DEF Usable, Made
<1> QED  BY <1>2 DEF Credential

\* The credential appears while the invitation is claimed, or lapses after it
\* was.
LEMMA CredentialSteps ==
  ASSUME IInv, [Next]_vars
  PROVE  \/ Credential' = Credential
         \/ Phase = "claimed" /\ Credential = "never" /\ Credential' = "usable"
         \/ Phase # "open" /\ Credential # "gone" /\ Credential' = "gone"
<1> USE DEF IInv
<1>1. CASE \A v \in Workers : provider'[v] = "unsent"
  <2>1. \A v \in Workers : provider[v] = "unsent"
    BY <1>1, ProviderSteps
  <2> QED  BY <1>1, <2>1 DEF Credential, Usable, Made
<1>2. ASSUME NEW v \in Workers, provider'[v] # "unsent"
      PROVE  \/ Credential' = Credential
             \/ Phase = "claimed" /\ Credential = "never" /\ Credential' = "usable"
             \/ Phase # "open" /\ Credential # "gone" /\ Credential' = "gone"
  <2>1. Claims(v)
    BY <1>2, ProviderSteps DEF Create, Claims, Redeeming, Provide, Made
  <2>2. Phase # "open"
    BY <2>1 DEF OneClaim, Shaped, Shapes, Phase, Terminal
  <2>3. Credential = IF Usable(v) THEN "usable" ELSE IF Made(v) THEN "gone" ELSE "never"
    BY <2>1, CredentialIsClaimants
  <2>4. Credential' = IF Usable(v)' THEN "usable" ELSE IF Made(v)' THEN "gone" ELSE "never"
    <3>1. OneClaim' /\ Claims(v)'
      BY <1>2, OneClaimStep DEF Claims
    <3>2. \A w \in Workers : w # v => provider'[w] = "unsent"
      BY <3>1 DEF OneClaim, Claims
    <3>3. \A w \in Workers : w # v => ~Usable(w)' /\ ~Made(w)'
      BY <3>2 DEF Usable, Made
    <3> QED  BY <3>3 DEF Credential
  <2>5. CASE provider'[v] = provider[v]
    BY <2>2, <2>3, <2>4, <2>5, ClockSteps, DeadlineAssumption DEF Usable, Made
  <2>6. CASE Create(v) /\ provider'[v] = "requested"
    <3>1. provider[v] = "unsent"
      BY <2>6 DEF Create, Placed, PlacedAt
    <3> QED  BY <2>3, <2>4, <2>6, <3>1 DEF Usable, Made
  <2>7. CASE Provide(v) /\ provider'[v] \in {"live", "refused"}
    <3>1. provider[v] = "requested" /\ clock' = clock
      BY <2>7 DEF Provide
    <3>2. Credential = "never"
      BY <2>3, <3>1 DEF Usable, Made
    <3>3. Usable(v)' => Phase = "claimed"
      <4>1. invitation \in Terminal => clock >= Deadline
        BY <3>1 DEF Settled
      <4>2. Usable(v)' => invitation \notin Terminal
        BY <3>1, <4>1, ClockSteps, DeadlineAssumption DEF Usable
      <4> QED  BY <2>2, <4>2 DEF Phase
    <3> QED  BY <2>2, <2>4, <3>2, <3>3
  <2>8. CASE Made(v) /\ provider'[v] = "revoked"
    BY <2>2, <2>3, <2>4, <2>8 DEF Usable, Made
  <2> QED  BY <2>5, <2>6, <2>7, <2>8, ProviderSteps
<1> QED  BY <1>1, <1>2

\* The reservation claims an open invitation.
LEMMA ReserveClaims ==
  ASSUME NEW w \in Workers, Reserve(w)
  PROVE  Grant!Claim
<1>1. Phase = "open" /\ Phase' = "claimed"
  BY DEF Reserve, Reservable, Phase, Terminal
<1>2. Credential' = Credential
  BY DEF Reserve, Credential, Usable, Made
<1> QED  BY <1>1, <1>2 DEF Reserve, Grant!Claim

\* The confirmation records a credential that was made, once.
LEMMA ConfirmGrants ==
  ASSUME IInv, NEW w \in Workers, Confirm(w)
  PROVE  Grant!Grant
<1>1. Phase = "claimed" /\ Phase' = "claimed"
  BY DEF Confirm, SetRows, Phase, Terminal
<1>2. Credential' = Credential
  BY DEF Confirm, Credential, Usable, Made
<1>3. Made(w)
  BY DEF Confirm, IInv, Placed, PlacedAt
<1>4. Credential # "never"
  BY <1>3 DEF Credential
<1>5. reference = NoWorker
  BY DEF Confirm, IInv, Recorded
<1>6. reference' # NoWorker /\ handed' = handed
  BY SentinelAssumption DEF Confirm
<1> QED  BY <1>1, <1>2, <1>4, <1>5, <1>6 DEF Grant!Grant

\* The secret that leaves is the recorded one, and leaves once.
LEMMA HandOffHands ==
  ASSUME IInv, NEW w \in Workers, HandOff(w)
  PROVE  Grant!Hand
<1>1. reference # NoWorker /\ w \notin handed /\ Claims(w)
  BY DEF HandOff, IInv, Placed, PlacedAt, Claims, Redeeming
<1>2. handed = {}
  <2> SUFFICES ASSUME NEW v \in handed
               PROVE  FALSE
    OBVIOUS
  <2>1. v \in Workers /\ Claims(v)
    BY DEF IInv, TypeOK, Placed, PlacedAt, Claims
  <2> QED  BY <1>1, <2>1 DEF IInv, OneClaim
<1>3. handed' # {}
  BY DEF HandOff
<1>4. UNCHANGED <<Phase, Credential, reference>>
  BY DEF HandOff, rows, Phase, Credential, Usable, Made
<1> QED  BY <1>1, <1>2, <1>3, <1>4 DEF Grant!Hand

\* The invitation is closed when no credential of it can be used.
LEMMA EndCloses ==
  ASSUME IInv, NEW w \in Workers, PrepareLocal(w) \/ Settle(w)
  PROVE  Grant!Close
<1>1. [Next]_vars
  BY DEF Next, Cleanup
<1>2. invitation' \in Terminal
  BY DEF PrepareLocal, Preparing, Settle, SetRows, IInv, Placed, PlacedAt, Intents, Terminal
<1>3. invitation \notin Terminal
  BY DEF PrepareLocal, AlreadyPrepared, Settle, IInv, Shaped, Shapes, Terminal
<1>4. UNCHANGED <<provider, clock, reference, handed>>
  BY DEF PrepareLocal, Settle
<1>5. \A v \in Workers : ~Usable(v)'
  BY <1>1, <1>2, EndedStep
<1>6. \A v \in Workers : ~Usable(v)
  BY <1>4, <1>5 DEF Usable
<1>7. Credential' = Credential /\ Credential # "usable"
  BY <1>4, <1>6 DEF Credential, Usable, Made
<1>8. Phase # "closed" /\ Phase' = "closed"
  BY <1>2, <1>3 DEF Phase, Terminal
<1> QED  BY <1>4, <1>7, <1>8 DEF Grant!Close

\* Every step is one of the grant's steps or leaves it alone.
LEMMA StepKeepsGrant ==
  ASSUME IInv, [Next]_vars
  PROVE  [Grant!Next]_(Grant!gvars)
<1>1. ASSUME NEW w \in Workers, Reserve(w)
      PROVE  Grant!Next
  BY <1>1, ReserveClaims DEF Grant!Next
<1>2. ASSUME NEW w \in Workers, Confirm(w)
      PROVE  Grant!Next
  BY <1>2, ConfirmGrants DEF Grant!Next
<1>3. ASSUME NEW w \in Workers, HandOff(w)
      PROVE  Grant!Next
  BY <1>3, HandOffHands DEF Grant!Next
<1>4. ASSUME NEW w \in Workers, PrepareLocal(w) \/ Settle(w)
      PROVE  Grant!Next
  BY <1>4, EndCloses DEF Grant!Next
<1>5. ASSUME Phase' = Phase, UNCHANGED <<reference, handed>>
      PROVE  [Grant!Next]_(Grant!gvars)
  <2>1. CASE Credential' = Credential
    BY <1>5, <2>1 DEF Grant!gvars
  <2>2. CASE Phase = "claimed" /\ Credential = "never" /\ Credential' = "usable"
    BY <1>5, <2>2 DEF Grant!Appear, Grant!Next
  <2>3. CASE Phase # "open" /\ Credential # "gone" /\ Credential' = "gone"
    BY <1>5, <2>3 DEF Grant!Lapse, Grant!Next
  <2> QED  BY <2>1, <2>2, <2>3, CredentialSteps
<1>6. CASE handed' = handed /\ UNCHANGED rows
  BY <1>5, <1>6 DEF rows, Phase
<1>7. ASSUME NEW w \in Workers, handed' = handed,
             Begin(w) \/ Fail(w) \/ PreparePending(w) \/ SettleLater(w)
      PROVE  [Grant!Next]_(Grant!gvars)
  <2>1. UNCHANGED reference
    BY <1>7 DEF Begin, Fail, PreparePending, SettleLater
  <2>2. CASE Begin(w) \/ SettleLater(w)
    BY <1>5, <1>7, <2>1, <2>2 DEF Begin, SetRows, SettleLater, Phase
  <2>3. CASE Fail(w)
    <3>1. invitation = "redeeming" /\ invitation' = "failed"
      BY <2>3, FailCases DEF Fail, IInv
    <3>2. Phase' = Phase
      BY <3>1 DEF Phase, Terminal
    <3> QED  BY <1>5, <1>7, <2>1, <3>2
  <2>4. CASE PreparePending(w)
    <3>1. invitation' \in {"revoking", "expiring"}
      BY <2>4 DEF PreparePending, SetRows, Pending
    <3>2. invitation \notin Terminal \cup {"issued"}
      BY <2>4 DEF PreparePending, AlreadyPrepared, Uncertain, IInv, Shaped, Shapes
    <3>3. Phase' = Phase
      BY <3>1, <3>2 DEF Phase, Terminal
    <3> QED  BY <1>5, <1>7, <2>1, <3>3
  <2> QED  BY <1>7, <2>2, <2>3, <2>4
<1> QED  BY <1>1, <1>2, <1>3, <1>4, <1>6, <1>7, RowSteps, HandedSteps

\* An invitation is issued as an open grant.
LEMMA InitKeepsGrant == Init => Grant!Init
<1> SUFFICES ASSUME Init
             PROVE  Grant!Init
  OBVIOUS
<1>1. Phase = "open" /\ Credential = "never"
  BY DEF Init, Phase, Credential, Usable, Made
<1> QED  BY <1>1 DEF Init, Grant!Init

\* However workers interleave, stop and leave requests behind, the invitation
\* is claimed once, makes one credential, hands its secret out once, and is
\* closed at a time when nothing made for it can be used.
THEOREM GrantRefinement == Spec => KeepsGrant
BY InitKeepsGrant, StepKeepsGrant, Invariance, PTL DEF Spec, KeepsGrant, Grant!Spec

=============================================================================
