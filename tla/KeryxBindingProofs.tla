-------------------------- MODULE KeryxBindingProofs --------------------------
(***************************************************************************)
(* Theorems about KeryxBinding for every number of services, peers,        *)
(* operations, generations and instants.                                   *)
(*                                                                         *)
(* The argument.  Two services interleave the two transactions of an       *)
(* issuance with anything the other does, so a service about to complete   *)
(* knows nothing about the store but that its reservation once existed.    *)
(* What makes this safe is that a pending binding which was ever           *)
(* challenged has exactly one live reservation or challenge (one by        *)
(* OneLiveCeremony, at least one by StillLive): a new reservation replaces *)
(* it, completion turns the one into the other, and only confirmation or   *)
(* retirement end it.  The live one is the newest by the clock of the      *)
(* calls (LiveIsNewest), so the one that is consumed is.  A consumed       *)
(* challenge means a settled binding (ConsumedIsSettled), which never      *)
(* becomes pending again, so it is the only one of its generation.         *)
(***************************************************************************)
EXTENDS KeryxBinding, TLAPS

Live(g) == LiveReservations(g) \cup PendingChallenges(g)

\* A challenge exists exactly for an issued reservation, and a reservation
\* only for a binding.
Recorded ==
  \A k \in Keys :
    /\ challenge[k].state # "none" <=> reservation[k].state = "issued"
    /\ reservation[k].state # "none" =>
         /\ reservation[k].generation \in Generations
         /\ state[reservation[k].generation] # "none"

\* What a service works on has the shape its step needs.
CallConsistent(w) ==
  /\ pc[w] \in {"generation", "reserve", "complete", "confirm"} => call[w].key \in Keys
  /\ pc[w] \in {"reserve", "confirm", "authorize", "retire"} => call[w].generation \in Generations
  /\ pc[w] = "confirm" => call[w].nonce \in delivered
  /\ pc[w] \in {"authorize", "retire"} => call[w].action \in Actions

Consistent == \A w \in Services : CallConsistent(w)

ConsumedIsSettled ==
  \A k \in Keys :
    challenge[k].state = "consumed" =>
      state[reservation[k].generation] \notin {"none", "pending"}

StillLive ==
  \A g \in Generations, k \in Keys :
    /\ state[g] = "pending"
    /\ reservation[k].state # "none"
    /\ reservation[k].generation = g
    => \E l \in Keys : l \in Live(g)

LiveIsNewest ==
  \A g \in Generations : \A c \in Live(g), k \in Keys :
    reservation[k].state = "issued" /\ reservation[k].generation = g
      => reservation[k].at <= reservation[c].at

\* RotationChain for all earlier generations at once.
Ordered ==
  \A g, h \in Generations : g < h /\ state[h] # "none" => state[g] = "rotated"

IInv ==
  /\ TypeOK
  /\ Consistent
  /\ Recorded
  /\ OneLiveCeremony
  /\ LiveChallengeIsOnPending
  /\ ConsumedIsSettled
  /\ StillLive
  /\ LiveIsNewest
  /\ NewestChallengeActivates
  /\ ActivatedByItsChallenge
  /\ RotationChain
  /\ Ordered
  /\ RetiredByExactAuthority
  /\ OneNoncePerOperation
  /\ ConfirmationsAreFaithful

-----------------------------------------------------------------------------
USE DEF record, ceremony, worker

\* The store as the properties see it, and the nonces handed out.
StoreUnchanged == UNCHANGED <<record, ceremony, authorization, delivered>>

StoreStep(w) ==
  \/ ReserveNew(w)
  \/ Complete(w)
  \/ \E c \in Keys : Confirm(w, c)
  \/ Authorize(w)
  \/ Rotate(w)
  \/ Revoke(w)

LEMMA OthersLeaveTheStore ==
  ASSUME [Next]_vars
  PROVE  StoreUnchanged \/ \E w \in Services : StoreStep(w)
<1>1. ASSUME NEW w \in Services, Call(w)
      PROVE  StoreUnchanged
  BY <1>1 DEF Call, IssueChallenge, ConfirmBinding, AuthorizeBinding, RetireBinding, Queue,
              StoreUnchanged
<1>2. ASSUME NEW w \in Services, Run(w)
      PROVE  StoreUnchanged \/ StoreStep(w)
  BY <1>2 DEF Run, StoreStep, ReadGeneration, ReserveResumed, Leave, StoreUnchanged
<1>3. CASE Tick \/ UNCHANGED vars \/ \E g \in Generations : Fence(g) \/ Release(g)
  BY <1>3 DEF Fence, Release, Tick, vars, StoreUnchanged
<1> QED BY <1>1, <1>2, <1>3 DEF Next

LEMMA BoundsAreNaturals ==
  /\ Generations \subseteq Nat
  /\ Times \subseteq Nat
  /\ 1 \in Generations
  /\ 0 \in Times
BY BoundsAssumption DEF Generations, Times

-----------------------------------------------------------------------------
(***************************************************************************)
(* Types                                                                   *)
(***************************************************************************)
LEMMA IdleIsCall == Idle \in Calls
BY BoundsAreNaturals DEF Idle, Calls

LEMMA InitialTypes == Init => TypeOK
<1> USE BoundsAreNaturals, IdleIsCall
<1>1. [state |-> "none", generation |-> 0, at |-> 0] \in Reservations
  BY DEF Reservations
<1>2. [state |-> "none", service |-> NoService, consumed |-> 0] \in Challenges
  BY DEF Challenges
<1>3. [generation |-> 0, nonce |-> NoNonce] \in Confirmations
  BY DEF Confirmations
<1>4. [state |-> "none", revision |-> 0, at |-> 0, consumed |-> 0] \in Authorizations
  BY DEF Authorizations
<1> QED BY <1>1, <1>2, <1>3, <1>4 DEF Init, TypeOK, BindingStates, Steps

LEMMA ReturnTypes ==
  ASSUME TypeOK, NEW w \in Services, Return(w)
  PROVE  pc' \in [Services -> Steps] /\ call' \in [Services -> Calls]
BY IdleIsCall DEF TypeOK, Return, Steps

LEMMA QueueTypes ==
  ASSUME TypeOK, NEW w \in Services, NEW step \in Steps, NEW command \in Calls,
         Queue(w, step, command)
  PROVE  TypeOK'
<1>1. [command EXCEPT !.at = clock] \in Calls
  BY DEF TypeOK, Calls
<1> QED BY <1>1 DEF TypeOK, Queue

LEMMA CommandTypes ==
  ASSUME TypeOK, NEW w \in Services, Call(w)
  PROVE  TypeOK'
<1> USE BoundsAreNaturals DEF Steps
<1>1. ASSUME NEW k \in Keys, IssueChallenge(w, k) PROVE TypeOK'
  <2>1. [Idle EXCEPT !.key = k] \in Calls
    BY IdleIsCall DEF Calls
  <2> QED BY <1>1, <2>1, QueueTypes DEF IssueChallenge
<1>2. ASSUME NEW k \in Keys, NEW g \in Generations, NEW n \in delivered, ConfirmBinding(w, k, g, n)
      PROVE  TypeOK'
  <2>1. [Idle EXCEPT !.key = k, !.generation = g, !.nonce = n] \in Calls
    BY IdleIsCall DEF Calls, TypeOK
  <2> QED BY <1>2, <2>1, QueueTypes DEF ConfirmBinding
<1>3. ASSUME NEW g \in Generations, NEW a \in Actions,
             AuthorizeBinding(w, g, a) \/ RetireBinding(w, g, a)
      PROVE  TypeOK'
  <2>1. [Idle EXCEPT !.generation = g, !.action = a] \in Calls
    BY IdleIsCall DEF Calls
  <2> QED BY <1>3, <2>1, QueueTypes DEF AuthorizeBinding, RetireBinding
<1> QED BY <1>1, <1>2, <1>3 DEF Call

\* Invalidating and abandoning keep the shape of the rows.
LEMMA ReplacementTypes ==
  ASSUME TypeOK, NEW g \in Generations
  PROVE  /\ Invalidated(g) \in [Keys -> Challenges]
         /\ Abandoned(g) \in [Keys -> Reservations]
<1>1. \A l \in Keys : [challenge[l] EXCEPT !.state = "invalidated"] \in Challenges
  BY DEF TypeOK, Challenges
<1>2. \A l \in Keys : [reservation[l] EXCEPT !.state = "abandoned"] \in Reservations
  BY DEF TypeOK, Reservations
<1> QED BY <1>1, <1>2 DEF TypeOK, Invalidated, Abandoned

LEMMA ReserveNewTypes ==
  ASSUME TypeOK, Consistent, NEW w \in Services, ReserveNew(w)
  PROVE  TypeOK'
<1> USE BoundsAreNaturals
<1> DEFINE k == call[w].key
           g == call[w].generation
           at == call[w].at
<1>1. k \in Keys /\ g \in Generations /\ at \in Times
  BY DEF ReserveNew, Consistent, CallConsistent, TypeOK, Calls
<1>2. [state |-> "reserved", generation |-> g, at |-> at] \in Reservations
  BY <1>1 DEF Reservations
<1>3. challenge' \in [Keys -> Challenges] /\ reservation' \in [Keys -> Reservations]
  BY <1>1, <1>2, ReplacementTypes DEF ReserveNew
<1>4. /\ state' \in [Generations -> BindingStates]
      /\ revision' \in [Generations -> Nat]
      /\ since' \in [Generations -> Times]
      /\ pc' \in [Services -> Steps]
  BY <1>1 DEF ReserveNew, TypeOK, BindingStates, Steps
<1> QED BY <1>3, <1>4 DEF ReserveNew, TypeOK

LEMMA CompleteTypes ==
  ASSUME TypeOK, Consistent, NEW w \in Services, Complete(w)
  PROVE  TypeOK'
<1> USE BoundsAreNaturals
<1> DEFINE k == call[w].key
<1>1. k \in Keys
  BY DEF Complete, Consistent, CallConsistent
<1>2. [state |-> "pending", service |-> w, consumed |-> 0] \in Challenges
  BY DEF Challenges
<1>3. [reservation[k] EXCEPT !.state = "issued"] \in Reservations
  BY <1>1 DEF TypeOK, Reservations
<1>4. challenge' \in [Keys -> Challenges] /\ reservation' \in [Keys -> Reservations]
  BY <1>1, <1>2, <1>3 DEF Complete, TypeOK
<1>5. delivered' \subseteq Nonces
  BY <1>1 DEF Complete, TypeOK, Nonces
<1> QED BY <1>4, <1>5, ReturnTypes DEF Complete, TypeOK

LEMMA ConfirmTypes ==
  ASSUME TypeOK, Consistent, NEW w \in Services, NEW c \in Keys, Confirm(w, c)
  PROVE  TypeOK'
<1> DEFINE k == call[w].key
           g == call[w].generation
           at == call[w].at
<1>1. k \in Keys /\ g \in Generations /\ at \in Times /\ call[w].nonce \in Nonces
  BY DEF Confirm, Consistent, CallConsistent, TypeOK, Calls
<1>2. [challenge[c] EXCEPT !.state = "consumed", !.consumed = at] \in Challenges
  BY <1>1 DEF TypeOK, Challenges
<1>3. challenge' = [challenge EXCEPT ![c] = [challenge[c] EXCEPT !.state = "consumed", !.consumed = at]]
  BY DEF Confirm, TypeOK, Challenges
<1>4. [generation |-> g, nonce |-> call[w].nonce] \in Confirmations
  BY <1>1 DEF Confirmations
<1>5. challenge' \in [Keys -> Challenges] /\ confirmation' \in [Keys -> Confirmations]
  BY <1>1, <1>2, <1>3, <1>4 DEF Confirm, TypeOK
<1>6. k.peer \in Peers
  BY <1>1 DEF Keys
<1>7. /\ state' \in [Generations -> BindingStates]
      /\ revision' \in [Generations -> Nat]
      /\ since' \in [Generations -> Times]
      /\ peer' \in [Generations -> Peers \cup {NoPeer}]
  BY <1>1, <1>6 DEF Confirm, TypeOK, BindingStates
<1> QED BY <1>5, <1>7, ReturnTypes DEF Confirm, TypeOK

LEMMA AuthorizeTypes ==
  ASSUME TypeOK, Consistent, NEW w \in Services, Authorize(w)
  PROVE  TypeOK'
<1> DEFINE g == call[w].generation
           a == call[w].action
           z == [state |-> "pending", revision |-> revision[g], at |-> call[w].at, consumed |-> 0]
<1>1. g \in Generations /\ a \in Actions
  BY DEF Authorize, Consistent, CallConsistent
<1>2. z \in Authorizations
  BY <1>1, BoundsAreNaturals DEF TypeOK, Authorizations, Calls
<1>3. authorization' \in [Generations -> [Actions -> Authorizations]]
  BY <1>1, <1>2 DEF Authorize, TypeOK
<1> QED BY <1>3, ReturnTypes DEF Authorize, TypeOK

LEMMA ConsumeTypes ==
  ASSUME TypeOK, NEW g \in Generations, NEW a \in Actions, NEW at \in Times, Consume(g, a, at)
  PROVE  authorization' \in [Generations -> [Actions -> Authorizations]]
<1>0. authorization[g][a] \in Authorizations
  BY DEF TypeOK
<1>1. [authorization[g][a] EXCEPT !.state = "consumed", !.consumed = at] \in Authorizations
  BY <1>0 DEF Authorizations
<1>2. authorization' = [authorization EXCEPT ![g][a] =
                          [authorization[g][a] EXCEPT !.state = "consumed", !.consumed = at]]
  BY DEF TypeOK, Consume, Authorizations
<1> QED BY <1>1, <1>2 DEF TypeOK

LEMMA RetireTypes ==
  ASSUME TypeOK, Consistent, NEW w \in Services, Rotate(w) \/ Revoke(w)
  PROVE  TypeOK'
<1> DEFINE g == call[w].generation
           at == call[w].at
<1>1. g \in Generations /\ at \in Times
  BY DEF Rotate, Revoke, MayRetire, Consistent, CallConsistent, TypeOK, Calls
<1>2. CASE Rotate(w)
  <2>1. g + 1 \in Generations
    BY <1>1, <1>2, BoundsAssumption DEF Rotate, Generations
  <2>2. authorization' \in [Generations -> [Actions -> Authorizations]]
    BY <1>1, <1>2, ConsumeTypes DEF Rotate, Actions
  <2>3. /\ state' \in [Generations -> BindingStates]
        /\ since' \in [Generations -> Times]
    BY <1>1, <1>2, <2>1 DEF Rotate, Successor, TypeOK, BindingStates
  <2>4. revision' \in [Generations -> Nat]
    <3>1. revision' = [[revision EXCEPT ![g] = @ + 1] EXCEPT ![g + 1] = 1]
      BY <1>2 DEF Rotate
    <3>2. [revision EXCEPT ![g] = @ + 1] \in [Generations -> Nat]
      BY <1>1 DEF TypeOK
    <3> QED BY <2>1, <3>1, <3>2
  <2> QED BY <1>2, <2>2, <2>3, <2>4, ReturnTypes DEF Rotate, TypeOK
<1>3. CASE Revoke(w)
  <2>1. authorization' \in [Generations -> [Actions -> Authorizations]]
    BY <1>1, <1>3, ConsumeTypes DEF Revoke, Actions
  <2>2. /\ state' \in [Generations -> BindingStates]
        /\ revision' \in [Generations -> Nat]
        /\ challenge' \in [Keys -> Challenges]
    BY <1>1, <1>3, ReplacementTypes DEF Revoke, TypeOK, BindingStates
  <2> QED BY <1>3, <2>1, <2>2, ReturnTypes DEF Revoke, TypeOK
<1> QED BY <1>2, <1>3

LEMMA StepTypes ==
  ASSUME TypeOK, Consistent, [Next]_vars
  PROVE  TypeOK'
<1>1. ASSUME NEW w \in Services, NEW g \in Generations, ReadGeneration(w, g) PROVE TypeOK'
  <2>1. [call[w] EXCEPT !.generation = g] \in Calls
    BY DEF TypeOK, Calls
  <2>2. call' = [call EXCEPT ![w] = [call[w] EXCEPT !.generation = g]]
    BY <1>1 DEF ReadGeneration, TypeOK
  <2> QED BY <1>1, <2>1, <2>2 DEF ReadGeneration, TypeOK, Steps
<1>2. ASSUME NEW w \in Services, ReserveResumed(w) PROVE TypeOK'
  BY <1>2 DEF ReserveResumed, TypeOK, Steps
<1>3. ASSUME NEW w \in Services, Leave(w) PROVE TypeOK'
  BY <1>3, ReturnTypes DEF Leave, TypeOK
<1>4. ASSUME NEW g \in Generations, Fence(g) \/ Release(g) PROVE TypeOK'
  BY <1>4 DEF Fence, Release, TypeOK
<1>5. CASE Tick
  <2>1. clock' \in Times
    BY <1>5, BoundsAssumption DEF Tick, Times, TypeOK
  <2> QED BY <1>5, <2>1 DEF Tick, TypeOK
<1>6. CASE UNCHANGED vars
  BY <1>6 DEF vars, TypeOK
<1> QED
  BY <1>1, <1>2, <1>3, <1>4, <1>5, <1>6, CommandTypes, ReserveNewTypes, CompleteTypes,
     ConfirmTypes, AuthorizeTypes, RetireTypes DEF Next, Run

-----------------------------------------------------------------------------
(***************************************************************************)
(* Calls                                                                   *)
(***************************************************************************)

\* A service that does not move keeps its call, and nonces are never taken
\* back.
LEMMA WaitingIsConsistent ==
  ASSUME NEW v \in Services, CallConsistent(v), pc'[v] = pc[v], call'[v] = call[v],
         delivered \subseteq delivered'
  PROVE  CallConsistent(v)'
BY DEF CallConsistent

LEMMA ReturnIsConsistent ==
  ASSUME TypeOK, NEW w \in Services, Return(w), Consistent, delivered \subseteq delivered'
  PROVE  Consistent'
<1> SUFFICES ASSUME NEW v \in Services PROVE CallConsistent(v)'
  BY DEF Consistent
<1>1. CASE v = w
  BY <1>1 DEF Return, CallConsistent, TypeOK
<1>2. CASE v # w
  BY <1>2, WaitingIsConsistent DEF Return, Consistent, TypeOK
<1> QED BY <1>1, <1>2

\* A queued command is what the caller gave.
LEMMA QueueKeeps ==
  ASSUME TypeOK, NEW w \in Services, NEW step, NEW command \in Calls, Queue(w, step, command)
  PROVE  /\ pc'[w] = step
         /\ call'[w].key = command.key
         /\ call'[w].generation = command.generation
         /\ call'[w].nonce = command.nonce
         /\ call'[w].action = command.action
         /\ delivered' = delivered
BY DEF TypeOK, Queue, Calls

LEMMA CommandIsConsistent ==
  ASSUME TypeOK, Consistent, NEW w \in Services, Call(w)
  PROVE  Consistent'
<1> SUFFICES ASSUME NEW v \in Services PROVE CallConsistent(v)'
  BY DEF Consistent
<1>1. CASE v # w
  BY <1>1, WaitingIsConsistent
  DEF Call, IssueChallenge, ConfirmBinding, AuthorizeBinding, RetireBinding, Queue,
      Consistent, TypeOK
<1>2. CASE v = w
  <2>1. ASSUME NEW k \in Keys, IssueChallenge(w, k) PROVE CallConsistent(w)'
    <3> DEFINE c == [Idle EXCEPT !.key = k]
    <3>1. c \in Calls /\ c.key = k
      BY IdleIsCall DEF Calls
    <3>2. Queue(w, "generation", c)
      BY <2>1 DEF IssueChallenge
    <3> HIDE DEF c
    <3> QED BY <3>1, <3>2, QueueKeeps DEF CallConsistent
  <2>2. ASSUME NEW k \in Keys, NEW g \in Generations, NEW n \in delivered, ConfirmBinding(w, k, g, n)
        PROVE  CallConsistent(w)'
    <3> DEFINE c == [Idle EXCEPT !.key = k, !.generation = g, !.nonce = n]
    <3>1. c \in Calls /\ c.key = k /\ c.generation = g /\ c.nonce = n
      BY IdleIsCall DEF Calls, TypeOK
    <3>2. Queue(w, "confirm", c)
      BY <2>2 DEF ConfirmBinding
    <3> HIDE DEF c
    <3> QED BY <3>1, <3>2, QueueKeeps DEF CallConsistent
  <2>3. ASSUME NEW g \in Generations, NEW a \in Actions,
               AuthorizeBinding(w, g, a) \/ RetireBinding(w, g, a)
        PROVE  CallConsistent(w)'
    <3> DEFINE c == [Idle EXCEPT !.generation = g, !.action = a]
    <3>1. c \in Calls /\ c.generation = g /\ c.action = a
      BY IdleIsCall DEF Calls
    <3>2. Queue(w, "authorize", c) \/ Queue(w, "retire", c)
      BY <2>3 DEF AuthorizeBinding, RetireBinding
    <3> HIDE DEF c
    <3> QED BY <3>1, <3>2, QueueKeeps DEF CallConsistent
  <2> QED BY <1>2, <2>1, <2>2, <2>3 DEF Call
<1> QED BY <1>1, <1>2

LEMMA StepConsistent ==
  ASSUME TypeOK, Consistent, [Next]_vars
  PROVE  Consistent'
<1>1. ASSUME NEW w \in Services,
             \/ \E g \in Generations : ReadGeneration(w, g)
             \/ ReserveResumed(w)
             \/ ReserveNew(w)
      PROVE  Consistent'
  <2> SUFFICES ASSUME NEW v \in Services PROVE CallConsistent(v)'
    BY DEF Consistent
  <2>1. CASE v = w
    <3>1. ASSUME NEW g \in Generations, ReadGeneration(w, g) PROVE CallConsistent(w)'
      <4>1. call'[w] = [call[w] EXCEPT !.generation = g] /\ call[w] \in Calls
        BY <3>1 DEF ReadGeneration, TypeOK
      <4>2. call'[w].key = call[w].key /\ call'[w].generation = g
        BY <4>1 DEF Calls
      <4> QED BY <3>1, <4>2 DEF ReadGeneration, Consistent, CallConsistent, TypeOK
    <3>2. ASSUME ReserveResumed(w) \/ ReserveNew(w) PROVE CallConsistent(w)'
      BY <3>2 DEF ReserveResumed, ReserveNew, Consistent, CallConsistent, TypeOK
    <3> QED BY <1>1, <2>1, <3>1, <3>2
  <2>2. CASE v # w
    BY <1>1, <2>2, WaitingIsConsistent DEF ReadGeneration, ReserveResumed, ReserveNew, Consistent, TypeOK
  <2> QED BY <2>1, <2>2
<1>2. ASSUME NEW w \in Services,
             \/ Complete(w) \/ Authorize(w) \/ Rotate(w) \/ Revoke(w) \/ Leave(w)
             \/ \E c \in Keys : Confirm(w, c)
      PROVE  Consistent'
  BY <1>2, ReturnIsConsistent DEF Complete, Authorize, Rotate, Revoke, Leave, Confirm
<1>3. CASE \E g \in Generations : Fence(g) \/ Release(g)
  BY <1>3 DEF Fence, Release, Consistent, CallConsistent
<1>4. CASE Tick \/ UNCHANGED vars
  BY <1>4 DEF Tick, vars, Consistent, CallConsistent
<1> QED BY <1>1, <1>2, <1>3, <1>4, CommandIsConsistent DEF Next, Run

-----------------------------------------------------------------------------
(***************************************************************************)
(* What each transaction does to the store                                 *)
(***************************************************************************)

\* A new reservation k replaces what was live at g.
Replaces(k, g, at) ==
  /\ reservation[k].state = "none"
  /\ Challengeable(g)
  /\ ReplacesNoLaterOne(g, at)
  /\ state' = [state EXCEPT ![g] = "pending"]
  /\ revision' = [revision EXCEPT ![g] = 1]
  /\ \A h \in Generations : state[h] # "none" => since'[h] = since[h]
  /\ \A l \in Keys :
       /\ challenge'[l].service = challenge[l].service
       /\ challenge'[l].consumed = challenge[l].consumed
       /\ l \in PendingChallenges(g) => challenge'[l].state = "invalidated"
       /\ l \notin PendingChallenges(g) => challenge'[l].state = challenge[l].state
  /\ reservation'[k].state = "reserved"
  /\ reservation'[k].generation = g
  /\ reservation'[k].at = at
  /\ \A l \in Keys \ {k} :
       /\ reservation'[l].generation = reservation[l].generation
       /\ reservation'[l].at = reservation[l].at
       /\ l \in LiveReservations(g) => reservation'[l].state = "abandoned"
       /\ l \notin LiveReservations(g) => reservation'[l].state = reservation[l].state
  /\ UNCHANGED <<peer, confirmation, authorization, delivered>>

LEMMA ReserveNewReplaces ==
  ASSUME TypeOK, Consistent, NEW w \in Services, ReserveNew(w)
  PROVE  \E k \in Keys, g \in Generations, at \in Times : Replaces(k, g, at)
<1> DEFINE k == call[w].key
           g == call[w].generation
           at == call[w].at
<1>1. k \in Keys /\ g \in Generations /\ at \in Times
  BY DEF ReserveNew, Consistent, CallConsistent, TypeOK, Calls
<1>2. \A l \in Keys : challenge[l] \in Challenges /\ reservation[l] \in Reservations
  BY DEF TypeOK
<1>3. \A l \in Keys :
        challenge'[l] = IF l \in PendingChallenges(g)
                        THEN [challenge[l] EXCEPT !.state = "invalidated"] ELSE challenge[l]
  BY DEF ReserveNew, Invalidated
<1>4. reservation'[k] = [state |-> "reserved", generation |-> g, at |-> at]
  BY <1>1 DEF ReserveNew, Abandoned
<1>5. \A l \in Keys \ {k} :
        reservation'[l] = IF l \in LiveReservations(g)
                          THEN [reservation[l] EXCEPT !.state = "abandoned"] ELSE reservation[l]
  BY DEF ReserveNew, Abandoned
<1>6. \A h \in Generations : state[h] # "none" => since'[h] = since[h]
  BY <1>1 DEF ReserveNew, TypeOK
<1>7. /\ reservation[k].state = "none"
      /\ Challengeable(g)
      /\ ReplacesNoLaterOne(g, at)
      /\ state' = [state EXCEPT ![g] = "pending"]
      /\ revision' = [revision EXCEPT ![g] = 1]
      /\ UNCHANGED <<peer, confirmation, authorization, delivered>>
  BY DEF ReserveNew
<1>8. \A l \in Keys :
        /\ challenge'[l].service = challenge[l].service
        /\ challenge'[l].consumed = challenge[l].consumed
        /\ l \in PendingChallenges(g) => challenge'[l].state = "invalidated"
        /\ l \notin PendingChallenges(g) => challenge'[l].state = challenge[l].state
  BY <1>2, <1>3 DEF Challenges
<1>9. \A l \in Keys \ {k} :
        /\ reservation'[l].generation = reservation[l].generation
        /\ reservation'[l].at = reservation[l].at
        /\ l \in LiveReservations(g) => reservation'[l].state = "abandoned"
        /\ l \notin LiveReservations(g) => reservation'[l].state = reservation[l].state
  BY <1>2, <1>5 DEF Reservations
<1>10. Replaces(k, g, at)
  BY <1>4, <1>6, <1>7, <1>8, <1>9 DEF Replaces
<1> QED BY <1>1, <1>10

\* Service w completes reservation k.
Issues(w, k) ==
  /\ reservation[k].state = "reserved"
  /\ state[reservation[k].generation] = "pending"
  /\ challenge'[k].state = "pending"
  /\ challenge'[k].service = w
  /\ reservation'[k].state = "issued"
  /\ reservation'[k].generation = reservation[k].generation
  /\ reservation'[k].at = reservation[k].at
  /\ \A l \in Keys \ {k} : challenge'[l] = challenge[l] /\ reservation'[l] = reservation[l]
  /\ delivered \subseteq delivered'
  /\ \A n \in delivered' : n \in delivered \/ (n.key = k /\ n.service = w)
  /\ UNCHANGED <<record, confirmation, authorization>>

LEMMA CompleteIssues ==
  ASSUME TypeOK, Consistent, NEW w \in Services, Complete(w)
  PROVE  \E k \in Keys : Issues(w, k)
<1> DEFINE k == call[w].key
<1>1. k \in Keys
  BY DEF Complete, Consistent, CallConsistent
<1>2. reservation[k] \in Reservations
  BY <1>1 DEF TypeOK
<1>3. /\ challenge'[k] = [state |-> "pending", service |-> w, consumed |-> 0]
      /\ reservation'[k] = [reservation[k] EXCEPT !.state = "issued"]
      /\ \A l \in Keys \ {k} : challenge'[l] = challenge[l] /\ reservation'[l] = reservation[l]
  BY <1>1 DEF Complete, TypeOK
<1>4. /\ reservation'[k].state = "issued"
      /\ reservation'[k].generation = reservation[k].generation
      /\ reservation'[k].at = reservation[k].at
  BY <1>2, <1>3 DEF Reservations
<1>5. \A n \in delivered' : n \in delivered \/ (n.key = k /\ n.service = w)
  BY DEF Complete
<1>6. Issues(w, k)
  BY <1>3, <1>4, <1>5 DEF Complete, Completable, Issues
<1> QED BY <1>1, <1>6

\* Operation k consumes challenge c and activates g.
Activates(k, c, g, at) ==
  /\ confirmation[k].generation = 0
  /\ challenge[c].state = "pending"
  /\ reservation[c].generation = g
  /\ c.peer = k.peer
  /\ reservation[c].at <= at
  /\ at < Expires(c)
  /\ [key |-> c, service |-> challenge[c].service] \in delivered
  /\ state[g] = "pending"
  /\ challenge'[c].state = "consumed"
  /\ challenge'[c].consumed = at
  /\ challenge'[c].service = challenge[c].service
  /\ \A l \in Keys \ {c} : challenge'[l] = challenge[l]
  /\ state' = [state EXCEPT ![g] = "active"]
  /\ revision' = [revision EXCEPT ![g] = @ + 1]
  /\ since' = [since EXCEPT ![g] = at]
  /\ peer' = [peer EXCEPT ![g] = k.peer]
  /\ confirmation'[k] =
       [generation |-> g, nonce |-> [key |-> c, service |-> challenge[c].service]]
  /\ \A l \in Keys \ {k} : confirmation'[l] = confirmation[l]
  /\ UNCHANGED <<reservation, authorization, delivered>>

LEMMA ConfirmActivates ==
  ASSUME TypeOK, Consistent, NEW w \in Services, NEW c \in Keys, Confirm(w, c)
  PROVE  \E k \in Keys, g \in Generations, at \in Times : Activates(k, c, g, at)
<1> DEFINE k == call[w].key
           g == call[w].generation
           at == call[w].at
<1>1. k \in Keys /\ g \in Generations /\ at \in Times /\ call[w].nonce \in delivered
  BY DEF Confirm, Consistent, CallConsistent, TypeOK, Calls
<1>2. challenge[c] \in Challenges /\ challenge'[c] = [challenge[c] EXCEPT !.state = "consumed", !.consumed = at]
  <2>1. challenge[c] \in Challenges
    BY DEF TypeOK
  <2>2. challenge' = [challenge EXCEPT ![c] =
                        [challenge[c] EXCEPT !.state = "consumed", !.consumed = at]]
    BY DEF Confirm, TypeOK, Challenges
  <2> QED BY <2>1, <2>2 DEF TypeOK
<1>3. /\ challenge'[c].state = "consumed"
      /\ challenge'[c].consumed = at
      /\ challenge'[c].service = challenge[c].service
  BY <1>2 DEF Challenges
<1>4. \A l \in Keys \ {c} : challenge'[l] = challenge[l]
  BY DEF Confirm, TypeOK
<1>5. /\ challenge[c].state = "pending"
      /\ reservation[c].generation = g
      /\ c.peer = k.peer
      /\ reservation[c].at <= at
      /\ at < Expires(c)
      /\ call[w].nonce = [key |-> c, service |-> challenge[c].service]
  BY DEF Confirm, Accepts, PendingChallenges, ExpectedPeer, Verifies
<1>6. /\ confirmation'[k] = [generation |-> g, nonce |-> call[w].nonce]
      /\ \A l \in Keys \ {k} : confirmation'[l] = confirmation[l]
  BY <1>1 DEF Confirm, TypeOK
<1>7. /\ confirmation[k].generation = 0
      /\ state[g] = "pending"
      /\ state' = [state EXCEPT ![g] = "active"]
      /\ revision' = [revision EXCEPT ![g] = @ + 1]
      /\ since' = [since EXCEPT ![g] = at]
      /\ peer' = [peer EXCEPT ![g] = k.peer]
      /\ UNCHANGED <<reservation, authorization, delivered>>
  BY DEF Confirm
<1>8. Activates(k, c, g, at)
  BY <1>1, <1>3, <1>4, <1>5, <1>6, <1>7 DEF Activates
<1> QED BY <1>1, <1>8

\* The owner is issued an authorization for action a on g.
Grants(g, a, at) ==
  /\ state[g] \in Eligible(a)
  /\ authorization[g][a].state # "pending"
  /\ authorization'[g][a] =
       [state |-> "pending", revision |-> revision[g], at |-> at, consumed |-> 0]
  /\ \A h \in Generations, b \in Actions :
       <<h, b>> # <<g, a>> => authorization'[h][b] = authorization[h][b]
  /\ UNCHANGED <<record, ceremony, delivered>>

LEMMA AuthorizeGrants ==
  ASSUME TypeOK, Consistent, NEW w \in Services, Authorize(w)
  PROVE  \E g \in Generations, a \in Actions, at \in Times : Grants(g, a, at)
<1> DEFINE g == call[w].generation
           a == call[w].action
<1>1. g \in Generations /\ a \in Actions /\ call[w].at \in Times
  BY DEF Authorize, Consistent, CallConsistent, TypeOK, Calls
<1>2. Grants(g, a, call[w].at)
  BY <1>1 DEF Authorize, TypeOK, Grants
<1> QED BY <1>1, <1>2

\* The authorization of action a on g is used up.
Uses(g, a, at) ==
  /\ authorization[g][a].state = "pending"
  /\ authorization[g][a].revision = revision[g]
  /\ authorization[g][a].at <= at
  /\ at < authorization[g][a].at + AuthorizationTtl
  /\ authorization'[g][a].state = "consumed"
  /\ authorization'[g][a].consumed = at
  /\ authorization'[g][a].revision = authorization[g][a].revision
  /\ authorization'[g][a].at = authorization[g][a].at
  /\ \A h \in Generations, b \in Actions :
       <<h, b>> # <<g, a>> => authorization'[h][b] = authorization[h][b]
  /\ since[g] <= at
  /\ g \notin fenced

LEMMA RetirementUses ==
  ASSUME TypeOK, Consistent, NEW w \in Services, NEW a \in Actions,
         MayRetire(w, a), Consume(call[w].generation, a, call[w].at)
  PROVE  Uses(call[w].generation, a, call[w].at)
<1> DEFINE g == call[w].generation
           at == call[w].at
           z == authorization[g][a]
<1>1. g \in Generations /\ at \in Times /\ call[w].action = a
  BY DEF MayRetire, Consistent, CallConsistent, TypeOK, Calls
<1>2. z \in Authorizations
  BY <1>1 DEF TypeOK
<1>3. authorization' = [authorization EXCEPT ![g][a] =
                          [authorization[g][a] EXCEPT !.state = "consumed", !.consumed = at]]
  BY <1>1 DEF TypeOK, Consume, Authorizations
<1>4. authorization'[g][a] = [z EXCEPT !.state = "consumed", !.consumed = at]
  BY <1>1, <1>3 DEF TypeOK
<1>5. \A h \in Generations, b \in Actions :
        <<h, b>> # <<g, a>> => authorization'[h][b] = authorization[h][b]
  BY <1>1, <1>3 DEF TypeOK
<1>6. /\ authorization'[g][a].state = "consumed"
      /\ authorization'[g][a].consumed = at
      /\ authorization'[g][a].revision = z.revision
      /\ authorization'[g][a].at = z.at
  BY <1>2, <1>4 DEF Authorizations
<1>7. /\ z.state = "pending"
      /\ z.revision = revision[g]
      /\ z.at <= at
      /\ at < z.at + AuthorizationTtl
      /\ since[g] <= at
      /\ g \notin fenced
  BY <1>1 DEF MayRetire, Authorized, ExactRevision, Unfenced
<1> QED BY <1>5, <1>6, <1>7 DEF Uses

Rotates(g, at) ==
  /\ Uses(g, "rotate", at)
  /\ state[g] = "active"
  /\ g + 1 \in Generations
  /\ state' = [state EXCEPT ![g] = "rotated", ![g + 1] = "pending"]
  /\ revision' = [revision EXCEPT ![g] = @ + 1, ![g + 1] = 1]
  /\ since' = [since EXCEPT ![g + 1] = at]
  /\ UNCHANGED <<peer, ceremony, fenced, delivered>>

LEMMA RotateRotates ==
  ASSUME TypeOK, Consistent, NEW w \in Services, Rotate(w)
  PROVE  \E g \in Generations, at \in Times : Rotates(g, at)
<1> DEFINE g == call[w].generation
           at == call[w].at
<1>1. g \in Generations /\ at \in Times
  BY DEF Rotate, MayRetire, Consistent, CallConsistent, TypeOK, Calls
<1>2. g + 1 \in Generations
  BY <1>1, BoundsAssumption DEF Rotate, Generations
<1>3. Uses(g, "rotate", at)
  BY RetirementUses DEF Rotate, Actions
<1>4. Rotates(g, at)
  BY <1>2, <1>3 DEF Rotate, MayRetire, Eligible, Successor, Rotates
<1> QED BY <1>1, <1>4

Revokes(g, at) ==
  /\ Uses(g, "revoke", at)
  /\ state[g] \in {"pending", "active"}
  /\ \A l \in Keys :
       /\ challenge'[l].service = challenge[l].service
       /\ challenge'[l].consumed = challenge[l].consumed
       /\ l \in PendingChallenges(g) => challenge'[l].state = "invalidated"
       /\ l \notin PendingChallenges(g) => challenge'[l].state = challenge[l].state
  /\ state' = [state EXCEPT ![g] = "revoked"]
  /\ revision' = [revision EXCEPT ![g] = @ + 1]
  /\ UNCHANGED <<since, peer, reservation, confirmation, fenced, delivered>>

LEMMA RevokeRevokes ==
  ASSUME TypeOK, Consistent, NEW w \in Services, Revoke(w)
  PROVE  \E g \in Generations, at \in Times : Revokes(g, at)
<1> DEFINE g == call[w].generation
           at == call[w].at
<1>1. g \in Generations /\ at \in Times
  BY DEF Revoke, MayRetire, Consistent, CallConsistent, TypeOK, Calls
<1>2. \A l \in Keys :
        /\ challenge[l] \in Challenges
        /\ challenge'[l] = IF l \in PendingChallenges(g)
                           THEN [challenge[l] EXCEPT !.state = "invalidated"] ELSE challenge[l]
  BY DEF Revoke, Invalidated, TypeOK
<1>3. \A l \in Keys :
        /\ challenge'[l].service = challenge[l].service
        /\ challenge'[l].consumed = challenge[l].consumed
        /\ l \in PendingChallenges(g) => challenge'[l].state = "invalidated"
        /\ l \notin PendingChallenges(g) => challenge'[l].state = challenge[l].state
  BY <1>2 DEF Challenges
<1>4. Uses(g, "revoke", at)
  BY RetirementUses DEF Revoke, Actions
<1>5. Revokes(g, at)
  BY <1>3, <1>4 DEF Revoke, MayRetire, Eligible, Revokes
<1> QED BY <1>1, <1>5

-----------------------------------------------------------------------------
(***************************************************************************)
(* The invariant, transaction by transaction                               *)
(***************************************************************************)
LEMMA Effects ==
  ASSUME TypeOK, Consistent, [Next]_vars
  PROVE  \/ StoreUnchanged
         \/ \E k \in Keys, g \in Generations, at \in Times : Replaces(k, g, at)
         \/ \E w \in Services, k \in Keys : Issues(w, k)
         \/ \E k, c \in Keys, g \in Generations, at \in Times : Activates(k, c, g, at)
         \/ \E g \in Generations, a \in Actions, at \in Times : Grants(g, a, at)
         \/ \E g \in Generations, at \in Times : Rotates(g, at)
         \/ \E g \in Generations, at \in Times : Revokes(g, at)
<1>1. ASSUME NEW w \in Services, StoreStep(w)
      PROVE  \/ \E k \in Keys, g \in Generations, at \in Times : Replaces(k, g, at)
             \/ \E v \in Services, k \in Keys : Issues(v, k)
             \/ \E k, c \in Keys, g \in Generations, at \in Times : Activates(k, c, g, at)
             \/ \E g \in Generations, a \in Actions, at \in Times : Grants(g, a, at)
             \/ \E g \in Generations, at \in Times : Rotates(g, at)
             \/ \E g \in Generations, at \in Times : Revokes(g, at)
  BY <1>1, ReserveNewReplaces, CompleteIssues, ConfirmActivates, AuthorizeGrants,
     RotateRotates, RevokeRevokes DEF StoreStep
<1> QED BY <1>1, OthersLeaveTheStore

\* Only a completion hands out a nonce.
LEMMA OnlyIssuesDeliver ==
  ASSUME TypeOK, Consistent, [Next]_vars, delivered' # delivered
  PROVE  \E w \in Services, k \in Keys : Issues(w, k)
<1>1. ~StoreUnchanged
  BY DEF StoreUnchanged
<1>2. \A k \in Keys, g \in Generations, at \in Times : ~Replaces(k, g, at)
  BY DEF Replaces
<1>3. \A k, c \in Keys, g \in Generations, at \in Times : ~Activates(k, c, g, at)
  BY DEF Activates
<1>4. \A g \in Generations, a \in Actions, at \in Times : ~Grants(g, a, at)
  BY DEF Grants
<1>5. \A g \in Generations, at \in Times : ~Rotates(g, at) /\ ~Revokes(g, at)
  BY DEF Rotates, Revokes
<1> QED BY <1>1, <1>2, <1>3, <1>4, <1>5, Effects, Zenon

\* Only a replacement or a completion writes reservations.
LEMMA WhoReserves ==
  ASSUME TypeOK, Consistent, [Next]_vars, reservation' # reservation
  PROVE  \/ \E k \in Keys, g \in Generations, at \in Times : Replaces(k, g, at)
         \/ \E w \in Services, k \in Keys : Issues(w, k)
<1>1. ~StoreUnchanged
  BY DEF StoreUnchanged, ceremony
<1>2. \A k, c \in Keys, g \in Generations, at \in Times : ~Activates(k, c, g, at)
  BY DEF Activates
<1>3. \A g \in Generations, a \in Actions, at \in Times : ~Grants(g, a, at)
  BY DEF Grants, ceremony
<1>4. \A g \in Generations, at \in Times : ~Rotates(g, at) /\ ~Revokes(g, at)
  BY DEF Rotates, Revokes, ceremony
<1> QED BY <1>1, <1>2, <1>3, <1>4, Effects, Zenon

LEMMA StepRecorded ==
  ASSUME TypeOK, Consistent, Recorded, [Next]_vars
  PROVE  Recorded'
<1> USE DEF Recorded, TypeOK
<1>1. CASE StoreUnchanged
  BY <1>1 DEF StoreUnchanged
<1>2. ASSUME NEW k \in Keys, NEW g \in Generations, NEW at \in Times, Replaces(k, g, at)
      PROVE  Recorded'
  <2> SUFFICES ASSUME NEW l \in Keys
               PROVE  /\ challenge'[l].state # "none" <=> reservation'[l].state = "issued"
                      /\ reservation'[l].state # "none" =>
                           /\ reservation'[l].generation \in Generations
                           /\ state'[reservation'[l].generation] # "none"
    OBVIOUS
  <2>1. CASE l = k
    BY <1>2, <2>1 DEF Replaces, PendingChallenges
  <2>2. CASE l # k
    BY <1>2, <2>2 DEF Replaces, PendingChallenges, LiveReservations
  <2> QED BY <2>1, <2>2
<1>3. ASSUME NEW w \in Services, NEW k \in Keys, Issues(w, k) PROVE Recorded'
  BY <1>3 DEF Issues
<1>4. ASSUME NEW k \in Keys, NEW c \in Keys, NEW g \in Generations, NEW at \in Times,
             Activates(k, c, g, at)
      PROVE  Recorded'
  BY <1>4 DEF Activates
<1>5. ASSUME NEW g \in Generations, NEW a \in Actions, NEW at \in Times, Grants(g, a, at)
      PROVE  Recorded'
  BY <1>5 DEF Grants
<1>6. ASSUME NEW g \in Generations, NEW at \in Times, Rotates(g, at) PROVE Recorded'
  BY <1>6 DEF Rotates
<1>7. ASSUME NEW g \in Generations, NEW at \in Times, Revokes(g, at) PROVE Recorded'
  BY <1>7 DEF Revokes, PendingChallenges
<1> QED BY <1>1, <1>2, <1>3, <1>4, <1>5, <1>6, <1>7, Effects

\* What is live at a generation after each transaction.
LEMMA LiveAfterReplacement ==
  ASSUME TypeOK, Recorded, NEW k \in Keys, NEW g \in Generations, NEW at \in Times,
         Replaces(k, g, at), NEW h \in Generations
  PROVE  Live(h)' = IF h = g THEN {k} ELSE Live(h)
<1>1. challenge[k].state = "none" /\ challenge'[k].state = "none"
  BY DEF Recorded, Replaces, PendingChallenges
<1>2. ASSUME NEW l \in Keys, l # k
      PROVE  l \in Live(h)' <=> l \in Live(h) /\ h # g
  BY <1>2 DEF Live, LiveReservations, PendingChallenges, Replaces, Recorded
<1>3. k \in Live(h)' <=> h = g
  BY <1>1 DEF Live, LiveReservations, PendingChallenges, Replaces
<1>4. k \notin Live(h)
  BY <1>1 DEF Live, LiveReservations, PendingChallenges, Replaces
<1>5. Live(h) \subseteq Keys /\ Live(h)' \subseteq Keys
  BY DEF Live, LiveReservations, PendingChallenges
<1> QED BY <1>2, <1>3, <1>4, <1>5

LEMMA LiveAfterIssue ==
  ASSUME TypeOK, Recorded, NEW w \in Services, NEW k \in Keys, Issues(w, k), NEW h \in Generations
  PROVE  Live(h)' = Live(h)
<1>1. ASSUME NEW l \in Keys PROVE l \in Live(h)' <=> l \in Live(h)
  BY DEF Live, LiveReservations, PendingChallenges, Issues, Recorded
<1>2. Live(h) \subseteq Keys /\ Live(h)' \subseteq Keys
  BY DEF Live, LiveReservations, PendingChallenges
<1> QED BY <1>1, <1>2

LEMMA LiveAfterActivation ==
  ASSUME TypeOK, Recorded, NEW k \in Keys, NEW c \in Keys, NEW g \in Generations, NEW at \in Times,
         Activates(k, c, g, at), NEW h \in Generations
  PROVE  Live(h)' = Live(h) \ {c}
<1>1. ASSUME NEW l \in Keys PROVE l \in Live(h)' <=> l \in Live(h) /\ l # c
  BY DEF Live, LiveReservations, PendingChallenges, Activates, Recorded
<1>2. Live(h) \subseteq Keys /\ Live(h)' \subseteq Keys
  BY DEF Live, LiveReservations, PendingChallenges
<1> QED BY <1>1, <1>2

LEMMA LiveAfterRevocation ==
  ASSUME TypeOK, Recorded, NEW g \in Generations, NEW at \in Times, Revokes(g, at), NEW h \in Generations
  PROVE  /\ Live(h)' \subseteq Live(h)
         /\ h # g => Live(h)' = Live(h)
         /\ PendingChallenges(g)' = {}
<1>1. ASSUME NEW l \in Keys
      PROVE  /\ l \in Live(h)' => l \in Live(h)
             /\ h # g => (l \in Live(h) => l \in Live(h)')
             /\ l \notin PendingChallenges(g)'
  BY DEF Live, LiveReservations, PendingChallenges, Revokes, Recorded
<1>2. Live(h) \subseteq Keys /\ Live(h)' \subseteq Keys /\ PendingChallenges(g)' \subseteq Keys
  BY DEF Live, LiveReservations, PendingChallenges
<1> QED BY <1>1, <1>2

LEMMA LiveOtherwise ==
  ASSUME StoreUnchanged \/ (\E g \in Generations, a \in Actions, at \in Times : Grants(g, a, at))
           \/ (\E g \in Generations, at \in Times : Rotates(g, at)),
         NEW h
  PROVE  Live(h)' = Live(h)
BY DEF StoreUnchanged, Grants, Rotates, Live, LiveReservations, PendingChallenges

LEMMA StepOneLive ==
  ASSUME TypeOK, Consistent, Recorded, OneLiveCeremony, [Next]_vars
  PROVE  OneLiveCeremony'
<1> SUFFICES ASSUME NEW h \in Generations, NEW k \in Live(h)', NEW l \in Live(h)' PROVE k = l
  BY DEF OneLiveCeremony, Live
<1>1. \A a, b \in Live(h) : a = b
  BY DEF OneLiveCeremony, Live
<1>2. ASSUME NEW c \in Keys, NEW g \in Generations, NEW at \in Times, Replaces(c, g, at)
      PROVE  k = l
  BY <1>1, <1>2, LiveAfterReplacement
<1> QED
  BY <1>1, <1>2, Effects, LiveAfterIssue, LiveAfterActivation, LiveAfterRevocation, LiveOtherwise

LEMMA StepLiveIsOnPending ==
  ASSUME TypeOK, Consistent, Recorded, OneLiveCeremony, LiveChallengeIsOnPending, [Next]_vars
  PROVE  LiveChallengeIsOnPending'
<1> SUFFICES ASSUME NEW l \in Keys, challenge'[l].state = "pending"
             PROVE  state'[reservation'[l].generation] = "pending"
  BY DEF LiveChallengeIsOnPending
<1> USE DEF TypeOK, LiveChallengeIsOnPending
<1>1. CASE StoreUnchanged
  BY <1>1 DEF StoreUnchanged
<1>2. ASSUME NEW k \in Keys, NEW g \in Generations, NEW at \in Times, Replaces(k, g, at)
      PROVE  state'[reservation'[l].generation] = "pending"
  <2>1. l # k /\ challenge[l].state = "pending"
    BY <1>2 DEF Recorded, Replaces, PendingChallenges
  <2> QED BY <1>2, <2>1 DEF Recorded, Replaces
<1>3. ASSUME NEW w \in Services, NEW k \in Keys, Issues(w, k)
      PROVE  state'[reservation'[l].generation] = "pending"
  BY <1>3 DEF Issues
<1>4. ASSUME NEW k \in Keys, NEW c \in Keys, NEW g \in Generations, NEW at \in Times,
             Activates(k, c, g, at)
      PROVE  state'[reservation'[l].generation] = "pending"
  <2>1. l # c /\ challenge[l].state = "pending" /\ reservation'[l] = reservation[l]
    BY <1>4 DEF Activates
  <2>2. reservation[l].generation # g
    BY <1>4, <2>1 DEF Activates, OneLiveCeremony, PendingChallenges
  <2> QED BY <1>4, <2>1, <2>2 DEF Activates, Recorded
<1>5. ASSUME NEW g \in Generations, NEW a \in Actions, NEW at \in Times, Grants(g, a, at)
      PROVE  state'[reservation'[l].generation] = "pending"
  BY <1>5 DEF Grants
<1>6. ASSUME NEW g \in Generations, NEW at \in Times, Rotates(g, at)
      PROVE  state'[reservation'[l].generation] = "pending"
  BY <1>6 DEF Rotates, Recorded
<1>7. ASSUME NEW g \in Generations, NEW at \in Times, Revokes(g, at)
      PROVE  state'[reservation'[l].generation] = "pending"
  BY <1>7 DEF Revokes, Recorded, PendingChallenges
<1> QED BY <1>1, <1>2, <1>3, <1>4, <1>5, <1>6, <1>7, Effects

LEMMA GenerationFacts ==
  /\ \A g \in Generations :
       /\ g \in Nat
       /\ g >= 1
       /\ g # g + 1
       /\ g > 1 => g - 1 \in Generations /\ g - 1 # g /\ g - 1 + 1 = g
       /\ g < MaxGeneration => g + 1 \in Generations
       /\ g + 1 \in Generations => g < MaxGeneration
       /\ g + 1 > 1
       /\ g + 1 - 1 = g
  /\ 1 \in Generations
BY BoundsAssumption DEF Generations

\* Only rotation creates a later generation, and never over an existing one.
LEMMA StepChain ==
  ASSUME TypeOK, Consistent, ActivatedByItsChallenge, RotationChain, [Next]_vars
  PROVE  RotationChain'
<1> DEFINE Chain(h) ==
             /\ h > 1 /\ state[h] # "none" => state[h - 1] = "rotated"
             /\ state[h] = "rotated" =>
                  h < MaxGeneration /\ state[h + 1] # "none" /\ peer[h] # NoPeer
<1> SUFFICES ASSUME NEW h \in Generations PROVE Chain(h)'
  BY DEF RotationChain
<1>0. \A g \in Generations : Chain(g)
  BY DEF RotationChain
<1>t. /\ DOMAIN state = Generations
      /\ DOMAIN peer = Generations
      /\ state = [g \in Generations |-> state[g]]
      /\ peer = [g \in Generations |-> peer[g]]
  BY DEF TypeOK
<1>1. CASE UNCHANGED <<state, peer>>
  BY <1>0, <1>1
<1>2. ASSUME NEW k \in Keys, NEW g \in Generations, NEW at \in Times, Replaces(k, g, at)
      PROVE  Chain(h)'
  <2>1. state' = [state EXCEPT ![g] = "pending"] /\ peer' = peer /\ Challengeable(g)
    BY <1>2 DEF Replaces
  <2>2. state[g] = "pending" \/ (g = 1 /\ state[g] = "none")
    BY <2>1 DEF Challengeable
  <2>3. \A i \in Generations : state'[i] = IF i = g THEN "pending" ELSE state[i]
    BY <2>1, <1>t
  <2> QED BY <1>0, <2>1, <2>2, <2>3, GenerationFacts
<1>4. ASSUME NEW k \in Keys, NEW c \in Keys, NEW g \in Generations, NEW at \in Times,
             Activates(k, c, g, at)
      PROVE  Chain(h)'
  <2>1. /\ state' = [state EXCEPT ![g] = "active"]
        /\ peer' = [peer EXCEPT ![g] = k.peer]
        /\ state[g] = "pending"
    BY <1>4 DEF Activates
  <2>3. \A i \in Generations :
          /\ state'[i] = IF i = g THEN "active" ELSE state[i]
          /\ i # g => peer'[i] = peer[i]
    BY <2>1, <1>t
  <2> QED BY <1>0, <2>1, <2>3, GenerationFacts
<1>6. ASSUME NEW g \in Generations, NEW at \in Times, Rotates(g, at) PROVE Chain(h)'
  <2>1. /\ state' = [state EXCEPT ![g] = "rotated", ![g + 1] = "pending"]
        /\ peer' = peer
        /\ state[g] = "active"
        /\ g + 1 \in Generations
    BY <1>6 DEF Rotates
  <2>2. peer[g] # NoPeer
    BY <2>1 DEF ActivatedByItsChallenge
  <2>3. \A i \in Generations :
          state'[i] = IF i = g + 1 THEN "pending" ELSE IF i = g THEN "rotated" ELSE state[i]
    BY <2>1, <1>t
  <2>4. state[g + 1] = "none"
    BY <1>0, <2>1, GenerationFacts
  <2>5. ASSUME h > 1, state'[h] # "none" PROVE state'[h - 1] = "rotated"
    <3>2. CASE h = g + 1
      <4>1. h - 1 = g /\ g # g + 1
        BY <3>2, GenerationFacts
      <4> QED BY <2>3, <4>1
    <3>3. CASE h # g + 1
      <4>1. state[h] # "none"
        BY <2>1, <2>3, <2>5, <3>3
      <4>2. state[h - 1] = "rotated" /\ h - 1 \in Generations
        BY <1>0, <2>5, <4>1, GenerationFacts
      <4>3. h - 1 # g /\ h - 1 # g + 1
        BY <2>1, <2>4, <4>2
      <4> QED BY <2>3, <4>2, <4>3
    <3> QED BY <3>2, <3>3
  <2>6. ASSUME state'[h] = "rotated"
        PROVE  h < MaxGeneration /\ state'[h + 1] # "none" /\ peer'[h] # NoPeer
    <3>1. CASE h = g
      <4>1. g < MaxGeneration
        BY <2>1, GenerationFacts
      <4>2. state'[g + 1] = "pending"
        BY <2>1, <2>3
      <4> QED BY <2>1, <2>2, <3>1, <4>1, <4>2
    <3>2. CASE h # g
      <4>1. state[h] = "rotated"
        BY <2>3, <2>6, <3>2
      <4>2. h < MaxGeneration /\ state[h + 1] # "none" /\ peer[h] # NoPeer /\ h + 1 \in Generations
        BY <1>0, <4>1, GenerationFacts
      <4>3. state'[h + 1] # "none"
        BY <2>3, <4>2
      <4> QED BY <2>1, <4>2, <4>3
    <3> QED BY <3>1, <3>2
  <2> QED BY <2>5, <2>6
<1>7. ASSUME NEW g \in Generations, NEW at \in Times, Revokes(g, at) PROVE Chain(h)'
  <2>1. /\ state' = [state EXCEPT ![g] = "revoked"]
        /\ peer' = peer
        /\ state[g] \in {"pending", "active"}
    BY <1>7 DEF Revokes
  <2>3. \A i \in Generations : state'[i] = IF i = g THEN "revoked" ELSE state[i]
    BY <2>1, <1>t
  <2> QED BY <1>0, <2>1, <2>3, GenerationFacts
<1> QED
  BY <1>1, <1>2, <1>4, <1>6, <1>7, Effects DEF StoreUnchanged, Issues, Grants

-----------------------------------------------------------------------------
(***************************************************************************)
(* What never changes back                                                 *)
(***************************************************************************)
LEMMA FreshSuccessor ==
  ASSUME RotationChain, NEW g \in Generations, NEW at \in Times, Rotates(g, at)
  PROVE  state[g + 1] = "none" /\ g + 1 \in Generations /\ g + 1 # g
<1>1. state[g] = "active" /\ g + 1 \in Generations
  BY DEF Rotates
<1>2. PICK h \in Generations : h = g + 1 /\ h > 1 /\ h - 1 = g /\ h # g
  BY <1>1, GenerationFacts
<1>3. state[h] # "none" => state[h - 1] = "rotated"
  BY <1>2 DEF RotationChain
<1> QED BY <1>1, <1>2, <1>3

LEMMA SettledStays ==
  ASSUME TypeOK, Consistent, RotationChain, [Next]_vars, NEW h \in Generations,
         state[h] \notin {"none", "pending"}
  PROVE  state'[h] \notin {"none", "pending"}
<1> USE DEF TypeOK
<1>1. ASSUME NEW k \in Keys, NEW g \in Generations, NEW at \in Times, Replaces(k, g, at)
      PROVE  state'[h] = state[h]
  BY <1>1 DEF Replaces, Challengeable
<1>2. ASSUME NEW k \in Keys, NEW c \in Keys, NEW g \in Generations, NEW at \in Times,
             Activates(k, c, g, at)
      PROVE  state'[h] = state[h]
  BY <1>2 DEF Activates
<1>3. ASSUME NEW g \in Generations, NEW at \in Times, Rotates(g, at)
      PROVE  state'[h] \in {state[h], "rotated"}
  BY <1>3, FreshSuccessor DEF Rotates
<1>4. ASSUME NEW g \in Generations, NEW at \in Times, Revokes(g, at)
      PROVE  state'[h] \in {state[h], "revoked"}
  BY <1>4 DEF Revokes
<1> QED BY <1>1, <1>2, <1>3, <1>4, Effects DEF StoreUnchanged, Issues, Grants

LEMMA ReservationsAreKept ==
  ASSUME TypeOK, Consistent, [Next]_vars, NEW l \in Keys, reservation[l].state # "none"
  PROVE  /\ reservation'[l].generation = reservation[l].generation
         /\ reservation'[l].at = reservation[l].at
         /\ reservation[l].state = "issued" => reservation'[l].state = "issued"
<1>1. ASSUME NEW k \in Keys, NEW g \in Generations, NEW at \in Times, Replaces(k, g, at)
      PROVE  /\ reservation'[l].generation = reservation[l].generation
             /\ reservation'[l].at = reservation[l].at
             /\ reservation[l].state = "issued" => reservation'[l].state = "issued"
  BY <1>1 DEF Replaces, LiveReservations
<1>2. ASSUME NEW w \in Services, NEW k \in Keys, Issues(w, k)
      PROVE  /\ reservation'[l].generation = reservation[l].generation
             /\ reservation'[l].at = reservation[l].at
             /\ reservation[l].state = "issued" => reservation'[l].state = "issued"
  BY <1>2 DEF Issues
<1> QED  BY <1>1, <1>2, WhoReserves

\* Which reservations turn issued.
LEMMA NewlyIssued ==
  ASSUME TypeOK, Consistent, [Next]_vars, NEW l \in Keys, reservation'[l].state = "issued"
  PROVE  \/ reservation[l].state = "issued"
         \/ /\ reservation[l].state = "reserved"
            /\ \E w \in Services : Issues(w, l)
<1>1. ASSUME NEW k \in Keys, NEW g \in Generations, NEW at \in Times, Replaces(k, g, at)
      PROVE  reservation[l].state = "issued"
  BY <1>1 DEF Replaces
<1>2. ASSUME NEW w \in Services, NEW k \in Keys, Issues(w, k)
      PROVE  reservation[l].state = "issued" \/ (reservation[l].state = "reserved" /\ k = l)
  BY <1>2 DEF Issues
<1> QED  BY <1>1, <1>2, WhoReserves

\* A challenge is consumed once, by an activation, and stays as it was then.
LEMMA NewlyConsumed ==
  ASSUME TypeOK, Consistent, Recorded, [Next]_vars, NEW l \in Keys
  PROVE  /\ challenge'[l].state = "consumed" =>
              \/ challenge[l].state = "consumed"
              \/ \E k \in Keys, g \in Generations, at \in Times : Activates(k, l, g, at)
         /\ challenge[l].state = "consumed" =>
              /\ challenge'[l].state = "consumed"
              /\ challenge'[l].consumed = challenge[l].consumed
         /\ challenge[l].state # "none" =>
              challenge'[l].service = challenge[l].service /\ challenge'[l].state # "none"
<1> DEFINE Kept == /\ challenge'[l].service = challenge[l].service
                   /\ challenge'[l].consumed = challenge[l].consumed
                   /\ \/ challenge'[l].state = challenge[l].state
                      \/ challenge[l].state = "pending" /\ challenge'[l].state = "invalidated"
<1>1. ASSUME NEW k \in Keys, NEW g \in Generations, NEW at \in Times, Replaces(k, g, at)
      PROVE  Kept
  BY <1>1 DEF Replaces, PendingChallenges
<1>2. ASSUME NEW w \in Services, NEW k \in Keys, Issues(w, k)
      PROVE  Kept \/ (challenge[l].state = "none" /\ challenge'[l].state = "pending")
  BY <1>2 DEF Issues, Recorded
<1>3. ASSUME NEW k \in Keys, NEW c \in Keys, NEW g \in Generations, NEW at \in Times,
             Activates(k, c, g, at)
      PROVE  \/ Kept
             \/ /\ challenge[l].state = "pending"
                /\ challenge'[l].service = challenge[l].service
                /\ challenge'[l].state = "consumed"
                /\ Activates(k, l, g, at)
  BY <1>3 DEF Activates
<1>4. ASSUME NEW g \in Generations, NEW at \in Times, Revokes(g, at)
      PROVE  Kept
  BY <1>4 DEF Revokes, PendingChallenges
<1>5. ASSUME UNCHANGED challenge
      PROVE  Kept
  BY <1>5
<1>6. \/ Kept
      \/ challenge[l].state = "none" /\ challenge'[l].state = "pending"
      \/ /\ challenge[l].state = "pending"
         /\ challenge'[l].service = challenge[l].service
         /\ challenge'[l].state = "consumed"
         /\ \E k \in Keys, g \in Generations, at \in Times : Activates(k, l, g, at)
  BY <1>1, <1>2, <1>3, <1>4, <1>5, Effects DEF StoreUnchanged, Grants, Rotates
<1> QED BY <1>6

-----------------------------------------------------------------------------
(***************************************************************************)
(* The live ceremony is the newest, and ends with the binding              *)
(***************************************************************************)
LEMMA StepConsumedIsSettled ==
  ASSUME TypeOK, Consistent, Recorded, RotationChain, ConsumedIsSettled, [Next]_vars
  PROVE  ConsumedIsSettled'
<1> SUFFICES ASSUME NEW k \in Keys, challenge'[k].state = "consumed"
             PROVE  state'[reservation'[k].generation] \notin {"none", "pending"}
  BY DEF ConsumedIsSettled
<1>1. CASE challenge[k].state = "consumed"
  <2>1. reservation[k].state # "none" /\ reservation[k].generation \in Generations
    BY <1>1 DEF Recorded
  <2> QED BY <1>1, <2>1, ReservationsAreKept, SettledStays DEF ConsumedIsSettled
<1>2. CASE \E o \in Keys, g \in Generations, at \in Times : Activates(o, k, g, at)
  BY <1>2 DEF Activates, TypeOK
<1> QED BY <1>1, <1>2, NewlyConsumed

LEMMA StepStillLive ==
  ASSUME TypeOK, Consistent, Recorded, RotationChain, StillLive, [Next]_vars
  PROVE  StillLive'
<1> SUFFICES ASSUME NEW h \in Generations, NEW k \in Keys, state'[h] = "pending",
                    reservation'[k].state # "none", reservation'[k].generation = h
             PROVE  \E l \in Keys : l \in Live(h)'
  BY DEF StillLive
<1>0. /\ reservation[k].state # "none" /\ reservation[k].generation = h
         => state[h] # "none"
      /\ state[h] = "pending" /\ reservation[k].state # "none" /\ reservation[k].generation = h
         => \E l \in Keys : l \in Live(h)
  BY DEF Recorded, StillLive
<1> HIDE DEF Live
<1>1. CASE StoreUnchanged
  BY <1>0, <1>1, LiveOtherwise DEF StoreUnchanged
<1>2. ASSUME NEW c \in Keys, NEW g \in Generations, NEW at \in Times, Replaces(c, g, at)
      PROVE  \E l \in Keys : l \in Live(h)'
  <2>1. CASE h = g
    BY <1>2, <2>1, LiveAfterReplacement
  <2>2. CASE h # g
    <3>1. reservation[k].state # "none" /\ reservation[k].generation = h /\ state[h] = "pending"
      BY <1>2, <2>2 DEF Replaces, LiveReservations, TypeOK
    <3> QED BY <1>0, <1>2, <2>2, <3>1, LiveAfterReplacement
  <2> QED BY <2>1, <2>2
<1>3. ASSUME NEW w \in Services, NEW c \in Keys, Issues(w, c)
      PROVE  \E l \in Keys : l \in Live(h)'
  <2>1. reservation[k].state # "none" /\ reservation[k].generation = h /\ state[h] = "pending"
    BY <1>3 DEF Issues
  <2> QED BY <1>0, <1>3, <2>1, LiveAfterIssue
<1>4. ASSUME NEW o \in Keys, NEW c \in Keys, NEW g \in Generations, NEW at \in Times,
             Activates(o, c, g, at)
      PROVE  \E l \in Keys : l \in Live(h)'
  <2>1. /\ reservation[k].state # "none" /\ reservation[k].generation = h
        /\ state[h] = "pending" /\ h # g
    BY <1>4 DEF Activates, TypeOK
  <2>2. c \notin Live(h)
    BY <1>4, <2>1 DEF Activates, Live, LiveReservations, PendingChallenges
  <2> QED BY <1>0, <1>4, <2>1, <2>2, LiveAfterActivation
<1>5. ASSUME NEW g \in Generations, NEW a \in Actions, NEW at \in Times, Grants(g, a, at)
      PROVE  \E l \in Keys : l \in Live(h)'
  BY <1>0, <1>5, LiveOtherwise DEF Grants
<1>6. ASSUME NEW g \in Generations, NEW at \in Times, Rotates(g, at)
      PROVE  \E l \in Keys : l \in Live(h)'
  <2>1. /\ reservation[k].state # "none"
        /\ reservation[k].generation = h
        /\ state[h] = "pending"
    BY <1>0, <1>6, FreshSuccessor DEF Rotates, TypeOK
  <2> QED BY <1>0, <1>6, <2>1, LiveOtherwise
<1>7. ASSUME NEW g \in Generations, NEW at \in Times, Revokes(g, at)
      PROVE  \E l \in Keys : l \in Live(h)'
  <2>1. /\ reservation[k].state # "none" /\ reservation[k].generation = h
        /\ state[h] = "pending" /\ h # g
    BY <1>7 DEF Revokes, TypeOK
  <2> QED BY <1>0, <1>7, <2>1, LiveAfterRevocation
<1> QED BY <1>1, <1>2, <1>3, <1>4, <1>5, <1>6, <1>7, Effects

LEMMA StepLiveIsNewest ==
  ASSUME TypeOK, Consistent, Recorded, OneLiveCeremony, StillLive, LiveIsNewest, [Next]_vars
  PROVE  LiveIsNewest'
<1> SUFFICES ASSUME NEW h \in Generations, NEW c \in Live(h)', NEW k \in Keys,
                    reservation'[k].state = "issued", reservation'[k].generation = h
             PROVE  reservation'[k].at <= reservation'[c].at
  BY DEF LiveIsNewest
<1> HIDE DEF Live
<1>0. \A l \in Keys : reservation[l].at \in Nat
  BY BoundsAreNaturals DEF TypeOK, Reservations
<1>a. ASSUME c \in Live(h), reservation[k].state = "issued", reservation[k].generation = h
      PROVE  reservation'[k].at <= reservation'[c].at
  <2>1. c \in Keys /\ reservation[c].state # "none"
    BY <1>a DEF Live, LiveReservations, PendingChallenges, Recorded
  <2>2. reservation[k].at <= reservation[c].at
    BY <1>a DEF LiveIsNewest
  <2> QED BY <1>a, <2>1, <2>2, ReservationsAreKept
<1>b. ASSUME reservation[k].state = "issued" PROVE reservation[k].generation = h
  BY <1>b, ReservationsAreKept
<1>1. CASE StoreUnchanged
  BY <1>a, <1>1, LiveOtherwise DEF StoreUnchanged
<1>2. ASSUME NEW n \in Keys, NEW g \in Generations, NEW at \in Times, Replaces(n, g, at)
      PROVE  reservation'[k].at <= reservation'[c].at
  <2>1. /\ reservation[k].state = "issued" /\ reservation[k].generation = h
        /\ reservation'[k].at = reservation[k].at
    BY <1>2, <1>b, ReservationsAreKept DEF Replaces
  <2>2. CASE h # g
    BY <1>2, <1>a, <2>1, <2>2, LiveAfterReplacement
  <2>3. CASE h = g
    <3>1. c = n /\ reservation'[c].at = at
      <4>1. Live(h)' = {n}
        BY <1>2, <2>3, LiveAfterReplacement
      <4>2. c = n
        BY <4>1
      <4> QED BY <1>2, <4>2 DEF Replaces
    <3>2. state[g] = "pending"
      <4>1. state[g] # "none"
        BY <2>1, <2>3 DEF Recorded
      <4> QED BY <1>2, <4>1 DEF Replaces, Challengeable
    <3>3. PICK l \in Keys : l \in Live(g)
      BY <2>1, <2>3, <3>2 DEF StillLive
    <3>4. reservation[k].at <= reservation[l].at
      BY <2>1, <2>3, <3>3 DEF LiveIsNewest
    <3>5. reservation[l].at <= at
      BY <1>2, <3>3 DEF Replaces, ReplacesNoLaterOne, Live
    <3>6. reservation[k].at \in Nat /\ reservation[l].at \in Nat /\ at \in Nat
      BY <1>0, BoundsAreNaturals
    <3> QED BY <2>1, <3>1, <3>4, <3>5, <3>6
  <2> QED BY <2>2, <2>3
<1>3. ASSUME NEW w \in Services, NEW i \in Keys, Issues(w, i)
      PROVE  reservation'[k].at <= reservation'[c].at
  <2>0. c \in Live(h)
    BY <1>3, LiveAfterIssue
  <2>1. CASE k # i
    <3>1. reservation[k].state = "issued"
      BY <1>3, <2>1 DEF Issues
    <3> QED BY <1>a, <1>b, <2>0, <3>1
  <2>2. CASE k = i
    <3>1. k \in Live(h)
      BY <1>3, <2>2 DEF Issues, Live, LiveReservations
    <3>2. c = k
      BY <2>0, <3>1 DEF OneLiveCeremony, Live
    <3>3. reservation'[k].at = reservation[k].at
      BY <1>3, <2>2 DEF Issues
    <3> QED BY <1>0, <3>2, <3>3
  <2> QED BY <2>1, <2>2
<1>4. ASSUME NEW o \in Keys, NEW d \in Keys, NEW g \in Generations, NEW at \in Times,
             Activates(o, d, g, at)
      PROVE  reservation'[k].at <= reservation'[c].at
  <2>1. c \in Live(h)
    BY <1>4, LiveAfterActivation
  <2>2. reservation[k].state = "issued"
    BY <1>4 DEF Activates
  <2> QED BY <1>a, <1>b, <2>1, <2>2
<1>5. ASSUME NEW g \in Generations, NEW a \in Actions, NEW at \in Times, Grants(g, a, at)
      PROVE  reservation'[k].at <= reservation'[c].at
  BY <1>5, <1>a, <1>b, LiveOtherwise DEF Grants
<1>6. ASSUME NEW g \in Generations, NEW at \in Times, Rotates(g, at)
      PROVE  reservation'[k].at <= reservation'[c].at
  BY <1>6, <1>a, <1>b, LiveOtherwise DEF Rotates
<1>7. ASSUME NEW g \in Generations, NEW at \in Times, Revokes(g, at)
      PROVE  reservation'[k].at <= reservation'[c].at
  BY <1>7, <1>a, <1>b, LiveAfterRevocation DEF Revokes
<1> QED BY <1>1, <1>2, <1>3, <1>4, <1>5, <1>6, <1>7, Effects

LEMMA StepNewest ==
  ASSUME TypeOK, Consistent, Recorded, RotationChain, ConsumedIsSettled, LiveIsNewest,
         NewestChallengeActivates, [Next]_vars
  PROVE  NewestChallengeActivates'
<1> SUFFICES ASSUME NEW g \in Generations, NEW c \in Keys, NEW k \in Keys, Consumed(c, g)',
                    reservation'[k].state = "issued", reservation'[k].generation = g
             PROVE  reservation'[k].at <= reservation'[c].at
  BY DEF NewestChallengeActivates
<1>1. CASE challenge[c].state = "consumed"
  <2>1. reservation[c].state = "issued" /\ reservation[c].generation = g
    BY <1>1, ReservationsAreKept DEF Recorded, Consumed
  <2>2. state[g] \notin {"none", "pending"}
    BY <1>1, <2>1 DEF ConsumedIsSettled
  <2>3. reservation[k].state = "issued" \/ \E w \in Services : Issues(w, k)
    BY NewlyIssued
  <2>4. CASE reservation[k].state = "issued"
    <3>1. reservation[k].generation = g
      BY <2>4, ReservationsAreKept
    <3>2. reservation[k].at <= reservation[c].at
      BY <1>1, <2>1, <2>4, <3>1 DEF NewestChallengeActivates, Consumed
    <3> QED BY <2>1, <2>4, <3>2, ReservationsAreKept
  <2>5. CASE \E w \in Services : Issues(w, k)
    <3>1. reservation[k].generation = g /\ state[g] = "pending"
      BY <2>5 DEF Issues
    <3> QED BY <2>2, <3>1
  <2> QED BY <2>3, <2>4, <2>5
<1>2. CASE \E o \in Keys, h \in Generations, at \in Times : Activates(o, c, h, at)
  <2>1. PICK o \in Keys, h \in Generations, at \in Times : Activates(o, c, h, at)
    BY <1>2
  <2>2. reservation' = reservation /\ challenge[c].state = "pending" /\ h = g
    BY <2>1 DEF Activates, Consumed
  <2>3. c \in Live(g)
    BY <2>1, <2>2 DEF Activates, Live, PendingChallenges
  <2> QED BY <2>2, <2>3 DEF LiveIsNewest
<1> QED BY <1>1, <1>2, NewlyConsumed DEF Consumed

-----------------------------------------------------------------------------
(***************************************************************************)
(* Activation                                                              *)
(***************************************************************************)
LEMMA DeliveredStays ==
  ASSUME TypeOK, Consistent, [Next]_vars
  PROVE  delivered \subseteq delivered'
<1>1. ASSUME NEW w \in Services, NEW k \in Keys, Issues(w, k)
      PROVE  delivered \subseteq delivered'
  BY <1>1 DEF Issues
<1> QED BY <1>1, OnlyIssuesDeliver

\* Only an activation changes what is recorded of confirmations.
LEMMA OnlyActivationConfirms ==
  ASSUME TypeOK, Consistent, [Next]_vars
  PROVE  \/ UNCHANGED <<peer, confirmation>> /\ \A g \in Generations :
              state'[g] \in {"active", "rotated"} => state[g] \in {"active", "rotated"}
         \/ \E k, c \in Keys, g \in Generations, at \in Times : Activates(k, c, g, at)
<1> DEFINE Kept == UNCHANGED <<peer, confirmation>> /\ \A g \in Generations :
              state'[g] \in {"active", "rotated"} => state[g] \in {"active", "rotated"}
<1> USE DEF TypeOK
<1>1. ASSUME NEW k \in Keys, NEW g \in Generations, NEW at \in Times, Replaces(k, g, at)
      PROVE  Kept
  BY <1>1 DEF Replaces
<1>2. ASSUME NEW g \in Generations, NEW at \in Times, Rotates(g, at) PROVE Kept
  BY <1>2 DEF Rotates
<1>3. ASSUME NEW g \in Generations, NEW at \in Times, Revokes(g, at) PROVE Kept
  BY <1>3 DEF Revokes
<1> QED BY <1>1, <1>2, <1>3, Effects DEF StoreUnchanged, Issues, Grants

\* A consumed challenge of a generation stays the same one.
LEMMA ConsumedStays ==
  ASSUME TypeOK, Consistent, Recorded, [Next]_vars, NEW c \in Keys, NEW g, Consumed(c, g)
  PROVE  /\ Consumed(c, g)'
         /\ challenge'[c].consumed = challenge[c].consumed
         /\ challenge'[c].service = challenge[c].service
         /\ reservation'[c].at = reservation[c].at
BY NewlyConsumed, ReservationsAreKept DEF Consumed, Recorded

LEMMA StepActivated ==
  ASSUME TypeOK, Consistent, Recorded, ConsumedIsSettled, ActivatedByItsChallenge, [Next]_vars
  PROVE  ActivatedByItsChallenge'
<1> DEFINE By(c, h) ==
             /\ Consumed(c, h)
             /\ \A d \in Keys : Consumed(d, h) => d = c
             /\ c.peer = peer[h]
             /\ reservation[c].at <= challenge[c].consumed
             /\ challenge[c].consumed < Expires(c)
             /\ [key |-> c, service |-> challenge[c].service] \in delivered
<1> SUFFICES ASSUME NEW h \in Generations
             PROVE  /\ state'[h] \in {"active", "rotated"} => peer'[h] # NoPeer
                    /\ peer'[h] # NoPeer => \E c \in Keys : By(c, h)'
  BY DEF ActivatedByItsChallenge
<1>0. /\ state[h] \in {"active", "rotated"} => peer[h] # NoPeer
      /\ peer[h] # NoPeer => \E c \in Keys : By(c, h)
  BY DEF ActivatedByItsChallenge
<1>1. ASSUME NEW c \in Keys, By(c, h), peer'[h] = peer[h],
             \A d \in Keys : Consumed(d, h)' => Consumed(d, h)
      PROVE  By(c, h)'
  <2>1. /\ Consumed(c, h)'
        /\ challenge'[c].consumed = challenge[c].consumed
        /\ challenge'[c].service = challenge[c].service
        /\ reservation'[c].at = reservation[c].at
    BY <1>1, ConsumedStays
  <2>2. Expires(c)' = Expires(c)
    BY <2>1 DEF Expires
  <2> QED BY <1>1, <2>1, <2>2, DeliveredStays
<1>2. CASE \E k, c \in Keys, g \in Generations, at \in Times : Activates(k, c, g, at)
  <2>1. PICK k \in Keys, c \in Keys, g \in Generations, at \in Times : Activates(k, c, g, at)
    BY <1>2
  <2>2. \A d \in Keys \ {c} : Consumed(d, h)' => Consumed(d, h)
    BY <2>1 DEF Activates, Consumed
  <2>3. CASE h = g
    <3>1. peer'[h] = k.peer /\ k.peer \in Peers
      BY <2>1, <2>3 DEF Activates, TypeOK, Keys
    <3>2. \A d \in Keys : ~Consumed(d, h)
      BY <2>1, <2>3 DEF Activates, Consumed, ConsumedIsSettled
    <3>3. /\ Consumed(c, h)'
          /\ c.peer = k.peer
          /\ reservation'[c].at <= challenge'[c].consumed
          /\ challenge'[c].consumed < Expires(c)'
          /\ [key |-> c, service |-> challenge'[c].service] \in delivered'
      BY <2>1, <2>3 DEF Activates, Consumed, Expires
    <3>4. By(c, h)'
      BY <2>2, <3>1, <3>2, <3>3
    <3> QED BY <3>1, <3>4, SentinelAssumption
  <2>4. CASE h # g
    <3>1. peer'[h] = peer[h] /\ state'[h] = state[h] /\ ~Consumed(c, h)'
      BY <2>1, <2>4 DEF Activates, Consumed, TypeOK
    <3>2. \A d \in Keys : Consumed(d, h)' => Consumed(d, h)
      BY <2>2, <3>1
    <3> QED BY <1>0, <1>1, <3>1, <3>2
  <2> QED BY <2>3, <2>4
<1>3. CASE ~\E k, c \in Keys, g \in Generations, at \in Times : Activates(k, c, g, at)
  <2>1. /\ peer' = peer
        /\ state'[h] \in {"active", "rotated"} => state[h] \in {"active", "rotated"}
    BY <1>3, OnlyActivationConfirms
  <2>2. ASSUME NEW d \in Keys, Consumed(d, h)' PROVE Consumed(d, h)
    <3>1. challenge[d].state = "consumed"
      BY <1>3, <2>2, NewlyConsumed DEF Consumed
    <3> QED BY <2>2, <3>1, ReservationsAreKept DEF Consumed, Recorded
  <2> QED BY <1>0, <1>1, <2>1, <2>2
<1> QED BY <1>2, <1>3

LEMMA StepOneNonce ==
  ASSUME TypeOK, Consistent, Recorded, OneNoncePerOperation, [Next]_vars
  PROVE  OneNoncePerOperation'
<1> SUFFICES ASSUME NEW n \in delivered'
             PROVE  /\ challenge'[n.key].state # "none"
                    /\ n.service = challenge'[n.key].service
  BY DEF OneNoncePerOperation
<1>1. CASE n \in delivered
  <2>1. n.key \in Keys
    BY <1>1 DEF TypeOK, Nonces
  <2> QED BY <1>1, <2>1, NewlyConsumed DEF OneNoncePerOperation
<1>2. CASE n \notin delivered
  <2>1. PICK w \in Services, k \in Keys : Issues(w, k)
    BY <1>2, OnlyIssuesDeliver
  <2> QED BY <1>2, <2>1 DEF Issues
<1> QED BY <1>1, <1>2

LEMMA StepFaithful ==
  ASSUME TypeOK, Consistent, Recorded, ConsumedIsSettled, ConfirmationsAreFaithful, [Next]_vars
  PROVE  ConfirmationsAreFaithful'
<1> DEFINE Row(k) == confirmation[k].generation
           Faithful(k) ==
             LET g == confirmation[k].generation
                 n == confirmation[k].nonce IN
             g # 0 =>
               /\ n \in delivered
               /\ Consumed(n.key, g)
               /\ n.service = challenge[n.key].service
               /\ k.peer = peer[g]
               /\ \A l \in Keys : confirmation[l].generation = g => l = k
<1> SUFFICES ASSUME NEW k \in Keys PROVE Faithful(k)'
  BY DEF ConfirmationsAreFaithful
<1>0. \A l \in Keys : Faithful(l)
  BY DEF ConfirmationsAreFaithful
<1>1. ASSUME confirmation'[k] = confirmation[k], confirmation[k].generation # 0,
             peer'[confirmation[k].generation] = peer[confirmation[k].generation],
             \A l \in Keys : confirmation'[l].generation = confirmation[k].generation => l = k
      PROVE  Faithful(k)'
  <2>1. confirmation[k].nonce.key \in Keys
    BY <1>0, <1>1 DEF TypeOK, Nonces
  <2> QED BY <1>0, <1>1, <2>1, ConsumedStays, DeliveredStays
<1>2. CASE confirmation'[k].generation = 0
  BY <1>2
<1>3. CASE \E o, c \in Keys, g \in Generations, at \in Times : Activates(o, c, g, at)
  <2>1. PICK o \in Keys, c \in Keys, g \in Generations, at \in Times : Activates(o, c, g, at)
    BY <1>3
  <2>2. g # 0
    BY GenerationFacts
  <2>3. ASSUME NEW l \in Keys PROVE confirmation[l].generation # g
    <3>1. confirmation[l].generation = g => Consumed(confirmation[l].nonce.key, g) /\ confirmation[l].nonce.key \in Keys
      BY <1>0, <2>2 DEF TypeOK, Nonces
    <3>2. state[g] = "pending"
      BY <2>1 DEF Activates
    <3> QED BY <3>1, <3>2 DEF Consumed, ConsumedIsSettled
  <2>4. /\ confirmation'[o] = [generation |-> g, nonce |-> [key |-> c, service |-> challenge[c].service]]
        /\ \A l \in Keys \ {o} : confirmation'[l] = confirmation[l]
        /\ \A h \in Generations : peer'[h] = IF h = g THEN o.peer ELSE peer[h]
    BY <2>1 DEF Activates, TypeOK
  <2>5. CASE k = o
    <3>1. /\ [key |-> c, service |-> challenge[c].service] \in delivered'
          /\ Consumed(c, g)'
          /\ challenge'[c].service = challenge[c].service
          /\ peer'[g] = o.peer
      BY <2>1, <2>4 DEF Activates, Consumed
    <3>2. \A l \in Keys : confirmation'[l].generation = g => l = o
      BY <2>3, <2>4
    <3> QED BY <2>4, <2>5, <3>1, <3>2
  <2>6. CASE k # o
    <3>1. confirmation'[k] = confirmation[k]
      BY <2>4, <2>6
    <3>2. CASE confirmation[k].generation # 0
      <4>1. confirmation[k].generation \in Generations /\ confirmation[k].generation # g
        BY <2>3, <3>2 DEF TypeOK, Confirmations
      <4>2. peer'[confirmation[k].generation] = peer[confirmation[k].generation]
        BY <2>4, <4>1
      <4>3. \A l \in Keys : confirmation'[l].generation = confirmation[k].generation => l = k
        BY <1>0, <2>4, <3>2, <4>1
      <4> QED BY <1>1, <3>1, <3>2, <4>2, <4>3
    <3> QED BY <1>2, <3>1, <3>2
  <2> QED BY <2>5, <2>6
<1>4. CASE UNCHANGED <<peer, confirmation>>
  BY <1>0, <1>1, <1>2, <1>4
<1> QED BY <1>3, <1>4, OnlyActivationConfirms

-----------------------------------------------------------------------------
(***************************************************************************)
(* Owner authority                                                         *)
(***************************************************************************)
Retired(a) == IF a = "rotate" THEN "rotated" ELSE "revoked"

\* One conjunct of RetiredByExactAuthority.
RetiredExactly(h, b) ==
  LET z == authorization[h][b] IN
  /\ state[h] = Retired(b) <=> z.state = "consumed"
  /\ z.state = "consumed" =>
       /\ z.revision + 1 = revision[h]
       /\ z.at <= z.consumed
       /\ z.consumed < z.at + AuthorizationTtl
       /\ since[h] <= z.consumed

LEMMA RetiredConjuncts ==
  RetiredByExactAuthority <=> \A h \in Generations, b \in Actions : RetiredExactly(h, b)
BY DEF RetiredByExactAuthority, RetiredExactly, Retired

\* A binding that is neither created, activated nor retired keeps its rows.
LEMMA UntouchedStaysRetired ==
  ASSUME NEW h, NEW b, RetiredExactly(h, b),
         authorization'[h][b] = authorization[h][b],
         state'[h] = state[h], revision'[h] = revision[h], since'[h] = since[h]
  PROVE  RetiredExactly(h, b)'
BY DEF RetiredExactly, Retired

\* An authorization that is not used up stands for no retirement.
LEMMA UnusedStaysUnused ==
  ASSUME NEW h, NEW b \in Actions, authorization'[h][b].state # "consumed",
         state'[h] \notin {"rotated", "revoked"} \/ state'[h] # Retired(b)
  PROVE  RetiredExactly(h, b)'
BY DEF RetiredExactly, Retired

LEMMA UseRetires ==
  ASSUME NEW g \in Generations, NEW a \in Actions, NEW at \in Times, Uses(g, a, at),
         state'[g] = Retired(a), revision'[g] = revision[g] + 1, since'[g] = since[g]
  PROVE  RetiredExactly(g, a)'
BY DEF Uses, RetiredExactly, Retired

LEMMA StepRetired ==
  ASSUME TypeOK, Consistent, RotationChain, RetiredByExactAuthority, [Next]_vars
  PROVE  RetiredByExactAuthority'
<1> SUFFICES ASSUME NEW h \in Generations, NEW b \in Actions PROVE RetiredExactly(h, b)'
  BY RetiredConjuncts DEF RetiredByExactAuthority, RetiredExactly, Retired
<1>0. RetiredExactly(h, b)
  BY RetiredConjuncts
<1>u. ASSUME state[h] \in {"none", "pending", "active"} PROVE authorization[h][b].state # "consumed"
  BY <1>0, <1>u DEF RetiredExactly, Retired
<1>1. CASE UNCHANGED <<state, revision, since, authorization>>
  BY <1>0, <1>1, UntouchedStaysRetired
<1>2. ASSUME NEW k \in Keys, NEW g \in Generations, NEW at \in Times, Replaces(k, g, at)
      PROVE  RetiredExactly(h, b)'
  <2>1. /\ authorization' = authorization
        /\ state'[h] = IF h = g THEN "pending" ELSE state[h]
        /\ revision'[h] = IF h = g THEN 1 ELSE revision[h]
        /\ state[h] # "none" => since'[h] = since[h]
        /\ h = g => state[h] \in {"none", "pending"}
    BY <1>2 DEF Replaces, Challengeable, TypeOK
  <2>2. CASE state'[h] \in {"none", "pending"}
    <3>1. authorization[h][b].state # "consumed"
      BY <1>u, <2>1, <2>2
    <3> QED BY <2>1, <2>2, <3>1, UnusedStaysUnused
  <2>3. CASE state'[h] \notin {"none", "pending"}
    BY <1>0, <2>1, <2>3, UntouchedStaysRetired
  <2> QED BY <2>2, <2>3
<1>3. ASSUME NEW k \in Keys, NEW c \in Keys, NEW g \in Generations, NEW at \in Times,
             Activates(k, c, g, at)
      PROVE  RetiredExactly(h, b)'
  <2>1. /\ authorization' = authorization
        /\ state[g] = "pending" /\ state'[g] = "active"
        /\ h # g => state'[h] = state[h] /\ revision'[h] = revision[h] /\ since'[h] = since[h]
    BY <1>3 DEF Activates, TypeOK
  <2>2. CASE h = g
    BY <1>u, <2>1, <2>2, UnusedStaysUnused
  <2>3. CASE h # g
    BY <1>0, <2>1, <2>3, UntouchedStaysRetired
  <2> QED BY <2>2, <2>3
<1>4. ASSUME NEW g \in Generations, NEW a \in Actions, NEW at \in Times, Grants(g, a, at)
      PROVE  RetiredExactly(h, b)'
  <2>1. /\ UNCHANGED <<state, revision, since>>
        /\ <<h, b>> # <<g, a>> => authorization'[h][b] = authorization[h][b]
        /\ authorization'[g][a].state = "pending"
        /\ state[g] \in {"pending", "active"}
    BY <1>4 DEF Grants, Eligible
  <2>2. CASE h = g /\ b = a
    BY <2>1, <2>2, UnusedStaysUnused
  <2>3. CASE ~(h = g /\ b = a)
    BY <1>0, <2>1, <2>3, UntouchedStaysRetired
  <2> QED BY <2>2, <2>3
<1>5. ASSUME NEW g \in Generations, NEW at \in Times, Rotates(g, at)
      PROVE  RetiredExactly(h, b)'
  <2>1. g + 1 \in Generations /\ g + 1 # g /\ state[g + 1] = "none"
    BY <1>5, FreshSuccessor
  <2>2. /\ Uses(g, "rotate", at)
        /\ state[g] = "active"
        /\ state'[g] = "rotated" /\ state'[g + 1] = "pending"
        /\ since'[g] = since[g]
        /\ \A i \in Generations \ {g, g + 1} :
             state'[i] = state[i] /\ revision'[i] = revision[i] /\ since'[i] = since[i]
    BY <1>5, <2>1 DEF Rotates, TypeOK
  <2>3. revision'[g] = revision[g] + 1
    <3>1. revision' = [[revision EXCEPT ![g] = @ + 1] EXCEPT ![g + 1] = 1]
      BY <1>5 DEF Rotates
    <3> QED BY <2>1, <3>1 DEF TypeOK
  <2>4. <<h, b>> # <<g, "rotate">> => authorization'[h][b] = authorization[h][b]
    BY <2>2 DEF Uses
  <2>5. CASE h = g /\ b = "rotate"
    <3>1. Retired("rotate") = "rotated"
      BY DEF Retired
    <3> QED BY <2>2, <2>3, <2>5, <3>1, UseRetires
  <2>6. CASE h = g /\ b = "revoke"
    <3>1. Retired("revoke") = "revoked"
      BY DEF Retired
    <3>2. authorization'[h][b].state # "consumed"
      BY <1>u, <2>2, <2>4, <2>6
    <3> QED BY <2>2, <2>6, <3>1, <3>2, UnusedStaysUnused
  <2>7. CASE h = g + 1
    <3>1. authorization'[h][b].state # "consumed"
      BY <1>u, <2>1, <2>4, <2>7
    <3> QED BY <2>2, <2>7, <3>1, UnusedStaysUnused
  <2>8. CASE h # g /\ h # g + 1
    BY <1>0, <2>2, <2>4, <2>8, UntouchedStaysRetired
  <2> QED BY <2>5, <2>6, <2>7, <2>8 DEF Actions
<1>6. ASSUME NEW g \in Generations, NEW at \in Times, Revokes(g, at)
      PROVE  RetiredExactly(h, b)'
  <2>1. /\ Uses(g, "revoke", at)
        /\ state[g] \in {"pending", "active"}
        /\ state'[g] = "revoked" /\ revision'[g] = revision[g] + 1 /\ since' = since
        /\ h # g => state'[h] = state[h] /\ revision'[h] = revision[h]
        /\ <<h, b>> # <<g, "revoke">> => authorization'[h][b] = authorization[h][b]
    BY <1>6 DEF Revokes, Uses, TypeOK
  <2>2. CASE h = g /\ b = "revoke"
    <3>1. Retired("revoke") = "revoked"
      BY DEF Retired
    <3> QED BY <2>1, <2>2, <3>1, UseRetires
  <2>3. CASE h = g /\ b = "rotate"
    <3>1. Retired("rotate") = "rotated"
      BY DEF Retired
    <3>2. authorization'[h][b].state # "consumed"
      BY <1>u, <2>1, <2>3
    <3> QED BY <2>1, <2>3, <3>1, <3>2, UnusedStaysUnused
  <2>4. CASE h # g
    BY <1>0, <2>1, <2>4, UntouchedStaysRetired
  <2> QED BY <2>2, <2>3, <2>4 DEF Actions
<1> QED BY <1>1, <1>2, <1>3, <1>4, <1>5, <1>6, Effects DEF StoreUnchanged, Issues

LEMMA StepOrdered ==
  ASSUME TypeOK, Consistent, RotationChain, Ordered, [Next]_vars
  PROVE  Ordered'
<1> SUFFICES ASSUME NEW i \in Generations, NEW j \in Generations, i < j, state'[j] # "none"
             PROVE  state'[i] = "rotated"
  BY DEF Ordered
<1>0. i # j /\ (j = 1 => FALSE) /\ (j = i + 1 \/ i + 1 < j)
  BY GenerationFacts
<1>1. state[j] # "none" => state[i] = "rotated"
  BY DEF Ordered
<1>2. ASSUME NEW k \in Keys, NEW g \in Generations, NEW at \in Times, Replaces(k, g, at)
      PROVE  state'[i] = "rotated"
  BY <1>0, <1>1, <1>2 DEF Replaces, Challengeable, TypeOK
<1>3. ASSUME NEW k \in Keys, NEW c \in Keys, NEW g \in Generations, NEW at \in Times,
             Activates(k, c, g, at)
      PROVE  state'[i] = "rotated"
  BY <1>0, <1>1, <1>3 DEF Activates, TypeOK
<1>4. ASSUME NEW g \in Generations, NEW at \in Times, Rotates(g, at)
      PROVE  state'[i] = "rotated"
  <2>1. PICK h \in Generations : h = g + 1 /\ state[h] = "none" /\ h # g
    BY <1>4, FreshSuccessor
  <2>2. /\ state' = [state EXCEPT ![g] = "rotated", ![h] = "pending"]
        /\ state[g] = "active"
    BY <1>4, <2>1 DEF Rotates
  <2>3. \A l \in Generations :
          state'[l] = IF l = h THEN "pending" ELSE IF l = g THEN "rotated" ELSE state[l]
    BY <2>2 DEF TypeOK
  <2>4. CASE j = h
    <3>1. i = g \/ i < g
      BY <2>1, <2>4, GenerationFacts
    <3>2. i < g => state[i] = "rotated"
      BY <2>2 DEF Ordered
    <3> QED BY <1>0, <2>3, <2>4, <3>1, <3>2
  <2>5. CASE j # h
    <3>1. state[i] = "rotated"
      BY <1>1, <2>2, <2>3, <2>5
    <3> QED BY <2>1, <2>3, <3>1
  <2> QED BY <2>4, <2>5
<1>5. ASSUME NEW g \in Generations, NEW at \in Times, Revokes(g, at)
      PROVE  state'[i] = "rotated"
  BY <1>0, <1>1, <1>5 DEF Revokes, TypeOK
<1> QED BY <1>1, <1>2, <1>3, <1>4, <1>5, Effects DEF StoreUnchanged, Issues, Grants

-----------------------------------------------------------------------------
(***************************************************************************)
(* The theorems                                                            *)
(***************************************************************************)
LEMMA InitialInvariant == Init => IInv
<1> SUFFICES ASSUME Init PROVE IInv
  OBVIOUS
<1>1. /\ \A g \in Generations : state[g] = "none" /\ peer[g] = NoPeer
      /\ \A k \in Keys : /\ reservation[k].state = "none"
                         /\ challenge[k].state = "none"
                         /\ confirmation[k].generation = 0
      /\ \A g \in Generations, a \in Actions : authorization[g][a].state = "none"
      /\ delivered = {}
      /\ \A w \in Services : pc[w] = "idle"
  BY DEF Init
<1>2. \A g \in Generations : LiveReservations(g) = {} /\ PendingChallenges(g) = {}
  BY <1>1 DEF LiveReservations, PendingChallenges
<1>3. Consistent /\ Recorded
  BY <1>1 DEF Consistent, CallConsistent, Recorded
<1>4. OneLiveCeremony /\ LiveChallengeIsOnPending /\ ConsumedIsSettled /\ StillLive
  BY <1>1, <1>2 DEF OneLiveCeremony, LiveChallengeIsOnPending, ConsumedIsSettled, StillLive
<1>5. LiveIsNewest
  BY <1>1, <1>2 DEF LiveIsNewest, Live
<1>6. NewestChallengeActivates /\ ActivatedByItsChallenge
  BY <1>1 DEF NewestChallengeActivates, ActivatedByItsChallenge, Consumed
<1>7. RotationChain /\ Ordered
  BY <1>1 DEF RotationChain, Ordered
<1>8. RetiredByExactAuthority
  BY <1>1 DEF RetiredByExactAuthority
<1>9. OneNoncePerOperation /\ ConfirmationsAreFaithful
  BY <1>1 DEF OneNoncePerOperation, ConfirmationsAreFaithful
<1> QED BY InitialTypes, <1>3, <1>4, <1>5, <1>6, <1>7, <1>8, <1>9 DEF IInv

LEMMA InductiveInvariant == IInv /\ [Next]_vars => IInv'
<1> SUFFICES ASSUME IInv, [Next]_vars PROVE IInv'
  OBVIOUS
<1> USE DEF IInv
<1>1. TypeOK' /\ Consistent' /\ Recorded'
  BY StepTypes, StepConsistent, StepRecorded
<1>2. OneLiveCeremony' /\ LiveChallengeIsOnPending' /\ ConsumedIsSettled'
  BY StepOneLive, StepLiveIsOnPending, StepConsumedIsSettled
<1>3. StillLive' /\ LiveIsNewest' /\ NewestChallengeActivates'
  BY StepStillLive, StepLiveIsNewest, StepNewest
<1>4. ActivatedByItsChallenge' /\ RotationChain' /\ Ordered'
  BY StepActivated, StepChain, StepOrdered
<1>5. RetiredByExactAuthority' /\ OneNoncePerOperation' /\ ConfirmationsAreFaithful'
  BY StepRetired, StepOneNonce, StepFaithful
<1> QED BY <1>1, <1>2, <1>3, <1>4, <1>5

\* IInv is inductive: however the services' transactions interleave, live
\* ceremonies, bindings, confirmations and authorizations stay related.
THEOREM Invariance == Spec => []IInv
BY InitialInvariant, InductiveInvariant, PTL DEF Spec

\* Every variable keeps its type.
THEOREM TypeCorrect == Spec => []TypeOK
<1>1. IInv => TypeOK
  BY DEF IInv
<1> QED BY <1>1, Invariance, PTL

\* A binding never has two live reservations or pending challenges, so the
\* unique indexes on them never refuse an insert.
THEOREM CeremoniesDoNotOverlap == Spec => []OneLiveCeremony
<1>1. IInv => OneLiveCeremony
  BY DEF IInv
<1> QED BY <1>1, Invariance, PTL

\* No challenge of a settled binding can still be confirmed.
THEOREM SettledIsUnconfirmable == Spec => []LiveChallengeIsOnPending
<1>1. IInv => LiveChallengeIsOnPending
  BY DEF IInv
<1> QED BY <1>1, Invariance, PTL

\* The challenge that activates a binding is the newest one issued for it.
THEOREM LostNonceIsRetired == Spec => []NewestChallengeActivates
<1>1. IInv => NewestChallengeActivates
  BY DEF IInv
<1> QED BY <1>1, Invariance, PTL

\* A verified peer stands on exactly one challenge, which expected that peer,
\* was unexpired when consumed and had been handed out.
THEOREM VerifiedPeerAnswered == Spec => []ActivatedByItsChallenge
<1>1. IInv => ActivatedByItsChallenge
  BY DEF IInv
<1> QED BY <1>1, Invariance, PTL

\* Generations form a chain of rotations of confirmed bindings.
THEOREM GenerationsChain == Spec => []RotationChain
<1>1. IInv => RotationChain
  BY DEF IInv
<1> QED BY <1>1, Invariance, PTL

\* Retirement and the use of an exact, unexpired, one-use authorization for it
\* come together.
THEOREM AuthorityIsExact == Spec => []RetiredByExactAuthority
<1>1. IInv => RetiredByExactAuthority
  BY DEF IInv
<1> QED BY <1>1, Invariance, PTL

\* An operation hands out one nonce at most, across all services.
THEOREM NonceIsUnique == Spec => []OneNoncePerOperation
<1>1. IInv => OneNoncePerOperation
  BY DEF IInv
<1> QED BY <1>1, Invariance, PTL

\* A replayed confirmation names the binding its own nonce activated.
THEOREM ReplaysAreFaithful == Spec => []ConfirmationsAreFaithful
<1>1. IInv => ConfirmationsAreFaithful
  BY DEF IInv
<1> QED BY <1>1, Invariance, PTL

\* Every transaction is a step of the binding lifecycle or leaves it alone.
LEMMA StepKeepsLifecycle ==
  ASSUME IInv, [Next]_vars
  PROVE  [Lifecycle!Next]_(Lifecycle!lvars)
<1>0. TypeOK /\ Consistent /\ RotationChain /\ Ordered
  BY DEF IInv
<1>1. CASE UNCHANGED <<state, fenced>>
  BY <1>1 DEF Lifecycle!lvars
<1>2. ASSUME NEW w \in Services, ReserveNew(w) PROVE [Lifecycle!Next]_(Lifecycle!lvars)
  <2> DEFINE g == call[w].generation
  <2>1. /\ g \in Generations
        /\ state' = [state EXCEPT ![g] = "pending"]
        /\ fenced' = fenced
        /\ state[g] = "pending" \/ (g = 1 /\ state[g] = "none")
    BY <1>0, <1>2 DEF ReserveNew, Challengeable, Consistent, CallConsistent
  <2>2. CASE state[g] = "pending"
    <3>1. state' = state
      BY <1>0, <2>1, <2>2 DEF TypeOK
    <3> QED BY <1>1, <2>1, <3>1
  <2>3. CASE g = 1 /\ state[g] = "none"
    <3>1. \A h \in Generations : h # 1 => 1 < h
      BY GenerationFacts
    <3>2. \A h \in Generations : state[h] = "none"
      BY <1>0, <2>1, <2>3, <3>1 DEF Ordered
    <3>3. Lifecycle!Issue
      BY <2>1, <2>3, <3>2 DEF Lifecycle!Issue
    <3> QED BY <3>3 DEF Lifecycle!Next
  <2> QED BY <2>1, <2>2, <2>3
<1>3. ASSUME NEW w \in Services, NEW c \in Keys, Confirm(w, c) PROVE Lifecycle!Next
  <2>1. call[w].generation \in Generations
    BY <1>0, <1>3 DEF Confirm, Consistent, CallConsistent
  <2>2. Lifecycle!Confirm(call[w].generation)
    BY <1>3 DEF Confirm, Lifecycle!Confirm
  <2> QED BY <2>1, <2>2 DEF Lifecycle!Next
<1>4. ASSUME NEW w \in Services, Rotate(w) PROVE Lifecycle!Next
  <2>1. PICK g \in Generations, at \in Times : Rotates(g, at)
    BY <1>0, <1>4, RotateRotates
  <2>2. g + 1 \in Generations /\ state[g + 1] = "none"
    BY <1>0, <2>1, FreshSuccessor
  <2>3. Lifecycle!Rotate(g)
    BY <2>1, <2>2 DEF Rotates, Uses, Lifecycle!Rotate
  <2> QED BY <2>3 DEF Lifecycle!Next
<1>5. ASSUME NEW w \in Services, Revoke(w) PROVE Lifecycle!Next
  <2>1. PICK g \in Generations, at \in Times : Revokes(g, at)
    BY <1>0, <1>5, RevokeRevokes
  <2>2. Lifecycle!Revoke(g)
    BY <2>1 DEF Revokes, Uses, Lifecycle!Revoke
  <2> QED BY <2>2 DEF Lifecycle!Next
<1>6. ASSUME NEW g \in Generations, Fence(g) \/ Release(g) PROVE Lifecycle!Next
  <2>1. fenced' \in SUBSET Generations /\ state' = state
    BY <1>0, <1>6 DEF Fence, Release, TypeOK
  <2>2. \A h \in fenced' \ fenced : state[h] = "active"
    BY <1>6 DEF Fence, Release
  <2>3. Lifecycle!SetFence(fenced')
    BY <2>1, <2>2 DEF Lifecycle!SetFence
  <2> QED BY <2>1, <2>3 DEF Lifecycle!Next
<1>7. ASSUME NEW w \in Services, Call(w) PROVE UNCHANGED <<state, fenced>>
  BY <1>7 DEF Call, IssueChallenge, ConfirmBinding, AuthorizeBinding, RetireBinding, Queue
<1>8. ASSUME NEW w \in Services,
             \/ \E g \in Generations : ReadGeneration(w, g)
             \/ ReserveResumed(w) \/ Complete(w) \/ Authorize(w) \/ Leave(w)
      PROVE  UNCHANGED <<state, fenced>>
  BY <1>8 DEF ReadGeneration, ReserveResumed, Complete, Authorize, Leave
<1>9. Tick \/ UNCHANGED vars => UNCHANGED <<state, fenced>>
  BY DEF Tick, vars
<1> QED BY <1>1, <1>2, <1>3, <1>4, <1>5, <1>6, <1>7, <1>8, <1>9 DEF Next, Run

\* The binding store keeps its side of the lifecycle N7 relies on: only an
\* active, unfenced binding is rotated, and no fenced one is retired.
THEOREM LifecycleRefinement == Spec => KeepsLifecycle
<1>1. Init => Lifecycle!Init
  BY DEF Init, Lifecycle!Init
<1> QED BY <1>1, StepKeepsLifecycle, Invariance, PTL DEF Spec, KeepsLifecycle, Lifecycle!Spec

=============================================================================
