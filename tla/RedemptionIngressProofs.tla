----------------------- MODULE RedemptionIngressProofs -----------------------
(***************************************************************************)
(* Theorems of RedemptionIngress, for any limits, any number of requests   *)
(* and invitations and any queue.                                          *)
(*                                                                         *)
(* The inductive invariant has two parts besides the types and the         *)
(* property itself.  Placed: what a request in the queue, at the worker or *)
(* answered has behind it.  Channels: which ends of the reply and of the   *)
(* acceptance channel are held while the worker waits for a handoff.       *)
(*                                                                         *)
(* Two results have an invariant of their own on top of that one.          *)
(* NobodyIsForgotten adds that a pending request is heard by whoever still *)
(* has to settle it. RatesInv adds the meters: for every window that is    *)
(* open and every bucket, what the requests admitted in the window cost    *)
(* and what is left in the bucket are together no more than what the       *)
(* window may spend. Costs are counted in instants of the refill, so that  *)
(* no rounding is lost.                                                    *)
(***************************************************************************)
EXTENDS RedemptionIngress, FiniteSetTheorems, TLAPS

Presented(r) == handler[r] \in {"waiting", "gone"} /\ presents[r] \in Invitations

Placed ==
  /\ \A r \in Requests : handler[r] = "waiting" => presents[r] \in Invitations
  /\ \A k \in DOMAIN queue : Presented(queue[k].request)
  /\ worker.step \in {"idle", "stopped"} <=> worker.request = None
  /\ worker.request # None => Presented(worker.request)
  /\ \A r \in served : handler[r] = "gone"

Channels ==
  /\ \A r \in Requests : reply[r] # "none" => handler[r] = "waiting"
  /\ \A r \in Requests :
       reply[r] = "handoff" <=> worker = Busy("handing", r) /\ acceptance = "open"
  /\ worker.step = "handing" <=> acceptance # "none"
  /\ acceptance = "accepted" => worker.request \in served

IInv == TypeOK /\ Placed /\ Channels /\ HandedOffOrRevoked

-----------------------------------------------------------------------------
(***************************************************************************)
(* The admission controller                                                *)
(***************************************************************************)

LEMMA Quotients ==
  ASSUME NEW a \in Nat, NEW b \in Positive
  PROVE  a \div b \in Nat
  BY DEF Positive

\* A bucket is refilled to no more than its burst.
LEMMA RefilledIsBucket ==
  ASSUME NEW burst \in Nat, NEW interval \in Positive, NEW n \in Nat,
         NEW bucket \in Bucket(burst)
  PROVE  Refilled(bucket, burst, interval, n) \in Bucket(burst)
<1> DEFINE elapsed == Since(bucket.refilled, n)
<1> DEFINE intervals == elapsed \div interval
<1>1. bucket.tokens \in 0..burst /\ bucket.refilled \in Nat
  BY DEF Bucket
<1>2. elapsed \in Nat
  BY <1>1 DEF Since
<1>3. intervals \in Nat
  BY <1>2, Quotients
<1> HIDE DEF intervals
<1>4. intervals * interval \in Nat
  BY <1>3 DEF Positive
<1>5. Least(burst, bucket.tokens + intervals) \in 0..burst
  BY <1>1, <1>3 DEF Least
<1>6. Refilled(bucket, burst, interval, n) =
        [tokens |-> Least(burst, bucket.tokens + intervals),
         refilled |-> bucket.refilled + intervals * interval]
  BY DEF Refilled, intervals
<1>7. bucket.refilled + intervals * interval \in Nat
  BY <1>1, <1>4
<1> QED  BY <1>5, <1>6, <1>7 DEF Bucket

LEMMA DebitedIsBucket ==
  ASSUME NEW burst \in Nat, NEW bucket \in Bucket(burst), bucket.tokens # 0
  PROVE  Debited(bucket) \in Bucket(burst)
  BY DEF Bucket, Debited

LEMMA Limits ==
  /\ SourceBurst \in Nat /\ GlobalBurst \in Nat
  /\ SourceRefill \in Positive /\ GlobalRefill \in Positive
  /\ SourceInitial \in 0..SourceBurst /\ GlobalInitial \in 0..GlobalBurst
  /\ 0 \in 0..SourceBurst /\ 1 \in 0..SourceBurst
  BY LimitsAssumption DEF LimitsAccepted, Positive

LEMMA RoomIsController ==
  ASSUME NEW c \in Controllers, NEW s \in Sources, NEW n \in Nat,
         NEW d \in MakingRoom(c, s, n)
  PROVE  d \in Controllers
<1>1. Untracked \in Entry
  BY Limits DEF Untracked, Entry, NewBucket, Bucket
<1>2. CASE d = c
  BY <1>2
<1>3. ASSUME NEW t \in Sources, d = [c EXCEPT !.sources[t] = Untracked]
      PROVE  d \in Controllers
  BY <1>1, <1>3 DEF Controllers
<1> QED  BY <1>2, <1>3 DEF MakingRoom, Stale, TrackedIn

LEMMA PaidIsController ==
  ASSUME NEW c \in Controllers, NEW s \in Sources, NEW n \in Nat,
         NEW bucket \in Bucket(SourceBurst)
  PROVE  Paid(c, s, bucket, n) \in Controllers
  BY DEF Paid, Controllers, Entry

\* Admission keeps every bucket within its burst.
LEMMA AdmitIsTyped ==
  ASSUME NEW c \in Controllers, NEW s \in Sources, NEW n \in Nat
  PROVE  /\ Admit(c, s, n).admitted \in BOOLEAN
         /\ Admit(c, s, n).controller \in Controllers
<1> DEFINE own == Refilled(SelectedBucket(c, s, n), SourceBurst, SourceRefill, n)
           all == Refilled(c.global, GlobalBurst, GlobalRefill, n)
           looked == IF Selected(c, s) = "new" THEN c ELSE Paid(c, s, own, n)
<1>1. SelectedBucket(c, s, n) \in Bucket(SourceBurst)
  BY Limits DEF SelectedBucket, Controllers, Entry, NewBucket, Bucket
<1>2. own \in Bucket(SourceBurst)
  BY <1>1, RefilledIsBucket, Limits
<1>3. all \in Bucket(GlobalBurst)
  BY RefilledIsBucket, Limits DEF Controllers
<1> HIDE DEF own, all
<1>4. looked \in Controllers
  BY <1>2, PaidIsController
<1>5. CASE own.tokens = 0
  BY <1>4, <1>5 DEF Admit, own, all
<1>6. CASE own.tokens # 0 /\ all.tokens = 0
  <2>1. [looked EXCEPT !.global = all] \in Controllers
    BY <1>3, <1>4 DEF Controllers
  <2> QED  BY <1>6, <2>1 DEF Admit, own, all
<1>7. CASE own.tokens # 0 /\ all.tokens # 0
  <2>1. Paid(c, s, Debited(own), n) \in Controllers
    BY <1>2, <1>7, PaidIsController, DebitedIsBucket, Limits
  <2>2. Debited(all) \in Bucket(GlobalBurst)
    BY <1>3, <1>7, DebitedIsBucket, Limits
  <2>3. [Paid(c, s, Debited(own), n) EXCEPT !.global = Debited(all)] \in Controllers
    BY <2>1, <2>2 DEF Controllers
  <2> QED  BY <1>7, <2>3 DEF Admit, own, all
<1> QED  BY <1>5, <1>6, <1>7

-----------------------------------------------------------------------------
(***************************************************************************)
(* The invariant                                                           *)
(***************************************************************************)

\* The sentinel is no request.
LEMMA NoneIsNoRequest == None \notin Requests /\ None \notin Invitations
  BY NoneAssumption

LEMMA QueueHolds ==
  ASSUME NEW q \in Seq(Commands), NEW k \in DOMAIN q
  PROVE  q[k] \in Commands /\ q[k].request \in Requests /\ q[k].enqueued \in Nat
<1>1. q[k] \in Commands
  OBVIOUS
<1> QED  BY <1>1 DEF Commands

LEMMA InitInvariant == Init => IInv
<1> SUFFICES ASSUME Init
             PROVE  IInv
  OBVIOUS
<1> USE DEF Init
<1>1. NewController \in Controllers
  BY Limits DEF NewController, Controllers, Untracked, Entry, NewBucket, Bucket
<1>2. queue \in Seq(Commands) /\ Len(queue) = 0 /\ DOMAIN queue = {}
  OBVIOUS
<1>3. TypeOK
  <2>1. admission \in [Requests -> Admissions]
    BY DEF Admissions
  <2>2. worker \in Workers
    BY DEF Workers, Idle
  <2>3. Len(queue) <= Capacity
    BY <1>2, QueueAssumption DEF Positive
  <2> QED  BY <1>1, <1>2, <2>1, <2>2, <2>3 DEF TypeOK, Handlers, Replies
<1>4. Placed
  BY <1>2 DEF Placed, Idle
<1>5. Channels
  BY DEF Channels, Idle, Busy
<1>6. HandedOffOrRevoked
  BY DEF HandedOffOrRevoked, AccountedFor, InHands, DeliveredTo, Idle
<1> QED  BY <1>3, <1>4, <1>5, <1>6 DEF IInv

\* What the handoff part of the invariant is about.
offers == <<handler, served, presents, reply, queue, worker, acceptance, pending,
            redeemed, revoked>>

LEMMA OffersKeepParts ==
  IInv /\ UNCHANGED offers => Placed' /\ Channels' /\ HandedOffOrRevoked'
  BY DEF IInv, offers, Placed, Presented, Channels, HandedOffOrRevoked, AccountedFor, InHands, DeliveredTo

LEMMA TickKeeps == IInv /\ Tick => IInv'
<1> SUFFICES ASSUME IInv, Tick
             PROVE  IInv'
  OBVIOUS
<1>1. UNCHANGED offers
  BY DEF Tick, offers
<1>2. TypeOK'
  BY DEF IInv, TypeOK, Tick
<1> QED  BY <1>1, <1>2, OffersKeepParts DEF IInv

LEMMA ShutdownKeeps == IInv /\ Shutdown => IInv'
<1> SUFFICES ASSUME IInv, Shutdown
             PROVE  IInv'
  OBVIOUS
<1>1. UNCHANGED offers
  BY DEF Shutdown, offers
<1>2. TypeOK'
  BY DEF IInv, TypeOK, Shutdown
<1> QED  BY <1>1, <1>2, OffersKeepParts DEF IInv

\* A handler whose request is not waiting, and does not start to wait, is
\* nothing the worker or the channels depend on.
LEMMA UnheardHandler ==
  ASSUME IInv, NEW r \in Requests, handler[r] \in {"new", "reading"},
         NEW to \in {"reading", "gone"}, handler' = [handler EXCEPT ![r] = to],
         UNCHANGED <<served, presents, reply, queue, worker, acceptance, pending,
                     redeemed, revoked>>
  PROVE  Placed' /\ Channels' /\ HandedOffOrRevoked'
<1> USE DEF IInv
<1>1. handler' \in [Requests -> Handlers] /\ \A q \in Requests \ {r} : handler'[q] = handler[q]
  BY DEF TypeOK, Handlers
<1>2. \A q \in Requests : Presented(q) => q # r
  BY DEF Presented
<1>3. \A q \in Requests : handler'[q] = "waiting" <=> handler[q] = "waiting"
  BY DEF TypeOK, Handlers
<1>4. \A k \in DOMAIN queue : queue[k].request \in Requests
  BY QueueHolds DEF TypeOK
<1>5. worker.request # None => worker.request \in Requests
  BY DEF TypeOK, Workers
<1>6. Placed'
  <2>1. \A k \in DOMAIN queue : Presented(queue[k].request)'
    BY <1>1, <1>2, <1>4 DEF Placed, Presented
  <2>2. worker.request # None => Presented(worker.request)'
    BY <1>1, <1>2, <1>5 DEF Placed, Presented
  <2>3. \A q \in served : handler'[q] = "gone"
    BY <1>1 DEF Placed, TypeOK
  <2> QED  BY <1>3, <2>1, <2>2, <2>3 DEF Placed
<1>7. Channels'
  BY <1>3 DEF Channels
<1>8. HandedOffOrRevoked'
  BY DEF HandedOffOrRevoked, AccountedFor, InHands, DeliveredTo
<1> QED  BY <1>6, <1>7, <1>8

LEMMA ArriveKeeps ==
  ASSUME IInv, NEW r \in Requests, NEW s \in Sources, Arrive(r, s)
  PROVE  IInv'
<1>1. PICK c \in MakingRoom(controller, s, now) :
        LET decision == Admit(c, s, now)
            bucket == IF Selected(c, s) = "overflow" THEN "overflow" ELSE "own"
        IN  /\ controller' = decision.controller
            /\ \/ /\ decision.admitted
                  /\ admission' = [admission EXCEPT ![r] =
                                     [bucket |-> bucket, source |-> s, at |-> now]]
                  /\ handler' = [handler EXCEPT ![r] = "reading"]
               \/ /\ ~decision.admitted
                  /\ Gone(r)
                  /\ UNCHANGED admission
  BY DEF Arrive
<1>2. controller' \in Controllers
  BY <1>1, RoomIsController, AdmitIsTyped DEF IInv, TypeOK
<1>3. PICK to \in {"reading", "gone"} : handler' = [handler EXCEPT ![r] = to]
  BY <1>1 DEF Gone
<1>4. admission' \in [Requests -> Admissions]
  <2>1. \A b \in {"own", "overflow"} : [bucket |-> b, source |-> s, at |-> now] \in Admissions
    BY DEF IInv, TypeOK, Admissions
  <2> QED  BY <1>1, <2>1 DEF IInv, TypeOK
<1>5. TypeOK'
  BY <1>2, <1>3, <1>4 DEF IInv, TypeOK, Arrive, Handlers
<1>6. handler[r] = "new" /\ UNCHANGED <<served, presents, reply, queue, worker, acceptance,
                                        pending, redeemed, revoked>>
  BY DEF Arrive
<1> QED  BY <1>3, <1>5, <1>6, UnheardHandler DEF IInv

LEMMA RefuseKeeps ==
  ASSUME IInv, NEW r \in Requests, Refuse(r)
  PROVE  IInv'
<1>1. TypeOK'
  BY DEF IInv, TypeOK, Refuse, Gone, Handlers
<1> QED  BY <1>1, UnheardHandler DEF IInv, Refuse, Gone

LEMMA EnqueueKeeps ==
  ASSUME IInv, NEW r \in Requests, NEW i \in Invitations, Enqueue(r, i)
  PROVE  IInv'
<1>1. CASE Gone(r) /\ UNCHANGED <<queue, presents>>
  <2>1. TypeOK'
    BY <1>1 DEF IInv, TypeOK, Enqueue, Gone, Handlers
  <2> QED  BY <1>1, <2>1, UnheardHandler DEF IInv, Enqueue, Gone
<1>2. CASE /\ Len(queue) < Capacity
           /\ queue' = Append(queue, [request |-> r, enqueued |-> now])
           /\ handler' = [handler EXCEPT ![r] = "waiting"]
           /\ presents' = [presents EXCEPT ![r] = i]
  <2> USE DEF IInv
  <2>1. UNCHANGED <<now, controller, admission, served, reply, worker, acceptance,
                    pending, shutdown, redeemed, revoked>> /\ handler[r] = "reading"
    BY DEF Enqueue
  <2>2. [request |-> r, enqueued |-> now] \in Commands
    BY DEF TypeOK, Commands
  <2>3. queue \in Seq(Commands) /\ Capacity \in Nat
    BY QueueAssumption DEF TypeOK, Positive
  <2>4. queue' \in Seq(Commands) /\ Len(queue') <= Capacity
    BY <1>2, <2>2, <2>3
  <2>5. /\ handler' \in [Requests -> Handlers]
        /\ presents' \in [Requests -> Invitations \cup {None}]
    BY <1>2 DEF TypeOK, Handlers
  <2>6. TypeOK'
    BY <2>1, <2>4, <2>5 DEF TypeOK
  <2>7. \A q \in Requests \ {r} : handler'[q] = handler[q] /\ presents'[q] = presents[q]
    BY <1>2 DEF TypeOK
  <2>8. handler'[r] = "waiting" /\ presents'[r] = i
    BY <1>2 DEF TypeOK
  <2>9. \A q \in Requests : Presented(q) => Presented(q)'
    BY <2>7, <2>8 DEF Presented
  <2>10. (\A k \in DOMAIN queue : Presented(queue[k].request))'
    <3> SUFFICES ASSUME NEW k \in DOMAIN queue'
                 PROVE  Presented(queue[k].request)'
      OBVIOUS
    <3>1. CASE k \in DOMAIN queue
      <4>1. queue'[k] = queue[k]
        BY <1>2, <2>2, <2>3, <3>1
      <4>2. queue[k].request \in Requests
        BY <2>3, <3>1, QueueHolds
      <4>3. Presented(queue[k].request)
        BY <3>1 DEF Placed
      <4>4. handler'[queue[k].request] \in {"waiting", "gone"} /\ presents'[queue[k].request] \in Invitations
        BY <2>9, <4>2, <4>3 DEF Presented
      <4> QED  BY <4>1, <4>4 DEF Presented
    <3>2. CASE k \notin DOMAIN queue
      <4>1. queue'[k].request = r
        BY <1>2, <2>2, <2>3, <3>2
      <4> QED  BY <2>8, <4>1 DEF Presented
    <3> QED  BY <3>1, <3>2
  <2>11. worker.request # None => worker.request \in Requests /\ worker.request # r
    BY <2>1 DEF TypeOK, Workers, Placed, Presented
  <2>12. r \notin served /\ served \subseteq Requests
    BY <2>1 DEF Placed, TypeOK
  <2>13. Placed'
    <3>1. \A q \in Requests : handler'[q] = "waiting" => presents'[q] \in Invitations
      BY <2>7, <2>8 DEF Placed
    <3>2. worker.request # None => Presented(worker.request)'
      BY <2>1, <2>9, <2>11 DEF Placed
    <3>3. \A q \in served : handler'[q] = "gone"
      BY <2>7, <2>12 DEF Placed
    <3> QED  BY <2>1, <2>10, <3>1, <3>2, <3>3 DEF Placed
  <2>14. Channels'
    BY <2>1, <2>7, <2>8 DEF Channels
  <2>15. HandedOffOrRevoked'
    <3>1. \A j \in Invitations : InHands(j)' <=> InHands(j)
      BY <2>1, <2>7, <2>11 DEF InHands
    <3>2. \A j \in Invitations : DeliveredTo(j)' = DeliveredTo(j)
      BY <2>1, <2>7, <2>12 DEF DeliveredTo
    <3> QED  BY <2>1, <3>1, <3>2 DEF HandedOffOrRevoked, AccountedFor
  <2> QED  BY <2>6, <2>13, <2>14, <2>15
<1> QED  BY <1>1, <1>2 DEF Enqueue

\* While the secret of a request is being handed over, the invitation it
\* presents is the one invitation in the worker's hands.
LEMMA HandingHolds ==
  ASSUME IInv, worker.step = "handing"
  PROVE  /\ worker.request \in Requests /\ presents[worker.request] \in Invitations
         /\ worker = Busy("handing", worker.request)
         /\ acceptance # "accepted" => InHands(presents[worker.request])
         /\ pending = 1
<1>1. worker.request # None /\ worker.request \in Requests
  BY DEF IInv, TypeOK, Workers, Placed
<1> QED  BY <1>1 DEF IInv, TypeOK, Workers, Placed, Presented, Busy, InHands, HandedOffOrRevoked

LEMMA AnswerKeeps ==
  ASSUME IInv, NEW r \in Requests, Answer(r)
  PROVE  IInv'
<1> USE DEF IInv
<1>1. TypeOK'
  BY DEF TypeOK, Answer, Gone, Handlers, Replies
<1>2. UNCHANGED <<presents, queue, worker, pending, redeemed, revoked>> /\ handler[r] = "waiting"
  BY DEF Answer
<1>3. /\ handler'[r] = "gone" /\ reply'[r] = "none"
      /\ \A q \in Requests \ {r} : handler'[q] = handler[q] /\ reply'[q] = reply[q]
  BY DEF Answer, Gone, TypeOK
<1>4. \A q \in Requests : Presented(q) => Presented(q)'
  BY <1>2, <1>3 DEF Presented
<1>5. served' \subseteq served \cup {r} /\ served \subseteq served' /\ served \subseteq Requests
  BY DEF Answer, TypeOK
<1>6. Placed'
  <2>1. \A q \in Requests : handler'[q] = "waiting" => presents'[q] \in Invitations
    BY <1>2, <1>3 DEF Placed
  <2>2. (\A k \in DOMAIN queue : Presented(queue[k].request))'
    BY <1>2, <1>4, QueueHolds DEF Placed, TypeOK
  <2>3. worker.request # None => worker.request \in Requests
    BY DEF TypeOK, Workers
  <2>4. (worker.request # None => Presented(worker.request))'
    BY <1>2, <1>4, <2>3 DEF Placed
  <2>5. \A q \in served' : handler'[q] = "gone"
    BY <1>3, <1>5 DEF Placed
  <2> QED  BY <1>2, <2>1, <2>2, <2>4, <2>5 DEF Placed
<1>7. CASE reply[r] = "handoff" /\ served' = served \cup {r} /\ acceptance' = "accepted"
  <2>1. worker = Busy("handing", r) /\ acceptance = "open"
    BY <1>7 DEF Channels
  <2>2. worker.step = "handing" /\ worker.request = r
    BY <2>1 DEF Busy
  <2>3. \A q \in Requests \ {r} : reply[q] # "handoff"
    BY <2>1 DEF Channels, Busy
  <2>4. Channels'
    BY <1>2, <1>3, <1>7, <2>2, <2>3 DEF Channels
  <2>5. HandedOffOrRevoked'
    <3>1. PICK j \in Invitations : j = presents[r] /\ InHands(j)
      BY <2>1, <2>2, HandingHolds
    <3>2. \A k \in Invitations : ~InHands(k)' /\ (InHands(k) => k = j)
      BY <1>2, <1>7, <2>2, <3>1 DEF InHands
    <3>3. \A k \in Invitations \ {j} : DeliveredTo(k)' = DeliveredTo(k)
      BY <1>2, <1>7, <3>1 DEF DeliveredTo
    <3>4. DeliveredTo(j)' = {r}
      BY <1>2, <1>7, <3>1 DEF DeliveredTo, HandedOffOrRevoked, AccountedFor
    <3>5. j \in redeemed /\ j \notin revoked
      BY <3>1 DEF HandedOffOrRevoked, AccountedFor
    <3>6. AccountedFor(j)'
      BY <1>2, <3>1, <3>2, <3>4, <3>5 DEF AccountedFor
    <3>7. ASSUME NEW k \in Invitations \ {j}
          PROVE  AccountedFor(k)'
      <4>1. ~InHands(k) /\ ~InHands(k)' /\ DeliveredTo(k)' = DeliveredTo(k)
        BY <3>2, <3>3, <3>7
      <4>2. AccountedFor(k)
        BY <3>7 DEF HandedOffOrRevoked
      <4> QED  BY <1>2, <4>1, <4>2 DEF AccountedFor
    <3> QED  BY <1>2, <2>2, <3>6, <3>7 DEF HandedOffOrRevoked
  <2> QED  BY <1>1, <1>6, <2>4, <2>5
<1>8. CASE reply[r] = "failure" /\ UNCHANGED <<served, acceptance>>
  <2>1. Channels'
    BY <1>2, <1>3, <1>8 DEF Channels
  <2>2. HandedOffOrRevoked'
    BY <1>2, <1>8 DEF HandedOffOrRevoked, AccountedFor, InHands, DeliveredTo
  <2> QED  BY <1>1, <1>6, <2>1, <2>2
<1> QED  BY <1>7, <1>8 DEF Answer

LEMMA DisconnectKeeps ==
  ASSUME IInv, NEW r \in Requests, Disconnect(r)
  PROVE  IInv'
<1> USE DEF IInv
<1>1. TypeOK'
  BY DEF TypeOK, Disconnect, Gone, Released, Handlers, Replies
<1>2. /\ UNCHANGED <<served, presents, queue, worker, pending, redeemed, revoked>>
      /\ handler[r] = "waiting" /\ acceptance' = Released(r)
  BY DEF Disconnect
<1>3. /\ handler'[r] = "gone" /\ reply'[r] = "none"
      /\ \A q \in Requests \ {r} : handler'[q] = handler[q] /\ reply'[q] = reply[q]
  BY DEF Disconnect, Gone, TypeOK
<1>4. \A q \in Requests : Presented(q) => Presented(q)'
  BY <1>2, <1>3 DEF Presented
<1>5. Placed'
  <2>1. \A q \in Requests : handler'[q] = "waiting" => presents'[q] \in Invitations
    BY <1>2, <1>3 DEF Placed
  <2>2. (\A k \in DOMAIN queue : Presented(queue[k].request))'
    BY <1>2, <1>4, QueueHolds DEF Placed, TypeOK
  <2>3. worker.request # None => worker.request \in Requests
    BY DEF TypeOK, Workers
  <2>4. (worker.request # None => Presented(worker.request))'
    BY <1>2, <1>4, <2>3 DEF Placed
  <2>5. \A q \in served' : handler'[q] = "gone"
    BY <1>2, <1>3 DEF Placed, TypeOK
  <2> QED  BY <1>2, <2>1, <2>2, <2>4, <2>5 DEF Placed
<1>6. CASE reply[r] = "handoff"
  <2>1. worker = Busy("handing", r) /\ acceptance = "open" /\ acceptance' = "dropped"
    BY <1>2, <1>6 DEF Channels, Released
  <2>2. worker.step = "handing" /\ worker.request = r
    BY <2>1 DEF Busy
  <2>3. \A q \in Requests \ {r} : reply[q] # "handoff"
    BY <2>1 DEF Channels, Busy
  <2>4. Channels'
    BY <1>2, <1>3, <2>1, <2>2, <2>3 DEF Channels
  <2>5. HandedOffOrRevoked'
    BY <1>2, <2>1, <2>2 DEF HandedOffOrRevoked, AccountedFor, InHands, DeliveredTo
  <2> QED  BY <1>1, <1>5, <2>4, <2>5
<1>7. CASE reply[r] # "handoff"
  <2>1. acceptance' = acceptance
    BY <1>2, <1>7 DEF Released
  <2>2. Channels'
    BY <1>2, <1>3, <1>7, <2>1 DEF Channels
  <2>3. HandedOffOrRevoked'
    BY <1>2, <2>1 DEF HandedOffOrRevoked, AccountedFor, InHands, DeliveredTo
  <2> QED  BY <1>1, <1>5, <2>2, <2>3
<1> QED  BY <1>6, <1>7

\* What a send to the handlers of R, other than of a handoff, changes while no
\* handoff is in progress.
LEMMA ReplyKeeps ==
  ASSUME IInv, NEW R \in SUBSET Requests, Reply(R, "failure"), UNCHANGED handler,
         worker.step # "handing"
  PROVE  /\ reply' \in [Requests -> Replies]
         /\ \A r \in Requests : reply'[r] # "none" => handler'[r] = "waiting"
         /\ \A r \in Requests : reply'[r] # "handoff"
         /\ acceptance = "none"
<1>1. \A r \in Requests : reply[r] # "handoff"
  BY DEF IInv, Channels, Busy
<1> QED  BY <1>1 DEF IInv, TypeOK, Reply, Replies, Channels

\* A step that leaves the requests of the queue among those it had.
LEMMA QueueKeeps ==
  ASSUME IInv, UNCHANGED <<handler, presents>>, queue # <<>>, queue' = Tail(queue)
  PROVE  /\ queue' \in Seq(Commands) /\ Len(queue') <= Capacity
         /\ (\A k \in DOMAIN queue : Presented(queue[k].request))'
         /\ Head(queue).request \in Requests /\ Presented(Head(queue).request)
<1>1. queue \in Seq(Commands) /\ Len(queue) \in Nat /\ Len(queue) > 0 /\ Len(queue) <= Capacity
  BY DEF IInv, TypeOK
<1>2. queue' \in Seq(Commands) /\ Len(queue') = Len(queue) - 1
  BY <1>1
<1>3. \A k \in DOMAIN queue' : k + 1 \in DOMAIN queue /\ queue'[k] = queue[k + 1]
  BY <1>1
<1>4. Capacity \in Nat
  BY QueueAssumption DEF Positive
<1>5. \A k \in DOMAIN queue : Presented(queue[k].request)
  BY DEF IInv, Placed
<1>6. 1 \in DOMAIN queue /\ Head(queue) = queue[1]
  BY <1>1
<1>7. Head(queue).request \in Requests /\ Presented(Head(queue).request)
  BY <1>1, <1>5, <1>6, QueueHolds
<1>8. (\A k \in DOMAIN queue : Presented(queue[k].request))'
  BY <1>3, <1>5 DEF Presented
<1> QED  BY <1>1, <1>2, <1>4, <1>7, <1>8

LEMMA TakeKeeps == IInv /\ Take => IInv'
<1> SUFFICES ASSUME IInv, Take
             PROVE  IInv'
  OBVIOUS
<1> USE DEF IInv
<1>1. /\ UNCHANGED <<now, controller, admission, handler, served, presents, acceptance,
                     pending, shutdown, redeemed, revoked>>
      /\ worker.step = "idle" /\ worker.request = None /\ queue # <<>> /\ queue' = Tail(queue)
  BY DEF Take, Placed
<1> DEFINE r == Head(queue).request
<1>2. /\ queue' \in Seq(Commands) /\ Len(queue') <= Capacity
      /\ (\A k \in DOMAIN queue : Presented(queue[k].request))'
      /\ r \in Requests /\ Presented(r)
  BY <1>1, QueueKeeps
<1> HIDE DEF r
<1>3. acceptance = "none" /\ \A q \in Requests : reply[q] # "handoff"
  BY <1>1 DEF Channels, Busy, TypeOK
<1>4. r # None
  BY <1>2, NoneIsNoRequest
<1>5. CASE worker' = Busy("redeeming", r) /\ UNCHANGED reply
  <2>1. worker'.step = "redeeming" /\ worker'.request = r /\ worker' \in Workers
    BY <1>2, <1>5 DEF Busy, Workers
  <2>2. TypeOK'
    BY <1>1, <1>2, <1>5, <2>1 DEF TypeOK
  <2>3. Presented(worker.request)'
    BY <1>1, <1>2, <2>1 DEF Presented
  <2>4. Placed'
    BY <1>1, <1>2, <1>4, <2>1, <2>3 DEF Placed
  <2>5. Channels'
    BY <1>1, <1>3, <1>5, <2>1 DEF Channels, Busy
  <2>6. HandedOffOrRevoked'
    BY <1>1, <2>1 DEF HandedOffOrRevoked, AccountedFor, InHands, DeliveredTo
  <2> QED  BY <2>2, <2>4, <2>5, <2>6
<1>6. CASE Reply({r}, "failure") /\ UNCHANGED worker
  <2>1. /\ reply' \in [Requests -> Replies]
        /\ \A q \in Requests : reply'[q] # "none" => handler'[q] = "waiting"
        /\ \A q \in Requests : reply'[q] # "handoff"
    BY <1>1, <1>2, <1>6, ReplyKeeps
  <2>2. TypeOK'
    BY <1>1, <1>2, <1>6, <2>1 DEF TypeOK
  <2>3. Placed'
    BY <1>1, <1>2, <1>6 DEF Placed
  <2>4. Channels'
    BY <1>1, <1>3, <1>6, <2>1 DEF Channels, Busy
  <2>5. HandedOffOrRevoked'
    BY <1>1, <1>6 DEF HandedOffOrRevoked, AccountedFor, InHands, DeliveredTo
  <2> QED  BY <2>2, <2>3, <2>4, <2>5
<1> QED  BY <1>5, <1>6 DEF Take, r

\* The request of a busy worker has presented an invitation.
LEMMA BusyHolds ==
  ASSUME IInv, worker.step \in {"redeeming", "handing", "revoking"}
  PROVE  /\ worker.request \in Requests /\ worker.request # None
         /\ presents[worker.request] \in Invitations
  BY DEF IInv, TypeOK, Workers, Placed, Presented

LEMMA RedeemedKeeps == IInv /\ Redeemed => IInv'
<1> SUFFICES ASSUME IInv, Redeemed
             PROVE  IInv'
  OBVIOUS
<1> USE DEF IInv
<1> DEFINE r == worker.request
           i == presents[worker.request]
<1>1. /\ UNCHANGED <<now, controller, admission, handler, served, presents, queue, shutdown, revoked>>
      /\ worker.step = "redeeming" /\ i \notin redeemed /\ redeemed' = redeemed \cup {i}
  BY DEF Redeemed
<1>2. r \in Requests /\ r # None /\ i \in Invitations /\ Presented(r)
  BY <1>1, BusyHolds DEF Placed
<1>3. acceptance = "none" /\ pending = 0 /\ \A q \in Requests : reply[q] # "handoff"
  BY <1>1 DEF Channels, Busy, TypeOK, HandedOffOrRevoked
<1> HIDE DEF r, i
<1>4. /\ \A k \in Invitations : ~InHands(k) /\ AccountedFor(k) /\ DeliveredTo(k)' = DeliveredTo(k)
      /\ DeliveredTo(i) = {} /\ i \notin revoked
  BY <1>1, <1>2 DEF HandedOffOrRevoked, AccountedFor, InHands, DeliveredTo
<1>5. ASSUME worker' \in Workers, worker'.request = r, i = presents'[r],
             \/ worker'.step = "handing" /\ acceptance' = "open" /\ pending' = 1
             \/ worker'.step = "revoking" /\ pending' = 0
      PROVE  HandedOffOrRevoked' /\ Placed'
  <2>1. \A k \in Invitations : InHands(k)' <=> k = i
    BY <1>2, <1>5 DEF InHands
  <2>2. ASSUME NEW k \in Invitations
        PROVE  AccountedFor(k)'
    BY <1>1, <1>4, <2>1 DEF AccountedFor
  <2>3. HandedOffOrRevoked'
    BY <1>5, <2>2 DEF HandedOffOrRevoked
  <2>4. Presented(worker.request)'
    BY <1>1, <1>2, <1>5 DEF Presented
  <2>5. Placed'
    BY <1>1, <1>2, <1>5, <2>4 DEF Placed, Presented
  <2> QED  BY <2>3, <2>5
<1>6. i = presents'[r]
  BY <1>1 DEF i, r
<1>7. redeemed' \subseteq Invitations
  BY <1>1, <1>2 DEF TypeOK
<1>8. CASE /\ handler[r] = "waiting" /\ Reply({r}, "handoff") /\ worker' = Busy("handing", r)
           /\ acceptance' = "open" /\ pending' = pending + 1
  <2>1. worker'.step = "handing" /\ worker'.request = r /\ worker' \in Workers /\ pending' = 1
    BY <1>2, <1>3, <1>8 DEF Busy, Workers
  <2>2. /\ reply' \in [Requests -> Replies] /\ reply'[r] = "handoff"
        /\ \A q \in Requests \ {r} : reply'[q] = reply[q]
    BY <1>2, <1>8 DEF Reply, Replies, TypeOK
  <2>3. TypeOK'
    BY <1>1, <1>7, <1>8, <2>1, <2>2 DEF TypeOK
  <2>4. Channels'
    BY <1>1, <1>3, <1>8, <2>1, <2>2 DEF Channels, Busy
  <2> QED  BY <1>5, <1>6, <1>8, <2>1, <2>3, <2>4
<1>9. CASE worker' = Busy("revoking", r) /\ UNCHANGED <<reply, acceptance, pending>>
  <2>1. worker'.step = "revoking" /\ worker'.request = r /\ worker' \in Workers /\ pending' = 0
    BY <1>2, <1>3, <1>9 DEF Busy, Workers
  <2>2. TypeOK'
    BY <1>1, <1>7, <1>9, <2>1 DEF TypeOK
  <2>3. Channels'
    BY <1>1, <1>3, <1>9, <2>1 DEF Channels, Busy
  <2> QED  BY <1>5, <1>6, <2>1, <2>2, <2>3
<1> QED  BY <1>8, <1>9 DEF Redeemed, r

LEMMA NotRedeemedKeeps == IInv /\ NotRedeemed => IInv'
<1> SUFFICES ASSUME IInv, NotRedeemed
             PROVE  IInv'
  OBVIOUS
<1> USE DEF IInv
<1>1. /\ UNCHANGED <<now, controller, admission, handler, served, presents, queue,
                     acceptance, pending, shutdown, redeemed, revoked>>
      /\ worker.step = "redeeming" /\ worker' = Idle
  BY DEF NotRedeemed
<1>2. {worker.request} \in SUBSET Requests
  BY <1>1, BusyHolds
<1>3. /\ reply' \in [Requests -> Replies]
      /\ \A q \in Requests : reply'[q] # "none" => handler'[q] = "waiting"
      /\ \A q \in Requests : reply'[q] # "handoff"
      /\ acceptance = "none"
  BY <1>1, <1>2, ReplyKeeps DEF NotRedeemed
<1>4. worker'.step = "idle" /\ worker'.request = None /\ worker' \in Workers
  BY <1>1 DEF Idle, Workers
<1>5. TypeOK'
  BY <1>1, <1>3, <1>4 DEF TypeOK
<1>6. Placed'
  BY <1>1, <1>4 DEF Placed, Presented
<1>7. Channels'
  BY <1>1, <1>3, <1>4 DEF Channels, Busy
<1>8. HandedOffOrRevoked'
  BY <1>1, <1>4 DEF HandedOffOrRevoked, AccountedFor, InHands, DeliveredTo
<1> QED  BY <1>5, <1>6, <1>7, <1>8

LEMMA HandedKeeps == IInv /\ Handed => IInv'
<1> SUFFICES ASSUME IInv, Handed
             PROVE  IInv'
  OBVIOUS
<1> USE DEF IInv
<1>1. /\ UNCHANGED <<now, controller, admission, handler, served, presents, reply, queue,
                     shutdown, redeemed, revoked>>
      /\ worker.step = "handing" /\ acceptance # "open" /\ acceptance' = "none"
      /\ worker' = AfterHandoff(worker.request) /\ pending' = pending - 1
  BY DEF Handed
<1>2. /\ worker.request \in Requests /\ worker.request # None
      /\ presents[worker.request] \in Invitations
  BY <1>1, BusyHolds
<1>3. \A q \in Requests : reply[q] # "handoff"
  BY <1>1 DEF Channels
<1>4. pending' = 0
  BY <1>1 DEF HandedOffOrRevoked
<1>5. CASE acceptance = "accepted"
  <2>1. worker'.step = "idle" /\ worker'.request = None /\ worker' \in Workers
    BY <1>1, <1>5 DEF AfterHandoff, Idle, Workers
  <2>2. TypeOK'
    BY <1>1, <1>4, <2>1 DEF TypeOK
  <2>3. Placed'
    BY <1>1, <2>1 DEF Placed, Presented
  <2>4. Channels'
    BY <1>1, <1>3, <2>1 DEF Channels, Busy
  <2>5. HandedOffOrRevoked'
    BY <1>1, <1>4, <1>5, <2>1 DEF HandedOffOrRevoked, AccountedFor, InHands, DeliveredTo
  <2> QED  BY <2>2, <2>3, <2>4, <2>5
<1>6. CASE acceptance # "accepted"
  <2>1. worker'.step = "revoking" /\ worker'.request = worker.request /\ worker' \in Workers
    BY <1>1, <1>2, <1>6 DEF AfterHandoff, Busy, Workers
  <2>2. TypeOK'
    BY <1>1, <1>4, <2>1 DEF TypeOK
  <2>3. Placed'
    BY <1>1, <1>2, <2>1 DEF Placed, Presented
  <2>4. Channels'
    BY <1>1, <1>3, <2>1 DEF Channels, Busy
  <2>5. \A k \in Invitations : InHands(k)' <=> InHands(k)
    BY <1>1, <1>6, <2>1 DEF InHands
  <2>6. HandedOffOrRevoked'
    BY <1>1, <1>4, <2>1, <2>5 DEF HandedOffOrRevoked, AccountedFor, DeliveredTo
  <2> QED  BY <2>2, <2>3, <2>4, <2>6
<1> QED  BY <1>5, <1>6

LEMMA RevokeKeeps == IInv /\ Revoke => IInv'
<1> SUFFICES ASSUME IInv, Revoke
             PROVE  IInv'
  OBVIOUS
<1> USE DEF IInv
<1>1. PICK i \in Invitations : i = presents[worker.request]
  BY BusyHolds DEF Revoke
<1>2. /\ UNCHANGED <<now, controller, admission, handler, served, presents, reply, queue,
                     acceptance, pending, shutdown, redeemed>>
      /\ worker.step = "revoking" /\ worker' = Idle /\ revoked' = revoked \cup {i}
  BY <1>1 DEF Revoke
<1>3. worker'.step = "idle" /\ worker'.request = None /\ worker' \in Workers
  BY <1>2 DEF Idle, Workers
<1>4. TypeOK'
  BY <1>2, <1>3 DEF TypeOK
<1>5. Placed'
  BY <1>2, <1>3 DEF Placed, Presented
<1>6. Channels'
  BY <1>2, <1>3 DEF Channels, Busy
<1>7. HandedOffOrRevoked'
  <2>1. \A k \in Invitations : ~InHands(k)' /\ (InHands(k) <=> k = i) /\ DeliveredTo(k)' = DeliveredTo(k)
    BY <1>1, <1>2, <1>3, BusyHolds DEF InHands, DeliveredTo
  <2>2. ASSUME NEW k \in Invitations
        PROVE  AccountedFor(k)'
    BY <1>2, <2>1, <2>2 DEF HandedOffOrRevoked, AccountedFor
  <2> QED  BY <1>2, <1>3, <2>2 DEF HandedOffOrRevoked
<1> QED  BY <1>4, <1>5, <1>6, <1>7

LEMMA StopKeeps == IInv /\ Stop => IInv'
<1> SUFFICES ASSUME IInv, Stop
             PROVE  IInv'
  OBVIOUS
<1> USE DEF IInv
<1>1. /\ UNCHANGED <<now, controller, admission, handler, served, presents, acceptance,
                     pending, shutdown, redeemed, revoked>>
      /\ worker.step = "idle" /\ worker' = [worker EXCEPT !.step = "stopped"] /\ queue' = <<>>
  BY DEF Stop
<1>2. QueuedRequests \in SUBSET Requests
  BY QueueHolds DEF QueuedRequests, TypeOK
<1>3. /\ reply' \in [Requests -> Replies]
      /\ \A q \in Requests : reply'[q] # "none" => handler'[q] = "waiting"
      /\ \A q \in Requests : reply'[q] # "handoff"
      /\ acceptance = "none"
  BY <1>1, <1>2, ReplyKeeps DEF Stop
<1>4. worker'.step = "stopped" /\ worker'.request = None /\ worker' \in Workers
  BY <1>1 DEF Placed, TypeOK, Workers
<1>5. queue' \in Seq(Commands) /\ Len(queue') <= Capacity /\ DOMAIN queue' = {}
  BY <1>1, QueueAssumption DEF Positive
<1>6. TypeOK'
  BY <1>1, <1>3, <1>4, <1>5 DEF TypeOK
<1>7. Placed'
  BY <1>1, <1>4, <1>5 DEF Placed, Presented
<1>8. Channels'
  BY <1>1, <1>3, <1>4 DEF Channels, Busy
<1>9. HandedOffOrRevoked'
  BY <1>1, <1>4 DEF HandedOffOrRevoked, AccountedFor, InHands, DeliveredTo
<1> QED  BY <1>6, <1>7, <1>8, <1>9

\* Nothing the invariant speaks of changes in a stuttering step.
LEMMA StutterKeeps == IInv /\ UNCHANGED vars => IInv'
<1> SUFFICES ASSUME IInv, UNCHANGED vars
             PROVE  IInv'
  OBVIOUS
<1>1. UNCHANGED offers
  BY DEF vars, offers
<1>2. TypeOK'
  BY DEF IInv, TypeOK, vars
<1> QED  BY <1>1, <1>2, OffersKeepParts DEF IInv

LEMMA NextKeeps == IInv /\ [Next]_vars => IInv'
<1>1. ASSUME IInv, NEW r \in Requests, Serve(r)
      PROVE  IInv'
  BY <1>1, ArriveKeeps, RefuseKeeps, EnqueueKeeps, AnswerKeeps, DisconnectKeeps DEF Serve
<1>2. IInv /\ Work => IInv'
  BY TakeKeeps, RedeemedKeeps, NotRedeemedKeeps, HandedKeeps, RevokeKeeps, StopKeeps DEF Work
<1> QED  BY <1>1, <1>2, TickKeeps, ShutdownKeeps, StutterKeeps DEF Next

LEMMA Invariance == Spec => []IInv
BY InitInvariant, NextKeeps, PTL DEF Spec

\* The types hold in every reachable state, for any limits and any queue.
THEOREM TypeCorrect == Spec => []TypeOK
<1>1. IInv => TypeOK
  BY DEF IInv
<1> QED  BY <1>1, Invariance, PTL

\* However clients come, stop waiting and disconnect, and whenever shutdown is
\* asked for, every secret the worker was given is in its hands, was given to
\* one client, or was asked to be revoked, and never two of these.
THEOREM SecretsAreAccountedFor == Spec => []HandedOffOrRevoked
<1>1. IInv => HandedOffOrRevoked
  BY DEF IInv
<1> QED  BY <1>1, Invariance, PTL

-----------------------------------------------------------------------------
(***************************************************************************)
(* The clients                                                             *)
(***************************************************************************)

\* Whose reply is still to come: a request in the queue, or the one that is
\* being redeemed.
Pending(r) ==
  \/ \E k \in DOMAIN queue : queue[k].request = r
  \/ worker = Busy("redeeming", r)

Heard ==
  /\ \A r \in Requests : handler[r] = "waiting" /\ reply[r] = "none" => Pending(r)
  /\ worker.step = "stopped" => queue = <<>>

\* A handler that waits without a reply is in the queue or with the worker,
\* one whose acceptance the worker waits for has the secret in front of it,
\* and a worker that stopped left nobody in the queue: the sender of a reply is
\* used or dropped on every way through worker_loop, and try_send fails once
\* the receiver is gone.
NobodyIsForgotten ==
  /\ \A r \in Requests : handler[r] = "waiting" /\ reply[r] = "none" => Pending(r)
  /\ acceptance = "open" => handler[worker.request] = "waiting" /\ reply[worker.request] = "handoff"
  /\ worker.step = "stopped" => queue = <<>>

\* A step of a handler that does not add to the queue.
LEMMA LeavingKeepsHeard ==
  ASSUME Heard, UNCHANGED <<queue, worker>>,
         \A r \in Requests : handler'[r] = "waiting" => handler[r] = "waiting" /\ reply'[r] = reply[r]
  PROVE  Heard'
  BY DEF Heard, Pending

LEMMA EnqueueKeepsHeard ==
  ASSUME IInv, Heard, NEW r \in Requests, NEW i \in Invitations, Enqueue(r, i)
  PROVE  Heard'
<1>1. CASE Gone(r) /\ UNCHANGED <<queue, presents>>
  <2>1. \A q \in Requests : handler'[q] = "waiting" => handler[q] = "waiting"
    BY <1>1 DEF IInv, TypeOK, Gone
  <2> QED  BY <1>1, <2>1, LeavingKeepsHeard DEF Enqueue
<1>2. CASE /\ worker.step # "stopped"
           /\ queue' = Append(queue, [request |-> r, enqueued |-> now])
           /\ handler' = [handler EXCEPT ![r] = "waiting"]
  <2>1. UNCHANGED <<reply, worker>> /\ queue \in Seq(Commands)
    BY DEF Enqueue, IInv, TypeOK
  <2>2. [request |-> r, enqueued |-> now] \in Commands
    BY DEF IInv, TypeOK, Commands
  <2>3. \A k \in DOMAIN queue : k \in DOMAIN queue' /\ queue'[k] = queue[k]
    BY <1>2, <2>1, <2>2
  <2>4. Len(queue) + 1 \in DOMAIN queue' /\ queue'[Len(queue) + 1].request = r
    BY <1>2, <2>1, <2>2
  <2>5. \A q \in Requests : Pending(q) => Pending(q)'
    BY <2>1, <2>3 DEF Pending
  <2>6. Pending(r)'
    BY <2>4 DEF Pending
  <2>7. \A q \in Requests \ {r} : handler'[q] = handler[q]
    BY <1>2 DEF IInv, TypeOK
  <2> QED  BY <1>2, <2>1, <2>5, <2>6, <2>7 DEF Heard
<1> QED  BY <1>1, <1>2 DEF Enqueue

LEMMA TakeKeepsHeard == IInv /\ Heard /\ Take => Heard'
<1> SUFFICES ASSUME IInv, Heard, Take
             PROVE  Heard'
  OBVIOUS
<1>1. /\ worker.step = "idle" /\ queue # <<>> /\ queue' = Tail(queue) /\ UNCHANGED handler
      /\ queue \in Seq(Commands)
  BY DEF Take, IInv, TypeOK
<1>2. PICK r \in Requests : r = Head(queue).request
  BY <1>1, QueueKeeps DEF Take
<1>3. ASSUME NEW q \in Requests, Pending(q), q # r
      PROVE  Pending(q)'
  <2>1. PICK k \in DOMAIN queue : queue[k].request = q
    BY <1>1, <1>3 DEF Pending, Busy
  <2>2. k # 1
    BY <1>1, <1>2, <1>3, <2>1
  <2>3. k - 1 \in DOMAIN queue' /\ queue'[k - 1] = queue[k]
    BY <1>1, <2>1, <2>2
  <2> QED  BY <2>1, <2>3 DEF Pending
<1>4. CASE worker' = Busy("redeeming", r) /\ UNCHANGED reply
  <2>1. worker'.step # "stopped" /\ Pending(r)'
    BY <1>4 DEF Pending, Busy
  <2> QED  BY <1>1, <1>3, <1>4, <2>1 DEF Heard
<1>5. CASE Reply({r}, "failure") /\ UNCHANGED worker
  <2>1. \A q \in Requests : handler'[q] = "waiting" /\ reply'[q] = "none" => q # r /\ reply[q] = "none"
    BY <1>1, <1>5 DEF Reply
  <2> QED  BY <1>1, <1>3, <1>5, <2>1 DEF Heard
<1> QED  BY <1>2, <1>4, <1>5 DEF Take

\* The worker turns from a request that it has answered, or never will.
LEMMA WorkerKeepsHeard ==
  ASSUME IInv, Heard, UNCHANGED <<queue, handler>>,
         worker.step # "stopped", worker'.step # "stopped",
         \A r \in Requests : handler[r] = "waiting" /\ reply'[r] = "none" =>
           reply[r] = "none" /\ worker # Busy("redeeming", r)
  PROVE  Heard'
  BY DEF Heard, Pending

LEMMA RedeemedKeepsHeard == IInv /\ Heard /\ (Redeemed \/ NotRedeemed) => Heard'
<1> SUFFICES ASSUME IInv, Heard, Redeemed \/ NotRedeemed
             PROVE  Heard'
  OBVIOUS
<1>1. worker.step = "redeeming" /\ UNCHANGED <<queue, handler>> /\ worker'.step # "stopped"
  BY DEF Redeemed, NotRedeemed, Busy, Idle
<1>2. worker.request \in Requests
  BY <1>1, BusyHolds
<1>3. ASSUME NEW r \in Requests, handler[r] = "waiting", reply'[r] = "none"
      PROVE  reply[r] = "none" /\ r # worker.request
  BY <1>2, <1>3 DEF Redeemed, NotRedeemed, Reply
<1>4. \A r \in Requests : worker = Busy("redeeming", r) => r = worker.request
  BY DEF Busy
<1> QED  BY <1>1, <1>3, <1>4, WorkerKeepsHeard

LEMMA HandedKeepsHeard == IInv /\ Heard /\ (Handed \/ Revoke) => Heard'
<1> SUFFICES ASSUME IInv, Heard, Handed \/ Revoke
             PROVE  Heard'
  OBVIOUS
<1>1. /\ worker.step \in {"handing", "revoking"} /\ UNCHANGED <<queue, handler, reply>>
      /\ worker'.step # "stopped"
  BY DEF Handed, Revoke, AfterHandoff, Busy, Idle
<1>2. \A r \in Requests : worker # Busy("redeeming", r)
  BY <1>1 DEF Busy
<1> QED  BY <1>1, <1>2, WorkerKeepsHeard

LEMMA StopKeepsHeard == IInv /\ Heard /\ Stop => Heard'
<1> SUFFICES ASSUME IInv, Heard, Stop
             PROVE  Heard'
  OBVIOUS
<1>1. worker.step = "idle" /\ queue' = <<>> /\ UNCHANGED handler /\ Reply(QueuedRequests, "failure")
  BY DEF Stop
<1>2. \A r \in Requests : Pending(r) => r \in QueuedRequests
  BY <1>1 DEF Pending, QueuedRequests, Busy
<1>3. \A r \in Requests : ~(handler'[r] = "waiting" /\ reply'[r] = "none")
  BY <1>1, <1>2 DEF Reply, Heard
<1> QED  BY <1>1, <1>3 DEF Heard

LEMMA HeardStep == IInv /\ Heard /\ [Next]_vars => Heard'
<1> SUFFICES ASSUME IInv, Heard, [Next]_vars
             PROVE  Heard'
  OBVIOUS
<1> USE DEF IInv, TypeOK
<1>1. ASSUME NEW r \in Requests, NEW s \in Sources, Arrive(r, s)
      PROVE  Heard'
  <2>1. PICK to \in {"reading", "gone"} : handler' = [handler EXCEPT ![r] = to]
    BY <1>1 DEF Arrive, Gone
  <2>2. \A q \in Requests : handler'[q] = "waiting" => handler[q] = "waiting"
    BY <2>1
  <2> QED  BY <1>1, <2>2, LeavingKeepsHeard DEF Arrive
<1>2. ASSUME NEW r \in Requests, Refuse(r) \/ Answer(r) \/ Disconnect(r)
      PROVE  Heard'
  <2>1. /\ handler' = [handler EXCEPT ![r] = "gone"] /\ UNCHANGED <<queue, worker>>
        /\ reply' = reply \/ reply' = [reply EXCEPT ![r] = "none"]
    BY <1>2 DEF Refuse, Answer, Disconnect, Gone
  <2>2. \A q \in Requests : handler'[q] = "waiting" => handler[q] = "waiting" /\ reply'[q] = reply[q]
    BY <2>1
  <2> QED  BY <2>1, <2>2, LeavingKeepsHeard
<1>3. CASE Tick \/ Shutdown \/ UNCHANGED vars
  <2>1. UNCHANGED <<queue, worker, handler, reply>>
    BY <1>3 DEF Tick, Shutdown, vars
  <2> QED  BY <2>1, LeavingKeepsHeard
<1> QED  BY <1>1, <1>2, <1>3, EnqueueKeepsHeard, TakeKeepsHeard, RedeemedKeepsHeard, HandedKeepsHeard,
            StopKeepsHeard DEF Next, Serve, Work

\* Nobody is forgotten, whenever clients come and go and shutdown is asked for:
\* a handler that waits will be answered by what the worker still has to do, and
\* the worker waits only for a handler that is there.
THEOREM ClientsAreRemembered == Spec => []NobodyIsForgotten
<1>1. Init => Heard
  BY DEF Init, Heard, Idle
<1>2. IInv /\ Heard => NobodyIsForgotten
  <2> SUFFICES ASSUME IInv, Heard
               PROVE  NobodyIsForgotten
    OBVIOUS
  <2>1. ASSUME acceptance = "open"
        PROVE  handler[worker.request] = "waiting" /\ reply[worker.request] = "handoff"
    <3>1. worker.step = "handing"
      BY <2>1 DEF IInv, Channels
    <3>2. worker.request \in Requests /\ worker = Busy("handing", worker.request)
      BY <3>1, HandingHolds
    <3>3. reply[worker.request] = "handoff"
      BY <2>1, <3>2 DEF IInv, Channels
    <3> QED  BY <3>2, <3>3 DEF IInv, Channels
  <2> QED  BY <2>1 DEF Heard, NobodyIsForgotten
<1> QED  BY <1>1, <1>2, HeardStep, Invariance, PTL DEF Spec

-----------------------------------------------------------------------------
(***************************************************************************)
(* The rates                                                               *)
(*                                                                         *)
(* A bucket pays for requests what it started with and what it was         *)
(* refilled.  The budget is kept in instants, so that no rounding is lost: *)
(* a token is worth the interval that refills it.  A request that is       *)
(* admitted moves the worth of its token from the bucket to what was paid, *)
(* and passing time pays in.                                               *)
(***************************************************************************)

From(R, at, a) == {r \in R : at[r] >= a}

Window(R, at, a, b) == {r \in R : at[r] \in a..b}

\* Tokens in instants.
Worth(interval, tokens) == interval * tokens

\* The requests R that the bucket admitted at the instants at, since the one it
\* started at: none came after the bucket's next refill, what was paid since an
\* instant and what is left is no more than a full bucket and the time since
\* then, what was paid in all is no more than the initial tokens and the time
\* since the start, and the same was true in every earlier window.
Metered(R, at, start, initial, burst, interval, bucket) ==
  LET next == bucket.refilled + interval - 1 IN
  /\ \A r \in R : at[r] \in start..next
  /\ \A a \in start..next :
       Worth(interval, Cardinality(From(R, at, a))) + Worth(interval, bucket.tokens)
         <= Worth(interval, burst) + (next - a)
  /\ Worth(interval, Cardinality(R)) + Worth(interval, bucket.tokens)
       <= Worth(interval, initial) + (bucket.refilled - start)
  /\ \A a, b \in Nat : start <= a /\ a <= b =>
       /\ Worth(interval, Cardinality(Window(R, at, a, b))) <= Worth(interval, burst) + (b - a) + (interval - 1)
       /\ Worth(interval, Cardinality(Window(R, at, start, b))) <= Worth(interval, initial) + (b - start)

\* The earliest of the requests R.
First(R, at, r) == r \in R /\ \A q \in R : at[r] <= at[q]

Instants == [r \in Requests |-> admission[r].at]

\* What a source has in its bucket, or would have: a source is forgotten when
\* its bucket would be full again.
Credit(c, s, n) ==
  IF c.sources[s].tracked THEN c.sources[s].bucket ELSE NewBucket(SourceBurst, n)

\* The requests R of one source, with what it may count on.
SourceMetered(c, s, n, R, at) ==
  /\ c.sources[s].tracked =>
       R # {} /\ c.sources[s].bucket.refilled <= c.sources[s].seen /\ c.sources[s].seen <= n
  /\ \A r \in Requests : First(R, at, r) =>
       Metered(R, at, at[r], SourceInitial, SourceBurst, SourceRefill, Credit(c, s, n))

\* And those that paid from a bucket that is shared.
OverflowMetered(c, n, R, at) ==
  c.overflow.refilled <= n /\ Metered(R, at, 0, 1, SourceBurst, SourceRefill, c.overflow)

GlobalMetered(c, n, R, at) ==
  c.global.refilled <= n /\ Metered(R, at, 0, GlobalInitial, GlobalBurst, GlobalRefill, c.global)

Meters(c, n) ==
  /\ \A s \in Sources : SourceMetered(c, s, n, OwnBucketOf(s), Instants)
  /\ OverflowMetered(c, n, Overflowed, Instants)
  /\ GlobalMetered(c, n, Admitted, Instants)

\* A request that did not arrive yet has paid nothing, and nobody pays ahead.
Unpaid ==
  \A r \in Requests : admission[r].at <= now /\ (handler[r] = "new" => admission[r].bucket = "none")

\* What the accepted limits are.
LEMMA PositiveLimits ==
  /\ SourceRefill \in Positive /\ GlobalRefill \in Positive
  /\ SourceBurst \in Positive /\ GlobalBurst \in Positive /\ SourceInitial \in Nat /\ GlobalInitial \in Nat
  /\ SourceInitial <= SourceBurst /\ GlobalInitial <= GlobalBurst /\ 1 <= SourceBurst
  BY LimitsAssumption DEF LimitsAccepted, Positive

\* There are finitely many requests to count.
LEMMA RequestsAreFinite ==
  ASSUME NEW R \in SUBSET Requests
  PROVE  IsFiniteSet(R) /\ Cardinality(R) \in Nat
<1>1. IsFiniteSet(Requests)
  BY FS_Interval, QueueAssumption DEF Requests
<1> QED  BY <1>1, FS_Subset, FS_CardinalityType

\* One request more.
LEMMA OneMore ==
  ASSUME NEW R \in SUBSET Requests, NEW r \in Requests, r \notin R
  PROVE  Cardinality(R \cup {r}) = Cardinality(R) + 1
  BY RequestsAreFinite, FS_AddElement

LEMMA NotMore ==
  ASSUME NEW R \in SUBSET Requests, NEW Q \in SUBSET R
  PROVE  Cardinality(Q) <= Cardinality(R)
  BY RequestsAreFinite, FS_Subset

\* The worth of tokens in instants.
LEMMA WorthFacts ==
  ASSUME NEW v \in Positive, NEW x \in Nat, NEW y \in Nat
  PROVE  /\ Worth(v, x) \in Nat /\ Worth(v, x + y) = Worth(v, x) + Worth(v, y)
         /\ x <= y => Worth(v, x) <= Worth(v, y)
         /\ Worth(v, x) < Worth(v, y + 1) => x <= y
         /\ Worth(v, 0) = 0 /\ Worth(v, 1) = v
<1> USE DEF Worth
<1>1. v \in Nat /\ v > 0 /\ v * x \in Nat /\ v * (x + y) = v * x + v * y /\ v * 0 = 0 /\ v * 1 = v
  BY DEF Positive
<1>2. ASSUME x <= y PROVE v * x <= v * y
  <2>1. y - x \in Nat /\ y = x + (y - x)
    BY <1>2
  <2>2. v * y = v * x + v * (y - x) /\ v * (y - x) \in Nat
    BY <1>1, <2>1
  <2> QED  BY <1>1, <2>2
<1>3. ASSUME v * x < v * (y + 1), ~(x <= y) PROVE FALSE
  <2>1. x - (y + 1) \in Nat /\ x = (y + 1) + (x - (y + 1))
    BY <1>3
  <2>2. v * x = v * (y + 1) + v * (x - (y + 1)) /\ v * (x - (y + 1)) \in Nat
    BY <1>1, <2>1
  <2>3. v * (y + 1) \in Nat
    BY <1>1
  <2> QED  BY <1>1, <1>3, <2>2, <2>3
<1> QED  BY <1>1, <1>2, <1>3

LEMMA WorthAdds ==
  ASSUME NEW v \in Positive, NEW x \in Nat, NEW y \in Nat
  PROVE  Worth(v, x + y) = Worth(v, x) + Worth(v, y)
BY WorthFacts

LEMMA OneToken ==
  ASSUME NEW v \in Positive, NEW x \in Nat
  PROVE  Worth(v, x + 1) = Worth(v, x) + v
<1>1. v \in Nat /\ v * (x + 1) = v * x + v
  BY DEF Positive
<1> QED  BY <1>1 DEF Worth

\* What time is worth in tokens.
LEMMA Rounding ==
  ASSUME NEW v \in Positive, NEW d \in Nat
  PROVE  /\ d \div v \in Nat /\ Worth(v, d \div v) <= d /\ d < Worth(v, d \div v) + v
<1>1. v \in Nat /\ v > 0
  BY DEF Positive
<1>2. d = Worth(v, d \div v) + (d % v) /\ d % v \in 0..(v - 1) /\ d \div v \in Int
  BY <1>1 DEF Worth
<1>3. d \div v \in Nat
  BY <1>1
<1>4. Worth(v, d \div v) \in Nat
  BY <1>3, WorthFacts
<1> DEFINE q == d \div v
           m == d % v
<1> HIDE DEF q, m
<1>5. d = Worth(v, q) + m /\ m \in 0..(v - 1) /\ Worth(v, q) \in Nat
  BY <1>2, <1>4 DEF q, m
<1>6. Worth(v, q) <= d /\ d < Worth(v, q) + v
  BY <1>1, <1>5
<1> QED  BY <1>3, <1>6 DEF q

\* More tokens that time has paid for, or fewer: the meters stay.  It covers a
\* refill, a bucket that is taken to be full once it would be, and a bucket
\* that starts with less than that.
LEMMA GainKeepsMetered ==
  ASSUME NEW R \in SUBSET Requests, NEW at \in [Requests -> Nat], NEW start \in Nat,
         NEW initial \in Nat, NEW burst \in Nat, NEW v \in Positive,
         NEW old \in Bucket(burst), NEW new \in Bucket(burst),
         Metered(R, at, start, initial, burst, v, old),
         old.refilled <= new.refilled,
         Worth(v, new.tokens) <= Worth(v, old.tokens) + (new.refilled - old.refilled)
  PROVE  Metered(R, at, start, initial, burst, v, new)
<1> DEFINE f == old.refilled
           g == new.refilled
           gain == Worth(v, new.tokens)
           had == Worth(v, old.tokens)
           full == Worth(v, burst)
<1>1. f \in Nat /\ g \in Nat /\ gain \in Nat /\ had \in Nat /\ full \in Nat /\ gain <= full /\ v \in Nat /\ v > 0
  BY WorthFacts DEF Bucket, Positive
<1>2. f <= g /\ gain <= had + (g - f)
  OBVIOUS
<1>3. ASSUME NEW a \in start..(g + v - 1)
      PROVE  Worth(v, Cardinality(From(R, at, a))) + gain <= full + (g + v - 1 - a)
  <2>1. From(R, at, a) \in SUBSET Requests
    BY DEF From
  <2>2. Worth(v, Cardinality(From(R, at, a))) \in Nat
    BY <2>1, RequestsAreFinite, WorthFacts
  <2>3. CASE a <= f + v - 1
    <3>1. a \in start..(f + v - 1)
      BY <1>1, <2>3
    <3>2. Worth(v, Cardinality(From(R, at, a))) + had <= full + (f + v - 1 - a)
      BY <1>1, <2>2, <3>1 DEF Metered
    <3> HIDE DEF f, g, gain, had, full
    <3> QED  BY <1>1, <1>2, <2>2, <3>2
  <2>4. CASE ~(a <= f + v - 1)
    <3>1. \A r \in R : at[r] <= f + v - 1 /\ at[r] \in Nat
      BY <1>1 DEF Metered
    <3>2. From(R, at, a) = {}
      BY <1>1, <2>4, <3>1 DEF From
    <3>3. Worth(v, Cardinality(From(R, at, a))) = 0
      BY <3>2, FS_EmptySet, WorthFacts
    <3> HIDE DEF f, g, gain, had, full
    <3> QED  BY <1>1, <3>3
  <2> QED  BY <2>3, <2>4
<1>4. \A r \in R : at[r] \in start..(g + v - 1)
  BY <1>1, <1>2 DEF Metered
<1>5. Worth(v, Cardinality(R)) + gain <= Worth(v, initial) + (g - start)
  <2>1. Worth(v, Cardinality(R)) \in Nat /\ Worth(v, initial) \in Nat
    BY RequestsAreFinite, WorthFacts
  <2>2. Worth(v, Cardinality(R)) + had <= Worth(v, initial) + (f - start)
    BY DEF Metered
  <2> HIDE DEF f, g, gain, had, full
  <2> QED  BY <1>1, <1>2, <2>1, <2>2
<1>6. \A a, b \in Nat : start <= a /\ a <= b =>
        /\ Worth(v, Cardinality(Window(R, at, a, b))) <= full + (b - a) + (v - 1)
        /\ Worth(v, Cardinality(Window(R, at, start, b))) <= Worth(v, initial) + (b - start)
  BY <1>1 DEF Metered
<1> HIDE DEF full
<1> QED  BY <1>1, <1>3, <1>4, <1>5, <1>6 DEF Metered, full

\* A request is admitted for a token of a bucket that is up to date.
LEMMA DebitKeepsMetered ==
  ASSUME NEW R \in SUBSET Requests, NEW at \in [Requests -> Nat], NEW start \in Nat,
         NEW initial \in Nat, NEW burst \in Nat, NEW v \in Positive,
         NEW bucket \in Bucket(burst), bucket.tokens # 0,
         Metered(R, at, start, initial, burst, v, bucket),
         NEW r \in Requests, r \notin R, NEW n \in Nat, start <= n,
         bucket.refilled <= n, n < bucket.refilled + v,
         NEW then \in [Requests -> Nat], then = [at EXCEPT ![r] = n]
  PROVE  Metered(R \cup {r}, then, start, initial, burst, v, Debited(bucket))
<1> DEFINE f == bucket.refilled
           had == Worth(v, bucket.tokens)
           left == Worth(v, bucket.tokens - 1)
           full == Worth(v, burst)
           S == R \cup {r}
<1>1. /\ f \in Nat /\ full \in Nat /\ v \in Nat /\ v > 0 /\ left \in Nat /\ had = left + v
      /\ Worth(v, initial) \in Nat
  <2>1. PICK k \in Nat : bucket.tokens = k + 1 /\ bucket.tokens - 1 = k
    BY DEF Bucket
  <2>2. Worth(v, k + 1) = Worth(v, k) + v /\ Worth(v, k) \in Nat
    BY OneToken, WorthFacts
  <2>3. had = left + v /\ left \in Nat
    BY <2>1, <2>2
  <2> QED  BY <2>3, WorthFacts DEF Bucket, Positive
<1>2. Debited(bucket).refilled = f /\ Worth(v, Debited(bucket).tokens) = left
  BY DEF Debited, Bucket
<1>3. then[r] = n /\ \A q \in R : then[q] = at[q] /\ at[q] \in Nat
  OBVIOUS
<1>4. \A Q \in SUBSET R : /\ Worth(v, Cardinality(Q)) \in Nat
                          /\ Worth(v, Cardinality(Q \cup {r})) = Worth(v, Cardinality(Q)) + v
  <2>1. ASSUME NEW Q \in SUBSET R
        PROVE  /\ Worth(v, Cardinality(Q)) \in Nat
               /\ Worth(v, Cardinality(Q \cup {r})) = Worth(v, Cardinality(Q)) + v
    <3>1. Cardinality(Q) \in Nat /\ Cardinality(Q \cup {r}) = Cardinality(Q) + 1
      BY OneMore, RequestsAreFinite
    <3>2. Worth(v, Cardinality(Q) + 1) = Worth(v, Cardinality(Q)) + Worth(v, 1)
      BY <3>1, WorthFacts
    <3> QED  BY <3>1, <3>2, WorthFacts
  <2> QED  BY <2>1
<1>5. \A q \in S : then[q] \in start..(f + v - 1)
  BY <1>1, <1>3 DEF Metered
<1>6. ASSUME NEW a \in start..(f + v - 1)
      PROVE  Worth(v, Cardinality(From(S, then, a))) + left <= full + (f + v - 1 - a)
  <2>1. Worth(v, Cardinality(From(R, at, a))) + had <= full + (f + v - 1 - a)
    BY <1>1 DEF Metered
  <2>2. From(R, at, a) \in SUBSET R
    BY DEF From
  <2>3. From(S, then, a) = IF n >= a THEN From(R, at, a) \cup {r} ELSE From(R, at, a)
    BY <1>3 DEF From
  <2>4. Worth(v, Cardinality(From(S, then, a))) <= Worth(v, Cardinality(From(R, at, a))) + v
    BY <1>1, <1>4, <2>2, <2>3
  <2>5. Worth(v, Cardinality(From(S, then, a))) \in Nat
    BY <1>1, <1>4, <2>2, <2>3
  <2>6. Worth(v, Cardinality(From(R, at, a))) \in Nat
    BY <1>4, <2>2
  <2> HIDE DEF f, had, left, full
  <2> QED  BY <1>1, <2>1, <2>4, <2>5, <2>6
<1>7. Worth(v, Cardinality(S)) + left <= Worth(v, initial) + (f - start)
  <2>1. Worth(v, Cardinality(R)) + had <= Worth(v, initial) + (f - start)
    BY DEF Metered
  <2>2. Worth(v, Cardinality(S)) = Worth(v, Cardinality(R)) + v /\ Worth(v, Cardinality(R)) \in Nat
    BY <1>4
  <2> HIDE DEF f, had, left, full, S
  <2> QED  BY <1>1, <2>1, <2>2
<1>8. ASSUME NEW a \in Nat, NEW b \in Nat, start <= a, a <= b
      PROVE  Worth(v, Cardinality(Window(S, then, a, b))) <= full + (b - a) + (v - 1)
  <2>1. CASE n \in a..b
    <3>1. a \in start..(f + v - 1)
      BY <1>1, <1>8, <2>1
    <3>2. Worth(v, Cardinality(From(S, then, a))) + left <= full + (f + v - 1 - a)
      BY <1>6, <3>1
    <3>3. From(S, then, a) \in SUBSET Requests /\ Window(S, then, a, b) \in SUBSET From(S, then, a)
      BY <1>3 DEF From, Window
    <3>4. Worth(v, Cardinality(Window(S, then, a, b))) <= Worth(v, Cardinality(From(S, then, a)))
      BY <3>3, NotMore, RequestsAreFinite, WorthFacts
    <3>5. Worth(v, Cardinality(Window(S, then, a, b))) \in Nat /\ Worth(v, Cardinality(From(S, then, a))) \in Nat
      BY <3>3, RequestsAreFinite, WorthFacts
    <3>6. f <= b
      BY <1>1, <2>1
    <3> HIDE DEF f, left, full, S
    <3> QED  BY <1>1, <3>2, <3>4, <3>5, <3>6
  <2>2. CASE n \notin a..b
    <3>1. Window(S, then, a, b) = Window(R, at, a, b)
      BY <1>3, <2>2 DEF Window
    <3> QED  BY <1>8, <3>1 DEF Metered
  <2> QED  BY <2>1, <2>2
<1>9. ASSUME NEW b \in Nat, start <= b
      PROVE  Worth(v, Cardinality(Window(S, then, start, b))) <= Worth(v, initial) + (b - start)
  <2>1. CASE n <= b
    <3>1. Window(S, then, start, b) \in SUBSET S /\ S \in SUBSET Requests
      BY DEF Window
    <3>2. Worth(v, Cardinality(Window(S, then, start, b))) <= Worth(v, Cardinality(S))
      BY <3>1, NotMore, RequestsAreFinite, WorthFacts
    <3>3. Worth(v, Cardinality(Window(S, then, start, b))) \in Nat /\ Worth(v, Cardinality(S)) \in Nat
      BY <3>1, RequestsAreFinite, WorthFacts
    <3>4. f <= b
      BY <1>1, <2>1
    <3> HIDE DEF f, left, full, S
    <3> QED  BY <1>1, <1>7, <3>2, <3>3, <3>4
  <2>2. CASE ~(n <= b)
    <3>1. Window(S, then, start, b) = Window(R, at, start, b)
      BY <1>3, <2>2 DEF Window
    <3>2. start \in Nat /\ start <= start
      OBVIOUS
    <3> QED  BY <1>9, <3>1, <3>2 DEF Metered
  <2> QED  BY <2>1, <2>2
<1> HIDE DEF f, had, left, full, S
<1>10. \A a, b \in Nat : start <= a /\ a <= b =>
         /\ Worth(v, Cardinality(Window(S, then, a, b))) <= full + (b - a) + (v - 1)
         /\ Worth(v, Cardinality(Window(S, then, start, b))) <= Worth(v, initial) + (b - start)
  <2> SUFFICES ASSUME NEW a \in Nat, NEW b \in Nat, start <= a, a <= b
               PROVE  /\ Worth(v, Cardinality(Window(S, then, a, b))) <= full + (b - a) + (v - 1)
                      /\ Worth(v, Cardinality(Window(S, then, start, b))) <= Worth(v, initial) + (b - start)
    OBVIOUS
  <2>1. start <= b
    OBVIOUS
  <2> QED  BY <1>8, <1>9, <2>1
<1> DEFINE rest == Debited(bucket)
           next == rest.refilled + v - 1
<1>11. next = f + v - 1 /\ Worth(v, rest.tokens) = left /\ rest.refilled = f
  BY <1>2
<1> HIDE DEF rest, next
<1>12. \A a \in start..next :
         Worth(v, Cardinality(From(S, then, a))) + Worth(v, rest.tokens) <= full + (next - a)
  <2> SUFFICES ASSUME NEW a \in start..next
               PROVE  Worth(v, Cardinality(From(S, then, a))) + Worth(v, rest.tokens) <= full + (next - a)
    OBVIOUS
  <2>1. a \in start..(f + v - 1)
    BY <1>11
  <2>2. Worth(v, Cardinality(From(S, then, a))) + left <= full + (f + v - 1 - a)
    BY <1>6, <2>1
  <2>3. Worth(v, Cardinality(From(S, then, a))) \in Nat
    <3>1. From(S, then, a) \in SUBSET Requests
      BY DEF From, S
    <3> QED  BY <3>1, RequestsAreFinite, WorthFacts
  <2> QED  BY <1>1, <1>11, <2>1, <2>2, <2>3
<1>13. Worth(v, Cardinality(S)) + Worth(v, rest.tokens) <= Worth(v, initial) + (rest.refilled - start)
  BY <1>7, <1>11
<1>14. \A q \in S : then[q] \in start..next
  BY <1>5, <1>11
<1> QED  BY <1>10, <1>12, <1>13, <1>14 DEF Metered, S, full, rest, next

\* Before its first request.
LEMMA NothingPaid ==
  ASSUME NEW at \in [Requests -> Nat], NEW n \in Nat,
         NEW initial \in Nat, NEW burst \in Nat, initial <= burst, NEW v \in Positive
  PROVE  Metered({}, at, n, initial, burst, v, NewBucket(initial, n))
<1>1. \A a, b : From({}, at, a) = {} /\ Window({}, at, a, b) = {}
  BY DEF From, Window
<1>2. Cardinality({}) = 0 /\ Worth(v, 0) = 0
  BY FS_EmptySet, WorthFacts
<1>3. Worth(v, initial) \in Nat /\ Worth(v, burst) \in Nat /\ Worth(v, initial) <= Worth(v, burst) /\ v \in Nat /\ v > 0
  BY WorthFacts DEF Positive
<1>4. NewBucket(initial, n).tokens = initial /\ NewBucket(initial, n).refilled = n
  BY DEF NewBucket
<1> DEFINE i == Worth(v, initial)
           full == Worth(v, burst)
<1>5. i \in Nat /\ full \in Nat /\ i <= full
  BY <1>3
<1> HIDE DEF i, full
<1>6. ASSUME NEW a \in n..(n + v - 1)
      PROVE  Worth(v, Cardinality(From({}, at, a))) + i <= full + (n + v - 1 - a)
  BY <1>1, <1>2, <1>3, <1>5
<1>7. Worth(v, Cardinality({})) + i <= i + (n - n)
  BY <1>2, <1>5
<1>8. ASSUME NEW a \in Nat, NEW b \in Nat, n <= a, a <= b
      PROVE  /\ Worth(v, Cardinality(Window({}, at, a, b))) <= full + (b - a) + (v - 1)
             /\ Worth(v, Cardinality(Window({}, at, n, b))) <= i + (b - n)
  BY <1>1, <1>2, <1>3, <1>5, <1>8
<1> DEFINE new == NewBucket(initial, n)
           next == new.refilled + v - 1
<1>9. next = n + v - 1 /\ Worth(v, new.tokens) = i /\ new.refilled = n
  BY <1>4 DEF i
<1> HIDE DEF new, next
<1>10. \A a \in n..next : Worth(v, Cardinality(From({}, at, a))) + Worth(v, new.tokens) <= full + (next - a)
  BY <1>3, <1>5, <1>6, <1>9
<1>11. Worth(v, Cardinality({})) + Worth(v, new.tokens) <= i + (new.refilled - n)
  BY <1>7, <1>9
<1> QED  BY <1>8, <1>10, <1>11 DEF Metered, i, full, new, next

\* A bucket whose meters are right has kept its requests within the rate.
LEMMA MeteredIsWithin ==
  ASSUME NEW R \in SUBSET Requests, Instants \in [Requests -> Nat], now \in Nat,
         NEW start \in Nat, NEW initial \in Nat, NEW burst \in Nat, NEW v \in Positive,
         NEW bucket, Metered(R, Instants, start, initial, burst, v, bucket)
  PROVE  Within(R, start, initial, burst, v)
<1>1. \A a, b : AdmittedBetween(R, a, b) = Window(R, Instants, a, b)
  BY DEF AdmittedBetween, Window, Instants
<1>2. \A a, b : Cardinality(Window(R, Instants, a, b)) \in Nat
  BY RequestsAreFinite DEF Window
<1>3. ASSUME NEW a \in start..now, NEW b \in start..now
      PROVE  Cardinality(Window(R, Instants, start, b)) <= initial + ((b - start) \div v)
  <2> DEFINE w == Cardinality(Window(R, Instants, start, b))
             q == (b - start) \div v
  <2>1. b - start \in Nat /\ b \in Nat /\ start <= b
    OBVIOUS
  <2>2. Worth(v, w) <= Worth(v, initial) + (b - start)
    BY <2>1 DEF Metered
  <2>3. q \in Nat /\ b - start < Worth(v, q) + v
    BY <2>1, Rounding
  <2>4. w \in Nat
    BY <1>2
  <2> HIDE DEF w, q
  <2>5. /\ Worth(v, initial + q) = Worth(v, initial) + Worth(v, q)
        /\ Worth(v, (initial + q) + 1) = Worth(v, initial + q) + v
    <3>1. initial + q \in Nat
      BY <2>3
    <3> QED  BY <2>3, <3>1, WorthFacts, OneToken
  <2>6. Worth(v, w) \in Nat /\ Worth(v, initial) \in Nat /\ Worth(v, q) \in Nat /\ v \in Nat
    BY <2>3, <2>4, WorthFacts DEF Positive
  <2>7. Worth(v, w) < Worth(v, (initial + q) + 1)
    BY <2>1, <2>2, <2>3, <2>5, <2>6
  <2>8. w <= initial + q
    BY <2>3, <2>4, <2>7, WorthFacts
  <2> QED  BY <2>8 DEF w, q
<1>4. ASSUME NEW a \in start..now, NEW b \in start..now, a <= b
      PROVE  Cardinality(Window(R, Instants, a, b)) <= burst + ((b - a) \div v) + 1
  <2> DEFINE w == Cardinality(Window(R, Instants, a, b))
             q == (b - a) \div v
  <2>1. b - a \in Nat /\ a \in Nat /\ b \in Nat /\ start <= a
    BY <1>4
  <2>2. Worth(v, w) <= Worth(v, burst) + (b - a) + (v - 1)
    BY <1>4, <2>1 DEF Metered
  <2>3. q \in Nat /\ b - a < Worth(v, q) + v
    BY <2>1, Rounding
  <2>4. w \in Nat
    BY <1>2
  <2> HIDE DEF w, q
  <2>5. /\ Worth(v, burst + q) = Worth(v, burst) + Worth(v, q)
        /\ Worth(v, (burst + q) + 1) = Worth(v, burst + q) + v
        /\ Worth(v, (burst + q + 1) + 1) = Worth(v, burst + q + 1) + v
    <3>1. burst + q \in Nat /\ burst + q + 1 \in Nat
      BY <2>3
    <3> QED  BY <2>3, <3>1, WorthFacts, OneToken
  <2>6. Worth(v, w) \in Nat /\ Worth(v, burst) \in Nat /\ Worth(v, q) \in Nat /\ v \in Nat
    BY <2>3, <2>4, WorthFacts DEF Positive
  <2>7. Worth(v, w) < Worth(v, (burst + q + 1) + 1)
    BY <2>1, <2>2, <2>3, <2>5, <2>6
  <2>8. w <= burst + q + 1
    BY <2>3, <2>4, <2>7, WorthFacts
  <2> QED  BY <2>8 DEF w, q
<1> QED  BY <1>1, <1>3, <1>4 DEF Within

\* Refilling a bucket pays out as many tokens at most as whole intervals have
\* passed, and leaves less than one.
LEMMA RefillingPaysOut ==
  ASSUME NEW burst \in Nat, NEW v \in Positive, NEW n \in Nat, NEW bucket \in Bucket(burst),
         bucket.refilled <= n
  PROVE  LET new == Refilled(bucket, burst, v, n) IN
         /\ new \in Bucket(burst)
         /\ bucket.refilled <= new.refilled /\ new.refilled <= n /\ n < new.refilled + v
         /\ Worth(v, new.tokens) <= Worth(v, bucket.tokens) + (new.refilled - bucket.refilled)
<1> DEFINE new == Refilled(bucket, burst, v, n)
           k == Since(bucket.refilled, n) \div v
<1>1. bucket.tokens \in Nat /\ bucket.refilled \in Nat /\ v \in Nat /\ v > 0
  BY DEF Bucket, Positive
<1>2. Since(bucket.refilled, n) = n - bucket.refilled /\ n - bucket.refilled \in Nat
  BY <1>1 DEF Since
<1>3. k \in Nat /\ Worth(v, k) <= n - bucket.refilled /\ n - bucket.refilled < Worth(v, k) + v
  BY <1>2, Rounding
<1>4. Worth(v, k) \in Nat
  BY <1>3, WorthFacts
<1>5. k * v = Worth(v, k)
  <2> HIDE DEF k
  <2> QED  BY <1>1, <1>3 DEF Worth
<1>6. new.tokens = Least(burst, bucket.tokens + k) /\ new.refilled = bucket.refilled + Worth(v, k)
  BY <1>5 DEF Refilled
<1>7. new \in Bucket(burst)
  BY RefilledIsBucket
<1> HIDE DEF new, k
<1>8. new.tokens \in Nat /\ bucket.tokens + k \in Nat /\ new.tokens <= bucket.tokens + k
  BY <1>1, <1>3, <1>6 DEF Least
<1>9. Worth(v, new.tokens) <= Worth(v, bucket.tokens) + Worth(v, k)
  <2>1. Worth(v, new.tokens) <= Worth(v, bucket.tokens + k)
    BY <1>8, WorthFacts
  <2>2. Worth(v, bucket.tokens + k) = Worth(v, bucket.tokens) + Worth(v, k)
    <3>1. PICK t \in Nat : t = bucket.tokens
      BY <1>1
    <3>2. Worth(v, t + k) = Worth(v, t) + Worth(v, k)
      BY <1>3, WorthAdds
    <3> QED  BY <3>1, <3>2
  <2> QED  BY <2>1, <2>2
<1>10. new.refilled - bucket.refilled = Worth(v, k)
  BY <1>1, <1>4, <1>6
<1>11. bucket.refilled <= new.refilled /\ new.refilled <= n /\ n < new.refilled + v
  BY <1>1, <1>3, <1>4, <1>6
<1> QED  BY <1>7, <1>9, <1>10, <1>11 DEF new

LEMMA RefillKeepsMetered ==
  ASSUME NEW R \in SUBSET Requests, NEW at \in [Requests -> Nat], NEW start \in Nat,
         NEW initial \in Nat, NEW burst \in Nat, NEW v \in Positive,
         NEW bucket \in Bucket(burst), NEW n \in Nat, bucket.refilled <= n,
         Metered(R, at, start, initial, burst, v, bucket)
  PROVE  Metered(R, at, start, initial, burst, v, Refilled(bucket, burst, v, n))
<1> DEFINE new == Refilled(bucket, burst, v, n)
<1>1. /\ new \in Bucket(burst) /\ bucket.refilled <= new.refilled
      /\ Worth(v, new.tokens) <= Worth(v, bucket.tokens) + (new.refilled - bucket.refilled)
  BY RefillingPaysOut
<1> HIDE DEF new
<1>2. Metered(R, at, start, initial, burst, v, new)
  BY <1>1, GainKeepsMetered
<1> QED  BY <1>2 DEF new

-----------------------------------------------------------------------------
\* A bucket of a source.
LEMMA EntryIsTyped ==
  ASSUME NEW c \in Controllers, NEW s \in Sources
  PROVE  /\ c.sources[s] \in Entry /\ c.sources[s].bucket \in Bucket(SourceBurst)
         /\ c.sources[s].bucket.refilled \in Nat /\ c.sources[s].seen \in Nat
         /\ c.overflow \in Bucket(SourceBurst) /\ c.overflow.refilled \in Nat
         /\ c.global \in Bucket(GlobalBurst) /\ c.global.refilled \in Nat
  BY DEF Controllers, Entry, Bucket

\* A full bucket stays what a source that is not tracked may count on.
LEMMA TimeKeepsMeters ==
  ASSUME NEW c \in Controllers, NEW n \in Nat, NEW s \in Sources,
         NEW R \in SUBSET Requests, NEW at \in [Requests -> Nat], SourceMetered(c, s, n, R, at)
  PROVE  SourceMetered(c, s, n + 1, R, at)
<1>1. CASE c.sources[s].tracked
  BY <1>1, EntryIsTyped DEF SourceMetered, Credit
<1>2. CASE ~c.sources[s].tracked
  <2> SUFFICES ASSUME NEW r \in Requests, First(R, at, r)
               PROVE  Metered(R, at, at[r], SourceInitial, SourceBurst, SourceRefill, Credit(c, s, n + 1))
    BY <1>2 DEF SourceMetered
  <2> DEFINE old == NewBucket(SourceBurst, n)
             new == NewBucket(SourceBurst, n + 1)
  <2>1. Metered(R, at, at[r], SourceInitial, SourceBurst, SourceRefill, old)
    BY <1>2 DEF SourceMetered, Credit
  <2>2. /\ old \in Bucket(SourceBurst) /\ new \in Bucket(SourceBurst)
        /\ old.refilled = n /\ new.refilled = n + 1 /\ old.tokens = new.tokens /\ old.tokens \in Nat
    BY PositiveLimits DEF NewBucket, Bucket, Positive
  <2> HIDE DEF old, new
  <2>3. /\ old.refilled <= new.refilled
        /\ Worth(SourceRefill, new.tokens) <= Worth(SourceRefill, old.tokens) + (new.refilled - old.refilled)
    <3>1. Worth(SourceRefill, old.tokens) \in Nat
      BY <2>2, PositiveLimits, WorthFacts
    <3> QED  BY <2>2, <3>1
  <2>4. at[r] \in Nat /\ SourceInitial \in Nat /\ SourceBurst \in Nat /\ SourceRefill \in Positive
    BY PositiveLimits DEF Positive
  <2>5. Metered(R, at, at[r], SourceInitial, SourceBurst, SourceRefill, new)
    BY <2>1, <2>2, <2>3, <2>4, GainKeepsMetered
  <2> QED  BY <1>2, <2>5 DEF Credit, new
<1> QED  BY <1>1, <1>2

\* A source is forgotten no sooner than its bucket would be full.
LEMMA ForgettingKeepsMeters ==
  ASSUME NEW c \in Controllers, NEW n \in Nat, NEW s \in Stale(c, n),
         NEW R \in SUBSET Requests, NEW at \in [Requests -> Nat], SourceMetered(c, s, n, R, at),
         NEW d \in Controllers, d.sources[s] = Untracked
  PROVE  SourceMetered(d, s, n, R, at)
<1> SUFFICES ASSUME NEW r \in Requests, First(R, at, r)
             PROVE  Metered(R, at, at[r], SourceInitial, SourceBurst, SourceRefill, Credit(d, s, n))
  BY DEF SourceMetered, Untracked
<1> DEFINE old == c.sources[s].bucket
           new == NewBucket(SourceBurst, n)
           full == Worth(SourceRefill, SourceBurst)
<1>1. s \in Sources /\ c.sources[s].tracked
  BY DEF Stale, TrackedIn
<1>2. old.refilled <= c.sources[s].seen /\ c.sources[s].seen <= n
  BY <1>1 DEF SourceMetered
<1>3. Metered(R, at, at[r], SourceInitial, SourceBurst, SourceRefill, old)
  BY <1>1 DEF SourceMetered, Credit
<1>4. old \in Bucket(SourceBurst) /\ old.refilled \in Nat /\ c.sources[s].seen \in Nat /\ old.tokens \in Nat
  BY <1>1, EntryIsTyped DEF Bucket
<1>5. Since(c.sources[s].seen, n) >= full
  BY DEF Stale, Worth
<1>6. full \in Nat /\ Worth(SourceRefill, old.tokens) \in Nat
  BY <1>4, PositiveLimits, WorthFacts DEF Positive
<1>7. new \in Bucket(SourceBurst) /\ new.refilled = n /\ new.tokens = SourceBurst
  BY PositiveLimits DEF NewBucket, Bucket, Positive
<1> HIDE DEF old, new, full
<1>8. n - c.sources[s].seen >= full
  BY <1>2, <1>4, <1>5, <1>6 DEF Since
<1>9. /\ old.refilled <= new.refilled
      /\ Worth(SourceRefill, new.tokens) <= Worth(SourceRefill, old.tokens) + (new.refilled - old.refilled)
  <2>1. Worth(SourceRefill, new.tokens) = full
    BY <1>7 DEF full
  <2> QED  BY <1>2, <1>4, <1>6, <1>7, <1>8, <2>1
<1>10. at[r] \in Nat /\ SourceInitial \in Nat /\ SourceBurst \in Nat /\ SourceRefill \in Positive
  BY PositiveLimits DEF Positive
<1>11. Metered(R, at, at[r], SourceInitial, SourceBurst, SourceRefill, new)
  BY <1>3, <1>4, <1>7, <1>9, <1>10, GainKeepsMetered
<1> QED  BY <1>11 DEF Credit, Untracked, new

-----------------------------------------------------------------------------
\* Which requests were admitted when is all the meters depend on.
LEMMA SameRequests ==
  ASSUME NEW R \in SUBSET Requests, NEW at, NEW then, \A q \in R : then[q] = at[q]
  PROVE  /\ \A start, initial, burst, v, bucket :
              Metered(R, at, start, initial, burst, v, bucket)
                => Metered(R, then, start, initial, burst, v, bucket)
         /\ \A q : First(R, then, q) => First(R, at, q) /\ then[q] = at[q]
<1>1. \A a, b : From(R, then, a) = From(R, at, a) /\ Window(R, then, a, b) = Window(R, at, a, b)
  BY DEF From, Window
<1>2. \A start, next : (\A r \in R : at[r] \in start..next) => \A r \in R : then[r] \in start..next
  OBVIOUS
<1> QED  BY <1>1, <1>2 DEF Metered, First

LEMMA SameSource ==
  ASSUME NEW c, NEW d, NEW s \in Sources, NEW n, d.sources[s] = c.sources[s],
         NEW R \in SUBSET Requests, NEW at, NEW then, \A q \in R : then[q] = at[q],
         SourceMetered(c, s, n, R, at)
  PROVE  SourceMetered(d, s, n, R, then)
<1>1. Credit(d, s, n) = Credit(c, s, n)
  BY DEF Credit
<1>2. ASSUME NEW r \in Requests, First(R, then, r)
      PROVE  Metered(R, then, then[r], SourceInitial, SourceBurst, SourceRefill, Credit(d, s, n))
  <2>1. First(R, at, r) /\ then[r] = at[r]
    BY <1>2, SameRequests
  <2>2. Metered(R, at, at[r], SourceInitial, SourceBurst, SourceRefill, Credit(d, s, n))
    BY <1>1, <2>1 DEF SourceMetered
  <2> QED  BY <2>1, <2>2, SameRequests
<1> QED  BY <1>2 DEF SourceMetered

\* Making room changes what one source may count on at most.
LEMMA RoomKeepsMeters ==
  ASSUME NEW c \in Controllers, NEW s \in Sources, NEW n \in Nat, NEW d \in MakingRoom(c, s, n),
         Instants \in [Requests -> Nat], Meters(c, n)
  PROVE  d \in Controllers /\ Meters(d, n)
<1>1. d \in Controllers
  BY RoomIsController
<1>2. CASE d = c
  BY <1>1, <1>2
<1>3. ASSUME NEW t \in Stale(c, n), d = [c EXCEPT !.sources[t] = Untracked]
      PROVE  Meters(d, n)
  <2>1. /\ t \in Sources /\ d.sources[t] = Untracked /\ d.overflow = c.overflow /\ d.global = c.global
        /\ \A u \in Sources \ {t} : d.sources[u] = c.sources[u]
    BY <1>3 DEF Stale, TrackedIn, Controllers
  <2>2. \A u \in Sources : OwnBucketOf(u) \in SUBSET Requests
    BY DEF OwnBucketOf
  <2>3. SourceMetered(d, t, n, OwnBucketOf(t), Instants)
    BY <1>1, <2>1, <2>2, ForgettingKeepsMeters DEF Meters
  <2>4. ASSUME NEW u \in Sources, u # t
        PROVE  SourceMetered(d, u, n, OwnBucketOf(u), Instants)
    BY <2>1, <2>2, <2>4, SameSource DEF Meters
  <2> QED  BY <2>1, <2>3, <2>4 DEF Meters, OverflowMetered, GlobalMetered
<1> QED  BY <1>1, <1>2, <1>3 DEF MakingRoom

\* What paying changes.
LEMMA PaidFields ==
  ASSUME NEW c \in Controllers, NEW s \in Sources, NEW b \in Bucket(SourceBurst), NEW n \in Nat
  PROVE  LET d == Paid(c, s, b, n) IN
         /\ d.global = c.global /\ \A t \in Sources \ {s} : d.sources[t] = c.sources[t]
         /\ Selected(c, s) = "overflow" => d.overflow = b /\ d.sources[s] = c.sources[s]
         /\ Selected(c, s) # "overflow" =>
              d.overflow = c.overflow /\ d.sources[s] = [tracked |-> TRUE, bucket |-> b, seen |-> n]
  BY DEF Paid, Controllers

\* Who is selected when.
LEMMA SelectedFacts ==
  ASSUME NEW c \in Controllers, NEW s \in Sources, NEW n \in Nat
  PROVE  /\ Selected(c, s) \in {"tracked", "overflow", "new"}
         /\ c.sources[s].tracked <=> Selected(c, s) = "tracked"
         /\ SelectedBucket(c, s, n) \in Bucket(SourceBurst)
         /\ Selected(c, s) = "tracked" => SelectedBucket(c, s, n) = c.sources[s].bucket
         /\ Selected(c, s) = "overflow" => SelectedBucket(c, s, n) = c.overflow
         /\ Selected(c, s) = "new" => SelectedBucket(c, s, n) = NewBucket(SourceInitial, n)
  BY Limits DEF Selected, SelectedBucket, Controllers, Entry, NewBucket, Bucket

Own(c, s, n) == Refilled(SelectedBucket(c, s, n), SourceBurst, SourceRefill, n)

\* The refilled bucket of a source has paid for the requests of the source.
LEMMA OwnIsMetered ==
  ASSUME NEW c \in Controllers, NEW s \in Sources, NEW n \in Nat, Selected(c, s) # "overflow",
         NEW R \in SUBSET Requests, NEW at \in [Requests -> Nat], SourceMetered(c, s, n, R, at)
  PROVE  /\ Own(c, s, n) \in Bucket(SourceBurst)
         /\ Own(c, s, n).refilled <= n /\ n < Own(c, s, n).refilled + SourceRefill
         /\ \A q \in Requests : First(R, at, q) =>
              Metered(R, at, at[q], SourceInitial, SourceBurst, SourceRefill, Own(c, s, n))
         /\ R = {} => Metered({}, at, n, SourceInitial, SourceBurst, SourceRefill, Own(c, s, n))
<1> DEFINE old == SelectedBucket(c, s, n)
<1>1. old \in Bucket(SourceBurst) /\ SourceInitial \in Nat /\ SourceBurst \in Nat /\ SourceRefill \in Positive
  BY SelectedFacts, PositiveLimits DEF Positive
<1>2. CASE Selected(c, s) = "tracked"
  <2>1. old = c.sources[s].bucket /\ Credit(c, s, n) = old /\ R # {} /\ old.refilled <= n
    <3>1. old = c.sources[s].bucket /\ c.sources[s].tracked
      BY <1>2, SelectedFacts
    <3> QED  BY <3>1, EntryIsTyped DEF SourceMetered, Credit
  <2> HIDE DEF old
  <2>2. \A q \in Requests : First(R, at, q) =>
          Metered(R, at, at[q], SourceInitial, SourceBurst, SourceRefill, old)
    BY <2>1 DEF SourceMetered
  <2>3. ASSUME NEW q \in Requests, First(R, at, q)
        PROVE  Metered(R, at, at[q], SourceInitial, SourceBurst, SourceRefill, Refilled(old, SourceBurst, SourceRefill, n))
    BY <1>1, <2>1, <2>2, <2>3, RefillKeepsMetered
  <2> QED  BY <1>1, <2>1, <2>3, RefillingPaysOut DEF Own, old
<1>3. CASE Selected(c, s) = "new"
  <2>1. old = NewBucket(SourceInitial, n) /\ ~c.sources[s].tracked
    BY <1>3, SelectedFacts
  <2>2. old.refilled = n /\ old.tokens = SourceInitial /\ old.refilled <= n
    BY <2>1 DEF NewBucket
  <2> DEFINE full == NewBucket(SourceBurst, n)
  <2>3. full \in Bucket(SourceBurst) /\ full.refilled = n /\ full.tokens = SourceBurst
    BY PositiveLimits DEF NewBucket, Bucket, Positive
  <2>4. \A q \in Requests : First(R, at, q) =>
          Metered(R, at, at[q], SourceInitial, SourceBurst, SourceRefill, full)
    BY <2>1 DEF SourceMetered, Credit
  <2> HIDE DEF full
  <2>5. /\ full.refilled <= old.refilled
        /\ Worth(SourceRefill, old.tokens) <= Worth(SourceRefill, full.tokens) + (old.refilled - full.refilled)
    <3>1. /\ Worth(SourceRefill, SourceInitial) <= Worth(SourceRefill, SourceBurst)
          /\ Worth(SourceRefill, SourceInitial) \in Nat /\ Worth(SourceRefill, SourceBurst) \in Nat
      BY <1>1, PositiveLimits, WorthFacts
    <3> QED  BY <2>2, <2>3, <3>1
  <2>6. Metered({}, at, n, SourceInitial, SourceBurst, SourceRefill, old)
    BY <1>1, <2>1, NothingPaid, PositiveLimits
  <2> HIDE DEF old
  <2>7. ASSUME NEW q \in Requests, First(R, at, q)
        PROVE  Metered(R, at, at[q], SourceInitial, SourceBurst, SourceRefill, Refilled(old, SourceBurst, SourceRefill, n))
    <3>1. Metered(R, at, at[q], SourceInitial, SourceBurst, SourceRefill, full) /\ at[q] \in Nat
      BY <2>4, <2>7
    <3>2. Metered(R, at, at[q], SourceInitial, SourceBurst, SourceRefill, old)
      BY <1>1, <2>3, <2>5, <3>1, GainKeepsMetered
    <3> QED  BY <1>1, <2>2, <3>1, <3>2, RefillKeepsMetered
  <2>8. Metered({}, at, n, SourceInitial, SourceBurst, SourceRefill, Refilled(old, SourceBurst, SourceRefill, n))
    BY <1>1, <2>2, <2>6, RefillKeepsMetered
  <2> QED  BY <1>1, <2>2, <2>7, <2>8, RefillingPaysOut DEF Own, old
<1> QED  BY <1>2, <1>3, SelectedFacts

\* A source that is known, or admitted now, and pays from its own bucket.
LEMMA OwnPays ==
  ASSUME NEW c \in Controllers, NEW s \in Sources, NEW n \in Nat, Selected(c, s) # "overflow",
         NEW R \in SUBSET Requests, NEW at \in [Requests -> Nat], SourceMetered(c, s, n, R, at),
         \A q \in R : at[q] <= n,
         Own(c, s, n).tokens # 0,
         NEW d, d.sources[s] = [tracked |-> TRUE, bucket |-> Debited(Own(c, s, n)), seen |-> n],
         NEW r \in Requests, r \notin R,
         NEW then \in [Requests -> Nat], then = [at EXCEPT ![r] = n]
  PROVE  SourceMetered(d, s, n, R \cup {r}, then)
<1> DEFINE own == Own(c, s, n)
<1>1. /\ own \in Bucket(SourceBurst) /\ own.refilled <= n /\ n < own.refilled + SourceRefill
      /\ \A q \in Requests : First(R, at, q) =>
           Metered(R, at, at[q], SourceInitial, SourceBurst, SourceRefill, own)
      /\ R = {} => Metered({}, at, n, SourceInitial, SourceBurst, SourceRefill, own)
  BY OwnIsMetered
<1> HIDE DEF own
<1>2. Debited(own).refilled = own.refilled
  BY <1>1 DEF Debited, Bucket
<1>3. own.tokens # 0 /\ SourceInitial \in Nat /\ SourceBurst \in Nat /\ SourceRefill \in Positive
  BY PositiveLimits DEF own, Positive
<1>4. ASSUME NEW x \in Requests, First(R \cup {r}, then, x)
      PROVE  Metered(R \cup {r}, then, then[x], SourceInitial, SourceBurst, SourceRefill, Debited(own))
  <2>1. \A q \in R : then[q] = at[q] /\ at[q] \in Nat /\ at[q] <= n
    OBVIOUS
  <2>2. then[r] = n
    OBVIOUS
  <2>3. CASE R = {}
    <3>1. Metered(R, at, n, SourceInitial, SourceBurst, SourceRefill, own) /\ x = r
      BY <1>1, <1>4, <2>3 DEF First
    <3>2. n <= n
      OBVIOUS
    <3>3. Metered(R \cup {r}, then, n, SourceInitial, SourceBurst, SourceRefill, Debited(own))
      BY <1>1, <1>3, <3>1, <3>2, DebitKeepsMetered
    <3> QED  BY <2>2, <3>1, <3>3
  <2>4. CASE R # {}
    <3>1. PICK q \in R : First(R, at, q) /\ at[q] = then[x]
      <4>1. CASE x \in R
        BY <1>4, <2>1, <4>1 DEF First
      <4>2. CASE x = r
        <5>1. \A q \in R : n <= at[q]
          BY <1>4, <2>1, <2>2, <4>2 DEF First
        <5>2. \A q \in R : at[q] = n
          BY <2>1, <5>1
        <5> QED  BY <2>2, <2>4, <4>2, <5>2 DEF First
      <4> QED  BY <1>4, <4>1, <4>2 DEF First
    <3>2. Metered(R, at, at[q], SourceInitial, SourceBurst, SourceRefill, own)
      BY <1>1, <3>1
    <3>3. at[q] \in Nat /\ at[q] <= n
      BY <2>1
    <3>4. Metered(R \cup {r}, then, at[q], SourceInitial, SourceBurst, SourceRefill, Debited(own))
      BY <1>1, <1>3, <3>2, <3>3, DebitKeepsMetered
    <3> QED  BY <3>1, <3>4
  <2> QED  BY <2>3, <2>4
<1>5. Credit(d, s, n) = Debited(own)
  BY DEF Credit, own
<1>6. d.sources[s].bucket = Debited(own) /\ d.sources[s].seen = n /\ n <= n
  BY DEF own
<1>7. R \cup {r} # {} /\ d.sources[s].bucket.refilled <= d.sources[s].seen /\ d.sources[s].seen <= n
  BY <1>1, <1>2, <1>6
<1> HIDE DEF Credit
<1> QED  BY <1>4, <1>5, <1>7 DEF SourceMetered

\* A bucket that is shared is looked at.
LEMMA SharedRefill ==
  ASSUME NEW R \in SUBSET Requests, NEW at \in [Requests -> Nat],
         NEW initial \in Nat, NEW burst \in Nat, NEW v \in Positive,
         NEW bucket \in Bucket(burst), NEW n \in Nat, bucket.refilled <= n,
         Metered(R, at, 0, initial, burst, v, bucket),
         NEW new, new = Refilled(bucket, burst, v, n)
  PROVE  /\ new \in Bucket(burst) /\ new.refilled <= n /\ n < new.refilled + v
         /\ Metered(R, at, 0, initial, burst, v, new)
<1>1. new \in Bucket(burst) /\ new.refilled <= n /\ n < new.refilled + v
  BY RefillingPaysOut
<1>2. 0 \in Nat
  OBVIOUS
<1> QED  BY <1>1, <1>2, RefillKeepsMetered

\* And paid from.
LEMMA SharedPays ==
  ASSUME NEW R \in SUBSET Requests, NEW at \in [Requests -> Nat],
         NEW initial \in Nat, NEW burst \in Nat, NEW v \in Positive,
         NEW bucket \in Bucket(burst), NEW n \in Nat, bucket.refilled <= n,
         Metered(R, at, 0, initial, burst, v, bucket),
         NEW new, new = Refilled(bucket, burst, v, n), new.tokens # 0,
         NEW r \in Requests, r \notin R,
         NEW then \in [Requests -> Nat], then = [at EXCEPT ![r] = n]
  PROVE  Debited(new).refilled <= n /\ Metered(R \cup {r}, then, 0, initial, burst, v, Debited(new))
<1>1. /\ new \in Bucket(burst) /\ new.refilled <= n /\ n < new.refilled + v
      /\ Metered(R, at, 0, initial, burst, v, new)
  BY SharedRefill
<1>2. 0 \in Nat /\ 0 <= n
  OBVIOUS
<1>3. Debited(new).refilled <= n
  BY <1>1 DEF Debited, Bucket
<1> QED  BY <1>1, <1>2, <1>3, DebitKeepsMetered

\* The meters of a controller and of a history that may be later than the
\* one of the state.
MetersOf(c, n, Of, over, all, at) ==
  /\ \A s \in Sources : SourceMetered(c, s, n, Of[s], at)
  /\ OverflowMetered(c, n, over, at)
  /\ GlobalMetered(c, n, all, at)

\* What a request leaves that is not admitted.
Looked(c, s, n) == IF Selected(c, s) = "new" THEN c ELSE Paid(c, s, Own(c, s, n), n)

All(c, n) == Refilled(c.global, GlobalBurst, GlobalRefill, n)

LEMMA LookingKeepsMeters ==
  ASSUME NEW c \in Controllers, NEW s \in Sources, NEW n \in Nat,
         NEW Of \in [Sources -> SUBSET Requests], NEW over \in SUBSET Requests,
         NEW all \in SUBSET Requests, NEW at \in [Requests -> Nat],
         MetersOf(c, n, Of, over, all, at)
  PROVE  MetersOf(Looked(c, s, n), n, Of, over, all, at)
<1> DEFINE own == Own(c, s, n)
           d == Paid(c, s, own, n)
<1>1. SourceMetered(c, s, n, Of[s], at) /\ Of[s] \in SUBSET Requests
  BY DEF MetersOf
<1>2. SelectedBucket(c, s, n) \in Bucket(SourceBurst)
  BY SelectedFacts
<1>3. own \in Bucket(SourceBurst)
  BY <1>2, RefilledIsBucket, Limits DEF Own
<1>4. /\ d.global = c.global /\ \A t \in Sources \ {s} : d.sources[t] = c.sources[t]
      /\ Selected(c, s) = "overflow" => d.overflow = own /\ d.sources[s] = c.sources[s]
      /\ Selected(c, s) # "overflow" =>
           d.overflow = c.overflow /\ d.sources[s] = [tracked |-> TRUE, bucket |-> own, seen |-> n]
  BY <1>3, PaidFields
<1>5. /\ SourceBurst \in Nat /\ SourceRefill \in Positive /\ 1 \in Nat /\ GlobalInitial \in Nat
      /\ GlobalBurst \in Nat /\ GlobalRefill \in Positive
  BY PositiveLimits DEF Positive
<1>6. own = Refilled(SelectedBucket(c, s, n), SourceBurst, SourceRefill, n)
  BY DEF Own
<1> HIDE DEF own, d
<1>7. \A t \in Sources \ {s} : SourceMetered(d, t, n, Of[t], at)
  BY <1>4, SameSource DEF MetersOf
<1>8. GlobalMetered(d, n, all, at)
  BY <1>4 DEF MetersOf, GlobalMetered
<1>9. CASE Selected(c, s) = "overflow"
  <2>1. c.overflow.refilled <= n /\ Metered(over, at, 0, 1, SourceBurst, SourceRefill, c.overflow)
    BY DEF MetersOf, OverflowMetered
  <2>2. c.overflow \in Bucket(SourceBurst) /\ d.overflow = Refilled(c.overflow, SourceBurst, SourceRefill, n)
    BY <1>4, <1>6, <1>9, SelectedFacts, EntryIsTyped
  <2>3. OverflowMetered(d, n, over, at)
    BY <1>5, <2>1, <2>2, SharedRefill DEF OverflowMetered
  <2>4. SourceMetered(d, s, n, Of[s], at)
    BY <1>1, <1>4, <1>9, SameSource
  <2> QED  BY <1>7, <1>8, <1>9, <2>3, <2>4 DEF MetersOf, Looked, own, d
<1>10. CASE Selected(c, s) = "tracked"
  <2>1. /\ own.refilled <= n
        /\ \A q \in Requests : First(Of[s], at, q) =>
             Metered(Of[s], at, at[q], SourceInitial, SourceBurst, SourceRefill, own)
    BY <1>1, <1>10, OwnIsMetered DEF own
  <2>2. Of[s] # {}
    BY <1>1, <1>10, SelectedFacts DEF SourceMetered
  <2>3. d.sources[s].tracked /\ d.sources[s].bucket = own /\ d.sources[s].seen = n /\ n <= n
    BY <1>4, <1>10
  <2>4. SourceMetered(d, s, n, Of[s], at)
    BY <2>1, <2>2, <2>3 DEF SourceMetered, Credit
  <2>5. OverflowMetered(d, n, over, at)
    BY <1>4, <1>10 DEF MetersOf, OverflowMetered
  <2> QED  BY <1>7, <1>8, <1>10, <2>4, <2>5 DEF MetersOf, Looked, own, d
<1>11. CASE Selected(c, s) = "new"
  BY <1>11 DEF Looked
<1> QED  BY <1>9, <1>10, <1>11, SelectedFacts

\* The decision, with its parts named.
LEMMA AdmitCases ==
  ASSUME NEW c, NEW s, NEW n
  PROVE  /\ Own(c, s, n).tokens = 0 =>
              Admit(c, s, n) = [admitted |-> FALSE, controller |-> Looked(c, s, n)]
         /\ Own(c, s, n).tokens # 0 /\ All(c, n).tokens = 0 =>
              Admit(c, s, n) = [admitted |-> FALSE, controller |-> [Looked(c, s, n) EXCEPT !.global = All(c, n)]]
         /\ Own(c, s, n).tokens # 0 /\ All(c, n).tokens # 0 =>
              Admit(c, s, n) = [admitted |-> TRUE,
                                controller |-> [Paid(c, s, Debited(Own(c, s, n)), n)
                                                  EXCEPT !.global = Debited(All(c, n))]]
  BY DEF Admit, Own, All, Looked

LEMMA LookedIsController ==
  ASSUME NEW c \in Controllers, NEW s \in Sources, NEW n \in Nat
  PROVE  Looked(c, s, n) \in Controllers /\ Own(c, s, n) \in Bucket(SourceBurst) /\ All(c, n) \in Bucket(GlobalBurst)
<1>1. Own(c, s, n) \in Bucket(SourceBurst)
  BY SelectedFacts, RefilledIsBucket, Limits DEF Own
<1>2. All(c, n) \in Bucket(GlobalBurst)
  BY EntryIsTyped, RefilledIsBucket, Limits DEF All
<1> QED  BY <1>1, <1>2, PaidIsController DEF Looked

\* A request that is refused changes what is left at most by refilling it.
LEMMA RefusingKeepsMeters ==
  ASSUME NEW c \in Controllers, NEW s \in Sources, NEW n \in Nat,
         NEW Of \in [Sources -> SUBSET Requests], NEW over \in SUBSET Requests,
         NEW all \in SUBSET Requests, NEW at \in [Requests -> Nat],
         MetersOf(c, n, Of, over, all, at), ~Admit(c, s, n).admitted
  PROVE  MetersOf(Admit(c, s, n).controller, n, Of, over, all, at)
<1> DEFINE looked == Looked(c, s, n)
<1>1. looked \in Controllers /\ MetersOf(looked, n, Of, over, all, at)
  BY LookedIsController, LookingKeepsMeters
<1>2. looked.global = c.global
  <2>1. Paid(c, s, Own(c, s, n), n).global = c.global
    BY DEF Paid, Controllers
  <2> QED  BY <2>1 DEF Looked
<1> HIDE DEF looked
<1>3. CASE Own(c, s, n).tokens = 0
  BY <1>1, <1>3, AdmitCases DEF looked
<1>4. CASE Own(c, s, n).tokens # 0
  <2> DEFINE d == [looked EXCEPT !.global = All(c, n)]
  <2>1. Admit(c, s, n).controller = d
    BY <1>4, AdmitCases DEF looked
  <2>2. d.global = All(c, n) /\ d.sources = looked.sources /\ d.overflow = looked.overflow
    BY <1>1 DEF Controllers
  <2> HIDE DEF d
  <2>3. GlobalMetered(d, n, all, at)
    <3>1. c.global.refilled <= n /\ Metered(all, at, 0, GlobalInitial, GlobalBurst, GlobalRefill, c.global)
      BY DEF MetersOf, GlobalMetered
    <3>2. /\ GlobalInitial \in Nat /\ GlobalBurst \in Nat /\ GlobalRefill \in Positive
          /\ c.global \in Bucket(GlobalBurst)
      BY PositiveLimits, EntryIsTyped DEF Positive
    <3> QED  BY <2>2, <3>1, <3>2, SharedRefill DEF GlobalMetered, All
  <2>4. \A t \in Sources : SourceMetered(d, t, n, Of[t], at)
    BY <1>1, <2>2, SameSource DEF MetersOf
  <2>5. OverflowMetered(d, n, over, at)
    BY <1>1, <2>2 DEF MetersOf, OverflowMetered
  <2> QED  BY <2>1, <2>3, <2>4, <2>5 DEF MetersOf
<1> QED  BY <1>3, <1>4

\* A request that is admitted is paid for by its source, or by the bucket of
\* those that are not tracked, and by the global bucket.
LEMMA AdmittingKeepsMeters ==
  ASSUME NEW c \in Controllers, NEW s \in Sources, NEW n \in Nat,
         NEW Of \in [Sources -> SUBSET Requests], NEW over \in SUBSET Requests,
         NEW all \in SUBSET Requests, NEW at \in [Requests -> Nat],
         MetersOf(c, n, Of, over, all, at), Admit(c, s, n).admitted,
         \A q \in Requests : at[q] <= n,
         NEW r \in Requests, r \notin all, r \notin over, \A t \in Sources : r \notin Of[t],
         NEW then \in [Requests -> Nat], then = [at EXCEPT ![r] = n]
  PROVE  IF Selected(c, s) = "overflow"
         THEN MetersOf(Admit(c, s, n).controller, n, Of, over \cup {r}, all \cup {r}, then)
         ELSE MetersOf(Admit(c, s, n).controller, n, [Of EXCEPT ![s] = @ \cup {r}], over, all \cup {r}, then)
<1> DEFINE own == Own(c, s, n)
           paid == Paid(c, s, Debited(own), n)
           d == [paid EXCEPT !.global = Debited(All(c, n))]
<1>1. own.tokens # 0 /\ All(c, n).tokens # 0
  BY AdmitCases
<1>2. Admit(c, s, n).controller = d
  BY <1>1, AdmitCases
<1>3. own \in Bucket(SourceBurst) /\ Debited(own) \in Bucket(SourceBurst)
  BY <1>1, LookedIsController, DebitedIsBucket, Limits
<1>4. paid \in Controllers
  BY <1>3, PaidIsController
<1>5. /\ \A t \in Sources \ {s} : paid.sources[t] = c.sources[t]
      /\ Selected(c, s) = "overflow" => paid.overflow = Debited(own) /\ paid.sources[s] = c.sources[s]
      /\ Selected(c, s) # "overflow" =>
           /\ paid.overflow = c.overflow
           /\ paid.sources[s] = [tracked |-> TRUE, bucket |-> Debited(own), seen |-> n]
  BY <1>3, PaidFields
<1>6. d.global = Debited(All(c, n)) /\ d.sources = paid.sources /\ d.overflow = paid.overflow
  BY <1>4 DEF Controllers
<1> HIDE DEF paid, d, own
<1>7. GlobalMetered(d, n, all \cup {r}, then)
  <2>1. c.global.refilled <= n /\ Metered(all, at, 0, GlobalInitial, GlobalBurst, GlobalRefill, c.global)
    BY DEF MetersOf, GlobalMetered
  <2>2. /\ GlobalInitial \in Nat /\ GlobalBurst \in Nat /\ GlobalRefill \in Positive
        /\ c.global \in Bucket(GlobalBurst)
    BY PositiveLimits, EntryIsTyped DEF Positive
  <2>3. All(c, n) = Refilled(c.global, GlobalBurst, GlobalRefill, n)
    BY DEF All
  <2>4. /\ Debited(All(c, n)).refilled <= n
        /\ Metered(all \cup {r}, then, 0, GlobalInitial, GlobalBurst, GlobalRefill, Debited(All(c, n)))
    BY <1>1, <2>1, <2>2, <2>3, SharedPays
  <2> QED  BY <1>6, <2>4 DEF GlobalMetered
<1>8. \A q \in Requests \ {r} : then[q] = at[q]
  OBVIOUS
<1>9. ASSUME NEW t \in Sources
      PROVE  Of[t] \in SUBSET Requests /\ SourceMetered(c, t, n, Of[t], at) /\ \A q \in Of[t] : then[q] = at[q]
  <2>1. Of[t] \in SUBSET Requests /\ r \notin Of[t]
    OBVIOUS
  <2>2. SourceMetered(c, t, n, Of[t], at)
    BY DEF MetersOf
  <2> QED  BY <1>8, <2>1, <2>2
<1>10. ASSUME NEW t \in Sources, d.sources[t] = c.sources[t]
       PROVE  SourceMetered(d, t, n, Of[t], then)
  <2>1. Of[t] \in SUBSET Requests
    BY <1>9
  <2>2. SourceMetered(c, t, n, Of[t], at)
    BY <1>9
  <2>3. \A q \in Of[t] : then[q] = at[q]
    BY <1>9
  <2> QED  BY <1>10, <2>1, <2>2, <2>3, SameSource, ZenonT(30)
<1>11. \A t \in Sources \ {s} : SourceMetered(d, t, n, Of[t], then)
  BY <1>5, <1>6, <1>10
<1>12. CASE Selected(c, s) = "overflow"
  <2>1. SourceMetered(d, s, n, Of[s], then)
    BY <1>5, <1>6, <1>10, <1>12
  <2>2. OverflowMetered(d, n, over \cup {r}, then)
    <3>1. c.overflow.refilled <= n /\ Metered(over, at, 0, 1, SourceBurst, SourceRefill, c.overflow)
      BY DEF MetersOf, OverflowMetered
    <3>2. /\ 1 \in Nat /\ SourceBurst \in Nat /\ SourceRefill \in Positive
          /\ c.overflow \in Bucket(SourceBurst)
      BY PositiveLimits, EntryIsTyped DEF Positive
    <3>3. own = Refilled(c.overflow, SourceBurst, SourceRefill, n) /\ d.overflow = Debited(own)
      BY <1>5, <1>6, <1>12, SelectedFacts DEF own, Own
    <3>4. /\ Debited(own).refilled <= n
          /\ Metered(over \cup {r}, then, 0, 1, SourceBurst, SourceRefill, Debited(own))
      BY <1>1, <3>1, <3>2, <3>3, SharedPays
    <3> QED  BY <3>3, <3>4 DEF OverflowMetered
  <2> QED  BY <1>2, <1>7, <1>11, <1>12, <2>1, <2>2 DEF MetersOf
<1>13. CASE Selected(c, s) # "overflow"
  <2> DEFINE For == [Of EXCEPT ![s] = @ \cup {r}]
  <2>1. SourceMetered(d, s, n, Of[s] \cup {r}, then)
    <3>1. /\ \A q \in Of[s] : at[q] <= n
          /\ r \notin Of[s] /\ Of[s] \in SUBSET Requests /\ SourceMetered(c, s, n, Of[s], at)
      BY <1>9
    <3>2. d.sources[s] = [tracked |-> TRUE, bucket |-> Debited(Own(c, s, n)), seen |-> n]
      BY <1>5, <1>6, <1>13 DEF own
    <3> QED  BY <1>1, <1>13, <3>1, <3>2, OwnPays DEF own
  <2>2. OverflowMetered(d, n, over, then)
    <3>1. \A q \in over : then[q] = at[q]
      BY <1>8
    <3>2. d.overflow = c.overflow
      BY <1>5, <1>6, <1>13
    <3> QED  BY <3>1, <3>2, SameRequests DEF MetersOf, OverflowMetered
  <2>3. For[s] = Of[s] \cup {r} /\ \A t \in Sources \ {s} : For[t] = Of[t]
    OBVIOUS
  <2> HIDE DEF For
  <2>4. MetersOf(d, n, For, over, all \cup {r}, then)
    BY <1>7, <1>11, <2>1, <2>2, <2>3 DEF MetersOf
  <2> QED  BY <1>2, <1>13, <2>4 DEF For
<1> QED  BY <1>12, <1>13

-----------------------------------------------------------------------------
OwnBuckets == [s \in Sources |-> OwnBucketOf(s)]

RatesInv == Unpaid /\ Meters(controller, now)

LEMMA MetersOfState ==
  \A c, n : Meters(c, n) <=> MetersOf(c, n, OwnBuckets, Overflowed, Admitted, Instants)
  BY DEF Meters, MetersOf, OwnBuckets

LEMMA HistoryIsTyped ==
  ASSUME TypeOK
  PROVE  /\ Instants \in [Requests -> Nat] /\ OwnBuckets \in [Sources -> SUBSET Requests]
         /\ Overflowed \in SUBSET Requests /\ Admitted \in SUBSET Requests
         /\ controller \in Controllers /\ now \in Nat
  BY DEF TypeOK, Admissions, Instants, OwnBuckets, OwnBucketOf, Overflowed, Admitted

LEMMA InitRates == Init => RatesInv
<1> SUFFICES ASSUME Init
             PROVE  RatesInv
  OBVIOUS
<1>1. TypeOK
  BY InitInvariant DEF IInv
<1>2. /\ \A s \in Sources : OwnBucketOf(s) = {}
      /\ Overflowed = {} /\ Admitted = {}
  BY DEF Init, OwnBucketOf, Overflowed, Admitted
<1>3. now = 0 /\ controller = NewController
  BY DEF Init
<1>4. Unpaid
  BY DEF Init, Unpaid
<1>5. \A s \in Sources : SourceMetered(controller, s, now, {}, Instants)
  BY <1>3 DEF NewController, Untracked, SourceMetered, First
<1>6. /\ controller.overflow = NewBucket(1, 0) /\ controller.global = NewBucket(GlobalInitial, 0)
      /\ NewBucket(1, 0).refilled = 0 /\ NewBucket(GlobalInitial, 0).refilled = 0
  BY <1>3 DEF NewController, NewBucket
<1>7. /\ Metered({}, Instants, 0, 1, SourceBurst, SourceRefill, NewBucket(1, 0))
      /\ Metered({}, Instants, 0, GlobalInitial, GlobalBurst, GlobalRefill, NewBucket(GlobalInitial, 0))
  <2>1. /\ 0 \in Nat /\ 1 \in Nat /\ SourceBurst \in Nat /\ GlobalBurst \in Nat /\ GlobalInitial \in Nat
        /\ Instants \in [Requests -> Nat]
    BY <1>1, HistoryIsTyped, PositiveLimits DEF Positive
  <2> QED  BY <2>1, NothingPaid, PositiveLimits
<1>8. OverflowMetered(controller, now, {}, Instants) /\ GlobalMetered(controller, now, {}, Instants)
  BY <1>3, <1>6, <1>7 DEF OverflowMetered, GlobalMetered
<1> QED  BY <1>2, <1>4, <1>5, <1>8 DEF RatesInv, Meters

\* The meters depend on the clock, the controller and the history alone.
LEMMA ClockAndControllerKeepMeters ==
  ASSUME RatesInv, UNCHANGED <<now, controller, admission>>,
         \A r \in Requests : handler'[r] = "new" => handler[r] = "new"
  PROVE  RatesInv'
<1>1. Unpaid'
  BY DEF RatesInv, Unpaid
<1>2. UNCHANGED <<Instants, Overflowed, Admitted>> /\ \A s \in Sources : OwnBucketOf(s)' = OwnBucketOf(s)
  BY DEF Instants, Overflowed, Admitted, OwnBucketOf
<1>3. Meters(controller, now)'
  BY <1>2 DEF RatesInv, Meters
<1> QED  BY <1>1, <1>3 DEF RatesInv

LEMMA TickKeepsRates == TypeOK /\ RatesInv /\ Tick => RatesInv'
<1> SUFFICES ASSUME TypeOK, RatesInv, Tick
             PROVE  RatesInv'
  OBVIOUS
<1>1. UNCHANGED <<controller, admission, handler>> /\ now' = now + 1 /\ now \in Nat
  BY DEF Tick, TypeOK
<1>2. UNCHANGED <<Instants, Overflowed, Admitted>> /\ \A s \in Sources : OwnBucketOf(s)' = OwnBucketOf(s)
  BY <1>1 DEF Instants, Overflowed, Admitted, OwnBucketOf
<1>3. Unpaid'
  BY <1>1 DEF RatesInv, Unpaid, TypeOK, Admissions
<1>4. ASSUME NEW s \in Sources
      PROVE  SourceMetered(controller, s, now + 1, OwnBucketOf(s), Instants)
  <2>1. SourceMetered(controller, s, now, OwnBucketOf(s), Instants) /\ OwnBucketOf(s) \in SUBSET Requests
    BY DEF RatesInv, Meters, OwnBucketOf
  <2> QED  BY <2>1, HistoryIsTyped, TimeKeepsMeters
<1>5. OverflowMetered(controller, now + 1, Overflowed, Instants) /\ GlobalMetered(controller, now + 1, Admitted, Instants)
  <2>1. controller.overflow.refilled \in Nat /\ controller.global.refilled \in Nat
    BY EntryIsTyped, HistoryIsTyped DEF Controllers, Bucket
  <2>2. OverflowMetered(controller, now, Overflowed, Instants) /\ GlobalMetered(controller, now, Admitted, Instants)
    BY DEF RatesInv, Meters
  <2>3. controller.overflow.refilled <= now + 1 /\ controller.global.refilled <= now + 1
    BY <1>1, <2>1, <2>2 DEF OverflowMetered, GlobalMetered
  <2> QED  BY <2>2, <2>3 DEF OverflowMetered, GlobalMetered
<1>6. Meters(controller, now + 1)
  BY <1>4, <1>5 DEF Meters
<1>7. Meters(controller, now)'
  BY <1>1, <1>2, <1>6 DEF Meters
<1> QED  BY <1>3, <1>7 DEF RatesInv

LEMMA ArriveKeepsRates ==
  ASSUME TypeOK, RatesInv, NEW r \in Requests, NEW s \in Sources, Arrive(r, s)
  PROVE  RatesInv'
<1> DEFINE at == Instants
<1>1. PICK c \in MakingRoom(controller, s, now) :
        LET decision == Admit(c, s, now)
            bucket == IF Selected(c, s) = "overflow" THEN "overflow" ELSE "own"
        IN  /\ controller' = decision.controller
            /\ \/ /\ decision.admitted
                  /\ admission' = [admission EXCEPT ![r] =
                                     [bucket |-> bucket, source |-> s, at |-> now]]
                  /\ handler' = [handler EXCEPT ![r] = "reading"]
               \/ /\ ~decision.admitted
                  /\ Gone(r)
                  /\ UNCHANGED admission
  BY DEF Arrive
<1>2. now \in Nat /\ now' = now /\ controller \in Controllers /\ at \in [Requests -> Nat] /\ handler[r] = "new"
  BY HistoryIsTyped DEF Arrive
<1>3. c \in Controllers /\ MetersOf(c, now, OwnBuckets, Overflowed, Admitted, at)
  BY <1>2, RoomKeepsMeters, MetersOfState DEF RatesInv
<1>4. OwnBuckets \in [Sources -> SUBSET Requests] /\ Overflowed \in SUBSET Requests /\ Admitted \in SUBSET Requests
  BY HistoryIsTyped
<1>5. \A q \in Requests : at[q] <= now
  BY DEF RatesInv, Unpaid, Instants
<1>6. r \notin Admitted /\ r \notin Overflowed /\ \A t \in Sources : r \notin OwnBuckets[t]
  BY <1>2 DEF RatesInv, Unpaid, Admitted, Overflowed, OwnBuckets, OwnBucketOf
<1>7. CASE ~Admit(c, s, now).admitted
  <2>1. controller' = Admit(c, s, now).controller /\ UNCHANGED admission /\ Gone(r)
    BY <1>1, <1>7
  <2>2. MetersOf(controller', now, OwnBuckets, Overflowed, Admitted, at)
    BY <1>2, <1>3, <1>4, <1>7, <2>1, RefusingKeepsMeters
  <2>3. UNCHANGED <<Instants, Overflowed, Admitted>> /\ \A t \in Sources : OwnBucketOf(t)' = OwnBucketOf(t)
    BY <2>1 DEF Instants, Overflowed, Admitted, OwnBucketOf
  <2>4. Meters(controller', now)
    BY <2>2, MetersOfState
  <2>5. Meters(controller, now)'
    BY <1>2, <2>3, <2>4 DEF Meters
  <2>6. Unpaid'
    BY <1>2, <2>1 DEF RatesInv, Unpaid, Gone, TypeOK
  <2> QED  BY <2>5, <2>6 DEF RatesInv
<1>8. CASE Admit(c, s, now).admitted
  <2> DEFINE bucket == IF Selected(c, s) = "overflow" THEN "overflow" ELSE "own"
             then == [at EXCEPT ![r] = now]
  <2>1. /\ controller' = Admit(c, s, now).controller
        /\ admission' = [admission EXCEPT ![r] = [bucket |-> bucket, source |-> s, at |-> now]]
        /\ handler' = [handler EXCEPT ![r] = "reading"]
    BY <1>1, <1>8
  <2>2. /\ admission'[r] = [bucket |-> bucket, source |-> s, at |-> now]
        /\ \A q \in Requests \ {r} : admission'[q] = admission[q]
    BY <2>1 DEF TypeOK
  <2>3. Instants' = then /\ then \in [Requests -> Nat]
    <3>1. Instants' = [q \in Requests |-> IF q = r THEN now ELSE admission[q].at]
      BY <2>2 DEF Instants
    <3>2. then = [q \in Requests |-> IF q = r THEN now ELSE admission[q].at]
      BY DEF Instants
    <3> QED  BY <1>2, <3>1, <3>2
  <2>4. Unpaid'
    BY <1>2, <2>1, <2>2 DEF RatesInv, Unpaid, TypeOK
  <2>5. Admitted' = Admitted \cup {r}
    BY <2>2 DEF Admitted
  <2>6. CASE Selected(c, s) = "overflow"
    <3>1. MetersOf(controller', now, OwnBuckets, Overflowed \cup {r}, Admitted \cup {r}, then)
      <4> HIDE DEF at, then
      <4>1. then = [at EXCEPT ![r] = now]
        BY DEF then
      <4> QED  BY <1>2, <1>3, <1>4, <1>5, <1>6, <1>8, <2>1, <2>3, <2>6, <4>1, AdmittingKeepsMeters
    <3>2. Overflowed' = Overflowed \cup {r} /\ \A t \in Sources : OwnBucketOf(t)' = OwnBucketOf(t)
      BY <1>6, <2>2, <2>6 DEF Overflowed, OwnBucketOf, OwnBuckets
    <3>3. \A t \in Sources : OwnBuckets[t] = OwnBucketOf(t)
      BY DEF OwnBuckets
    <3>4. Meters(controller, now)'
      BY <1>2, <2>3, <2>5, <3>1, <3>2, <3>3 DEF Meters, MetersOf
    <3> QED  BY <2>4, <3>4 DEF RatesInv
  <2>7. CASE Selected(c, s) # "overflow"
    <3>1. MetersOf(controller', now, [OwnBuckets EXCEPT ![s] = @ \cup {r}], Overflowed, Admitted \cup {r}, then)
      <4> HIDE DEF at, then
      <4>1. then = [at EXCEPT ![r] = now]
        BY DEF then
      <4> QED  BY <1>2, <1>3, <1>4, <1>5, <1>6, <1>8, <2>1, <2>3, <2>7, <4>1, AdmittingKeepsMeters
    <3>2. Overflowed' = Overflowed
      BY <1>6, <2>2, <2>7 DEF Overflowed
    <3>3. \A t \in Sources : OwnBucketOf(t)' = IF t = s THEN OwnBucketOf(s) \cup {r} ELSE OwnBucketOf(t)
      BY <1>6, <2>2, <2>7 DEF OwnBucketOf, OwnBuckets
    <3>4. \A t \in Sources : [OwnBuckets EXCEPT ![s] = @ \cup {r}][t] = OwnBucketOf(t)'
      BY <3>3 DEF OwnBuckets
    <3>5. Meters(controller, now)'
      BY <1>2, <2>3, <2>5, <3>1, <3>2, <3>4 DEF Meters, MetersOf
    <3> QED  BY <2>4, <3>5 DEF RatesInv
  <2> QED  BY <2>6, <2>7
<1> QED  BY <1>7, <1>8

LEMMA RatesStep == TypeOK /\ RatesInv /\ [Next]_vars => RatesInv'
<1> SUFFICES ASSUME TypeOK, RatesInv, [Next]_vars
             PROVE  RatesInv'
  OBVIOUS
<1>1. ASSUME NEW r \in Requests, Serve(r), \A s \in Sources : ~Arrive(r, s)
      PROVE  RatesInv'
  <2>1. UNCHANGED <<now, controller, admission>>
    BY <1>1 DEF Serve, Refuse, Enqueue, Answer, Disconnect
  <2>2. PICK to \in {"gone", "waiting"} : handler' = [handler EXCEPT ![r] = to]
    BY <1>1 DEF Serve, Refuse, Enqueue, Answer, Disconnect, Gone
  <2> QED  BY <2>1, <2>2, ClockAndControllerKeepMeters DEF TypeOK
<1>2. CASE Shutdown \/ Work \/ UNCHANGED vars
  <2>1. UNCHANGED <<now, controller, admission, handler>>
    BY <1>2 DEF Shutdown, Work, Take, Redeemed, NotRedeemed, Handed, Revoke, Stop, vars
  <2> QED  BY <2>1, ClockAndControllerKeepMeters
<1> QED  BY <1>1, <1>2, ArriveKeepsRates, TickKeepsRates DEF Next

\* For any limits and however requests of whichever sources arrive: what a
\* source, the sources that share a bucket and all sources together are
\* admitted in any window is bounded by their bucket and the time, through
\* every refill, every source that is forgotten and met again and every request
\* that only one of two buckets could have paid for.
THEOREM RatesAreLimited == Spec => []AdmissionIsBounded
<1>1. TypeOK /\ RatesInv => AdmissionIsBounded
  <2> SUFFICES ASSUME TypeOK, RatesInv
               PROVE  AdmissionIsBounded
    OBVIOUS
  <2>1. /\ Instants \in [Requests -> Nat] /\ now \in Nat
        /\ Overflowed \in SUBSET Requests /\ Admitted \in SUBSET Requests
    BY HistoryIsTyped
  <2>2. /\ 0 \in Nat /\ 1 \in Nat /\ SourceInitial \in Nat /\ SourceBurst \in Nat /\ SourceRefill \in Positive
        /\ GlobalInitial \in Nat /\ GlobalBurst \in Nat /\ GlobalRefill \in Positive
    BY PositiveLimits DEF Positive
  <2>3. ASSUME NEW s \in Sources, NEW r \in Requests, r \in OwnBucketOf(s),
               \A q \in OwnBucketOf(s) : admission[r].at <= admission[q].at
        PROVE  Within(OwnBucketOf(s), admission[r].at, SourceInitial, SourceBurst, SourceRefill)
    <3>1. OwnBucketOf(s) \in SUBSET Requests
      BY DEF OwnBucketOf
    <3>2. \A q \in Requests : Instants[q] = admission[q].at
      BY DEF Instants
    <3>3. First(OwnBucketOf(s), Instants, r)
      BY <2>3, <3>1, <3>2 DEF First
    <3>4. Metered(OwnBucketOf(s), Instants, Instants[r], SourceInitial, SourceBurst, SourceRefill,
                  Credit(controller, s, now))
      BY <3>3 DEF RatesInv, Meters, SourceMetered
    <3>5. Instants[r] \in Nat /\ Instants[r] = admission[r].at
      BY <2>1, <3>2
    <3> QED  BY <2>1, <2>2, <3>1, <3>4, <3>5, MeteredIsWithin
  <2>4. Within(Overflowed, 0, 1, SourceBurst, SourceRefill)
    BY <2>1, <2>2, MeteredIsWithin DEF RatesInv, Meters, OverflowMetered
  <2>5. Within(Admitted, 0, GlobalInitial, GlobalBurst, GlobalRefill)
    BY <2>1, <2>2, MeteredIsWithin DEF RatesInv, Meters, GlobalMetered
  <2> QED  BY <2>3, <2>4, <2>5 DEF AdmissionIsBounded
<1>2. IInv => TypeOK
  BY DEF IInv
<1> QED  BY <1>1, <1>2, InitRates, RatesStep, Invariance, PTL DEF Spec

=============================================================================
