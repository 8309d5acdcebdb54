------------------------- MODULE RedemptionIngress -------------------------
(***************************************************************************)
(* N4: the HTTP surface that redeems invitations                           *)
(* (nodescale-redemption-ingress).                                         *)
(*                                                                         *)
(* A request is admitted or refused under the lock of the admission        *)
(* controller, its body is read, and its token goes into the bounded       *)
(* queue of the one worker thread.  The worker redeems, hands the secret   *)
(* to the waiting handler and stays responsible for it until the handler   *)
(* says it has serialized the answer: if the handler is gone by then, the  *)
(* worker revokes the invitation.  The server drops the handler of a       *)
(* client that disconnects at any await.  Shutdown is a signal the worker  *)
(* sees between two commands only.                                         *)
(*                                                                         *)
(* What redeeming does is JoinInvitation: here it succeeds at most once    *)
(* for an invitation.  A process that dies is JoinInvitation too.  Left    *)
(* out: failures of serde on the ingress's own values, of building the     *)
(* runtime and of the locks, which need a bug or an exhausted host.        *)
(*                                                                         *)
(* Operators whose name begins with Wrong are deliberate mistakes a change *)
(* to the code could make; no action uses them.                            *)
(***************************************************************************)
EXTENDS AdmissionControl, Sequences

CONSTANTS
  MaxRequests,  \* bound: how many requests arrive
  Invitations,
  Capacity,     \* worker_queue_capacity
  MaxWait,      \* a command older than this is not redeemed (five seconds)
  MaxTime,      \* bound: the last instant of the clock
  None

ASSUME QueueAssumption ==
  Capacity \in Positive /\ MaxWait \in Nat /\ MaxTime \in Nat /\ MaxRequests \in Nat

\* Requests are named by the order they arrive in.
Requests == 1..MaxRequests

ASSUME NoneAssumption == None \notin Requests \cup Invitations \cup Sources

VARIABLES
  now,         \* the monotonic clock
  controller,  \* IngressState.admission
  admission,   \* how each admitted request was paid for (history)
  handler,     \* where the handler of each request is
  served,      \* requests whose client was given the secret
  presents,    \* the invitation whose token the request presents
  reply,       \* the oneshot channel from the worker to the handler
  queue,       \* the WorkerCommands waiting
  worker,      \* what the worker thread is doing
  acceptance,  \* the oneshot channel of the handoff in progress
  pending,     \* pending_handoffs
  shutdown,    \* the signal was sent
  redeemed,    \* invitations whose secret the worker was given
  revoked      \* invitations the worker then asked to revoke

vars == <<now, controller, admission, handler, served, presents, reply, queue,
          worker, acceptance, pending, shutdown, redeemed, revoked>>

Handlers == {"new", "reading", "waiting", "gone"}
Replies == {"none", "handoff", "failure"}
Admissions == [bucket : {"none", "own", "overflow"}, source : Sources \cup {None},
               at : Nat]
Commands == [request : Requests, enqueued : Nat]
Workers == [step : {"idle", "redeeming", "handing", "revoking", "stopped"},
            request : Requests \cup {None}]

TypeOK ==
  /\ now \in Nat
  /\ controller \in Controllers
  /\ admission \in [Requests -> Admissions]
  /\ handler \in [Requests -> Handlers]
  /\ served \subseteq Requests
  /\ presents \in [Requests -> Invitations \cup {None}]
  /\ reply \in [Requests -> Replies]
  /\ queue \in Seq(Commands) /\ Len(queue) <= Capacity
  /\ worker \in Workers
  /\ acceptance \in {"none", "open", "accepted", "dropped"}
  /\ pending \in Nat
  /\ shutdown \in BOOLEAN
  /\ redeemed \subseteq Invitations
  /\ revoked \subseteq Invitations

Idle == [step |-> "idle", request |-> None]

Busy(step, r) == [step |-> step, request |-> r]

\* redemption_router and spawn_worker
Init ==
  /\ now = 0
  /\ controller = NewController
  /\ admission = [r \in Requests |-> [bucket |-> "none", source |-> None, at |-> 0]]
  /\ handler = [r \in Requests |-> "new"]
  /\ served = {}
  /\ presents = [r \in Requests |-> None]
  /\ reply = [r \in Requests |-> "none"]
  /\ queue = <<>>
  /\ worker = Idle
  /\ acceptance = "none"
  /\ pending = 0
  /\ shutdown = FALSE
  /\ redeemed = {}
  /\ revoked = {}

Tick ==
  /\ now < MaxTime
  /\ now' = now + 1
  /\ UNCHANGED <<controller, admission, handler, served, presents, reply, queue,
                 worker, acceptance, pending, shutdown, redeemed, revoked>>

-----------------------------------------------------------------------------
(***************************************************************************)
(* The handler                                                             *)
(***************************************************************************)

Gone(r) == handler' = [handler EXCEPT ![r] = "gone"]

\* redeem_http asks the controller before it looks at anything else.
Arrive(r, s) ==
  /\ handler[r] = "new"
  /\ \A q \in 1..(r - 1) : handler[q] # "new"
  /\ \E c \in MakingRoom(controller, s, now) :
       LET decision == Admit(c, s, now)
           bucket == IF Selected(c, s) = "overflow" THEN "overflow" ELSE "own"
       IN  /\ controller' = decision.controller
           /\ \/ /\ decision.admitted
                 /\ admission' = [admission EXCEPT ![r] =
                                    [bucket |-> bucket, source |-> s, at |-> now]]
                 /\ handler' = [handler EXCEPT ![r] = "reading"]
              \/ /\ ~decision.admitted
                 /\ Gone(r)
                 /\ UNCHANGED admission
  /\ UNCHANGED <<now, served, presents, reply, queue, worker, acceptance, pending,
                 shutdown, redeemed, revoked>>

\* The media type, the length, the JSON or the token of the body is refused, or
\* the client disconnects before it is there.
Refuse(r) ==
  /\ handler[r] = "reading"
  /\ Gone(r)
  /\ UNCHANGED <<now, controller, admission, served, presents, reply, queue, worker,
                 acceptance, pending, shutdown, redeemed, revoked>>

\* RedemptionWorkerClient::redeem: try_send fails on a full or closed queue.
Enqueue(r, i) ==
  /\ handler[r] = "reading"
  /\ \/ /\ worker.step # "stopped"
        /\ Len(queue) < Capacity
        /\ queue' = Append(queue, [request |-> r, enqueued |-> now])
        /\ handler' = [handler EXCEPT ![r] = "waiting"]
        /\ presents' = [presents EXCEPT ![r] = i]
     \/ /\ worker.step = "stopped" \/ Len(queue) >= Capacity
        /\ Gone(r)
        /\ UNCHANGED <<queue, presents>>
  /\ UNCHANGED <<now, controller, admission, served, reply, worker, acceptance,
                 pending, shutdown, redeemed, revoked>>

\* The reply is there: a handoff is serialized and accepted in one go, without
\* an await in between.
Answer(r) ==
  /\ handler[r] = "waiting"
  /\ \/ /\ reply[r] = "handoff"
        /\ served' = served \cup {r}
        /\ acceptance' = "accepted"
     \/ /\ reply[r] = "failure"
        /\ UNCHANGED <<served, acceptance>>
  /\ Gone(r)
  /\ reply' = [reply EXCEPT ![r] = "none"]
  /\ UNCHANGED <<now, controller, admission, presents, queue, worker, pending,
                 shutdown, redeemed, revoked>>

WrongReleased(r) == acceptance

\* What becomes of the acceptance channel when a reply is dropped unread.
Released(r) == IF reply[r] = "handoff" THEN "dropped" ELSE acceptance

\* The client disconnects and the server drops the handler.
Disconnect(r) ==
  /\ handler[r] = "waiting"
  /\ Gone(r)
  /\ acceptance' = Released(r)
  /\ reply' = [reply EXCEPT ![r] = "none"]
  /\ UNCHANGED <<now, controller, admission, served, presents, queue, worker,
                 pending, shutdown, redeemed, revoked>>

-----------------------------------------------------------------------------
(***************************************************************************)
(* The worker                                                              *)
(***************************************************************************)

\* A send to a handler that is gone is lost.
Reply(R, said) ==
  reply' = [r \in Requests |->
              IF r \in R /\ handler[r] = "waiting" THEN said ELSE reply[r]]

\* shutdown_timeout, or the drop of the last client
Shutdown ==
  /\ ~shutdown
  /\ shutdown' = TRUE
  /\ UNCHANGED <<now, controller, admission, handler, served, presents, reply,
                 queue, worker, acceptance, pending, redeemed, revoked>>

\* Whether the handler still waits is not asked before the redemption.
Take ==
  /\ worker.step = "idle"
  /\ ~shutdown
  /\ queue # <<>>
  /\ queue' = Tail(queue)
  /\ \/ /\ now - Head(queue).enqueued > MaxWait
        /\ Reply({Head(queue).request}, "failure")
        /\ UNCHANGED worker
     \/ /\ now - Head(queue).enqueued <= MaxWait
        /\ worker' = Busy("redeeming", Head(queue).request)
        /\ UNCHANGED reply
  /\ UNCHANGED <<now, controller, admission, handler, served, presents, acceptance,
                 pending, shutdown, redeemed, revoked>>

\* service.redeem answered with the secret: it is offered to the handler, or
\* revoked at once when nobody is there to take it.
Redeemed ==
  /\ worker.step = "redeeming"
  /\ presents[worker.request] \notin redeemed
  /\ redeemed' = redeemed \cup {presents[worker.request]}
  /\ \/ /\ handler[worker.request] = "waiting"
        /\ Reply({worker.request}, "handoff")
        /\ worker' = Busy("handing", worker.request)
        /\ acceptance' = "open"
        /\ pending' = pending + 1
     \/ /\ handler[worker.request] # "waiting"
        /\ worker' = Busy("revoking", worker.request)
        /\ UNCHANGED <<reply, acceptance, pending>>
  /\ UNCHANGED <<now, controller, admission, handler, served, presents, queue,
                 shutdown, revoked>>

NotRedeemed ==
  /\ worker.step = "redeeming"
  /\ Reply({worker.request}, "failure")
  /\ worker' = Idle
  /\ UNCHANGED <<now, controller, admission, handler, served, presents, queue,
                 acceptance, pending, shutdown, redeemed, revoked>>

WrongAfterHandoff(r) == Idle

\* What the worker turns to once the acceptance channel has resolved.
AfterHandoff(r) == IF acceptance = "accepted" THEN Idle ELSE Busy("revoking", r)

\* The wait for the acceptance has no deadline and does not watch for shutdown.
Handed ==
  /\ worker.step = "handing"
  /\ acceptance # "open"
  /\ worker' = AfterHandoff(worker.request)
  /\ acceptance' = "none"
  /\ pending' = pending - 1
  /\ UNCHANGED <<now, controller, admission, handler, served, presents, reply,
                 queue, shutdown, redeemed, revoked>>

\* Its outcome is ignored.
Revoke ==
  /\ worker.step = "revoking"
  /\ revoked' = revoked \cup {presents[worker.request]}
  /\ worker' = Idle
  /\ UNCHANGED <<now, controller, admission, handler, served, presents, reply,
                 queue, acceptance, pending, shutdown, redeemed>>

QueuedRequests == {queue[k].request : k \in DOMAIN queue}

\* The loop ends; the commands still queued are dropped with their senders,
\* which their handlers read as a failure.
Stop ==
  /\ worker.step = "idle"
  /\ shutdown
  /\ worker' = [worker EXCEPT !.step = "stopped"]
  /\ Reply(QueuedRequests, "failure")
  /\ queue' = <<>>
  /\ UNCHANGED <<now, controller, admission, handler, served, presents, acceptance,
                 pending, shutdown, redeemed, revoked>>

Work ==
  Take \/ Redeemed \/ NotRedeemed \/ Handed \/ Revoke \/ Stop

Serve(r) ==
  \/ \E s \in Sources : Arrive(r, s)
  \/ Refuse(r)
  \/ \E i \in Invitations : Enqueue(r, i)
  \/ Answer(r)
  \/ Disconnect(r)

Next == Tick \/ Shutdown \/ Work \/ \E r \in Requests : Serve(r)

Spec == Init /\ [][Next]_vars

\* The worker thread runs while there is something for it to do; a redemption
\* and a revocation end, since their requests and transactions have deadlines.
\* The runtime polls a handler whose reply has arrived.
FairSpec == Spec /\ WF_vars(Work) /\ \A r \in Requests : WF_vars(Answer(r))

-----------------------------------------------------------------------------
(***************************************************************************)
(* Properties                                                              *)
(***************************************************************************)

AdmittedBetween(R, a, b) == {r \in R : admission[r].at \in a..b}

OwnBucketOf(s) == {r \in Requests : admission[r].bucket = "own" /\ admission[r].source = s}

Overflowed == {r \in Requests : admission[r].bucket = "overflow"}

Admitted == {r \in Requests : admission[r].bucket # "none"}

\* The requests R stay within a bucket: what it started with and was refilled
\* since the instant it started, and a full bucket in any window.
Within(R, start, initial, burst, interval) ==
  \A a, b \in start..now :
    /\ Cardinality(AdmittedBetween(R, start, b)) <= initial + ((b - start) \div interval)
    /\ a <= b => Cardinality(AdmittedBetween(R, a, b)) <= burst + ((b - a) \div interval) + 1

\* Nobody redeems faster than the limits say: neither a source by being
\* forgotten and met again when the table is full, nor all the sources that
\* share the overflow bucket, nor everybody together
\* (InMemoryAdmissionController::admit).
AdmissionIsBounded ==
  /\ \A s \in Sources, r \in Requests :
       r \in OwnBucketOf(s) /\ (\A q \in OwnBucketOf(s) : admission[r].at <= admission[q].at)
         => Within(OwnBucketOf(s), admission[r].at, SourceInitial, SourceBurst, SourceRefill)
  /\ Within(Overflowed, 0, 1, SourceBurst, SourceRefill)
  /\ Within(Admitted, 0, GlobalInitial, GlobalBurst, GlobalRefill)

\* The worker still has to hand over or revoke the secret of the invitation.
InHands(i) ==
  /\ worker.request # None /\ presents[worker.request] = i
  /\ \/ worker.step = "handing" /\ acceptance # "accepted"
     \/ worker.step = "revoking"

DeliveredTo(i) == {r \in served : presents[r] = i}

AccountedFor(i) ==
  /\ InHands(i) \/ DeliveredTo(i) # {} \/ i \in revoked <=> i \in redeemed
  /\ ~(InHands(i) /\ (DeliveredTo(i) # {} \/ i \in revoked))
  /\ ~(DeliveredTo(i) # {} /\ i \in revoked)
  /\ \A r, q \in DeliveredTo(i) : r = q

\* The secret of a redeemed invitation is never abandoned and never both
\* delivered and revoked, whenever its client disconnects and whenever
\* shutdown is asked for: the worker is at it, or one client was given it, or
\* the revocation was asked for (worker_loop, RedemptionHandoff::serialize).
HandedOffOrRevoked ==
  /\ \A i \in Invitations : AccountedFor(i)
  /\ pending = IF worker.step = "handing" THEN 1 ELSE 0

\* Every client whose token reached the queue is answered or leaves, and a
\* shutdown that was asked for comes to its end: neither a handler that is gone
\* nor the queue it leaves behind can hold the worker (worker_loop,
\* shutdown_timeout).
Drains ==
  /\ \A r \in Requests : handler[r] = "waiting" ~> handler[r] = "gone"
  /\ shutdown ~> worker.step = "stopped"

=============================================================================
