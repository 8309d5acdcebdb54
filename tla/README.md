# Nodescale in TLA+

Nodescale is the membership and trust control plane of Hermes Fleet: it invites
a machine, obtains a one-time provider credential for it, recognises the node
that joined as a logical device, lets the owner trust or revoke that device,
binds it to an authenticated Keryx peer, and projects it into Fleet. It is a
Rust workspace over one SQLite store that several processes share. This
directory holds its TLA+ models, the TLC configurations that check them, and
proofs of their main properties for TLAPS.

File references are relative to `src/crates/` unless they start with `src/`.

## 1. Inventory

### 1.1 How the parts run

Every crate reaches durable state through `nodescale-state`. A transaction
begins IMMEDIATE, waits up to five seconds for the write lock, and rolls back
whole on any error (`nodescale-state/src/lib.rs`); CHECKs, unique indexes and
triggers of the migrations are part of what a transaction may do. So **one
transaction is one atomic step** in every module here, and a transaction that a
trigger refuses is a step that changes nothing. What is *not* atomic is
everything a service does around its transactions: it reads the clock, reads the
store, awaits the provider, Fleet or a mailbox, and writes later. No lock is held
across an await, and nothing keeps a second process (the runtime, the control
node, the ingress, one of the command line tools) from doing the same. All the
concurrency of the models is of that kind: *any* number of processes, each in
the middle of a command, each allowed to stop there for good.

### 1.2 Components

| Part | State it keeps | Operations | Talks to | What is hard | What makes it correct |
|---|---|---|---|---|---|
| **N7 store** `nodescale-state/src/n7.rs`, migration 0007 | projection records and their generation counters, operation rows, attempts, inspections, device status | reserve, record attempt, recover from inspection | N6 rows (provenance and fence), projection service | verdict on evidence another process produced; two generation counters in step | applied only if Fleet held that document; records, rows and counter move together; settled is final |
| **N7 service** `nodescale-projection` | an actor with one command | reconcile, inspect and recover | store, Fleet client | crash between the durable attempt, the request and the read-back; retry of what may have been done | inspect before every retry; nothing in flight without a durable attempt |
| **Fleet client** `nodescale-fleet-client` | none | apply, inspect | Fleet over a Unix socket | a request written and never answered | a request is answered exactly, or its outcome is unknown |
| **N6 store** `nodescale-state/src/n6.rs`, migrations 0006, 0009 | binding per generation, challenge reservations, challenges, confirmations, authorizations | reserve, complete, confirm, authorize, rotate, revoke | N7 rows (fence), N5 rows (provider binding) | two-transaction issuance interleaved with everything else; lost answers; expiry boundaries | one live ceremony; activation by the newest unexpired challenge of the expected peer; one chain of generations |
| **N6 service** `nodescale-binding` | an actor, a clock reading per queued command | the six operations above | store, N5 view | clock read at queue time; crash between reservation and completion | one nonce for one operation; replays tell the truth |
| **Keryx adapter** `nodescale-keryx-adapter` | none | decode, verify, encode | N6 service | parsing | authenticated peer |
| **N4 store** `nodescale-state/src/lib.rs`, migration 0004 | invitation, join session, dispatch, credential metadata | issue, reserve, begin, confirm, fail, prepare cleanup, settle | invitation service | late confirmations and failures of slow workers; five rows that must tell one story | single use; certainty states are true; ended is final |
| **N4 service** `nodescale-invitation` | none | redeem, revoke, expire due | store, provider, N3 authorization | create request lost, refused, or applied after the worker gave up | one create request per invitation; no usable credential left behind a revoked invitation |
| **Ingress** `nodescale-redemption-ingress` | token buckets and their table, a queue, one worker thread | admit, queue, redeem, hand off, shut down | N4 service, HTTP | handler gone before, while or after the secret is offered; shutdown with commands queued; one worker that waits without a deadline | the secret leaves once, or is revoked; no source exceeds its bucket; worker and clients come to an end |
| **N5 store and service** `nodescale-state/src/n5.rs`, `nodescale-device-trust`, migrations 0005, 0008 to 0011 | logical devices, provider bindings, owner root, authorities, authorizations, trust, membership | confirm identity, reconcile binding, move binding, bootstrap and revoke root, grant and revoke authority, issue and consume authorization, activate membership | provider, N4 credential rows | store read, provider awaited twice, store written | identity from a live credential, once; one device per node; trust only by a standing permit |
| **N5 adoption** `n5.rs`, `nodescale-adopt`, migrations 0008, 0010 | adoption actions and proofs | issue, expire, confirm | provider, N2, N5 | the provider is asked between the reads and the transaction; a picture of the provider ends what is pending | evidence newer than the owner's action; one adoption of a node; an open action stands on an unchanged observation |
| **N2 discovery** `nodescale-state/src/lib.rs` | observations, classifications, generations | apply a snapshot | provider | snapshot read outside its transaction and applied whole or not at all | an older picture does not undo what began after it |
| **N3 mutation authorization** `nodescale-state/src/lib.rs`, migration 0003 | the configuration with its two generations, confirmed credential references | replace configuration, issue authorization, record a credential | every provider mutation | checked once, before four requests; the owner replaces the configuration meanwhile | no write without a grant; generations name one configuration |
| **Domain** `nodescale-domain` | none | value types, transition tables, canonical documents | all | boundary of expiry, widths | tables are what the store obeys |
| **Provider contract and adapters** `nodescale-provider*` | none | seven mutations, each a read, a write and a read-back; reads | Headscale, Tailscale | writes lost, late, or acknowledged and dropped; other clients between two requests; no compare-and-swap | only a refusal is definite; only a read-back is evidence |
| **Runtime and operator surfaces** `nodescale-runtime` | two local sockets with an owner lock; nothing in a cycle | start, recover a stale path, publish, shut down; one cycle over all devices; operator requests; command line tools | all | a path outlives its process and is removed by name; one failing device ends a cycle | a served path is never taken away; what a dead process leaves does not stop the next; every device is revalidated |
| **Store lifecycle** `nodescale-state/src/lib.rs` | the connection | open, migrate, transact | SQLite | several processes | a transaction is atomic |
| **Provider fake, proof runners, packaging** | test doubles, scripts | | | | |

How they call each other, left to right, `~` marking an awaited answer of
something outside:

```
ingress -> N4 service -> N4 store ~ provider      (one credential)
runtime -> N5 service -> N5 store ~ provider      (identity, binding, view)
owner tools -> N5 store                           (root, authority, decision)
Keryx ~ adapter -> N6 service -> N5 view ~ provider -> N6 store
project tool -> N7 service -> N7 store ~ Fleet
N6 store <-> N7 store : binding provenance one way, the fence the other
```

N8 (`src/docs/n8*`) is a plan without code and has no component.

### 1.3 Hazards

`PROJECT.json` lists the hazards with the line where each bites. They come down
to eight kinds of question:

1. a verdict taken from silence, from an acknowledgement, or from an answer that
   another process has overtaken (N7, N5);
2. a request that outlives the process that sent it (N7, N4);
3. a crash between two transactions of one operation (N4, N6, N7);
4. two processes resuming, retrying or racing the same operation (all);
5. a late writer that rewrites what is over (N4, N7);
6. authority that is stale when it is used: a revision, a clock reading, an
   authorization, a view (N5, N6);
7. what outlives its owner: a secret whose client is gone, a write that is
   applied late, a socket file of a killed process (ingress, N3, runtime);
8. a state nothing leads out of any more: the violations of section 5.

## 2. Modules

| Module | What it is |
|---|---|
| `FleetProjection` | N7: store, service, client and Fleet, one device |
| `FleetAuthority` | what N7 promises: the abstract specification of `FleetProjection` |
| `KeryxBinding` | N6: store and services, one device |
| `BindingLifecycle` | what N6 and N7 may assume of each other; **both** implement it |
| `SharedBinding` | N6 and N7 over the store they share: `FleetProjection` and `KeryxBinding` without an environment |
| `JoinInvitation` | N4: one invitation, its workers, and the provider |
| `SingleUseGrant` | what an invitation promises: abstract specification of `JoinInvitation` |
| `DeviceTrust` | N5: devices, bindings, owner, processes and provider |
| `TrustStanding` | what N5 promises of trust: abstract specification of `DeviceTrust` |
| `ProviderAdoption` | N2 and the adoption part of N5: observation cycles, adoption runs, owner and provider |
| `AdoptionGrant` | what adoption promises: abstract specification of `ProviderAdoption` |
| `AdmissionControl` | the token buckets of the ingress, as operators |
| `RedemptionIngress` | the ingress: handlers, queue, worker, admission |
| `MutationAuthority` | N3: configurations and tokens, as operators |
| `ProviderMutation` | N3 and the Headscale adapter: calls, owner, provider and its other clients |
| `SocketOwnership` | the runtime's two local sockets, from start to end or death |
| `MC*` | the symmetry sets, and the configurations and offers of an instance, for TLC |
| `*Proofs` | the theorems, one module for each of the eight components |

All modules share conventions. A process is a value of `Workers`, `Services`,
`Reconcilers`, `Calls` or `Processes` with a program counter `pc` (the statement it will execute next)
and a record `call` (what it remembers of what it read). One action is one
transaction or one request, with every row that transaction writes. A refusal,
an abort by a trigger, an error return and a crash look alike from outside: the
call is over and the store is as it was; one action (`Leave`, `Crash`) stands for
all of them where nothing distinguishes them. Operators whose name begins with
`Wrong` are mistakes that an edit of the code could make; no action uses them.
Substituting one for the definition it follows violates the property that
`PROJECT.json` names with it, so every property is known to notice something.

### 2.1 `FleetProjection` (N7)

*State.* `desired`, `state`, `attempt` are the record of each projection
generation, `operation` the operation rows, `generation` the counter, `status`
the device's projection status; `binding` the N6 bindings; `fleet` and `held`
what Fleet holds and ever held; `network` the requests written to its socket.
Each reconciler has `pc`, `call`, and what it remembers: `view` (the state it
last read), `retry` (`retry_dispatch_allowed`), `inspection`.
A document is the canonical body: generation, enrolment, binding provenance;
two bodies are byte-equal exactly when these are.

*Actions.* `Submit` and `Resubmit` start `reconcile_one` (both are `Begin`).
`ReserveNew`, `ReserveJoin`, `ReserveReplay`, `ReserveRefused` are the branches of
`reserve_n7_projection` (record, row, status and counter in one step);
`CapabilitiesConfirmed` and `CapabilitiesFailed` the handshake; `RecordAttempt`
and `AttemptRefused` the durable attempt; `DispatchSent` and
`DispatchUnavailable` the write of the request; `InspectAnswered` and
`InspectUnavailable` the read-back; `Settle`, `KeepAttempted` and `RecoverAborted`
the verdict transaction, whose trigger may refuse it. `Crash` ends a process
anywhere. `Deliver` and `Lose` are the socket and Fleet, whose rule
(`FleetAccepts`: exact successor only; authority needs a live binding unless it
removes the node) is taken from what ADR 0011 and the client rely on, and is
marked external. `IssueBinding`, `ConfirmBinding`, `RotateBinding`,
`RevokeBinding` are the N6 side with the fence of `n6.rs:416-468`; `SharedBinding`
puts `KeryxBinding` itself in their place.

*Choices.* One device per instance: generations, records and the fence are per
device, and no statement joins two. A request in flight may be kept after
delivery, which covers duplication. The actor's queue of 16 only refuses.

### 2.2 `KeryxBinding` (N6)

*State.* `state`, `revision`, `since`, `peer` of each binding generation;
`reservation`, `challenge`, `confirmation` keyed by (peer, operation) as the
tables are; `authorization` by generation and action; `fenced` what N7 holds
against rotation and revocation; `clock`; `delivered`, the nonces a caller got.

*Actions.* `Call` queues a command with the clock reading of that instant
(`IssueChallenge`, `ConfirmBinding`, `AuthorizeBinding`, `RetireBinding`); `Run`
then executes its steps: `ReadGeneration`, `ReserveNew` or `ReserveResumed`, and
`Complete` for an issuance, which are its two transactions; `Confirm`,
`Authorize`, `Rotate`, `Revoke` are one transaction each. `Leave` is a refusal, an
error or a crash. `Fence` and `Release` are N7, `Tick` is time.

*Choices.* Expiry is judged by the clock reading taken when the command was
queued, because that is what the code passes to the store. Unique indexes are
not guards: the model could violate them and the properties say it does not. The
nonce of a completion is (key, service), so two services that complete one
reservation produce different nonces. The question to N5 whether the device is
trusted is a nondeterministic refusal.

### 2.3 `JoinInvitation` (N4)

*State.* one variable for each row of migration 0004 (`invitation`, `revision`,
`session`, `dispatch`, `reference`, `invalidation`); `provider`, what became of
each worker's create request; `handed`, whose secret left; `clock`.

*Actions.* Redemption is `Redeem`, `Reserve`, `Begin`, `Create`, `AnswerIssued`
or `AnswerFailed`, `Confirm` or `ConfirmFails`, `Contain`, `Fail`, `HandOff` or
`HandoffLost`. Cleanup is `CleanUp`, then one of `PrepareNothing`,
`PreparePending`, `PrepareLocal` (the branches of `prepare_n4_cleanup`), then
`InvalidateDone` or `InvalidateFails`, then `Settle` or `SettleLater`. `Provide`
is the provider reading a request at any later time. The transition tables of the
domain and of the trigger `n4_dispatch_state_transitions` are functions
(`InvitationFollows`, `SessionFollows`, `DispatchFollows`) and every write goes
through them.

*Choices.* A credential is named by the worker that asked for it: the one join
session belongs to its claimant. The credential expires at the provider when the
invitation does. A revoke request and its answer are one step, since only the
invalidation state depends on it. A missing N3 authorization is a `Leave`.
`failed_pre_dispatch` has no caller that reaches it. `resolved_at`, display data
and audit rows are left out.

### 2.4 `DeviceTrust` (N5)

*State.* `credential`, `binding`, `revision`, `node`, `trust`, `trustRevision`,
`membership` of each device; `root`, `authority`, `authorization` of the owner;
`registered`, what the provider shows; `overtaken`, a history variable that
records which calls hold an answer older than the binding's last move.

*Actions.* `Confirm`, `Select`, `Persist` (identity confirmation: read, two
provider answers, one transaction), `Reconcile` and the steps under `Work`
(read trust, read binding, await the provider, write what the answer calls for),
`MoveByHand`, `BootstrapRoot`, `RevokeRoot`, `SetAuthority`, `Issue`, `Decide`,
`ActivateMembership`, and the environment's `Register` and `EndCredential`. `Work`
is `Select`'s continuation `Reread` and `Persist` for a confirmation; `ReadBinding`,
the answer (`AnswerExact`, `AnswerDoubt`, `AnswerView`) and what it leads to
(`Reactivate`, `MarkStale`, `Affirm`) for a reconciliation.

*Choices.* A device is named by the join session it comes from; a node is a pair
of node id and machine key. The clock is left out: an expired authorization is a
refusal. The worker's two reads are two steps, because they are two statements.
Authorization slots are reused once consumed. Devices adopted from an existing
provider node come into being in `ProviderAdoption`; what becomes of them here is
what becomes of any device.

### 2.5 `ProviderAdoption` (N2 and adoption)

*State.* `observation` is a row of `provider_observations`: class, the record
last seen, semantic generation, adoption state and the device linked to it.
`action` is a row of `n5_adoption_actions`, named by the run of `nodescale-adopt`
that issued it (the authorization operation id): state, authority, node, the
pinned record and generation, and the two instants. `root` and `revoked` are the
owner's standing; `provider` is what the provider holds; `cycle` and `tool` say
where each process is and what it read. `shown` is a history variable: the runs
for which the provider held the pinned keys, unexpired, at some instant since
the issue.

*Actions.* A cycle is `BeginCycle` (the clock reading that becomes
`snapshot_at`), `ListNodes` (the provider's answer) and `Reconcile` (the whole
of `reconcile_read_only` as one transaction: every listed node and every missing
one, with `terminalize_pending_adoption_for_observation`). A run is `BeginIssue`
and `Issue` (with the trigger that marks the observation), then `BeginConfirm`
(clock and observation are read), `Reread` (the provider's fresh answer) and
`Confirm`, one transaction. `Expire`, `RevokeRoot`, `RevokeAuthority` are the
owner's. `AbandonCycle` and `Leave` stand for every refusal, abort, replay and
crash. `ProviderChanges` lets a node come, go, expire, rotate its key or turn up
as another machine at any time.

*Choices.* A record is the machine key, the node key and one bit, `expired`,
which also stands for the rest of the semantic fingerprint. The fingerprint
covers everything of a node except `observed_at`; its last-seen time too, so in
the code an observation changes more often than in the model, in the same way.
A node key that differs from the one the target machine proved, and a WhoIs
answer that disagrees with it, end the call as `Leave` does. The proof operation
rows are left out: a replay answers what the first call did, a conflicting one
is refused. The window of an authority is a refusal. Unique indexes, among them
the one that admits one open action per node, are not guards: the theorems show
that the states of the observation already imply them. `Reconcile` aborts whole
when one action it would end is newer than its picture, which is the CHECK
`terminal_at_ms >= issued_at_ms`, met with `snapshot_at` as the terminal time;
every other change of that picture is lost with it.

*What the code does not promise, and the model shows.* Nothing compares the
`snapshot_at` of a picture with that of the last one applied, so an observation
can go back to an older picture until the next cycle. An action whose root was
revoked can be neither confirmed nor expired (`n5.rs:336`), and a network has
one root for ever: only a change at the provider ends it. No code takes the
`owner_revoked` decision the triggers of 0008 and 0010 allow. None of this
breaks a property; no property promises the opposite.

### 2.6 `RedemptionIngress` and `AdmissionControl`

*State.* `controller` is the admission controller: the bucket of each tracked
source, the one that all others share, the global one. `handler`, `presents` and
`reply` are the HTTP handlers, numbered by arrival, with the invitation whose
token each presents and the channel its reply comes on; `queue`, `worker`,
`acceptance` and `pending` the worker thread and the handoff it waits for;
`shutdown` the signal; `now` the monotonic clock. `redeemed`, `revoked`, `served`
and `admission` are what the outside saw: secrets given to the worker,
revocations asked for, clients that got a secret, and how each request was paid
for.

*Actions.* A handler's are `Arrive` (the whole of `admit`, forgetting a stale
source included), `Refuse`, `Enqueue`, `Answer` and `Disconnect`; the worker's
`Take`, `Redeemed`, `NotRedeemed`, `Handed`, `Revoke` and `Stop`. `Shutdown` may
come at any time and is seen between two commands only.

*Choices.* Redeeming succeeds at most once for an invitation; everything behind
it is `JoinInvitation`, also what a process that dies leaves there. The source a
full table forgets is any stale one, since the code iterates over a hash map.
Serializing the answer and accepting the handoff are one step: there is no await
between them.

### 2.7 `MutationAuthority` and `ProviderMutation` (N3 and the adapter)

*State.* `config` is the owner's row, `installed` every row there ever was,
`recorded` the references of confirmed credentials. `provider` holds what the
seven mutations are about: the users of one name, the credentials made, the key,
the node, the policy, each tagged with who wrote it. Of each call, `call` is its
token, adapter and starting time, `step` where it is, `wire` what became of its
write, `outcome` its answer.

*Actions.* `Replace`, `Issue` and `Record` are the store's. A call is `Execute`
(the token is used up), `Read`, `Checked` for a policy, `Send`, then
`Acknowledged`, `Denied` or `Unanswered`, and `Reconcile` or `NotReconciled`;
`NotReady` is a failure before the write. `Apply` and `Refuse` are the provider,
which may apply a request after the adapter gave up; `Others` is everybody else
who administers it.

*Choices.* One module for seven mutations: they share every step and differ in
what the first read and the read-back make of what they find (`Before`,
`ReadBack`, with one operator for each kind). The fingerprint of a configuration
is left out, since it travels with the generations. Adapter and provider have one
clock: a difference of clocks would only add reasons for what
`ObservedIsNotFailed` already shows. An adapter may be built for any
configuration that was ever installed.

### 2.8 `SocketOwnership` (runtime)

*State.* `entry` is what each of the two paths names, an inode and whether its
mode is final; `lock` the owner lock next to the operator's path. Of each process,
`pc` is the next system call, `listener` what it listens on, `mine` what it will
remove when it stops, `seen` the stale inode it found. `told` are the processes
that were told to stop.

*Actions.* One for each system call that changes something, and one for several
that only look. Starting: `Start`, `BindObservation`, `PublishObservation`, then
`Lock`, `Examine`, `Recheck`, `Remove`, `BindOperator`, `Capture`, `Publish`.
Stopping, in the order in which Rust drops the fields and locals: `Close`,
`Check`, `Unlink`, `Unlock`, `CheckObservation`, `UnlinkObservation`, `End`.
`Refuse` fails any call of a start, `Kill` ends a process anywhere, `Terminate` is
the signal, `Clear` an administrator who removes a file that nobody answers.

*Choices.* A path outlives its process, a lock and a listener do not; the number
of an inode is used again once nothing refers to it, as file systems do; a check
and the removal that follows it are two steps, because they go by inode and by
name. What the observation socket will remove is whatever its path names when it
is published, because that is when the code looks. A client that connects before
the process has found itself on its own path is a refused call of `Capture`. The
socket's mode before it is set follows from `UMask=0077` of the unit.

### 2.9 How the modules fit together

`BindingLifecycle` is the contract between N6 and N7: bindings go pending,
active, rotated or revoked; a fenced generation is neither rotated nor revoked;
a fence arises only around an active one. `KeryxBinding` implements it while
treating the fence as environment, `FleetProjection` implements it while treating
the ceremony as environment, each with an arbitrary move of the other side. Each
side is shown by TLC on an instance and by a proof for all. So what
`FleetProjection` assumes of rotation is what `KeryxBinding` does, and the other
way round, without a product of two state spaces. `SharedBinding` is that product
all the same, for the proofs: `EachMeetsTheOther` turns the sentence before into a
theorem (section 6).

`RedemptionIngress` and `JoinInvitation` meet in one assumption: a redemption
gives its secret to one worker only, which is `SingleUseGrant`. The other way
round, `HandOff` and `HandoffLost` are all that `JoinInvitation` says of the
ingress, and `HandedOffOrRevoked` is why that is all. `ProviderMutation` and
`JoinInvitation` meet in the provider's answers: `JoinInvitation` takes an error
for definite only where `RefusalsAreDefinite` says that it is (a creation never
ends in a conflict), and ends its
credential on an invalidation because `RevokedIsForGood`.

## 3. Runs

`tlc -workers 2 -config <cfg> <module>`; run names are those of `PROJECT.json`.

| Run | Bounds | States | What it shows |
|---|---|---|---|
| `fleet_race` | 2 reconcilers, 2 operations, 2 generations, 2 bindings, 3 enrolments | 222 thousand | the fence keeps every binding that Fleet still serves; late requests are refused; verdicts are evidence; nothing is taken back; refines `FleetAuthority` and `BindingLifecycle` |
| `keryx_race` | 2 services, 2 peers, 1 operation, 2 generations, times 0 to 1, lifetimes 1 | 1.5 million | one live ceremony, nothing live on a settled binding, the newest challenge of the expected peer activates unexpired, one nonce per operation, faithful replays, exact authorizations, refines `BindingLifecycle` |
| `invitation_race` | 3 workers, deadline 1, times 0 to 1 | 286 thousand | certainty states true, ended is final, refines `SingleUseGrant` |
| `ingress_drain` | 3 requests of 2 sources, a table of 1, a queue of 1, 2 invitations, times 0 to 2 | 320 thousand | no source, nor all of them together, exceeds its bucket; a secret is delivered or revoked and never both; every client and the shutdown come to an end |
| `mutation_race` | 2 calls of 7 kinds, 2 generations, 1 change by others, times 0 to 1 | 2.2 million | no write without a grant; a refusal changed nothing and never will; evidence is true; a revoked key stays unusable |
| `trust_race` | 1 device, 2 nodes, 2 processes, 1 authority, 2 authorizations, revisions to 4 | 3.1 million | identity from a live credential, no overtaken answer moves a binding, owner first, refines `TrustStanding` |
| `adoption_race` | 1 node, 2 machine keys, 2 node keys, 1 cycle at a time, 2 adoption runs, 1 authority, generations to 2, times 0 to 1, lifetime 1 | 1.5 million | an open action stays pinned to its observation, adoption rests on evidence newer than the action, an older picture ends nothing begun after it, refines `AdoptionGrant` |
| `socket_restart` | 2 runtimes, one with both sockets, 4 inodes, 3 kills, stops and refusals | 87 thousand | a served path is never removed or replaced; once nothing is killed any more the operator's socket is served, unless what is left was told to stop or is blocked |
| `fleet_overtaken`, `keryx_blocked`, `invitation_stranded`, `mutation_expiry` | the smallest instance that shows it | | section 5 |

*Why these bounds.* Races here are between two processes on one row, so two is
the number that matters; the third worker of `invitation_race` is a cleanup that
meets a slow claimant and a second redeemer at once. Two projection generations
give a predecessor that is late while its successor is applied; two bindings give
a rotation under it. Two projection operations are needed for a retry under another id. Two
peers give one operation id two challenges, one of which replaces the other; two
binding generations give a rotation. The deadlines lie inside the range of the
clock, and a lifetime of 1 with times 0 and 1 puts readings before and at the
boundary, which is where the code turns. Revision 4
of a provider binding is what active, stale, active, stale needs, which is the
case an answer from the first active period can be mistaken in. Two adoption runs
give an action that ends and is followed by another, pinned to the same
observation while the first call still waits for the provider; two generations
give a picture that changes an observation and one that changes it back.
A table of one source gives the overflow bucket and a source that is forgotten
and met again; three requests fill a queue of one behind a busy worker and leave
one to refuse; times to 2 refill a bucket twice. Two mutation calls meet each
other and, with one change by others, a third party; the offers of
`MCProviderMutation` reuse one pair of generations for two contents and end with
a configuration that is disabled. Four inodes let every entry and every listener
differ, with one to spare for reuse, and three stops let a process be killed, its
successor be refused, and that one's successor be told to stop.

Symmetry is only used for interchangeable processes, calls, peers, keys and nodes,
and never in a run that checks liveness. `MaxRevision`, `MaxTime`,
`MaxGeneration`, `MaxBinding`, `MaxRequests`, `MaxChanges`, `MaxStops` and
`Actions` are the only caps and stand in guards. Deadlock checking is off in the
modules where a protocol is over at some point (N3, N5, N6, N7 and the ingress,
whose worker stops); it is on in N4, in N2 with adoption and for the sockets,
where a process can always start again.

*What small instances leave open* is covered by the theorems, which hold for all
constants: three or more projection generations, more processes, and two devices
that compete for one node (`NodeIsExclusive`; with two devices `DeviceTrust` has
more states than a run of reasonable length visits), two observation cycles,
several nodes in one picture (`OpenIsPinned`, `EndIsByLaterPicture`), longer
ranges of the clock for N6 (`VerifiedPeerAnswered`, `AuthorityIsExact`), any
number of calls, of changes by others and of runtimes.

## 4. Fairness

Three components have a liveness property, because three have code that is
there to come to an end.

**N7** is written so that a command which is given again finishes what an earlier
one began (`src/README.md:119`, "response loss is recovered by inspecting before
blindly retrying"; `n7.rs:297` leaves the record attempted "so a later authority
read may retry"). With one generation an attempted record is settled; with two it
is not, which is the run `fleet_overtaken` of section 5. `FairSpec` assumes, for
`AttemptedIsSettled`:

- `WF` of each reconciler's next step: a command that was accepted runs on
  (the actor handles it to its end, or the process crashes, which is a fault);
- `SF` of resubmission: whoever gave the command gives it again, under the same
  operation id, as long as its record is not settled. This is an assumption on
  the caller, not something a timer of the code does; the property says that
  under it nothing in the code keeps the record from being settled. Strong,
  because between two tries the record can be busy;
- `WF` of delivery: Fleet reads what reached its socket, or it is lost;
- faults cease: from some point on no call is cut short, Fleet answers, no
  request is lost. Without it a process may crash in every attempt and nothing
  is ever settled.

**The ingress** must let go: `Drains` says that every client whose token reached
the queue is answered or leaves, and that a shutdown ends. `FairSpec` assumes
`WF` of the worker's next step, which is a thread that runs until it has stopped
(a redemption and a revocation end, since their requests and transactions have
deadlines of their own), and `WF` of each handler's `Answer`, which is the
runtime polling a future that was woken. Nothing is assumed of clients: they may
stay, leave, or never be heard of.

**The sockets** must come back: `ServesAgain` says that once nothing is killed or
stopped any more, the operator's socket is served for good. `FairSpec` assumes
`WF` of each process's step: a process that runs executes, and one that was
killed or failed is started again, which is `Restart=on-failure` of the unit. A
process that was told to stop is started only if somebody does so and carries no
fairness. systemd gives up after five failures in a minute (`StartLimitBurst`);
the property is then about the next start an administrator makes. The property
excepts what the code does not recover from: a file that stands in the way of the
observation socket, which `src/docs/runtime.md` says is refused, and one of the
operator's that was never made private (section 5). `MaxStops` bounds the kills,
so every behaviour of the instance has the quiet end the property asks about.

N2, N3, N4, N5 and N6 have no fairness and no liveness: no production caller
repeats `revoke`, runs `expire_due`, retries an issuance, a mutation or an
adoption, or renews an authorization, so there is nothing that would have to
happen. What can be said there without fairness is that an action *stays
possible*, and section 5 says where it does not.

## 5. Where code and documents disagree

Each of these has a run of its own that TLC must find violated; `PROJECT.json` quotes the
document.

| Run | Property | What the code does |
|---|---|---|
| `fleet_overtaken` | `AttemptedIsSettled` | An attempted generation whose successor was applied first can never be settled: the verdict also writes the device status, and Applied to Conflict is no transition, so it rolls back for ever. |
| `keryx_blocked` | `RevocationStaysAvailable` | One pending authorization per binding and action is allowed and none ever expires in the store, so a revoke authorization that ran out blocks revocation for ever. |
| `invitation_stranded` | `CleanupIsAccepted` | An invitation that was reserved and never dispatched, or whose create was refused, can be neither revoked nor expired: a CHECK or trigger refuses the dispatch row the cleanup writes. |
| `mutation_expiry` | `ObservedIsNotFailed` | A node that was just expired is read back with the clock reading from before the first request (`nodescale-provider-headscale/src/lib.rs:1019`, `:1334`, `:1845`); the expiry the provider wrote is later, so the state the call asked for is there and the call answers a retryable failure. `src/docs/provider-contract.md:77` calls a mutation certain once the requested state is observed. |

Others need no run of their own.

- A successor whose request never reached Fleet is inspected while Fleet holds its
  predecessor. A different body is a conflict to `n7.rs:341`, and a conflict is
  final, so a generation that Fleet never saw is lost and its successors are a
  gap, although the comment at `nodescale-projection/src/lib.rs:279` calls an
  attempt whose request was not sent retryable evidence. `FleetProjection` contains
  it (`Verdict` and `FleetAccepts`); no property denies it.
- Trust and binding are read before the provider is awaited and not after
  (`n5.rs:1812`): a revocation in between still yields `currently_trusted`, which
  `src/docs/device-trust.md:73` says is true only in a view that confirms the
  trusted state after the fresh read. It is the step `Affirm` of `DeviceTrust`. N6
  confirms a binding on such a view and its transaction does not look at the trust
  state again (`n6.rs:110-235`), so a device whose trust was just revoked may still
  get an active binding. What keeps it from being used is that
  `src/docs/n6-authenticated-keryx-binding.md:142` asks every use to go through
  `authorize_peer`, which asks N5 anew.
- An operator socket whose process died between `bind` (`operator_uds.rs:105`) and
  `set_permissions` (`:111`), or that a client reached before its own process did,
  stays behind with the mode the umask left. Every later start refuses it,
  because only a private socket is taken for stale; `src/docs/runtime.md:27` says
  so, and says nothing of how it comes about. It is `Blocked` in
  `SocketOwnership`, and `Clear` is the only way out.
- The retry of an issuance that stopped half way carries another `expires_at` and
  hence another fingerprint, and is answered Conflict (`n6.rs:905-920`; in
  `KeryxBinding` the `Resumable` of `ReserveResumed`), where
  `src/docs/n6-authenticated-keryx-binding.md:244` says the durable reservation may
  resume.
- `src/docs/device-trust.md` says that binding state moves forward only and that a
  stale binding stays non-trusted until a separately approved replacement;
  migration 0011 and `n5.rs` reactivate a stale binding when the provider shows
  the same node, key and credential again. The model follows the code.

## 6. Theorems

`tlapm <M>Proofs.tla` checks each module to the last leaf. They assume only the
named ASSUMEs: bounds are natural numbers, sentinels lie outside the sets they
extend, documents are what they are said to be; limits are positive; nothing is assumed of how
many processes, peers, operations, devices, nodes, calls or requests there are.

Each module proves `Init => IInv`, `IInv /\ [Next]_vars => IInv'`, and reads the
properties off `IInv`. None of the interesting properties is inductive; what had
to be added is the reason the code is right.

- **`FleetProjectionProofs`.** The fence must be right about requests it cannot
  see. Added: records exist exactly below the counter (`Recorded`); a call
  remembers its record consistently (`Consistent`); Fleet holds the newest
  document it accepted (`Newest`); applied and inspected documents were held
  (`Witnessed`); at most one binding is live, the last (`Chained`); a retired
  binding has, for every record that could still stand for authority, a later
  applied record (`Released`). A later applied record means Fleet has moved on
  and its generation rule refuses the older request. Theorems: `FenceIsSafe`,
  `LateRequestsStayHarmless`, `AppliedIsEvidence`, `AttemptPrecedesDispatch`,
  `RecordsMoveTogether`, `AttemptedBindingStays`, `NothingEverTakenBack`,
  `RetriesAfterMissing`, `Refinement` (of `FleetAuthority`),
  `LifecycleRefinement` (of `BindingLifecycle`). The last section composes N7 with N6 in
  `SharedBinding`. `EachMeetsTheOther`: the two over one store are a behaviour of
  `FleetProjection` and, with its fence read off the records of N7, of
  `KeryxBinding`, so the environment that either module has is exactly the other
  one, and the properties of both hold of the pair. N6 moves one fence at a time,
  which is enough because only the one active binding can be fenced
  (`FenceIsActive`, from `Provenance`, `Released` and `Chained`); in return N6 needs of
  its own only that commands are well formed (`Commanded`).
  `FleetNamesConfirmedPeers` is about both: what Fleet held or may still get is
  under a binding that an authenticated peer confirmed.
- **`KeryxBindingProofs`.** A service about to complete knows only that its
  reservation once existed. Added: a challenged pending binding has exactly one
  live reservation or challenge (`OneLiveCeremony` above, `StillLive` below), it
  is the newest (`LiveIsNewest`), and a consumed challenge belongs to a settled
  binding (`ConsumedIsSettled`), which is never pending again. Theorems:
  `CeremoniesDoNotOverlap`, `SettledIsUnconfirmable`, `LostNonceIsRetired`,
  `VerifiedPeerAnswered`, `GenerationsChain`, `AuthorityIsExact`,
  `NonceIsUnique`, `ReplaysAreFaithful`, `LifecycleRefinement`.
- **`JoinInvitationProofs`.** Added: the fourteen combinations that invitation,
  session and dispatch can be in (`Shaped`); how reference and invalidation go
  with them (`Recorded`); one worker at most got past the reservation
  (`OneClaim`); what holds of a worker for where it stands (`Placed`: among
  others, a worker about to settle as confirmed asked for a credential that
  cannot be used any more, and nothing makes it usable again); what a final row
  says of every worker and the provider (`Settled`: a request still under way
  when the invitation expired is past the deadline and makes nothing usable).
  Theorems: `OneRequest`, `CertaintyHolds`, `RowsStayInAgreement`, `EndIsFinal`,
  `GrantRefinement` (of `SingleUseGrant`).
- **`DeviceTrustProofs`.** Added: identity, binding and trust state exist
  together (`Enrolled`); authorizations hang on enabled authorities on the root,
  and ask for something the device allowed (`Owned`); what a call knows of trust
  and binding was once so, and an overtaken call knows an earlier revision
  (`Known`). Theorems: `NodeIsExclusive`, `OwnerComesFirst`,
  `IdentityIsFromLiveCredential`, `BindingIsEvidenced`, `StandingRefinement`.

- **`ProviderAdoptionProofs`.** Pinning is not inductive: a confirmation of one
  action would strand another on the same node. Added: an observation that was
  made has a record, unexpired while the node is discovered (`Recorded`); an
  issued action pins one (`Issued`); a node has one open action (`OneOpen`);
  a call works on its own action, which is still what it was, and if the
  provider told it of the pinned keys it did so after the issue (`Known`, with
  `NowShown`). Theorems: `OpenIsPinned`, `AdoptionIsEvidenced`,
  `EndIsByLaterPicture`, `GrantRefinement` (of `AdoptionGrant`).

- **`RedemptionIngressProofs`.** Added: what a request in the queue, at the worker
  or answered has behind it (`Placed`); which ends of the reply and of the
  acceptance channel are held while the worker waits (`Channels`: an offer lies
  with a handler exactly as long as the channel is open). Theorems:
  `TypeCorrect`, which includes that no bucket leaves its range and the queue its
  capacity; `SecretsAreAccountedFor`; `ClientsAreRemembered`, the safety core of
  `Drains` (whoever waits is in the queue, with the worker, or has its reply; added:
  `Heard`); and `RatesAreLimited`, that `AdmissionIsBounded` holds for every table
  size, burst and interval. Its invariant `RatesInv` is a balance for every bucket
  and every window of time up to now. Everything is counted in instants, a token
  being worth the interval that refills it, because the rounding of the refill
  would otherwise lose what the next refill needs. An admitted request moves the
  worth of a token from the bucket to what was paid; time pays in what it adds,
  and a full bucket wastes it; a window that has just begun can spend what a full
  bucket holds. A source that is forgotten loses nothing it could use and gains
  nothing: an entry is evicted only once it would be full anyway, which is what a
  source met for the first time may have at most (`Credit`).
- **`ProviderMutationProofs`.** Added: a configuration is newer than all before it,
  so a pair of generations names one (`Owned`); what a call has done at each of its
  steps (`Phased`); which configuration its token, and then the call, has its
  authority from (`Entitled`). Theorems: `AuthorityIsGranted`,
  `RefusalsChangeNothing`, `EvidenceIsObserved`, `RevocationLasts`; and
  `RecordedCredentialsAreReal`: the store records a credential reference only for a
  call whose write the provider applied, since a creation is confirmed by finding
  the credential, and only writes put one there (`Made`).
- **`SocketOwnershipProofs`.** The two sockets are safe for different reasons. The
  observation path is taken only while it names nothing, and whoever removes it
  still listens on what it names (`Observing`), so by `Distinct` it names nobody
  else's; the operator's path is changed only under the lock (`Locking`), and
  whoever holds it knows what it names (`Operating`). Theorems:
  `PathReachesServer`; `ListenersKeepTheirPath`, the same for sockets that are not
  served yet, or never will be because their start fails; and
  `LockIsNotLeftBehind`, the safety core of `ServesAgain`: the lock is free or its
  holder has steps to take, and who listens on the operator's path holds it.

Some theorems state what no run checks as a property of its own, because TLC
agrees with them as parts of the invariants above or they follow from what it
checks: `AttemptPrecedesDispatch`, `RecordsMoveTogether`, `AttemptedBindingStays`
and `RetriesAfterMissing` of N7, `SettledIsUnconfirmable` and `GenerationsChain` of
N6, `OneRequest` and `RowsStayInAgreement` of N4, `NodeIsExclusive` and the types of
N5, `ClientsAreRemembered` of the ingress, `LockIsNotLeftBehind` and
`ListenersKeepTheirPath` of the sockets, `RecordedCredentialsAreReal` of N3, the two about `SharedBinding`, and the
inductive invariants themselves (`Invariance`). TLC agrees with them on the instances
of the runs, and with the two about `SharedBinding` on an instance of its own: one
process on each side, two generations of records and of bindings, one peer with
one operation, an active and a removing enrolment, all instants alike (312,525
states; there a binding is fenced, released and rotated).

*Only model-checked*: the liveness of the ingress and the sockets (`Drains`,
`ServesAgain`) and the four violations, because liveness under fairness and ENABLED
are out of this prover's reach. Recursive definitions, whose results for all inputs
would need induction over data, do not occur: nothing in these eight components
computes over unbounded data in a way that a property depends on.

## 7. Not modelled, and why

- **Parsing, canonical encodings, signatures, TLS, HTTP, gRPC** (adapter,
  provider adapters, Fleet client framing): pure input and output; their results
  enter as authenticated peers, refusals and answers.
- **Audit rows, display data, timestamps** that no guard reads.
- **Queues** of the two actors (16 and 128 commands): a command that does not fit
  is refused and changes nothing. That of the ingress is modelled.
- **Reads of the provider**: inspecting the policy, and every listing outside a
  mutation, change nothing; what they may answer is where it is used. Calling
  `ManagePolicy` a lost update is no property: the comment at
  `nodescale-provider-headscale/src/lib.rs:1405` says the provider offers no
  compare-and-swap, and the model contains it.
- **A retryable failure that is applied later**: the request of a call that
  answered `Failed` may still be applied. The contract allows it, and so does the
  model.
- **Different clocks** of adapter, provider and store.
- **The ingress process dying**: what it leaves is in the store, hence in
  `JoinInvitation`; its memory is gone. Failures of serde on the ingress's own
  values, of its locks and of building its runtime need a bug or an exhausted host.
- **Requests on the local sockets** only read and page. Failing to register a
  signal handler after the sockets are bound ends the process as `Refuse` and
  `Kill` do; the checks of the lock file's owner, mode and links are refusals;
  `--once` takes no socket.
- **The N5 part of a runtime cycle, over all devices**: it keeps no state of its
  own, and what it does with one device is `Reconcile` of `DeviceTrust`. That one
  failing device ends the cycle is listed as a hazard and planned.
- **Importing a network**, and the classes of managed observations no code
  assigns, are left out of N2.
- **Granting a binding capability** (N6) and configuring the provider (N5): there
  before the command or the command is refused.
- **Provider fake, proof runners, packaging, release scripts**: not part of the
  control plane; what the unit files say of restarts and of the umask is used.
- **Store lifecycle**: used as the atomicity of a step; migrations run before
  any command.

## 8. Plan

Done in this order, most important first: N7 and its fence, N6, N4, N5, N2 with
adoption, the ingress, N3 with the provider's mutations, and the sockets of the
runtime, each with its run and its proofs, and those that promise something to
another component with an abstract specification.

To come:

1. **`ConfirmedTrust`**: `DeviceTrust` composed with `KeryxBinding` at
   `production.rs:588`, where N6 consumes `currently_trusted`. Properties: a binding
   is confirmed only for a subject that was trusted at some moment since the
   command was taken up, and `authorize_peer` never vouches for one whose trust
   was revoked before it was called.
2. **`ObservationCycle`**: a cycle over devices that ends at the first failure
   (`nodescale-runtime/src/lib.rs:402`). Property: every device is revalidated
   infinitely often, under the fairness the timer justifies, and where it fails.
3. **Adopted and joined devices on one node**: `DeviceTrust` with devices that come
   from `ProviderAdoption`. The index that admits one active binding per node
   refuses to revalidate a displaced device. Property: what such a device can
   still become.
4. **Composition**: `SharedBinding` puts N6 and N7 together; `JoinInvitation` over
   `ProviderMutation`, instead of over a provider of its own, is left.
