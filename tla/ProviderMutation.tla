-------------------------- MODULE ProviderMutation --------------------------
(***************************************************************************)
(* N3: the mutations of the Headscale adapter                              *)
(* (nodescale-provider-headscale/src/lib.rs).                              *)
(*                                                                         *)
(* A call uses up its token, checks the provider, reads the object it is   *)
(* about, writes once and reads it back.  The provider offers no           *)
(* compare-and-swap: its other clients may change anything in between, a   *)
(* write may be refused, lost, answered by an intermediary that dropped    *)
(* it, applied without an answer, or applied after the adapter has stopped *)
(* waiting.  The owner may replace the configuration at any time.          *)
(*                                                                         *)
(* A call that is never run again models a process that died.              *)
(*                                                                         *)
(* Operators whose name begins with Wrong are deliberate mistakes a change *)
(* to the code could make; no action uses them.                            *)
(***************************************************************************)
EXTENDS MutationAuthority

CONSTANTS
  Calls,       \* calls of execute_mutation
  Kinds,       \* the mutations they ask for
  Offers,      \* configurations the owner installs
  Other,       \* whoever else administers the provider
  MaxChanges   \* bound: how often the others change something

ASSUME CallAssumption ==
  /\ Other \notin Calls
  /\ Kinds \subseteq Capabilities
  /\ Offers \subseteq Configurations
  /\ MaxChanges \in Nat

Authors == Calls \cup {Other}

\* A time no clock reaches.
Never == MaxTime + 1

VARIABLES
  now,        \* the clock
  config,     \* the row of provider_mutation_configurations
  installed,  \* every configuration there ever was (history)
  recorded,   \* confirmed_provider_credential_references
  provider,   \* what the provider holds
  changes,    \* how often the others changed it
  step,       \* where each call is
  call,       \* what it was asked, with which token and adapter
  wire,       \* what became of its write
  outcome     \* its MutationOutcome

vars == <<now, config, installed, recorded, provider, changes, step, call, wire, outcome>>

Steps == {"idle", "issued", "reading", "checking", "sending", "waiting",
          "acknowledged", "unanswered", "done"}

\* failed is Failed { retryable: true }; blocked is CompatibilityBlocked.
Outcomes == {"none", "confirmed", "satisfied", "rejected", "failed", "unsupported",
             "authentication", "unavailable", "blocked", "conflict", "ambiguous"}

\* The principal is the users of its name, the tags and the policy are named
\* by who wrote them, and a node of the id may carry another machine key.
Providers ==
  [users : SUBSET Authors, made : SUBSET Calls,
   key : [listed : BOOLEAN, expires : 0..Never],
   node : [state : {"ours", "other", "absent"}, tags : Authors, expires : 0..Never],
   policy : Authors]

NoToken == [generations |-> [authorization |-> 0, configuration |-> 0],
            capability |-> "none", from |-> 0, until |-> 0]

NoTransport == [generations |-> [authorization |-> 0, configuration |-> 0],
                database |-> FALSE]

NoCall == [kind |-> "none", token |-> NoToken, transport |-> NoTransport, started |-> 0]

CallRecords ==
  [kind : Capabilities \cup {"none"}, token : Tokens \cup {NoToken},
   transport : Transports \cup {NoTransport}, started : Times]

TypeOK ==
  /\ now \in Times
  /\ config \in Configurations \cup {NoConfiguration}
  /\ installed \subseteq Configurations
  /\ recorded \subseteq Calls
  /\ provider \in Providers
  /\ changes \in Nat
  /\ step \in [Calls -> Steps]
  /\ call \in [Calls -> CallRecords]
  /\ wire \in [Calls -> {"none", "sent", "applied", "refused"}]
  /\ outcome \in [Calls -> Outcomes]

Init ==
  /\ now = 0
  /\ config = NoConfiguration
  /\ installed = {}
  /\ recorded = {}
  /\ provider = [users |-> {Other}, made |-> {},
                 key |-> [listed |-> TRUE, expires |-> Never],
                 node |-> [state |-> "ours", tags |-> Other, expires |-> Never],
                 policy |-> Other]
  /\ changes = 0
  /\ step = [c \in Calls |-> "idle"]
  /\ call = [c \in Calls |-> NoCall]
  /\ wire = [c \in Calls |-> "none"]
  /\ outcome = [c \in Calls |-> "none"]

Tick ==
  /\ now < MaxTime
  /\ now' = now + 1
  /\ UNCHANGED <<config, installed, recorded, provider, changes, step, call, wire, outcome>>

-----------------------------------------------------------------------------
(***************************************************************************)
(* The owner and the store                                                 *)
(***************************************************************************)

\* replace_provider_mutation_configuration
Replace(new) ==
  /\ config # NoConfiguration => Advances(config.generations, new.generations)
  /\ config' = new
  /\ installed' = installed \cup {new}
  /\ UNCHANGED <<now, recorded, provider, changes, step, call, wire, outcome>>

\* issue_mutation_authorization, or the one begin_create returns
Issue(c, capability) ==
  /\ step[c] = "idle"
  /\ Issuable(config, capability, now)
  /\ step' = [step EXCEPT ![c] = "issued"]
  /\ call' = [call EXCEPT ![c].token = Token(config, capability)]
  /\ UNCHANGED <<now, config, installed, recorded, provider, changes, wire, outcome>>

\* record_confirmed_provider_credential_reference
Record(c, t) ==
  /\ outcome[c] = "confirmed"
  /\ call[c].kind = "CreateJoinCredential"
  /\ c \notin recorded
  /\ call[c].started <= t /\ t <= now
  /\ Recordable(config, call[c].transport.generations, t)
  /\ recorded' = recorded \cup {c}
  /\ UNCHANGED <<now, config, installed, provider, changes, step, call, wire, outcome>>

-----------------------------------------------------------------------------
(***************************************************************************)
(* What the mutations ask for, and how the adapter reads what it finds     *)
(***************************************************************************)

NodeKinds == {"ReplaceNodeTags", "ExpireNode", "DeleteNode"}

\* The key is not listed, or its expiration has come.
KeyEnded(p, t) == p.key.listed => p.key.expires <= t

\* The state a mutation asks for, as an observer whose clock shows t sees it.
Holds(kind, c, p, t) ==
  CASE kind = "EnsureNetworkPrincipal" -> p.users # {}
    [] kind = "CreateJoinCredential" -> c \in p.made
    [] kind = "InvalidateJoinCredential" -> KeyEnded(p, t)
    [] kind = "ReplaceNodeTags" -> p.node.state = "ours" /\ p.node.tags = c
    [] kind = "ExpireNode" -> p.node.state = "ours" /\ p.node.expires <= t
    [] kind = "DeleteNode" -> p.node.state = "absent"
    [] kind = "ManagePolicy" -> p.policy = c

\* What the first read of each mutation finds; "none" means it goes on to write.
PrincipalBefore(p) ==
  CASE p.users = {} -> "none"
    [] \E u \in p.users : p.users = {u} -> "satisfied"
    [] OTHER -> "conflict"

\* The user a credential is for is named by its id.
CredentialBefore(p) == IF Other \in p.users THEN "none" ELSE "rejected"

WrongKeyBefore(p, t) == IF KeyEnded(p, Never) THEN "satisfied" ELSE "none"

KeyBefore(p, t) == IF KeyEnded(p, t) THEN "satisfied" ELSE "none"

\* Another machine may be behind the node id.
NodeBefore(kind, c, p, t) ==
  CASE p.node.state = "other" -> "conflict"
    [] p.node.state # "other" /\ Holds(kind, c, p, t) -> "satisfied"
    [] OTHER -> IF p.node.state = "absent" THEN "rejected" ELSE "none"

PolicyBefore(c, expected, p) ==
  CASE p.policy # expected -> "conflict"
    [] p.policy = expected /\ expected = c -> "satisfied"
    [] OTHER -> "none"

Before(kind, c, expected, p, t) ==
  CASE kind = "EnsureNetworkPrincipal" -> PrincipalBefore(p)
    [] kind = "CreateJoinCredential" -> CredentialBefore(p)
    [] kind = "InvalidateJoinCredential" -> KeyBefore(p, t)
    [] kind \in NodeKinds -> NodeBefore(kind, c, p, t)
    [] kind = "ManagePolicy" -> PolicyBefore(c, expected, p)

\* What the read after the write finds.  For the principal it asks for the id
\* the answer named, or else for the name.
PrincipalReadBack(c, p, acknowledged) ==
  LET users == IF acknowledged THEN p.users \cap {c} ELSE p.users
  IN CASE users = {} -> "failed"
       [] \E u \in users : users = {u} -> "confirmed"
       [] OTHER -> "conflict"

CredentialReadBack(c, p) == IF c \in p.made THEN "confirmed" ELSE "ambiguous"

KeyReadBack(p, t) == IF KeyEnded(p, t) THEN "confirmed" ELSE "failed"

WrongNodeReadBack(kind, c, p, t) ==
  IF Holds(kind, c, [p EXCEPT !.node.state = IF @ = "other" THEN "ours" ELSE @], t)
  THEN "confirmed" ELSE "failed"

NodeReadBack(kind, c, p, t) ==
  CASE p.node.state = "other" -> "ambiguous"
    [] p.node.state # "other" /\ Holds(kind, c, p, t) -> "confirmed"
    [] OTHER -> IF p.node.state = "absent" THEN "conflict" ELSE "failed"

PolicyReadBack(c, p) == IF p.policy = c THEN "confirmed" ELSE "ambiguous"

\* The time is the one taken before the call's first request, except that an
\* invalidation takes a fresh one.
ReadBack(kind, c, p, acknowledged, started) ==
  CASE kind = "EnsureNetworkPrincipal" -> PrincipalReadBack(c, p, acknowledged)
    [] kind = "CreateJoinCredential" -> CredentialReadBack(c, p)
    [] kind = "InvalidateJoinCredential" -> KeyReadBack(p, now)
    [] kind \in NodeKinds -> NodeReadBack(kind, c, p, started)
    [] kind = "ManagePolicy" -> PolicyReadBack(c, p)

-----------------------------------------------------------------------------
(***************************************************************************)
(* The adapter                                                             *)
(***************************************************************************)

Authority == <<now, config, installed, recorded>>

Finish(c, result) ==
  /\ step' = [step EXCEPT ![c] = "done"]
  /\ outcome' = [outcome EXCEPT ![c] = result]

GoTo(c, next) ==
  /\ step' = [step EXCEPT ![c] = next]
  /\ UNCHANGED outcome

\* local_intent_outcome: the request is not well formed.
Reject(c) ==
  /\ Finish(c, "rejected")
  /\ call' = [call EXCEPT ![c] = NoCall]

\* execute_mutation takes the time and uses up the token before its first
\* request; a token that does not validate is rejected as well.
Execute(c, kind, transport) ==
  /\ step[c] = "issued"
  /\ \/ /\ kind = "ManagePolicy" /\ ~transport.database
        /\ Finish(c, "unsupported")
        /\ call' = [call EXCEPT ![c] = NoCall]
     \/ /\ kind = "ManagePolicy" => transport.database
        /\ Reject(c)
     \/ /\ kind = "ManagePolicy" => transport.database
        /\ Validates(call[c].token, transport, kind, now)
        /\ GoTo(c, "reading")
        /\ call' = [call EXCEPT ![c] = [kind |-> kind, token |-> NoToken,
                                       transport |-> transport, started |-> now]]
  /\ UNCHANGED <<Authority, provider, changes, wire>>

\* outcome_from_error, of the errors a request can end with
Failures == {"authentication", "unavailable", "rejected"}

\* readiness finds another version or an unhealthy database; it, the first read
\* and policy/check may fail.
NotReady(c, result) ==
  /\ \/ step[c] \in {"reading", "checking"} /\ result \in Failures
     \/ step[c] = "reading" /\ result = "blocked"
  /\ Finish(c, result)
  /\ UNCHANGED <<Authority, provider, changes, call, wire>>

\* A policy is checked by the provider before it is put.
Read(c, expected) ==
  /\ step[c] = "reading"
  /\ LET kind == call[c].kind
         found == Before(kind, c, expected, provider, call[c].started)
     IN IF found # "none"
        THEN Finish(c, found)
        ELSE GoTo(c, IF kind = "ManagePolicy" THEN "checking" ELSE "sending")
  /\ UNCHANGED <<Authority, provider, changes, call, wire>>

Checked(c) ==
  /\ step[c] = "checking"
  /\ GoTo(c, "sending")
  /\ UNCHANGED <<Authority, provider, changes, call, wire>>

\* write_json
Send(c) ==
  /\ step[c] = "sending"
  /\ wire' = [wire EXCEPT ![c] = "sent"]
  /\ GoTo(c, "waiting")
  /\ UNCHANGED <<Authority, provider, changes, call>>

\* A success that parses; whoever answered may have dropped the request.  Only
\* the creation of a principal or a credential looks at what it says.
Acknowledged(c) ==
  /\ step[c] = "waiting"
  /\ wire[c] \in {"applied", "refused"}
  /\ call[c].kind \in {"EnsureNetworkPrincipal", "CreateJoinCredential"}
  /\ GoTo(c, "acknowledged")
  /\ UNCHANGED <<Authority, provider, changes, call, wire>>

\* 401 or 403; what a put of a policy answered is not looked at.
Denied(c) ==
  /\ step[c] = "waiting"
  /\ wire[c] = "refused"
  /\ IF call[c].kind = "ManagePolicy"
     THEN GoTo(c, "unanswered")
     ELSE Finish(c, "authentication")
  /\ UNCHANGED <<Authority, provider, changes, call, wire>>

\* A timeout, another status, or an answer that does not fit the request.
WrongUnanswered(c) ==
  /\ step[c] = "waiting"
  /\ IF call[c].kind = "CreateJoinCredential"
     THEN Finish(c, "unavailable")
     ELSE GoTo(c, "unanswered")
  /\ UNCHANGED <<Authority, provider, changes, call, wire>>

\* Without its answer a new credential has no secret to give out.
Unanswered(c) ==
  /\ step[c] = "waiting"
  /\ IF call[c].kind = "CreateJoinCredential"
     THEN Finish(c, "ambiguous")
     ELSE GoTo(c, "unanswered")
  /\ UNCHANGED <<Authority, provider, changes, call, wire>>

Reconcile(c) ==
  /\ step[c] \in {"acknowledged", "unanswered"}
  /\ Finish(c, ReadBack(call[c].kind, c, provider, step[c] = "acknowledged",
                        call[c].started))
  /\ UNCHANGED <<Authority, provider, changes, call, wire>>

NotReconciled(c) ==
  /\ step[c] \in {"acknowledged", "unanswered"}
  /\ Finish(c, "ambiguous")
  /\ UNCHANGED <<Authority, provider, changes, call, wire>>

-----------------------------------------------------------------------------
(***************************************************************************)
(* The provider and its other clients                                      *)
(***************************************************************************)

\* A user of the name exists once; nodes and keys are addressed by id alone.
Accepts(kind, p) ==
  CASE kind = "EnsureNetworkPrincipal" -> p.users = {}
    [] kind = "InvalidateJoinCredential" -> p.key.listed
    [] kind = "CreateJoinCredential" -> Other \in p.users
    [] kind \in NodeKinds -> p.node.state # "absent"
    [] kind = "ManagePolicy" -> TRUE

Written(kind, c, p) ==
  CASE kind = "EnsureNetworkPrincipal" -> [p EXCEPT !.users = {c}]
    [] kind = "CreateJoinCredential" -> [p EXCEPT !.made = @ \cup {c}]
    [] kind = "InvalidateJoinCredential" -> [p EXCEPT !.key.expires = now]
    [] kind = "ReplaceNodeTags" -> [p EXCEPT !.node.tags = c]
    [] kind = "ExpireNode" -> [p EXCEPT !.node.expires = now]
    [] kind = "DeleteNode" -> [p EXCEPT !.node.state = "absent"]
    [] kind = "ManagePolicy" -> [p EXCEPT !.policy = c]

\* A write that was sent is applied at any time later, or never.
Apply(c) ==
  /\ wire[c] = "sent"
  /\ Accepts(call[c].kind, provider)
  /\ wire' = [wire EXCEPT ![c] = "applied"]
  /\ provider' = Written(call[c].kind, c, provider)
  /\ UNCHANGED <<Authority, changes, step, call, outcome>>

Refuse(c) ==
  /\ wire[c] = "sent"
  /\ wire' = [wire EXCEPT ![c] = "refused"]
  /\ UNCHANGED <<Authority, provider, changes, step, call, outcome>>

\* The object a mutation is about, after another client of the provider or the
\* machine itself changed it.  An expired key is not renewed and the id of a
\* deleted node is not used again.
Changed(kind, p) ==
  CASE kind = "EnsureNetworkPrincipal" ->
         {[p EXCEPT !.users = u] :
            u \in {p.users \cup {Other}} \cup {p.users \ {a} : a \in p.users}}
    [] kind = "CreateJoinCredential" ->
         {[p EXCEPT !.users = {}]} \cup {[p EXCEPT !.made = @ \ {c}] : c \in p.made}
    [] kind = "InvalidateJoinCredential" ->
         {[p EXCEPT !.key.listed = FALSE],
          [p EXCEPT !.key.expires = IF @ > now THEN now ELSE @]}
    [] kind \in NodeKinds ->
         {[p EXCEPT !.node = n] :
            n \in {m \in [state : {"ours", "other", "absent"}, tags : Authors,
                          expires : {now, Never}] :
                    p.node.state \in {"ours", m.state}}}
    [] kind = "ManagePolicy" -> {[p EXCEPT !.policy = a] : a \in Authors}

\* Only what a call under way is about is changed: anything else it does not see.
Others(c) ==
  /\ changes < MaxChanges
  /\ step[c] \notin {"idle", "issued", "done"}
  /\ changes' = changes + 1
  /\ provider' \in Changed(call[c].kind, provider)
  /\ UNCHANGED <<Authority, step, call, wire, outcome>>

Next ==
  \/ Tick
  \/ \E new \in Offers : Replace(new)
  \/ \E c \in Calls :
       \/ \E capability \in Kinds : Issue(c, capability)
       \/ \E kind \in Kinds, used \in installed, database \in BOOLEAN :
            Execute(c, kind, [generations |-> used.generations, database |-> database])
       \/ \E result \in Outcomes : NotReady(c, result)
       \/ \E expected \in Authors : Read(c, expected)
       \/ Checked(c)
       \/ Send(c)
       \/ Acknowledged(c)
       \/ Denied(c)
       \/ Unanswered(c)
       \/ Reconcile(c)
       \/ NotReconciled(c)
       \/ Apply(c)
       \/ Refuse(c)
       \/ Others(c)
       \/ \E t \in Times : Record(c, t)

Spec == Init /\ [][Next]_vars

-----------------------------------------------------------------------------
(***************************************************************************)
(* Properties                                                              *)
(***************************************************************************)

\* A write is only sent by a call whose adapter was built for a configuration
\* that was enabled, inside its window when the call began and granted this
\* mutation; the generations name that configuration and no other, however
\* the owner replaces it.
WritesAreGranted ==
  \A c \in Calls : wire[c] # "none" =>
    \E granted \in installed :
      /\ {i \in installed : i.generations = call[c].transport.generations} = {granted}
      /\ granted.enabled
      /\ call[c].kind \in granted.grants
      /\ Within(granted, call[c].started)

\* An answer other than a confirmation, a retryable failure, a conflict or an
\* ambiguity is certain: the call has changed nothing and never will.
RefusalsAreDefinite ==
  \A c \in Calls :
    outcome[c] \in {"none", "confirmed", "failed", "conflict", "ambiguous"}
      \/ wire[c] \in {"none", "refused"}

\* When a call answers with evidence, the provider is in the state the
\* mutation asked for, whatever was acknowledged before.
EvidenceIsTrue ==
  [][\A c \in Calls :
       (outcome'[c] # outcome[c]) /\ (outcome'[c] \in {"confirmed", "satisfied"})
         => Holds(call[c].kind, c, provider, now)]_vars

\* A key once reported revoked is unusable from then on.
RevokedIsForGood ==
  \A c \in Calls :
    call[c].kind = "InvalidateJoinCredential" /\ outcome[c] \in {"confirmed", "satisfied"}
      => KeyEnded(provider, now)

\* A read-back that finds the provider in the state asked for does not answer
\* that the mutation failed.
ObservedIsNotFailed ==
  [][\A c \in Calls :
       (outcome'[c] # outcome[c]) /\ (outcome'[c] = "failed")
         => ~Holds(call[c].kind, c, provider, now)]_vars
=============================================================================
