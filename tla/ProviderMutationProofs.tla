----------------------- MODULE ProviderMutationProofs -----------------------
(***************************************************************************)
(* Theorems of ProviderMutation, for any calls, any configurations the     *)
(* owner may install and any number of changes by others.                  *)
(*                                                                         *)
(* The inductive invariant adds three parts to the types.  Owned: each     *)
(* configuration is newer than those before it, so generations name one.   *)
(* Phased: what a call has done at each of its steps.  Entitled: where the *)
(* token, and then the call, got its authority.  Made, which the last      *)
(* theorem rests on, says where the provider's credentials come from.      *)
(***************************************************************************)
EXTENDS ProviderMutation, TLAPS

Owned ==
  /\ config = NoConfiguration => installed = {}
  /\ config # NoConfiguration =>
       /\ config \in installed
       /\ \A i \in installed :
            i = config \/ i.generations.authorization < config.generations.authorization
  /\ \A i, j \in installed : i.generations = j.generations => i = j

Running == {"reading", "checking", "sending", "waiting", "acknowledged", "unanswered"}

Phased ==
  \A c \in Calls :
    /\ outcome[c] = "none" <=> step[c] # "done"
    /\ step[c] \in {"idle", "issued", "reading", "checking", "sending"} => wire[c] = "none"
    /\ step[c] \in Running \/ wire[c] # "none" => call[c].kind \in Capabilities
    /\ call[c].started <= now

\* The token was minted from one of these configurations.
Minted(configurations, token) ==
  \E g \in configurations :
    /\ g.generations = token.generations
    /\ g.enabled
    /\ token.capability \in g.grants
    /\ token.from = g.from /\ token.until = g.until

\* One of these configurations granted what a call does when it began.
Granted(configurations, r) ==
  \E g \in configurations :
    /\ g.generations = r.transport.generations
    /\ g.enabled
    /\ r.kind \in g.grants
    /\ Within(g, r.started)

Entitled ==
  \A c \in Calls :
    /\ step[c] = "issued" => Minted(installed, call[c].token)
    /\ step[c] \in Running \/ wire[c] # "none" => Granted(installed, call[c])

-----------------------------------------------------------------------------
(***************************************************************************)
(* Types                                                                   *)
(***************************************************************************)

LEMMA Constants ==
  /\ MaxTime \in Nat /\ Never \in Nat /\ Never = MaxTime + 1
  /\ 0 \in Times /\ Times \subseteq 0..Never
  /\ Never \in 0..Never
  /\ Offers \subseteq Configurations
  /\ NoConfiguration \notin Configurations
  /\ Kinds \subseteq Capabilities
  BY TimeAssumption, CallAssumption, ConfigurationAssumption DEF Times, Never

LEMMA InitTyped == Init => TypeOK
  BY Constants DEF Init, TypeOK, Providers, Authors, CallRecords, NoCall, Steps, Outcomes

\* A configuration is a record of these fields.
LEMMA ConfigurationFields ==
  ASSUME NEW g \in Configurations
  PROVE  /\ g.generations \in Generations /\ g.enabled \in BOOLEAN
         /\ g.from \in Times /\ g.until \in 0..MaxTime + 1
         /\ g.grants \in SUBSET Capabilities
         /\ g.generations.authorization \in Nat
  BY DEF Configurations, Generations

LEMMA WrittenTyped ==
  ASSUME NEW p \in Providers, NEW c \in Calls, NEW kind \in Capabilities, now \in Times
  PROVE  Written(kind, c, p) \in Providers
<1>1. c \in Authors /\ now \in 0..Never
  BY Constants DEF Authors
<1>2. p.key \in [listed : BOOLEAN, expires : 0..Never]
  BY DEF Providers
<1>3. p.node \in [state : {"ours", "other", "absent"}, tags : Authors, expires : 0..Never]
  BY DEF Providers
<1>4. CASE kind = "EnsureNetworkPrincipal"
  BY <1>1, <1>4 DEF Written, Providers
<1>5. CASE kind = "CreateJoinCredential"
  BY <1>1, <1>5 DEF Written, Providers
<1>6. CASE kind = "InvalidateJoinCredential"
  BY <1>1, <1>2, <1>6 DEF Written, Providers
<1>7. CASE kind = "ReplaceNodeTags"
  BY <1>1, <1>3, <1>7 DEF Written, Providers
<1>8. CASE kind = "ExpireNode"
  BY <1>1, <1>3, <1>8 DEF Written, Providers
<1>9. CASE kind = "DeleteNode"
  BY <1>1, <1>3, <1>9 DEF Written, Providers
<1>10. CASE kind = "ManagePolicy"
  BY <1>1, <1>10 DEF Written, Providers
<1> QED
  BY <1>4, <1>5, <1>6, <1>7, <1>8, <1>9, <1>10 DEF Capabilities

LEMMA ChangedTyped ==
  ASSUME NEW p \in Providers, NEW kind, NEW q \in Changed(kind, p), now \in Times,
         kind \in Capabilities
  PROVE  q \in Providers
<1>1. Other \in Authors /\ now \in 0..Never /\ Never \in 0..Never
  BY Constants DEF Authors
<1>2. p.key \in [listed : BOOLEAN, expires : 0..Never]
  BY DEF Providers
<1>4. CASE kind = "EnsureNetworkPrincipal"
  BY <1>1, <1>4 DEF Changed, Providers
<1>5. CASE kind = "CreateJoinCredential"
  BY <1>1, <1>5 DEF Changed, Providers
<1>6. CASE kind = "InvalidateJoinCredential"
  <2> DEFINE e == IF p.key.expires > now THEN now ELSE p.key.expires
  <2>0. Changed(kind, p) = {[p EXCEPT !.key.listed = FALSE], [p EXCEPT !.key.expires = e]}
    BY <1>6 DEF Changed, NodeKinds
  <2>4. e \in 0..Never
    BY <1>1, <1>2
  <2> HIDE DEF e
  <2>1. q = [p EXCEPT !.key.listed = FALSE]
          \/ q = [p EXCEPT !.key.expires = e]
    BY <2>0
  <2>2. CASE q = [p EXCEPT !.key.listed = FALSE]
    BY <1>2, <2>2 DEF Providers
  <2>3. CASE q = [p EXCEPT !.key.expires = e]
    BY <1>2, <2>3, <2>4 DEF Providers
  <2> QED  BY <2>1, <2>2, <2>3
<1>7. CASE kind \in NodeKinds
  <2>1. PICK n \in [state : {"ours", "other", "absent"}, tags : Authors,
                    expires : {now, Never}] : q = [p EXCEPT !.node = n]
    BY <1>7 DEF Changed, NodeKinds
  <2>2. n \in [state : {"ours", "other", "absent"}, tags : Authors, expires : 0..Never]
    BY <1>1
  <2> QED  BY <2>1, <2>2 DEF Providers
<1>8. CASE kind = "ManagePolicy"
  BY <1>1, <1>8 DEF Changed, Providers
<1> QED
  BY <1>4, <1>5, <1>6, <1>7, <1>8 DEF Capabilities, NodeKinds

\* The outcomes a read can give.
LEMMA ReadOutcomes ==
  ASSUME NEW kind \in Capabilities, NEW c, NEW p, NEW e, NEW t, NEW ack
  PROVE  /\ Before(kind, c, e, p, t) \in {"none", "satisfied", "rejected", "conflict"}
         /\ ReadBack(kind, c, p, ack, t) \in {"confirmed", "failed", "conflict", "ambiguous"}
<1>1. Before(kind, c, e, p, t) \in {"none", "satisfied", "rejected", "conflict"}
  BY DEF Before, PrincipalBefore, CredentialBefore, KeyBefore, NodeBefore,
         PolicyBefore, Capabilities, NodeKinds
<1>2. ReadBack(kind, c, p, ack, t) \in {"confirmed", "failed", "conflict", "ambiguous"}
  BY DEF ReadBack, PrincipalReadBack, CredentialReadBack, KeyReadBack, NodeReadBack,
         PolicyReadBack, Capabilities, NodeKinds
<1> QED  BY <1>1, <1>2
\* A call a client of the provider is about has a kind.
LEMMA RunningKinds ==
  ASSUME TypeOK, Phased, NEW c \in Calls, step[c] \in Running
  PROVE  call[c].kind \in Capabilities
  BY DEF TypeOK, Phased

LEMMA AppliedKinds ==
  ASSUME Phased, NEW c \in Calls, wire[c] # "none"
  PROVE  call[c].kind \in Capabilities
  BY DEF Phased

LEMMA ExecuteTyped ==
  ASSUME TypeOK, NEW c \in Calls, NEW kind \in Kinds, NEW used \in installed,
         NEW database \in BOOLEAN,
         Execute(c, kind, [generations |-> used.generations, database |-> database])
  PROVE  TypeOK'
<1> DEFINE transport == [generations |-> used.generations, database |-> database]
<1>1. transport \in Transports
  BY ConfigurationFields DEF TypeOK, Transports
<1>2. NoCall \in CallRecords
  BY Constants DEF CallRecords, NoCall
<1>3. [kind |-> kind, token |-> NoToken, transport |-> transport, started |-> now]
        \in CallRecords
  BY <1>1, Constants DEF CallRecords, TypeOK
<1> HIDE DEF transport
<1>4. Execute(c, kind, transport)
  BY DEF transport
<1>5. step' \in [Calls -> Steps] /\ outcome' \in [Calls -> Outcomes]
  BY <1>4 DEF Execute, Reject, Finish, GoTo, TypeOK, Steps, Outcomes
<1>6. call' \in [Calls -> CallRecords]
  BY <1>2, <1>3, <1>4 DEF Execute, Reject, TypeOK
<1> QED
  BY <1>4, <1>5, <1>6 DEF Execute, Authority, TypeOK

LEMMA TypeStep ==
  ASSUME TypeOK, Phased, [Next]_vars
  PROVE  TypeOK'
<1>1. CASE Tick
  BY <1>1, Constants DEF Tick, TypeOK, Times
<1>2. ASSUME NEW new \in Offers, Replace(new)
      PROVE  TypeOK'
  BY <1>2, Constants DEF Replace, TypeOK
<1>3. ASSUME NEW c \in Calls, NEW capability \in Kinds, Issue(c, capability)
      PROVE  TypeOK'
  <2>1. config \in Configurations
    BY <1>3 DEF Issue, Issuable, TypeOK
  <2>2. Token(config, capability) \in Tokens
    BY <2>1, ConfigurationFields, Constants DEF Token, Tokens
  <2>3. [call[c] EXCEPT !.token = Token(config, capability)] \in CallRecords
    BY <2>2 DEF CallRecords, TypeOK
  <2>4. call' = [call EXCEPT ![c] = [call[c] EXCEPT !.token = Token(config, capability)]]
    BY <1>3 DEF Issue, TypeOK
  <2>5. step' \in [Calls -> Steps]
    BY <1>3 DEF Issue, TypeOK, Steps
  <2> QED  BY <1>3, <2>3, <2>4, <2>5 DEF Issue, TypeOK
<1>4. ASSUME NEW c \in Calls, NEW kind \in Kinds, NEW used \in installed,
             NEW database \in BOOLEAN,
             Execute(c, kind, [generations |-> used.generations, database |-> database])
      PROVE  TypeOK'
  BY <1>4, ExecuteTyped
<1>5. ASSUME NEW c \in Calls, NEW result \in Outcomes, NotReady(c, result)
      PROVE  TypeOK'
  BY <1>5 DEF NotReady, Finish, Authority, TypeOK, Steps
<1>6. ASSUME NEW c \in Calls, NEW expected \in Authors, Read(c, expected)
      PROVE  TypeOK'
  <2> DEFINE found == Before(call[c].kind, c, expected, provider, call[c].started)
  <2>1. found \in Outcomes
    BY <1>6, ReadOutcomes, RunningKinds DEF Read, Running, Outcomes
  <2> HIDE DEF found
  <2>2. step' \in [Calls -> Steps] /\ outcome' \in [Calls -> Outcomes]
    BY <1>6, <2>1 DEF Read, Finish, GoTo, TypeOK, Steps, found
  <2> QED  BY <1>6, <2>2 DEF Read, Authority, TypeOK
<1>7. ASSUME NEW c \in Calls, Checked(c)
      PROVE  TypeOK'
  BY <1>7 DEF Checked, GoTo, Authority, TypeOK, Steps
<1>8. ASSUME NEW c \in Calls, Send(c)
      PROVE  TypeOK'
  BY <1>8 DEF Send, GoTo, Authority, TypeOK, Steps
<1>9. ASSUME NEW c \in Calls, Acknowledged(c)
      PROVE  TypeOK'
  BY <1>9 DEF Acknowledged, GoTo, Authority, TypeOK, Steps
<1>10. ASSUME NEW c \in Calls, Denied(c)
       PROVE  TypeOK'
  BY <1>10 DEF Denied, GoTo, Finish, Authority, TypeOK, Steps, Outcomes
<1>11. ASSUME NEW c \in Calls, Unanswered(c)
       PROVE  TypeOK'
  BY <1>11 DEF Unanswered, GoTo, Finish, Authority, TypeOK, Steps, Outcomes
<1>12. ASSUME NEW c \in Calls, Reconcile(c)
       PROVE  TypeOK'
  <2> DEFINE found == ReadBack(call[c].kind, c, provider, step[c] = "acknowledged",
                               call[c].started)
  <2>1. found \in Outcomes
    BY <1>12, ReadOutcomes, RunningKinds DEF Reconcile, Running, Outcomes
  <2>2. Finish(c, found)
    BY <1>12 DEF Reconcile
  <2> HIDE DEF found
  <2>3. step' \in [Calls -> Steps] /\ outcome' \in [Calls -> Outcomes]
    BY <2>1, <2>2 DEF Finish, TypeOK, Steps
  <2> QED  BY <1>12, <2>3 DEF Reconcile, Authority, TypeOK
<1>13. ASSUME NEW c \in Calls, NotReconciled(c)
       PROVE  TypeOK'
  BY <1>13 DEF NotReconciled, Finish, Authority, TypeOK, Steps, Outcomes
<1>14. ASSUME NEW c \in Calls, Apply(c)
       PROVE  TypeOK'
  <2>1. provider' \in Providers
    BY <1>14, WrittenTyped, AppliedKinds DEF Apply, TypeOK
  <2> QED  BY <1>14, <2>1 DEF Apply, Authority, TypeOK
<1>15. ASSUME NEW c \in Calls, Refuse(c)
       PROVE  TypeOK'
  BY <1>15 DEF Refuse, Authority, TypeOK
<1>16. ASSUME NEW c \in Calls, Others(c)
       PROVE  TypeOK'
  <2>1. step[c] \in Running
    BY <1>16 DEF Others, TypeOK, Steps, Running
  <2>2. provider' \in Providers
    BY <1>16, <2>1, ChangedTyped, RunningKinds DEF Others, TypeOK
  <2> QED  BY <1>16, <2>2 DEF Others, Authority, TypeOK
<1>17. ASSUME NEW c \in Calls, NEW t \in Times, Record(c, t)
       PROVE  TypeOK'
  BY <1>17 DEF Record, TypeOK
<1>18. CASE UNCHANGED vars
  BY <1>18 DEF vars, TypeOK
<1> QED
  BY <1>1, <1>2, <1>3, <1>4, <1>5, <1>6, <1>7, <1>8, <1>9, <1>10, <1>11, <1>12,
     <1>13, <1>14, <1>15, <1>16, <1>17, <1>18 DEF Next
-----------------------------------------------------------------------------
(***************************************************************************)
(* The phases of a call                                                    *)
(***************************************************************************)

\* A read before the write ends with an outcome or goes on to the write.
LEMMA ReadEffect ==
  ASSUME NEW c, NEW expected, Read(c, expected), call[c].kind \in Capabilities
  PROVE  \/ \E result \in {"satisfied", "rejected", "conflict"} :
              /\ result = Before(call[c].kind, c, expected, provider, call[c].started)
              /\ Finish(c, result)
         \/ \E next \in {"checking", "sending"} : GoTo(c, next)
<1> DEFINE found == Before(call[c].kind, c, expected, provider, call[c].started)
<1>1. found \in {"none", "satisfied", "rejected", "conflict"}
  BY ReadOutcomes
<1>2. IF found # "none"
      THEN Finish(c, found)
      ELSE GoTo(c, IF call[c].kind = "ManagePolicy" THEN "checking" ELSE "sending")
  BY DEF Read
<1> HIDE DEF found
<1>3. CASE found = "none"
  BY <1>2, <1>3
<1>4. CASE found # "none"
  <2>1. Finish(c, found) /\ found \in {"satisfied", "rejected", "conflict"}
    BY <1>1, <1>2, <1>4
  <2> QED  BY <2>1 DEF found
<1> QED  BY <1>3, <1>4

LEMMA ReconcileEffect ==
  ASSUME NEW c, Reconcile(c), call[c].kind \in Capabilities
  PROVE  \E result \in {"confirmed", "failed", "conflict", "ambiguous"} :
           /\ result = ReadBack(call[c].kind, c, provider, step[c] = "acknowledged",
                                call[c].started)
           /\ Finish(c, result)
  BY ReadOutcomes DEF Reconcile

LEMMA PhasedStep ==
  ASSUME TypeOK, Phased, [Next]_vars
  PROVE  Phased'
<1>1. CASE Tick
  BY <1>1 DEF Tick, Phased, TypeOK, Times, CallRecords
<1>2. ASSUME NEW new \in Offers, Replace(new)
      PROVE  Phased'
  BY <1>2 DEF Replace, Phased
<1>3. ASSUME NEW c \in Calls, NEW capability \in Kinds, Issue(c, capability)
      PROVE  Phased'
  BY <1>3 DEF Issue, Phased, Running, TypeOK
<1>4. ASSUME NEW c \in Calls, NEW kind \in Kinds, NEW used \in installed,
             NEW database \in BOOLEAN,
             Execute(c, kind, [generations |-> used.generations, database |-> database])
      PROVE  Phased'
  <2> DEFINE transport == [generations |-> used.generations, database |-> database]
  <2>1. Execute(c, kind, transport)
    BY <1>4
  <2> HIDE DEF transport
  <2>2. kind \in Capabilities /\ now \in Nat /\ 0 \in Nat /\ 0 <= now
    BY Constants DEF TypeOK, Times
  <2> QED  BY <2>1, <2>2 DEF Execute, Reject, NoCall, Finish, GoTo, Authority, Phased, Running, TypeOK
<1>5. ASSUME NEW c \in Calls, NEW result \in Outcomes, NotReady(c, result)
      PROVE  Phased'
  BY <1>5 DEF NotReady, Finish, Authority, Phased, Running, TypeOK, Failures
<1>6. ASSUME NEW c \in Calls, NEW expected \in Authors, Read(c, expected)
      PROVE  Phased'
  <2>1. call[c].kind \in Capabilities
    BY <1>6 DEF Read, Phased, Running
  <2>2. CASE \E result \in {"satisfied", "rejected", "conflict"} : Finish(c, result)
    BY <1>6, <2>2 DEF Read, Finish, Authority, Phased, Running, TypeOK
  <2>3. CASE \E next \in {"checking", "sending"} : GoTo(c, next)
    BY <1>6, <2>3 DEF Read, GoTo, Authority, Phased, Running, TypeOK
  <2> QED  BY <1>6, <2>1, <2>2, <2>3, ReadEffect
<1>7. ASSUME NEW c \in Calls, Checked(c)
      PROVE  Phased'
  BY <1>7 DEF Checked, GoTo, Authority, Phased, Running, TypeOK
<1>8. ASSUME NEW c \in Calls, Send(c)
      PROVE  Phased'
  BY <1>8 DEF Send, GoTo, Authority, Phased, Running, TypeOK
<1>9. ASSUME NEW c \in Calls, Acknowledged(c)
      PROVE  Phased'
  BY <1>9 DEF Acknowledged, GoTo, Authority, Phased, Running, TypeOK
<1>10. ASSUME NEW c \in Calls, Denied(c)
       PROVE  Phased'
  BY <1>10 DEF Denied, GoTo, Finish, Authority, Phased, Running, TypeOK
<1>11. ASSUME NEW c \in Calls, Unanswered(c)
       PROVE  Phased'
  BY <1>11 DEF Unanswered, GoTo, Finish, Authority, Phased, Running, TypeOK
<1>12. ASSUME NEW c \in Calls, Reconcile(c)
       PROVE  Phased'
  <2>1. call[c].kind \in Capabilities
    BY <1>12 DEF Reconcile, Phased, Running
  <2>2. PICK result \in {"confirmed", "failed", "conflict", "ambiguous"} : Finish(c, result)
    BY <1>12, <2>1, ReconcileEffect
  <2>3. UNCHANGED <<Authority, provider, changes, call, wire>>
    BY <1>12 DEF Reconcile
  <2>4. step[c] \in {"acknowledged", "unanswered"}
    BY <1>12 DEF Reconcile
  <2> QED  BY <2>2, <2>3, <2>4 DEF Finish, Authority, Phased, Running, TypeOK
<1>13. ASSUME NEW c \in Calls, NotReconciled(c)
       PROVE  Phased'
  BY <1>13 DEF NotReconciled, Finish, Authority, Phased, Running, TypeOK
<1>14. ASSUME NEW c \in Calls, Apply(c)
       PROVE  Phased'
  BY <1>14 DEF Apply, Authority, Phased, Running, TypeOK
<1>15. ASSUME NEW c \in Calls, Refuse(c)
       PROVE  Phased'
  BY <1>15 DEF Refuse, Authority, Phased, Running, TypeOK
<1>16. ASSUME NEW c \in Calls, Others(c)
       PROVE  Phased'
  BY <1>16 DEF Others, Authority, Phased, Running, TypeOK
<1>17. ASSUME NEW c \in Calls, NEW t \in Times, Record(c, t)
       PROVE  Phased'
  BY <1>17 DEF Record, Phased
<1>18. CASE UNCHANGED vars
  BY <1>18 DEF vars, Phased
<1> QED
  BY <1>1, <1>2, <1>3, <1>4, <1>5, <1>6, <1>7, <1>8, <1>9, <1>10, <1>11, <1>12,
     <1>13, <1>14, <1>15, <1>16, <1>17, <1>18 DEF Next
-----------------------------------------------------------------------------
(***************************************************************************)
(* Where a call got its authority                                          *)
(***************************************************************************)

\* A new configuration is newer than every one before it.
LEMMA OwnedStep ==
  ASSUME TypeOK, Owned, [Next]_vars
  PROVE  Owned'
<1>1. ASSUME NEW new \in Offers, Replace(new)
      PROVE  Owned'
  <2>1. new \in Configurations /\ new # NoConfiguration
    BY Constants
  <2>2. config' = new /\ installed' = installed \cup {new}
    BY <1>1 DEF Replace
  <2>3. \A i \in installed : i.generations.authorization \in Nat
    BY ConfigurationFields DEF TypeOK
  <2>4. new.generations.authorization \in Nat
    BY <2>1, ConfigurationFields
  <2>5. \A i \in installed : i.generations.authorization < new.generations.authorization
    BY <1>1, <2>3, <2>4 DEF Replace, Advances, Owned
  <2>6. \A i \in installed : i.generations # new.generations
    BY <2>3, <2>4, <2>5
  <2> QED  BY <2>1, <2>2, <2>5, <2>6 DEF Owned
<1>2. ASSUME UNCHANGED <<config, installed>>
      PROVE  Owned'
  BY <1>2 DEF Owned
<1>3. ASSUME NEW c \in Calls,
             \/ \E capability \in Kinds : Issue(c, capability)
             \/ \E kind \in Kinds, used \in installed, database \in BOOLEAN :
                  Execute(c, kind, [generations |-> used.generations, database |-> database])
             \/ \E result \in Outcomes : NotReady(c, result)
             \/ \E expected \in Authors : Read(c, expected)
             \/ Checked(c) \/ Send(c) \/ Acknowledged(c) \/ Denied(c) \/ Unanswered(c)
             \/ Reconcile(c) \/ NotReconciled(c) \/ Apply(c) \/ Refuse(c) \/ Others(c)
             \/ \E t \in Times : Record(c, t)
      PROVE  UNCHANGED <<config, installed>>
  BY <1>3 DEF Authority, Issue, Execute, NotReady, Read, Checked, Send, Acknowledged,
              Denied, Unanswered, Reconcile, NotReconciled, Apply, Refuse, Others, Record
<1>4. CASE Tick \/ UNCHANGED vars
  BY <1>2, <1>4 DEF Tick, vars
<1> QED  BY <1>1, <1>2, <1>3, <1>4 DEF Next

LEMMA StillEntitled ==
  ASSUME NEW S, NEW T, S \subseteq T, NEW token, NEW r
  PROVE  /\ Minted(S, token) => Minted(T, token)
         /\ Granted(S, r) => Granted(T, r)
  BY DEF Minted, Granted

LEMMA EntitledStep ==
  ASSUME TypeOK, Owned, Phased, Entitled, [Next]_vars
  PROVE  Entitled'
<1>1. CASE Tick
  BY <1>1 DEF Tick, Entitled
<1>2. ASSUME NEW new \in Offers, Replace(new)
      PROVE  Entitled'
  <2>1. installed \subseteq installed'
    BY <1>2 DEF Replace
  <2> QED  BY <1>2, <2>1, StillEntitled DEF Replace, Entitled
<1>3. ASSUME NEW c \in Calls, NEW capability \in Kinds, Issue(c, capability)
      PROVE  Entitled'
  <2>1. config \in installed
    BY <1>3 DEF Issue, Issuable, Owned
  <2>2. Minted(installed, Token(config, capability))
    BY <1>3, <2>1 DEF Issue, Issuable, Minted, Token
  <2>3. call'[c].token = Token(config, capability)
    BY <1>3 DEF Issue, TypeOK, CallRecords
  <2> QED  BY <1>3, <2>2, <2>3 DEF Issue, Entitled, Phased, Running, TypeOK
<1>4. ASSUME NEW c \in Calls, NEW kind \in Kinds, NEW used \in installed,
             NEW database \in BOOLEAN,
             Execute(c, kind, [generations |-> used.generations, database |-> database])
      PROVE  Entitled'
  <2> DEFINE transport == [generations |-> used.generations, database |-> database]
             began == [kind |-> kind, token |-> NoToken, transport |-> transport,
                       started |-> now]
  <2>1. Execute(c, kind, transport)
    BY <1>4
  <2>2. ASSUME Validates(call[c].token, transport, kind, now)
        PROVE  Granted(installed, began)
    <3>1. step[c] = "issued"
      BY <1>4 DEF Execute
    <3> QED  BY <2>2, <3>1 DEF Entitled, Minted, Granted, Validates, Within
  <2> HIDE DEF transport
  <2>3. CASE /\ Validates(call[c].token, transport, kind, now)
             /\ GoTo(c, "reading")
             /\ call' = [call EXCEPT ![c] = began]
    <3>1. Granted(installed, call'[c])
      BY <2>2, <2>3 DEF TypeOK
    <3> QED  BY <2>1, <2>3, <3>1 DEF Execute, GoTo, Authority, Entitled, Running, TypeOK
  <2>4. CASE /\ step' = [step EXCEPT ![c] = "done"]
             /\ call' = [call EXCEPT ![c] = NoCall]
    <3>1. wire'[c] = "none" /\ step'[c] = "done"
      BY <2>1, <2>4 DEF Execute, Phased, TypeOK
    <3>2. \A d \in Calls \ {c} : /\ step'[d] = step[d] /\ wire'[d] = wire[d]
                                 /\ call'[d] = call[d]
      BY <2>1, <2>4 DEF Execute, TypeOK
    <3>3. installed' = installed
      BY <2>1 DEF Execute, Authority
    <3> QED  BY <3>1, <3>2, <3>3 DEF Entitled, Running
  <2> QED  BY <2>1, <2>3, <2>4 DEF Execute, Reject, Finish
<1>5. ASSUME NEW c \in Calls, NEW result \in Outcomes, NotReady(c, result)
      PROVE  Entitled'
  BY <1>5 DEF NotReady, Finish, Authority, Entitled, Phased, Running, TypeOK
<1>6. ASSUME NEW c \in Calls, NEW expected \in Authors, Read(c, expected)
      PROVE  Entitled'
  BY <1>6 DEF Read, Finish, GoTo, Authority, Entitled, Phased, Running, TypeOK
<1>7. ASSUME NEW c \in Calls, Checked(c)
      PROVE  Entitled'
  BY <1>7 DEF Checked, GoTo, Authority, Entitled, Phased, Running, TypeOK
<1>8. ASSUME NEW c \in Calls, Send(c)
      PROVE  Entitled'
  BY <1>8 DEF Send, GoTo, Authority, Entitled, Phased, Running, TypeOK
<1>9. ASSUME NEW c \in Calls, Acknowledged(c)
      PROVE  Entitled'
  BY <1>9 DEF Acknowledged, GoTo, Authority, Entitled, Phased, Running, TypeOK
<1>10. ASSUME NEW c \in Calls, Denied(c)
       PROVE  Entitled'
  BY <1>10 DEF Denied, GoTo, Finish, Authority, Entitled, Phased, Running, TypeOK
<1>11. ASSUME NEW c \in Calls, Unanswered(c)
       PROVE  Entitled'
  BY <1>11 DEF Unanswered, GoTo, Finish, Authority, Entitled, Phased, Running, TypeOK
<1>12. ASSUME NEW c \in Calls, Reconcile(c)
       PROVE  Entitled'
  BY <1>12 DEF Reconcile, Finish, Authority, Entitled, Phased, Running, TypeOK
<1>13. ASSUME NEW c \in Calls, NotReconciled(c)
       PROVE  Entitled'
  BY <1>13 DEF NotReconciled, Finish, Authority, Entitled, Phased, Running, TypeOK
<1>14. ASSUME NEW c \in Calls, Apply(c)
       PROVE  Entitled'
  BY <1>14 DEF Apply, Authority, Entitled, Phased, Running, TypeOK
<1>15. ASSUME NEW c \in Calls, Refuse(c)
       PROVE  Entitled'
  BY <1>15 DEF Refuse, Authority, Entitled, Phased, Running, TypeOK
<1>16. ASSUME NEW c \in Calls, Others(c)
       PROVE  Entitled'
  BY <1>16 DEF Others, Authority, Entitled, Phased, Running, TypeOK
<1>17. ASSUME NEW c \in Calls, NEW t \in Times, Record(c, t)
       PROVE  Entitled'
  BY <1>17 DEF Record, Entitled
<1>18. CASE UNCHANGED vars
  BY <1>18 DEF vars, Entitled
<1> QED
  BY <1>1, <1>2, <1>3, <1>4, <1>5, <1>6, <1>7, <1>8, <1>9, <1>10, <1>11, <1>12,
     <1>13, <1>14, <1>15, <1>16, <1>17, <1>18 DEF Next
-----------------------------------------------------------------------------
(***************************************************************************)
(* The inductive invariant                                                 *)
(***************************************************************************)

IInv == TypeOK /\ Owned /\ Phased /\ Entitled

LEMMA InitInvariant == Init => IInv
<1> SUFFICES ASSUME Init PROVE IInv
  OBVIOUS
<1>1. TypeOK
  BY InitTyped
<1>2. Owned
  BY DEF Init, Owned
<1>3. Phased
  BY Constants DEF Init, Phased, Running, NoCall
<1>4. Entitled
  BY DEF Init, Entitled, Running
<1> QED  BY <1>1, <1>2, <1>3, <1>4 DEF IInv

LEMMA InvariantStep == IInv /\ [Next]_vars => IInv'
  BY TypeStep, OwnedStep, PhasedStep, EntitledStep DEF IInv

LEMMA Invariant == Spec => []IInv
  BY InitInvariant, InvariantStep, PTL DEF Spec

\* Every variable keeps its type: the row, the tokens, the provider's objects
\* and the phases of the calls.
THEOREM TypeCorrect == Spec => []TypeOK
<1>1. IInv => TypeOK
  BY DEF IInv
<1> QED  BY <1>1, Invariant, PTL

\* A write is only sent under a configuration that granted it when the call
\* began, and the adapter's generations name that one (issue and validate).
THEOREM AuthorityIsGranted == Spec => []WritesAreGranted
<1>1. IInv => WritesAreGranted
  <2> SUFFICES ASSUME IInv, NEW c \in Calls, wire[c] # "none"
               PROVE  \E granted \in installed :
                        /\ {i \in installed : i.generations = call[c].transport.generations}
                             = {granted}
                        /\ granted.enabled
                        /\ call[c].kind \in granted.grants
                        /\ Within(granted, call[c].started)
    BY DEF WritesAreGranted
  <2>1. PICK g \in installed : /\ g.generations = call[c].transport.generations
                               /\ g.enabled
                               /\ call[c].kind \in g.grants
                               /\ Within(g, call[c].started)
    BY DEF IInv, Entitled, Granted
  <2>2. {i \in installed : i.generations = call[c].transport.generations} = {g}
    BY <2>1 DEF IInv, Owned
  <2> QED  BY <2>1, <2>2
<1> QED  BY <1>1, Invariant, PTL

-----------------------------------------------------------------------------
(***************************************************************************)
(* What an answer says                                                     *)
(***************************************************************************)

LEMMA DefiniteStep ==
  ASSUME IInv, RefusalsAreDefinite, [Next]_vars
  PROVE  RefusalsAreDefinite'
<1>1. CASE Tick
  BY <1>1 DEF Tick, RefusalsAreDefinite
<1>2. ASSUME NEW new \in Offers, Replace(new)
      PROVE  RefusalsAreDefinite'
  BY <1>2 DEF Replace, RefusalsAreDefinite
<1>3. ASSUME NEW c \in Calls, NEW capability \in Kinds, Issue(c, capability)
      PROVE  RefusalsAreDefinite'
  BY <1>3 DEF Issue, RefusalsAreDefinite
<1>4. ASSUME NEW c \in Calls, NEW kind \in Kinds, NEW used \in installed,
             NEW database \in BOOLEAN,
             Execute(c, kind, [generations |-> used.generations, database |-> database])
      PROVE  RefusalsAreDefinite'
  BY <1>4 DEF Execute, Reject, Finish, GoTo, Authority, RefusalsAreDefinite, IInv, Phased,
             TypeOK
<1>5. ASSUME NEW c \in Calls, NEW result \in Outcomes, NotReady(c, result)
      PROVE  RefusalsAreDefinite'
  BY <1>5 DEF NotReady, Finish, Authority, RefusalsAreDefinite, IInv, Phased, TypeOK
<1>6. ASSUME NEW c \in Calls, NEW expected \in Authors, Read(c, expected)
      PROVE  RefusalsAreDefinite'
  <2>1. call[c].kind \in Capabilities /\ wire[c] = "none"
    BY <1>6 DEF Read, IInv, Phased, Running
  <2>2. CASE \E result \in {"satisfied", "rejected", "conflict"} : Finish(c, result)
    BY <1>6, <2>1, <2>2 DEF Read, Finish, Authority, RefusalsAreDefinite, IInv, TypeOK
  <2>3. CASE \E next \in {"checking", "sending"} : GoTo(c, next)
    BY <1>6, <2>3 DEF Read, GoTo, Authority, RefusalsAreDefinite
  <2> QED  BY <1>6, <2>1, <2>2, <2>3, ReadEffect
<1>7. ASSUME NEW c \in Calls, Checked(c)
      PROVE  RefusalsAreDefinite'
  BY <1>7 DEF Checked, GoTo, Authority, RefusalsAreDefinite, IInv, Phased, TypeOK
<1>8. ASSUME NEW c \in Calls, Send(c)
      PROVE  RefusalsAreDefinite'
  BY <1>8 DEF Send, GoTo, Authority, RefusalsAreDefinite, IInv, Phased, TypeOK
<1>9. ASSUME NEW c \in Calls, Acknowledged(c)
      PROVE  RefusalsAreDefinite'
  BY <1>9 DEF Acknowledged, GoTo, Authority, RefusalsAreDefinite, IInv, Phased, TypeOK
<1>10. ASSUME NEW c \in Calls, Denied(c)
       PROVE  RefusalsAreDefinite'
  BY <1>10 DEF Denied, GoTo, Finish, Authority, RefusalsAreDefinite, IInv, Phased, TypeOK
<1>11. ASSUME NEW c \in Calls, Unanswered(c)
       PROVE  RefusalsAreDefinite'
  BY <1>11 DEF Unanswered, GoTo, Finish, Authority, RefusalsAreDefinite, IInv, Phased, TypeOK
<1>12. ASSUME NEW c \in Calls, Reconcile(c)
       PROVE  RefusalsAreDefinite'
  <2>1. call[c].kind \in Capabilities
    BY <1>12 DEF Reconcile, IInv, Phased, Running
  <2>2. PICK result \in {"confirmed", "failed", "conflict", "ambiguous"} : Finish(c, result)
    BY <1>12, <2>1, ReconcileEffect
  <2>3. wire' = wire
    BY <1>12 DEF Reconcile
  <2> QED  BY <2>2, <2>3 DEF Finish, RefusalsAreDefinite, IInv, TypeOK
<1>13. ASSUME NEW c \in Calls, NotReconciled(c)
       PROVE  RefusalsAreDefinite'
  BY <1>13 DEF NotReconciled, Finish, Authority, RefusalsAreDefinite, IInv, Phased, TypeOK
<1>14. ASSUME NEW c \in Calls, Apply(c)
       PROVE  RefusalsAreDefinite'
  BY <1>14 DEF Apply, Authority, RefusalsAreDefinite, IInv, Phased, TypeOK
<1>15. ASSUME NEW c \in Calls, Refuse(c)
       PROVE  RefusalsAreDefinite'
  BY <1>15 DEF Refuse, Authority, RefusalsAreDefinite, IInv, Phased, TypeOK
<1>16. ASSUME NEW c \in Calls, Others(c)
       PROVE  RefusalsAreDefinite'
  BY <1>16 DEF Others, Authority, RefusalsAreDefinite, IInv, Phased, TypeOK
<1>17. ASSUME NEW c \in Calls, NEW t \in Times, Record(c, t)
       PROVE  RefusalsAreDefinite'
  BY <1>17 DEF Record, RefusalsAreDefinite
<1>18. CASE UNCHANGED vars
  BY <1>18 DEF vars, RefusalsAreDefinite
<1> QED
  BY <1>1, <1>2, <1>3, <1>4, <1>5, <1>6, <1>7, <1>8, <1>9, <1>10, <1>11, <1>12,
     <1>13, <1>14, <1>15, <1>16, <1>17, <1>18 DEF Next

\* What the adapter reports as certain is certain: a rejection, an
\* unavailability or a satisfaction left nothing behind and never will
\* (execute_mutation and outcome_from_error).
THEOREM RefusalsChangeNothing == Spec => []RefusalsAreDefinite
<1>1. Init => RefusalsAreDefinite
  BY DEF Init, RefusalsAreDefinite
<1>2. IInv /\ RefusalsAreDefinite /\ [Next]_vars => RefusalsAreDefinite'
  BY DefiniteStep
<1> QED  BY <1>1, <1>2, Invariant, PTL DEF Spec

-----------------------------------------------------------------------------
(***************************************************************************)
(* Evidence                                                                *)
(***************************************************************************)

\* What a key or a node has come to by one time it has come to by any later.
LEMMA KeyStaysEnded ==
  ASSUME NEW p \in Providers, NEW s \in Nat, NEW t \in Nat, s <= t, KeyEnded(p, s)
  PROVE  KeyEnded(p, t)
<1>1. p.key.expires \in Nat
  BY Constants DEF Providers
<1> QED  BY <1>1 DEF KeyEnded

LEMMA HoldsLater ==
  ASSUME NEW kind \in Capabilities, NEW c, NEW p \in Providers, NEW s \in Nat, NEW t \in Nat,
         s <= t, Holds(kind, c, p, s)
  PROVE  Holds(kind, c, p, t)
<1>1. p.node.expires \in Nat
  BY Constants DEF Providers
<1>2. CASE kind = "InvalidateJoinCredential"
  BY <1>2, KeyStaysEnded DEF Holds
<1>3. CASE kind = "ExpireNode"
  BY <1>1, <1>3 DEF Holds
<1>4. CASE kind \notin {"InvalidateJoinCredential", "ExpireNode"}
  BY <1>4 DEF Holds, Capabilities
<1> QED  BY <1>2, <1>3, <1>4

LEMMA SatisfiedHolds ==
  ASSUME NEW kind \in Capabilities, NEW c, NEW e, NEW p, NEW t,
         Before(kind, c, e, p, t) = "satisfied"
  PROVE  Holds(kind, c, p, t)
<1>1. CASE kind = "EnsureNetworkPrincipal"
  <2>1. PrincipalBefore(p) = "satisfied"
    BY <1>1 DEF Before, NodeKinds
  <2>2. p.users # {}
    BY <2>1 DEF PrincipalBefore
  <2> QED  BY <1>1, <2>2 DEF Holds
<1>2. CASE kind = "CreateJoinCredential"
  <2>1. CredentialBefore(p) = "satisfied"
    BY <1>2 DEF Before, NodeKinds
  <2> QED  BY <2>1 DEF CredentialBefore
<1>3. CASE kind = "InvalidateJoinCredential"
  <2>1. KeyBefore(p, t) = "satisfied"
    BY <1>3 DEF Before, NodeKinds
  <2>2. KeyEnded(p, t)
    BY <2>1 DEF KeyBefore
  <2> QED  BY <1>3, <2>2 DEF Holds
<1>4. CASE kind \in NodeKinds
  <2>1. NodeBefore(kind, c, p, t) = "satisfied"
    BY <1>4 DEF Before, NodeKinds
  <2> QED  BY <2>1 DEF NodeBefore
<1>5. CASE kind = "ManagePolicy"
  BY <1>5 DEF Before, PolicyBefore, Holds, NodeKinds
<1> QED  BY <1>1, <1>2, <1>3, <1>4, <1>5 DEF Capabilities, NodeKinds

LEMMA ConfirmedHolds ==
  ASSUME TypeOK, NEW kind \in Capabilities, NEW c, NEW ack, NEW s \in Nat, s <= now,
         ReadBack(kind, c, provider, ack, s) = "confirmed"
  PROVE  Holds(kind, c, provider, now)
<1>0. now \in Nat /\ provider \in Providers
  BY Constants DEF TypeOK, Times
<1>1. CASE kind = "EnsureNetworkPrincipal"
  <2>1. PrincipalReadBack(c, provider, ack) = "confirmed"
    BY <1>1 DEF ReadBack, NodeKinds
  <2>2. provider.users # {}
    BY <2>1 DEF PrincipalReadBack
  <2> QED  BY <1>1, <2>2 DEF Holds
<1>2. CASE kind = "CreateJoinCredential"
  <2>1. CredentialReadBack(c, provider) = "confirmed"
    BY <1>2 DEF ReadBack, NodeKinds
  <2>2. c \in provider.made
    BY <2>1 DEF CredentialReadBack
  <2> QED  BY <1>2, <2>2 DEF Holds
<1>3. CASE kind = "InvalidateJoinCredential"
  <2>1. KeyReadBack(provider, now) = "confirmed"
    BY <1>3 DEF ReadBack, NodeKinds
  <2>2. KeyEnded(provider, now)
    BY <2>1 DEF KeyReadBack
  <2> QED  BY <1>3, <2>2 DEF Holds
<1>4. CASE kind \in NodeKinds
  <2>1. NodeReadBack(kind, c, provider, s) = "confirmed"
    BY <1>4 DEF ReadBack, NodeKinds
  <2>2. Holds(kind, c, provider, s)
    BY <2>1 DEF NodeReadBack
  <2> QED  BY <1>0, <2>2, HoldsLater
<1>5. CASE kind = "ManagePolicy"
  BY <1>5 DEF ReadBack, PolicyReadBack, Holds, NodeKinds
<1> QED  BY <1>1, <1>2, <1>3, <1>4, <1>5 DEF Capabilities, NodeKinds

\* The steps that answer with evidence.
LEMMA EvidenceAt ==
  ASSUME IInv, NEW c \in Calls
  PROVE  /\ \A expected : Read(c, expected) /\ outcome'[c] = "satisfied"
               => Holds(call[c].kind, c, provider, now)
         /\ Reconcile(c) /\ outcome'[c] = "confirmed"
               => Holds(call[c].kind, c, provider, now)
<1>1. /\ provider \in Providers /\ now \in Nat /\ call[c].started \in Nat
      /\ call[c].started <= now
  BY Constants DEF IInv, TypeOK, Phased, Times, CallRecords
<1>2. ASSUME NEW expected, Read(c, expected), outcome'[c] = "satisfied"
      PROVE  Holds(call[c].kind, c, provider, now)
  <2>1. call[c].kind \in Capabilities /\ outcome[c] = "none"
    BY <1>2 DEF Read, IInv, Phased, Running
  <2>2. Before(call[c].kind, c, expected, provider, call[c].started) = "satisfied"
    BY <1>2, <2>1, ReadEffect DEF Finish, GoTo, IInv, TypeOK
  <2>3. Holds(call[c].kind, c, provider, call[c].started)
    BY <2>1, <2>2, SatisfiedHolds
  <2> QED  BY <1>1, <2>1, <2>3, HoldsLater
<1>3. ASSUME Reconcile(c), outcome'[c] = "confirmed"
      PROVE  Holds(call[c].kind, c, provider, now)
  <2>1. call[c].kind \in Capabilities
    BY <1>3 DEF Reconcile, IInv, Phased, Running
  <2>2. ReadBack(call[c].kind, c, provider, step[c] = "acknowledged", call[c].started)
          = "confirmed"
    BY <1>3, <2>1, ReconcileEffect DEF Finish, IInv, TypeOK
  <2> QED  BY <1>1, <2>1, <2>2, ConfirmedHolds DEF IInv
<1> QED  BY <1>2, <1>3

Evident(d) ==
  (outcome'[d] # outcome[d]) /\ (outcome'[d] \in {"confirmed", "satisfied"})
    => Holds(call[d].kind, d, provider, now)

LEMMA EvidenceStep ==
  ASSUME IInv, [Next]_vars
  PROVE  \A d \in Calls : Evident(d)
<1>1. CASE Tick
  BY <1>1 DEF Tick, Evident
<1>2. ASSUME NEW new \in Offers, Replace(new)
      PROVE  \A d \in Calls : Evident(d)
  BY <1>2 DEF Replace, Evident
<1>3. ASSUME NEW c \in Calls, NEW capability \in Kinds, Issue(c, capability)
      PROVE  \A d \in Calls : Evident(d)
  BY <1>3 DEF Issue, Evident
<1>4. ASSUME NEW c \in Calls, NEW kind \in Kinds, NEW used \in installed,
             NEW database \in BOOLEAN,
             Execute(c, kind, [generations |-> used.generations, database |-> database])
      PROVE  \A d \in Calls : Evident(d)
  BY <1>4 DEF Execute, Reject, Finish, GoTo, Authority, Evident, IInv, TypeOK
<1>5. ASSUME NEW c \in Calls, NEW result \in Outcomes, NotReady(c, result)
      PROVE  \A d \in Calls : Evident(d)
  BY <1>5 DEF NotReady, Finish, Failures, Evident, IInv, TypeOK
<1>6. ASSUME NEW c \in Calls, NEW expected \in Authors, Read(c, expected)
      PROVE  \A d \in Calls : Evident(d)
  <2>1. call[c].kind \in Capabilities
    BY <1>6 DEF Read, IInv, Phased, Running
  <2>2. CASE \E result \in {"satisfied", "rejected", "conflict"} : Finish(c, result)
    <3>1. \A d \in Calls \ {c} : outcome'[d] = outcome[d]
      BY <2>2 DEF Finish, IInv, TypeOK
    <3>2. outcome'[c] # "confirmed"
      BY <2>2 DEF Finish, IInv, TypeOK
    <3>3. outcome'[c] = "satisfied" => Holds(call[c].kind, c, provider, now)
      BY <1>6, EvidenceAt
    <3> QED  BY <3>1, <3>2, <3>3 DEF Evident
  <2>3. CASE \E next \in {"checking", "sending"} : GoTo(c, next)
    BY <2>3 DEF GoTo, Evident
  <2> QED  BY <1>6, <2>1, <2>2, <2>3, ReadEffect
<1>7. ASSUME NEW c \in Calls, Checked(c)
      PROVE  \A d \in Calls : Evident(d)
  BY <1>7 DEF Checked, GoTo, Authority, Evident, IInv, TypeOK
<1>8. ASSUME NEW c \in Calls, Send(c)
      PROVE  \A d \in Calls : Evident(d)
  BY <1>8 DEF Send, GoTo, Authority, Evident, IInv, TypeOK
<1>9. ASSUME NEW c \in Calls, Acknowledged(c)
      PROVE  \A d \in Calls : Evident(d)
  BY <1>9 DEF Acknowledged, GoTo, Authority, Evident, IInv, TypeOK
<1>10. ASSUME NEW c \in Calls, Denied(c)
       PROVE  \A d \in Calls : Evident(d)
  BY <1>10 DEF Denied, GoTo, Finish, Authority, Evident, IInv, TypeOK
<1>11. ASSUME NEW c \in Calls, Unanswered(c)
       PROVE  \A d \in Calls : Evident(d)
  BY <1>11 DEF Unanswered, GoTo, Finish, Authority, Evident, IInv, TypeOK
<1>12. ASSUME NEW c \in Calls, Reconcile(c)
       PROVE  \A d \in Calls : Evident(d)
  <2>1. call[c].kind \in Capabilities
    BY <1>12 DEF Reconcile, IInv, Phased, Running
  <2>2. PICK result \in {"confirmed", "failed", "conflict", "ambiguous"} : Finish(c, result)
    BY <1>12, <2>1, ReconcileEffect
  <2>3. \A d \in Calls \ {c} : outcome'[d] = outcome[d]
    BY <2>2 DEF Finish, IInv, TypeOK
  <2>4. outcome'[c] # "satisfied"
    BY <2>2 DEF Finish, IInv, TypeOK
  <2>5. outcome'[c] = "confirmed" => Holds(call[c].kind, c, provider, now)
    BY <1>12, EvidenceAt
  <2> QED  BY <2>3, <2>4, <2>5 DEF Evident
<1>13. ASSUME NEW c \in Calls, NotReconciled(c)
       PROVE  \A d \in Calls : Evident(d)
  BY <1>13 DEF NotReconciled, Finish, Authority, Evident, IInv, TypeOK
<1>14. ASSUME NEW c \in Calls, Apply(c)
       PROVE  \A d \in Calls : Evident(d)
  BY <1>14 DEF Apply, Authority, Evident, IInv, TypeOK
<1>15. ASSUME NEW c \in Calls, Refuse(c)
       PROVE  \A d \in Calls : Evident(d)
  BY <1>15 DEF Refuse, Authority, Evident, IInv, TypeOK
<1>16. ASSUME NEW c \in Calls, Others(c)
       PROVE  \A d \in Calls : Evident(d)
  BY <1>16 DEF Others, Authority, Evident, IInv, TypeOK
<1>17. ASSUME NEW c \in Calls, NEW t \in Times, Record(c, t)
       PROVE  \A d \in Calls : Evident(d)
  BY <1>17 DEF Record, Evident
<1>18. CASE UNCHANGED vars
  BY <1>18 DEF vars, Evident
<1> QED
  BY <1>1, <1>2, <1>3, <1>4, <1>5, <1>6, <1>7, <1>8, <1>9, <1>10, <1>11, <1>12,
     <1>13, <1>14, <1>15, <1>16, <1>17, <1>18 DEF Next

\* Evidence is only given when the provider is in the state asked for: the
\* read-back of every mutation, and the read before it.
THEOREM EvidenceIsObserved == Spec => EvidenceIsTrue
<1>1. IInv /\ [Next]_vars
        => [\A c \in Calls :
              (outcome'[c] # outcome[c]) /\ (outcome'[c] \in {"confirmed", "satisfied"})
                => Holds(call[c].kind, c, provider, now)]_vars
  BY EvidenceStep DEF Evident
<1> QED  BY <1>1, Invariant, PTL DEF Spec, EvidenceIsTrue

\* Neither the clock, nor a write, nor another client makes a key usable again.
LEMMA KeyNotRevived ==
  ASSUME TypeOK, KeyEnded(provider, now), NEW c \in Calls,
         call[c].kind \in Capabilities
  PROVE  /\ Apply(c) => KeyEnded(provider', now)
         /\ Others(c) => KeyEnded(provider', now)
<1>1. /\ provider.key \in [listed : BOOLEAN, expires : 0..Never]
      /\ provider \in Providers /\ now \in Nat
  BY Constants DEF TypeOK, Providers, Times
<1> DEFINE kind == call[c].kind
<1>2. ASSUME Apply(c)
      PROVE  KeyEnded(provider', now)
  <2>1. provider' = Written(kind, c, provider)
    BY <1>2 DEF Apply
  <2>2. CASE kind = "InvalidateJoinCredential"
    BY <1>1, <2>1, <2>2 DEF Written, KeyEnded, NodeKinds, Providers
  <2>3. CASE kind # "InvalidateJoinCredential"
    <3>1. provider'.key = provider.key
      BY <2>1, <2>3 DEF Written, Capabilities, Providers, TypeOK
    <3> QED  BY <3>1 DEF KeyEnded
  <2> QED  BY <2>2, <2>3
<1>3. ASSUME Others(c)
      PROVE  KeyEnded(provider', now)
  <2>1. provider' \in Changed(kind, provider)
    BY <1>3 DEF Others
  <2>2. CASE kind = "InvalidateJoinCredential"
    <3> DEFINE e == IF provider.key.expires > now THEN now ELSE provider.key.expires
    <3>1. Changed(kind, provider)
            = {[provider EXCEPT !.key.listed = FALSE], [provider EXCEPT !.key.expires = e]}
      BY <2>2 DEF Changed, NodeKinds
    <3>2. e <= now
      BY <1>1
    <3> HIDE DEF e
    <3>3. CASE provider' = [provider EXCEPT !.key.listed = FALSE]
      BY <1>1, <3>3 DEF KeyEnded, Providers
    <3>4. CASE provider' = [provider EXCEPT !.key.expires = e]
      BY <1>1, <3>2, <3>4 DEF KeyEnded, Providers
    <3> QED  BY <2>1, <3>1, <3>3, <3>4
  <2>3. CASE kind # "InvalidateJoinCredential"
    <3>1. provider'.key = provider.key
      <4>1. CASE kind = "EnsureNetworkPrincipal"
        BY <1>1, <2>1, <4>1 DEF Changed, Providers
      <4>2. CASE kind = "CreateJoinCredential"
        BY <1>1, <2>1, <4>2 DEF Changed, Providers
      <4>3. CASE kind \in NodeKinds
        BY <1>1, <2>1, <4>3 DEF Changed, Providers, NodeKinds
      <4>4. CASE kind = "ManagePolicy"
        BY <1>1, <2>1, <4>4 DEF Changed, Providers, NodeKinds
      <4> QED
        BY <2>3, <4>1, <4>2, <4>3, <4>4 DEF Capabilities, NodeKinds
    <3> QED  BY <3>1 DEF KeyEnded
  <2> QED  BY <2>2, <2>3
<1> QED  BY <1>2, <1>3

LEMMA RevokedStep ==
  ASSUME IInv, RevokedIsForGood, [Next]_vars
  PROVE  RevokedIsForGood'
<1>1. CASE Tick
  <2>1. provider \in Providers /\ now \in Nat /\ now' \in Nat /\ now <= now'
    BY <1>1, Constants DEF Tick, IInv, TypeOK, Times
  <2>2. KeyEnded(provider, now) => KeyEnded(provider, now')
    BY <2>1, KeyStaysEnded
  <2> QED  BY <1>1, <2>2 DEF Tick, RevokedIsForGood
<1>2. ASSUME NEW new \in Offers, Replace(new)
      PROVE  RevokedIsForGood'
  BY <1>2 DEF Replace, RevokedIsForGood
<1>3. ASSUME NEW c \in Calls, NEW capability \in Kinds, Issue(c, capability)
      PROVE  RevokedIsForGood'
  BY <1>3 DEF Issue, RevokedIsForGood, IInv, Phased, TypeOK
<1>4. ASSUME NEW c \in Calls, NEW kind \in Kinds, NEW used \in installed,
             NEW database \in BOOLEAN,
             Execute(c, kind, [generations |-> used.generations, database |-> database])
      PROVE  RevokedIsForGood'
  BY <1>4 DEF Execute, Reject, Finish, GoTo, Authority, RevokedIsForGood, IInv, Phased, TypeOK,
             NoCall
<1>5. ASSUME NEW c \in Calls, NEW result \in Outcomes, NotReady(c, result)
      PROVE  RevokedIsForGood'
  BY <1>5 DEF NotReady, Finish, Failures, Authority, RevokedIsForGood, IInv, TypeOK
<1>6. ASSUME NEW c \in Calls, NEW expected \in Authors, Read(c, expected)
      PROVE  RevokedIsForGood'
  <2>1. call[c].kind \in Capabilities
    BY <1>6 DEF Read, IInv, Phased, Running
  <2>2. \A d \in Calls \ {c} : outcome'[d] = outcome[d]
    BY <1>6, <2>1, ReadEffect DEF Finish, GoTo, IInv, TypeOK
  <2>3. UNCHANGED <<Authority, provider, call>>
    BY <1>6 DEF Read
  <2>4. outcome[c] = "none"
    BY <1>6 DEF Read, IInv, Phased
  <2>5. outcome'[c] \in {"confirmed", "satisfied"} => Holds(call[c].kind, c, provider, now)
    BY <1>6, EvidenceStep, <2>4 DEF Evident
  <2> QED  BY <2>2, <2>3, <2>5 DEF Holds, Authority, RevokedIsForGood
<1>7. ASSUME NEW c \in Calls, Checked(c)
      PROVE  RevokedIsForGood'
  BY <1>7 DEF Checked, GoTo, Authority, RevokedIsForGood, IInv, Phased, TypeOK
<1>8. ASSUME NEW c \in Calls, Send(c)
      PROVE  RevokedIsForGood'
  BY <1>8 DEF Send, GoTo, Authority, RevokedIsForGood, IInv, Phased, TypeOK
<1>9. ASSUME NEW c \in Calls, Acknowledged(c)
      PROVE  RevokedIsForGood'
  BY <1>9 DEF Acknowledged, GoTo, Authority, RevokedIsForGood, IInv, Phased, TypeOK
<1>10. ASSUME NEW c \in Calls, Denied(c)
       PROVE  RevokedIsForGood'
  BY <1>10 DEF Denied, GoTo, Finish, Authority, RevokedIsForGood, IInv, Phased, TypeOK
<1>11. ASSUME NEW c \in Calls, Unanswered(c)
       PROVE  RevokedIsForGood'
  BY <1>11 DEF Unanswered, GoTo, Finish, Authority, RevokedIsForGood, IInv, Phased, TypeOK
<1>12. ASSUME NEW c \in Calls, Reconcile(c)
       PROVE  RevokedIsForGood'
  <2>1. call[c].kind \in Capabilities
    BY <1>12 DEF Reconcile, IInv, Phased, Running
  <2>2. \A d \in Calls \ {c} : outcome'[d] = outcome[d]
    BY <1>12, <2>1, ReconcileEffect DEF Finish, GoTo, IInv, TypeOK
  <2>3. UNCHANGED <<Authority, provider, call>>
    BY <1>12 DEF Reconcile
  <2>4. outcome[c] = "none"
    BY <1>12 DEF Reconcile, IInv, Phased
  <2>5. outcome'[c] \in {"confirmed", "satisfied"} => Holds(call[c].kind, c, provider, now)
    BY <1>12, EvidenceStep, <2>4 DEF Evident
  <2> QED  BY <2>2, <2>3, <2>5 DEF Holds, Authority, RevokedIsForGood
<1>13. ASSUME NEW c \in Calls, NotReconciled(c)
       PROVE  RevokedIsForGood'
  BY <1>13 DEF NotReconciled, Finish, Authority, RevokedIsForGood, IInv, Phased, TypeOK
<1>14. ASSUME NEW c \in Calls, Apply(c)
       PROVE  RevokedIsForGood'
  <2>1. call[c].kind \in Capabilities
    BY <1>14 DEF Apply, IInv, Phased
  <2> QED  BY <1>14, <2>1, KeyNotRevived DEF Apply, Authority, RevokedIsForGood, IInv
<1>15. ASSUME NEW c \in Calls, Refuse(c)
       PROVE  RevokedIsForGood'
  BY <1>15 DEF Refuse, Authority, RevokedIsForGood, IInv, Phased, TypeOK
<1>16. ASSUME NEW c \in Calls, Others(c)
       PROVE  RevokedIsForGood'
  <2>1. call[c].kind \in Capabilities
    BY <1>16 DEF Others, IInv, TypeOK, Steps, Phased, Running
  <2> QED  BY <1>16, <2>1, KeyNotRevived DEF Others, Authority, RevokedIsForGood, IInv
<1>17. ASSUME NEW c \in Calls, NEW t \in Times, Record(c, t)
       PROVE  RevokedIsForGood'
  BY <1>17 DEF Record, RevokedIsForGood
<1>18. CASE UNCHANGED vars
  BY <1>18 DEF vars, RevokedIsForGood
<1> QED
  BY <1>1, <1>2, <1>3, <1>4, <1>5, <1>6, <1>7, <1>8, <1>9, <1>10, <1>11, <1>12,
     <1>13, <1>14, <1>15, <1>16, <1>17, <1>18 DEF Next

\* A key the adapter reported revoked stays unusable, whatever the clock, the
\* provider's other clients and the late writes do (invalidate_credential).
THEOREM RevocationLasts == Spec => []RevokedIsForGood
<1>1. Init => RevokedIsForGood
  BY DEF Init, RevokedIsForGood
<1>2. IInv /\ RevokedIsForGood /\ [Next]_vars => RevokedIsForGood'
  BY RevokedStep
<1> QED  BY <1>1, <1>2, Invariant, PTL DEF Spec

-----------------------------------------------------------------------------
(***************************************************************************)
(* What is recorded                                                        *)
(***************************************************************************)

Creates(c) == call[c].kind = "CreateJoinCredential"

\* A credential reference in the store is one the provider created for the very
\* call that it is recorded for (record_confirmed_provider_credential_reference
\* goes by what the adapter answered, not by what the provider holds).
RecordedWasMade ==
  \A c \in recorded : Creates(c) /\ outcome[c] = "confirmed" /\ wire[c] = "applied"

\* Credentials come from applied requests, and only what was seen is confirmed.
Made ==
  /\ \A c \in provider.made : wire[c] = "applied" /\ Creates(c)
  /\ \A c \in Calls : outcome[c] = "confirmed" /\ Creates(c) => wire[c] = "applied"

\* A step of a call that neither confirms nor ends what was asked.
LEMMA SameRequestKeepsMade ==
  ASSUME Made, RecordedWasMade, TypeOK,
         UNCHANGED <<call, wire, recorded>>, provider'.made \subseteq provider.made,
         \A c \in Calls : outcome'[c] # outcome[c] =>
           outcome[c] = "none" /\ (outcome'[c] = "confirmed" /\ Creates(c) => wire[c] = "applied")
  PROVE  Made' /\ RecordedWasMade'
<1>1. recorded \subseteq Calls
  BY DEF TypeOK
<1>2. Made'
  BY DEF Made, Creates
<1>3. RecordedWasMade'
  BY <1>1 DEF RecordedWasMade, Creates
<1> QED  BY <1>2, <1>3

LEMMA MadeStep ==
  ASSUME IInv, Made, RecordedWasMade, [Next]_vars
  PROVE  Made' /\ RecordedWasMade'
<1>0. /\ TypeOK /\ Phased /\ recorded \subseteq Calls /\ provider \in Providers
      /\ outcome \in [Calls -> Outcomes] /\ step \in [Calls -> Steps]
  BY DEF IInv, TypeOK
<1>1. CASE Tick
  BY <1>0, <1>1, SameRequestKeepsMade DEF Tick
<1>2. ASSUME NEW new \in Offers, Replace(new)
      PROVE  Made' /\ RecordedWasMade'
  BY <1>0, <1>2, SameRequestKeepsMade DEF Replace
<1>3. ASSUME NEW c \in Calls, call'[c] # call[c] => step[c] \in {"idle", "issued"},
             \A a \in Calls \ {c} : call'[a] = call[a],
             UNCHANGED <<provider, wire, recorded>>,
             \A a \in Calls : outcome'[a] # outcome[a] => outcome[a] = "none" /\ outcome'[a] # "confirmed"
      PROVE  Made' /\ RecordedWasMade'
  <2>1. call'[c] # call[c] => wire[c] = "none" /\ outcome[c] = "none"
    BY <1>0, <1>3 DEF Phased
  <2>2. provider.made \subseteq Calls
    BY <1>0 DEF Providers
  <2>3. \A a \in Calls : wire[a] = "applied" => call'[a] = call[a]
    BY <1>3, <2>1
  <2>4. Made'
    BY <1>3, <2>1, <2>2, <2>3 DEF Made, Creates
  <2>5. RecordedWasMade'
    BY <1>0, <1>3, <2>3 DEF RecordedWasMade, Creates
  <2> QED  BY <2>4, <2>5
<1>4. ASSUME NEW c \in Calls, NEW capability \in Kinds, Issue(c, capability)
      PROVE  Made' /\ RecordedWasMade'
  <2>1. /\ step[c] = "idle" /\ UNCHANGED <<provider, wire, recorded, outcome>>
        /\ \A a \in Calls \ {c} : call'[a] = call[a]
    BY <1>4 DEF Issue, IInv, TypeOK
  <2> QED  BY <1>3, <2>1
<1>5. ASSUME NEW c \in Calls, NEW kind \in Kinds, NEW transport, Execute(c, kind, transport)
      PROVE  Made' /\ RecordedWasMade'
  <2>1. /\ step[c] = "issued" /\ UNCHANGED <<provider, wire, recorded>>
        /\ \A a \in Calls \ {c} : call'[a] = call[a]
    BY <1>5 DEF Execute, Reject, Authority, IInv, TypeOK
  <2>2. /\ \A a \in Calls \ {c} : outcome'[a] = outcome[a]
        /\ outcome'[c] \in {outcome[c], "unsupported", "rejected"}
    BY <1>0, <1>5 DEF Execute, Reject, Finish, GoTo
  <2>3. outcome[c] = "none"
    BY <1>0, <2>1 DEF Phased
  <2> QED  BY <1>3, <2>1, <2>2, <2>3
\* A step of a call between its first read and its answer.
<1>6. ASSUME NEW c \in Calls, step[c] \in Running, UNCHANGED <<call, wire, recorded, provider>>,
             \/ outcome' = outcome
             \/ \E result \in Outcomes : /\ Finish(c, result)
                                         /\ result = "confirmed" /\ Creates(c) => wire[c] = "applied"
      PROVE  Made' /\ RecordedWasMade'
  <2>1. outcome[c] = "none"
    BY <1>0, <1>6 DEF Phased, Running
  <2>2. CASE outcome' = outcome
    BY <1>0, <1>6, <2>2, SameRequestKeepsMade
  <2>3. ASSUME NEW result \in Outcomes, Finish(c, result),
               result = "confirmed" /\ Creates(c) => wire[c] = "applied"
        PROVE  Made' /\ RecordedWasMade'
    <3>1. \A a \in Calls : outcome'[a] = IF a = c THEN result ELSE outcome[a]
      BY <1>0, <2>3 DEF Finish
    <3>2. \A a \in Calls : outcome'[a] # outcome[a] =>
            outcome[a] = "none" /\ (outcome'[a] = "confirmed" /\ Creates(a) => wire[a] = "applied")
      BY <2>1, <2>3, <3>1
    <3> QED  BY <1>0, <1>6, <3>2, SameRequestKeepsMade
  <2> QED  BY <1>6, <2>2, <2>3
<1>7. ASSUME NEW c \in Calls, NEW result \in Outcomes, NotReady(c, result)
      PROVE  Made' /\ RecordedWasMade'
  <2>1. result # "confirmed"
    BY <1>7 DEF NotReady, Failures
  <2> QED  BY <1>6, <1>7, <2>1 DEF NotReady, Authority, Running
<1>8. ASSUME NEW c \in Calls, NEW expected \in Authors, Read(c, expected)
      PROVE  Made' /\ RecordedWasMade'
  <2>1. step[c] \in Running /\ UNCHANGED <<call, wire, recorded, provider>>
    BY <1>8 DEF Read, Authority, Running
  <2>2. call[c].kind \in Capabilities
    BY <1>0, <2>1, RunningKinds
  <2>3. outcome' = outcome \/ \E result \in Outcomes : Finish(c, result) /\ result # "confirmed"
    BY <1>8, <2>2, ReadEffect DEF GoTo, Outcomes
  <2> QED  BY <1>6, <2>1, <2>3
<1>9. ASSUME NEW c \in Calls, Checked(c) \/ Acknowledged(c) \/ Denied(c) \/ Unanswered(c) \/ NotReconciled(c)
      PROVE  Made' /\ RecordedWasMade'
  <2>1. step[c] \in Running /\ UNCHANGED <<call, wire, recorded, provider>>
    BY <1>9 DEF Checked, Acknowledged, Denied, Unanswered, NotReconciled, Authority, Running
  <2>2. outcome' = outcome \/ \E result \in Outcomes : Finish(c, result) /\ result # "confirmed"
    BY <1>9 DEF Checked, Acknowledged, Denied, Unanswered, NotReconciled, GoTo, Outcomes
  <2> QED  BY <1>6, <2>1, <2>2
<1>10. ASSUME NEW c \in Calls, Reconcile(c)
       PROVE  Made' /\ RecordedWasMade'
  <2>1. step[c] \in Running /\ UNCHANGED <<call, wire, recorded, provider>>
    BY <1>10 DEF Reconcile, Authority, Running
  <2>2. call[c].kind \in Capabilities
    BY <1>0, <2>1, RunningKinds
  <2>3. PICK result \in {"confirmed", "failed", "conflict", "ambiguous"} :
           /\ result = ReadBack(call[c].kind, c, provider, step[c] = "acknowledged", call[c].started)
           /\ Finish(c, result)
    BY <1>10, <2>2, ReconcileEffect
  <2>4. ASSUME Creates(c)
        PROVE  result = CredentialReadBack(c, provider)
    <3>1. \A k : k = "CreateJoinCredential" =>
            ReadBack(k, c, provider, step[c] = "acknowledged", call[c].started)
              = CredentialReadBack(c, provider)
      BY DEF ReadBack, NodeKinds
    <3> QED  BY <2>3, <2>4, <3>1 DEF Creates
  <2>5. result = "confirmed" /\ Creates(c) => wire[c] = "applied"
    BY <2>4 DEF CredentialReadBack, Made
  <2>6. result \in Outcomes
    BY DEF Outcomes
  <2> QED  BY <1>6, <2>1, <2>3, <2>5, <2>6
\* What becomes of a write.
<1>11. ASSUME NEW c \in Calls, UNCHANGED <<call, recorded, outcome>>, wire[c] # "applied",
              \A a \in Calls \ {c} : wire'[a] = wire[a],
              \/ provider'.made \subseteq provider.made
              \/ wire'[c] = "applied" /\ Creates(c) /\ provider'.made = provider.made \cup {c}
       PROVE  Made' /\ RecordedWasMade'
  <2>1. provider.made \subseteq Calls
    BY <1>0 DEF Providers
  <2>2. \A a \in Calls : wire[a] = "applied" => wire'[a] = "applied"
    BY <1>11
  <2>3. Made'
    BY <1>11, <2>1, <2>2 DEF Made, Creates
  <2>4. RecordedWasMade'
    BY <1>0, <1>11, <2>2 DEF RecordedWasMade, Creates
  <2> QED  BY <2>3, <2>4
<1>12. ASSUME NEW c \in Calls, Send(c) \/ Refuse(c)
       PROVE  Made' /\ RecordedWasMade'
  <2>1. wire[c] # "applied"
    BY <1>0, <1>12 DEF Send, Refuse, Phased
  <2>2. /\ UNCHANGED <<call, recorded, outcome, provider>>
        /\ \A a \in Calls \ {c} : wire'[a] = wire[a]
    BY <1>12 DEF Send, Refuse, GoTo, Authority, IInv, TypeOK
  <2> QED  BY <1>11, <2>1, <2>2
<1>13. ASSUME NEW c \in Calls, Apply(c)
       PROVE  Made' /\ RecordedWasMade'
  <2>1. /\ UNCHANGED <<call, recorded, outcome>> /\ wire[c] = "sent" /\ wire'[c] = "applied"
        /\ \A a \in Calls \ {c} : wire'[a] = wire[a]
        /\ provider' = Written(call[c].kind, c, provider)
    BY <1>13 DEF Apply, Authority, IInv, TypeOK
  <2>2. call[c].kind \in Capabilities
    BY <1>0, <2>1, AppliedKinds
  <2>3. IF Creates(c) THEN provider'.made = provider.made \cup {c} ELSE provider'.made = provider.made
    BY <1>0, <2>1, <2>2 DEF Written, Creates, Capabilities, NodeKinds, Providers
  <2> QED  BY <1>11, <2>1, <2>3
<1>14. ASSUME NEW c \in Calls, Others(c)
       PROVE  Made' /\ RecordedWasMade'
  <2>1. UNCHANGED <<call, wire, recorded, outcome>> /\ provider' \in Changed(call[c].kind, provider)
    BY <1>14 DEF Others, Authority
  <2>2. call[c].kind \in Capabilities
    BY <1>0, <1>14, RunningKinds DEF Others, Running, Steps
  <2>3. provider'.made \subseteq provider.made
    BY <1>0, <2>1, <2>2 DEF Changed, Capabilities, NodeKinds, Providers
  <2> QED  BY <1>0, <2>1, <2>3, SameRequestKeepsMade
<1>15. ASSUME NEW c \in Calls, NEW t \in Times, Record(c, t)
       PROVE  Made' /\ RecordedWasMade'
  <2>1. /\ outcome[c] = "confirmed" /\ Creates(c) /\ recorded' = recorded \cup {c}
        /\ UNCHANGED <<provider, call, wire, outcome>>
    BY <1>15 DEF Record, Creates
  <2>2. Made'
    BY <2>1 DEF Made, Creates
  <2>3. RecordedWasMade'
    BY <2>1 DEF RecordedWasMade, Made, Creates
  <2> QED  BY <2>2, <2>3
<1>16. CASE UNCHANGED vars
  BY <1>0, <1>16, SameRequestKeepsMade DEF vars
<1>17. ASSUME NEW c \in Calls, NEW kind \in Kinds, NEW used \in installed, NEW database \in BOOLEAN,
              Execute(c, kind, [generations |-> used.generations, database |-> database])
       PROVE  Made' /\ RecordedWasMade'
  BY <1>5, <1>17
<1> QED
  BY <1>1, <1>2, <1>4, <1>7, <1>8, <1>9, <1>10, <1>12, <1>13, <1>14, <1>15, <1>16, <1>17 DEF Next

\* A reference is recorded only for a credential that the provider created for
\* this call, whatever became of the credential since and however answers,
\* writes and other clients interleave.
THEOREM RecordedCredentialsAreReal == Spec => []RecordedWasMade
<1>1. Init => Made /\ RecordedWasMade
  BY DEF Init, Made, RecordedWasMade
<1>2. IInv /\ Made /\ RecordedWasMade /\ [Next]_vars => Made' /\ RecordedWasMade'
  BY MadeStep
<1> QED  BY <1>1, <1>2, Invariant, PTL DEF Spec

=============================================================================
