--------------------------- MODULE FleetAuthority ---------------------------
(***************************************************************************)
(* What N7 promises about one managed device, without reconcilers,         *)
(* requests, attempts or inspections (ADR 0011, docs/n7 section 5, and the *)
(* generation rules of docs/architecture.md):                              *)
(*                                                                         *)
(*   - each generation is asked for at most once, under live authority;    *)
(*   - Fleet only ever moves forward, to a document that was asked for and *)
(*     that carries live authority unless it removes the node;             *)
(*   - a generation is called applied only if Fleet held its document;     *)
(*   - authority that Fleet still serves is never retired.                 *)
(***************************************************************************)
EXTENDS Naturals

CONSTANTS Generations, Bindings, Documents, NoDocument

VARIABLES
  asked,      \* the document asked for at each generation
  verdict,    \* what Nodescale says of each generation
  authority,  \* the document Fleet holds
  history,    \* every document Fleet ever held
  retired     \* bindings rotated or revoked

avars == <<asked, verdict, authority, history, retired>>

Init ==
  /\ asked = [g \in Generations |-> NoDocument]
  /\ verdict = [g \in Generations |-> "none"]
  /\ authority = NoDocument
  /\ history = {}
  /\ retired = {}

Serves(d, b) == d # NoDocument /\ d.enrollment # "removed" /\ d.binding = b

Ask(d) ==
  /\ verdict[d.generation] = "none"
  /\ d.binding \notin retired
  /\ asked' = [asked EXCEPT ![d.generation] = d]
  /\ verdict' = [verdict EXCEPT ![d.generation] = "open"]
  /\ UNCHANGED <<authority, history, retired>>

Accept(d) ==
  /\ asked[d.generation] = d
  /\ authority # NoDocument => authority.generation < d.generation
  /\ d.binding \in retired => d.enrollment = "removed"
  /\ authority' = d
  /\ history' = history \cup {d}
  /\ UNCHANGED <<asked, verdict, retired>>

Judge(g, v) ==
  /\ verdict[g] = "open"
  /\ v = "applied" => asked[g] \in history
  /\ verdict' = [verdict EXCEPT ![g] = v]
  /\ UNCHANGED <<asked, authority, history, retired>>

Retire(b) ==
  /\ ~Serves(authority, b)
  /\ retired' = retired \cup {b}
  /\ UNCHANGED <<asked, verdict, authority, history>>

Next ==
  \/ \E d \in Documents : Ask(d) \/ Accept(d)
  \/ \E g \in Generations, v \in {"applied", "conflict"} : Judge(g, v)
  \/ \E b \in Bindings : Retire(b)

Spec == Init /\ [][Next]_avars

=============================================================================
