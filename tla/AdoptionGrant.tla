--------------------------- MODULE AdoptionGrant ----------------------------
(***************************************************************************)
(* What adopting an existing provider node promises                        *)
(* (docs/existing-provider-adoption.md), without pictures, generations,    *)
(* proofs or clocks: the owner opens an action for a node nobody adopted   *)
(* and nobody is adopting; the action either adopts the node, once and for *)
(* ever, or ends without a trace on it; and when the owner's root is       *)
(* revoked nothing more is opened or adopted.                              *)
(***************************************************************************)
CONSTANTS Actions, Nodes, NoAction, NoNode

VARIABLES
  phase,    \* by action: "new", "open", "confirmed" or "ended"
  target,   \* the node it is about
  adopter,  \* by node: the action that adopted it
  closed    \* the owner's root is revoked

gvars == <<phase, target, adopter, closed>>

Init ==
  /\ phase = [a \in Actions |-> "new"]
  /\ target = [a \in Actions |-> NoNode]
  /\ adopter = [n \in Nodes |-> NoAction]
  /\ closed = FALSE

\* Nobody adopted the node and nobody is adopting it.
Free(n) ==
  /\ adopter[n] = NoAction
  /\ \A a \in Actions : phase[a] = "open" => target[a] # n

Open(a, n) ==
  /\ ~closed
  /\ phase[a] = "new"
  /\ Free(n)
  /\ phase' = [phase EXCEPT ![a] = "open"]
  /\ target' = [target EXCEPT ![a] = n]
  /\ UNCHANGED <<adopter, closed>>

Adopt(a) ==
  /\ ~closed
  /\ phase[a] = "open"
  /\ adopter[target[a]] = NoAction
  /\ phase' = [phase EXCEPT ![a] = "confirmed"]
  /\ adopter' = [adopter EXCEPT ![target[a]] = a]
  /\ UNCHANGED <<target, closed>>

\* One picture of the provider may end the actions of several nodes.
End(ended) ==
  /\ \A a \in ended : phase[a] = "open"
  /\ phase' = [a \in Actions |-> IF a \in ended THEN "ended" ELSE phase[a]]
  /\ UNCHANGED <<target, adopter, closed>>

Close ==
  /\ closed' = TRUE
  /\ UNCHANGED <<phase, target, adopter>>

Next ==
  \/ \E a \in Actions, n \in Nodes : Open(a, n)
  \/ \E a \in Actions : Adopt(a)
  \/ \E ended \in SUBSET Actions : End(ended)
  \/ Close

Spec == Init /\ [][Next]_gvars

=============================================================================
