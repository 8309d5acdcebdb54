--------------------------- MODULE TrustStanding ---------------------------
(***************************************************************************)
(* What N5 promises of the standing of a device (docs/device-trust.md):    *)
(* membership of the provider gives no trust; the owner permits single     *)
(* decisions, each about one version of one device; a decision uses a      *)
(* permit that is still standing; nobody is trusted who is not bound to a  *)
(* provider node at that moment; once the owner closes, nothing is         *)
(* permitted or decided again.                                             *)
(***************************************************************************)
EXTENDS Naturals

CONSTANT Devices

VARIABLES
  open,      \* the owner has a root and has not revoked it
  permits,   \* decisions permitted and not withdrawn
  standing,  \* of each device
  version,   \* of that standing
  bound      \* devices with an active provider binding

svars == <<open, permits, standing, version, bound>>

Init ==
  /\ open = FALSE
  /\ permits = {}
  /\ standing = [d \in Devices |-> "unknown"]
  /\ version = [d \in Devices |-> 0]
  /\ bound = {}

May == [unknown |-> {}, untrusted |-> {"trusted", "revoked"},
        trusted |-> {"revoked"}, revoked |-> {}]

Open == open' = TRUE /\ permits = {} /\ UNCHANGED <<permits, standing, version, bound>>

Close == open' = FALSE /\ permits' = {} /\ UNCHANGED <<standing, version, bound>>

Identify(d) ==
  /\ standing[d] = "unknown"
  /\ standing' = [standing EXCEPT ![d] = "untrusted"]
  /\ version' = [version EXCEPT ![d] = 1]
  /\ bound' = bound \cup {d}
  /\ UNCHANGED <<open, permits>>

Rebind == bound' \subseteq Devices /\ UNCHANGED <<open, permits, standing, version>>

Permit(d, s) ==
  /\ open
  /\ s \in May[standing[d]]
  /\ permits' = permits \cup {[device |-> d, version |-> version[d], standing |-> s]}
  /\ UNCHANGED <<open, standing, version, bound>>

Withdraw == permits' \subseteq permits /\ UNCHANGED <<open, standing, version, bound>>

Decide(p) ==
  LET d == p.device IN
  /\ p \in permits
  /\ p.version = version[d]
  /\ p.standing \in May[standing[d]]
  /\ p.standing = "trusted" => d \in bound
  /\ standing' = [standing EXCEPT ![d] = p.standing]
  /\ version' = [version EXCEPT ![d] = @ + 1]
  /\ permits' \subseteq permits
  /\ UNCHANGED <<open, bound>>

Next ==
  \/ Open \/ Close \/ Withdraw \/ Rebind
  \/ \E d \in Devices : Identify(d) \/ \E s \in {"trusted", "revoked"} : Permit(d, s)
  \/ \E p \in permits : Decide(p)

Spec == Init /\ [][Next]_svars

=============================================================================
