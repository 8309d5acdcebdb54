-------------------------- MODULE AdmissionControl --------------------------
(***************************************************************************)
(* The token buckets that admit redemption requests                        *)
(* (nodescale-redemption-ingress, AdmissionLimits, Bucket and              *)
(* InMemoryAdmissionController): one bucket per tracked source, one that   *)
(* all untracked sources share once the table is full, and a global one.   *)
(*                                                                         *)
(* Instants are natural numbers of one monotonic clock.  A source is an    *)
(* address after normalize_ip.  The u32 saturations are left out: no       *)
(* bucket holds more than its burst, and the clock stays far below them.   *)
(*                                                                         *)
(* Operators whose name begins with Wrong are deliberate mistakes a change *)
(* to the code could make; no definition uses them.                        *)
(***************************************************************************)
EXTENDS Naturals, FiniteSets

CONSTANTS
  Sources,        \* addresses a request may come from
  SourceBurst,    \* source_burst
  SourceInitial,  \* source_initial_tokens
  SourceRefill,   \* source_refill_interval
  GlobalBurst,    \* global_burst
  GlobalInitial,  \* global_initial_tokens
  GlobalRefill,   \* global_refill_interval
  MaxTracked      \* maximum_tracked_sources

Positive == Nat \ {0}

\* AdmissionLimits::bounded and with_initial_tokens refuse anything else; the
\* ceilings they put on the limits are left out.
LimitsAccepted ==
  /\ {SourceBurst, SourceRefill, GlobalBurst, GlobalRefill, MaxTracked} \subseteq Positive
  /\ SourceInitial \in 1..SourceBurst
  /\ GlobalInitial \in 1..GlobalBurst

ASSUME LimitsAssumption == LimitsAccepted

Least(a, b) == IF a <= b THEN a ELSE b

\* saturating_duration_since
Since(earlier, now) == IF now > earlier THEN now - earlier ELSE 0

-----------------------------------------------------------------------------
(***************************************************************************)
(* One bucket                                                              *)
(***************************************************************************)

Bucket(burst) == [tokens : 0..burst, refilled : Nat]

NewBucket(initial, now) == [tokens |-> initial, refilled |-> now]

WrongRefilled(bucket, burst, interval, now) ==
  LET intervals == Since(bucket.refilled, now) \div interval
  IN  [tokens |-> bucket.tokens + intervals,
       refilled |-> bucket.refilled + intervals * interval]

\* Whole intervals are paid out, and the remainder is kept for the next time.
Refilled(bucket, burst, interval, now) ==
  LET intervals == Since(bucket.refilled, now) \div interval
  IN  [tokens |-> Least(burst, bucket.tokens + intervals),
       refilled |-> bucket.refilled + intervals * interval]

Debited(bucket) == [bucket EXCEPT !.tokens = bucket.tokens - 1]

-----------------------------------------------------------------------------
(***************************************************************************)
(* The controller                                                          *)
(***************************************************************************)

Entry == [tracked : BOOLEAN, bucket : Bucket(SourceBurst), seen : Nat]

Controllers == [global : Bucket(GlobalBurst), overflow : Bucket(SourceBurst),
                sources : [Sources -> Entry]]

Untracked == [tracked |-> FALSE, bucket |-> NewBucket(0, 0), seen |-> 0]

NewController ==
  [global |-> NewBucket(GlobalInitial, 0), overflow |-> NewBucket(1, 0),
   sources |-> [s \in Sources |-> Untracked]]

TrackedIn(c) == {s \in Sources : c.sources[s].tracked}

Full(c) == Cardinality(TrackedIn(c)) >= MaxTracked

WrongStale(c, now) == TrackedIn(c)

\* Sources so long unseen that their bucket would be full again.
Stale(c, now) ==
  {s \in TrackedIn(c) : Since(c.sources[s].seen, now) >= SourceRefill * SourceBurst}

\* A full table forgets one stale source, whichever its iteration meets first,
\* before a new one is looked at and whatever becomes of its request.
MakingRoom(c, source, now) ==
  IF ~c.sources[source].tracked /\ Full(c) /\ Stale(c, now) # {}
  THEN {[c EXCEPT !.sources[s] = Untracked] : s \in Stale(c, now)}
  ELSE {c}

Selected(c, source) ==
  IF c.sources[source].tracked THEN "tracked"
  ELSE IF Full(c) THEN "overflow" ELSE "new"

SelectedBucket(c, source, now) ==
  CASE Selected(c, source) = "tracked" -> c.sources[source].bucket
    [] Selected(c, source) = "overflow" -> c.overflow
    [] OTHER -> NewBucket(SourceInitial, now)

Paid(c, source, bucket, now) ==
  IF Selected(c, source) = "overflow"
  THEN [c EXCEPT !.overflow = bucket]
  ELSE [c EXCEPT !.sources[source] = [tracked |-> TRUE, bucket |-> bucket, seen |-> now]]

\* admit, after the table made room: the source pays only when the global
\* bucket can pay too; a refused new source is not remembered, a refused known
\* one is marked as seen.
Admit(c, source, now) ==
  LET own == Refilled(SelectedBucket(c, source, now), SourceBurst, SourceRefill, now)
      all == Refilled(c.global, GlobalBurst, GlobalRefill, now)
      looked == IF Selected(c, source) = "new" THEN c ELSE Paid(c, source, own, now)
  IN  IF own.tokens = 0
      THEN [admitted |-> FALSE, controller |-> looked]
      ELSE IF all.tokens = 0
      THEN [admitted |-> FALSE, controller |-> [looked EXCEPT !.global = all]]
      ELSE [admitted |-> TRUE,
            controller |-> [Paid(c, source, Debited(own), now)
                              EXCEPT !.global = Debited(all)]]

=============================================================================
