SPECIFICATION Spec
CONSTANTS
  Reconcilers = {r1, r2}
  Operations = {o1, o2}
  MaxGeneration = 2
  MaxBinding = 2
  Enrollments = {"active", "disabled", "removed"}
  NoDocument = NoDocument
  Unavailable = Unavailable
  NoOperation = NoOperation
SYMMETRY Symmetry
INVARIANTS
  TypeOK
  FenceSafety
  LateRequestsAreHarmless
  AppliedWasHeld
PROPERTIES
  KeepsPromise
  KeepsLifecycle
  NothingIsTakenBack
CHECK_DEADLOCK FALSE
