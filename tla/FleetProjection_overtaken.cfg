SPECIFICATION FairSpec
CONSTANTS
  Reconcilers = {r1}
  Operations = {o1, o2}
  MaxGeneration = 2
  MaxBinding = 1
  Enrollments = {"active", "disabled", "removed"}
  NoDocument = NoDocument
  Unavailable = Unavailable
  NoOperation = NoOperation
PROPERTY
  AttemptedIsSettled
CHECK_DEADLOCK FALSE
