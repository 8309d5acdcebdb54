SPECIFICATION FairSpec
CONSTANTS
  Sources = {s1, s2}
  SourceBurst = 1
  SourceInitial = 1
  SourceRefill = 2
  GlobalBurst = 2
  GlobalInitial = 2
  GlobalRefill = 1
  MaxTracked = 1
  MaxRequests = 3
  Invitations = {i1, i2}
  Capacity = 1
  MaxWait = 1
  MaxTime = 2
  None = None
INVARIANTS
  TypeOK
  AdmissionIsBounded
  HandedOffOrRevoked
PROPERTIES
  Drains
CHECK_DEADLOCK FALSE
