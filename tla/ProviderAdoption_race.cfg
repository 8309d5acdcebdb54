SPECIFICATION Spec
CONSTANTS
  Nodes = {n1}
  MachineKeys = {m1, m2}
  NodeKeys = {k1, k2}
  Reconcilers = {r1}
  Tools = {t1, t2}
  Authorities = {a1}
  MaxGeneration = 2
  MaxTime = 1
  ActionTtl = 1
  Absent = Absent
  NoNode = NoNode
  NoTool = NoTool
  NoAuthority = NoAuthority
SYMMETRY Symmetry
INVARIANTS
  TypeOK
  PendingIsPinned
  ConfirmedWasShown
PROPERTIES
  EndedByLaterPicture
  KeepsGrant
