SPECIFICATION Spec
CONSTANTS
  Devices = {d1}
  Nodes = {n1, n2}
  Workers = {w1, w2}
  Authorities = {a1}
  Actions = {x1, x2}
  MaxRevision = 4
  NoDevice = NoDevice
  NoNode = NoNode
SYMMETRY Symmetry
INVARIANTS
  OwnerTrustedFirst
PROPERTIES
  IdentityFromLiveCredential
  BindingFollowsEvidence
  KeepsStanding
CHECK_DEADLOCK FALSE
