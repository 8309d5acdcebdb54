SPECIFICATION Spec
CONSTANTS
  Services = {w1}
  Peers = {p1}
  Operations = {o1}
  MaxGeneration = 1
  MaxTime = 2
  ChallengeTtl = 2
  AuthorizationTtl = 2
  NoKey = NoKey
  NoNonce = NoNonce
  NoService = NoService
  NoPeer = NoPeer
SYMMETRY Symmetry
INVARIANTS
  RevocationStaysAvailable
CHECK_DEADLOCK FALSE
