SPECIFICATION Spec
CONSTANTS
  Services = {w1, w2}
  Peers = {p1, p2}
  Operations = {o1}
  MaxGeneration = 2
  MaxTime = 1
  ChallengeTtl = 1
  AuthorizationTtl = 1
  NoKey = NoKey
  NoNonce = NoNonce
  NoService = NoService
  NoPeer = NoPeer
SYMMETRY Symmetry
INVARIANTS
  TypeOK
  OneLiveCeremony
  NewestChallengeActivates
  OneNoncePerOperation
  ConfirmationsAreFaithful
  ActivatedByItsChallenge
  RetiredByExactAuthority
PROPERTIES
  KeepsLifecycle
CHECK_DEADLOCK FALSE
