CONSTANTS
  MaxTime = 1
  MaxGeneration = 2
  NoConfiguration = NoConfiguration
  Calls = {c1, c2}
  Kinds = {"EnsureNetworkPrincipal", "CreateJoinCredential", "InvalidateJoinCredential",
    "ReplaceNodeTags", "ExpireNode", "DeleteNode", "ManagePolicy"}
  Offers <- MCOffers
  Other = Other
  MaxChanges = 1

SYMMETRY CallSymmetry

CHECK_DEADLOCK FALSE

SPECIFICATION Spec

INVARIANTS
  TypeOK
  WritesAreGranted
  RefusalsAreDefinite
  RevokedIsForGood

PROPERTIES
  EvidenceIsTrue
