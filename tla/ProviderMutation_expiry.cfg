CONSTANTS
  MaxTime = 1
  MaxGeneration = 2
  NoConfiguration = NoConfiguration
  Calls = {c1}
  Kinds = {"ExpireNode"}
  Offers <- MCOffers
  Other = Other
  MaxChanges = 0

CHECK_DEADLOCK FALSE

SPECIFICATION Spec

PROPERTIES
  ObservedIsNotFailed
