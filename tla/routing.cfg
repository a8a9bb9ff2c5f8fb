\* Five backends for round robin, three for the others; a backend of weight 0.
CONSTANTS
  RingSize = 5
  N = 3
  MinWeight = 0
  MaxWeight = 2
  AdminOps = {"PATCH"}
  MaxLoad = 4
  MaxRetried = 1
  MinListed = 2
  Latencies = {4, 6}
  HashValues = {0, 99}
  CapacityFactor = 2
SPECIFICATION FairSpec
INVARIANTS
  TypeOK
  OncePerTurn
  ShareFollowsWeights
  ExactFromRest
  NeverAheadOfShare
  CreditIsBounded
  EvenShareOfPeak
PROPERTIES
  NoStampede
  ServedWhileAvailable
