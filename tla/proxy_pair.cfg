\* Two backends that the admin API may remove, steady traffic and no probes.
CONSTANTS
  HealthFailureThreshold = 1
  RecoveryThreshold = 1
  CircuitFailureThreshold = 2
  HalfOpenRequests = 1
  b1 = b1
  b2 = b2
  NoBackend = NoBackend
  Backends = {b1, b2}
  IdOf <- TwoIds
  InitialBackends = {b1, b2}
  Requests = {r1, r2}
  SafeRequests = {r1}
  Statuses = {200, 500}
  RetryableStatusCodes = {}
  RetryEnabled = TRUE
  MaxAttempts = 2
  StrategyMaySkip = FALSE
  Probing = FALSE
  AdminOps = {"DELETE"}
  PatchBodies <- NoBodies
SPECIFICATION BusySpec
INVARIANTS
  ConnectionsExact
PROPERTIES
  EveryRequestAnswered
  FailingTrafficTrips
  OpenIsRetriedInNeed
