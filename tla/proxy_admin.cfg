\* One backend that the admin API drains, disables, removes and adds again.
CONSTANTS
  HealthFailureThreshold = 1
  RecoveryThreshold = 1
  CircuitFailureThreshold = 2
  HalfOpenRequests = 2
  b1 = b1
  b2 = b2
  NoBackend = NoBackend
  Backends = {b1, b2}
  IdOf <- SameId
  InitialBackends = {b1}
  Requests = {r1, r2}
  SafeRequests = {r1}
  Statuses = {200, 503}
  RetryableStatusCodes = {503}
  RetryEnabled = TRUE
  MaxAttempts = 2
  StrategyMaySkip = FALSE
  Probing = FALSE
  AdminOps = {"POST", "DELETE", "PATCH"}
  PatchBodies <- AllBodies
SPECIFICATION Spec
INVARIANTS
  PoolMatchesInFlight
  HalfOpenCanEnd
PROPERTIES
  FallbackIsLastResort
