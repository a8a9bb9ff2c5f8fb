\* Violated: failures and a recovery take a backend out of DRAINING.
CONSTANTS
  HealthFailureThreshold = 1
  RecoveryThreshold = 1
  CircuitFailureThreshold = 2
  HalfOpenRequests = 1
  b1 = b1
  b2 = b2
  NoBackend = NoBackend
  Backends = {b1}
  IdOf <- OneId
  InitialBackends = {b1}
  Requests = {r1, r2}
  SafeRequests = {r1}
  Statuses = {200, 500, 503}
  RetryableStatusCodes = {503}
  RetryEnabled = TRUE
  MaxAttempts = 2
  StrategyMaySkip = FALSE
  Probing = TRUE
  AdminOps = {"PATCH"}
  PatchBodies <- DrainBodies
SPECIFICATION Spec
PROPERTIES
  DrainingIsKept
