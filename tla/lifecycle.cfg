\* One backend, three requests, two slots, a queue of one; no handler need end.
CONSTANTS
  HealthFailureThreshold = 1
  RecoveryThreshold = 1
  CircuitFailureThreshold = 2
  HalfOpenRequests = 1
  b1 = b1
  b2 = b2
  NoBackend = NoBackend
  Backends = {b1}
  IdOf <- OneId
  InitialBackends = {b1}
  Requests = {r1, r2, r3}
  SafeRequests = {r1}
  Statuses = {200, 503}
  RetryableStatusCodes = {503}
  RetryEnabled = TRUE
  MaxAttempts = 2
  StrategyMaySkip = FALSE
  Probing = TRUE
  AdminOps = {}
  PatchBodies <- NoBodies
  MaxConcurrent = 2
  MaxQueueSize = 1
SPECIFICATION FairLifecycle
INVARIANTS
  LifecycleTypeOK
  SlotPerHandler
  BackendsShielded
  SessionOutlivesItsUsers
  ExitRestores
PROPERTIES
  ImplementsService
  StopCompletes
  WaitersGetThrough
CHECK_DEADLOCK FALSE
