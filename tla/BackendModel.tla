---------------------------- MODULE BackendModel ----------------------------
(***************************************************************************)
(* A backend as the load balancer remembers it: the dataclass Backend of   *)
(* app/models/backend.py, reduced to the fields that decide routing.       *)
(*                                                                         *)
(* Abstractions.  The consecutive counters are only ever compared with     *)
(* ">= threshold" and reset, so they saturate at the largest threshold     *)
(* they are compared with.  circuit_opened_at is the boolean cooled: the   *)
(* recovery timeout has elapsed since the circuit opened (read only while  *)
(* the circuit is OPEN).  Latencies and totals belong to the routing       *)
(* strategies.                                                             *)
(***************************************************************************)
EXTENDS Naturals

CONSTANTS
  HealthFailureThreshold,   \* health_check.failure_threshold
  RecoveryThreshold,        \* health_check.recovery_threshold
  CircuitFailureThreshold,  \* circuit_breaker.failure_threshold
  HalfOpenRequests          \* circuit_breaker.half_open_requests

\* Pydantic checks only that these are integers; a negative threshold acts as 0.
ASSUME ThresholdsAssumption ==
  /\ HealthFailureThreshold \in Nat
  /\ RecoveryThreshold \in Nat
  /\ CircuitFailureThreshold \in Nat
  /\ HalfOpenRequests \in Nat

BackendStatus == {"HEALTHY", "UNHEALTHY", "DRAINING"}
CircuitState == {"CLOSED", "OPEN", "HALF_OPEN"}

FailureCap == IF HealthFailureThreshold > CircuitFailureThreshold
              THEN HealthFailureThreshold ELSE CircuitFailureThreshold

Backend == [status                : BackendStatus,
            enabled               : BOOLEAN,
            active_connections    : Nat,
            consecutive_failures  : 0..FailureCap,
            consecutive_successes : 0..RecoveryThreshold,
            circuit_state         : CircuitState,
            cooled                : BOOLEAN,
            half_open_in_flight   : 0..HalfOpenRequests]

\* The defaults of the dataclass, for a configured or an added backend.
NewBackend == [status                |-> "HEALTHY",
               enabled               |-> TRUE,
               active_connections    |-> 0,
               consecutive_failures  |-> 0,
               consecutive_successes |-> 0,
               circuit_state         |-> "CLOSED",
               cooled                |-> FALSE,
               half_open_in_flight   |-> 0]

IsAvailable(b) ==
  /\ b.enabled
  /\ b.status \notin {"DRAINING", "UNHEALTHY"}
  /\ b.circuit_state # "OPEN"

CountUpTo(cap, n) == IF n < cap THEN n + 1 ELSE cap

RecordSuccess(b) ==
  [b EXCEPT !.consecutive_successes = CountUpTo(RecoveryThreshold, @),
            !.consecutive_failures = 0]

RecordFailure(b) ==
  [b EXCEPT !.consecutive_failures = CountUpTo(FailureCap, @),
            !.consecutive_successes = 0]

\* Mutated: without the floor at 0.
DisconnectUnfloored(b) == [b EXCEPT !.active_connections = @ - 1]

\* backend.active_connections = max(0, backend.active_connections - 1)
Disconnect(b) ==
  [b EXCEPT !.active_connections = IF @ > 0 THEN @ - 1 ELSE 0]

=============================================================================
