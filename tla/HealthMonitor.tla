---------------------------- MODULE HealthMonitor ----------------------------
(***************************************************************************)
(* How a backend's status follows what is observed of it: live traffic     *)
(* (app/health/passive.py) and the periodic GET /health probe              *)
(* (app/health/active.py).  Both write the same counters and the same      *)
(* status of the same backend.                                             *)
(***************************************************************************)
EXTENDS BackendModel

Recover(b) ==
  IF b.status = "UNHEALTHY" /\ b.consecutive_successes >= RecoveryThreshold
  THEN [b EXCEPT !.status = "HEALTHY"]
  ELSE b

Degrade(b) ==
  IF b.consecutive_failures >= HealthFailureThreshold
  THEN [b EXCEPT !.status = "UNHEALTHY"]
  ELSE b

PassiveSuccess(b) == Recover(RecordSuccess(b))

\* Mutated: a connection error is not counted.
PassiveFailureSeriousOnly(b, serious) ==
  IF serious THEN Degrade(RecordFailure(b)) ELSE b

\* serious: a timeout, or an answer with a status of 500 or more.
PassiveFailure(b, serious) ==
  IF serious THEN Degrade(RecordFailure(b)) ELSE RecordFailure(b)

\* The probe counts in the same two counters, leaving the totals alone.
ProbeSuccess(b) == Recover(RecordSuccess(b))
ProbeFailure(b) == Degrade(RecordFailure(b))

=============================================================================
