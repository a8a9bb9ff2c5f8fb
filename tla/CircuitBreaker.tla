--------------------------- MODULE CircuitBreaker ---------------------------
(***************************************************************************)
(* The per-backend circuit breaker, app/resilience/circuit_breaker.py, as  *)
(* functions on a backend record.  allow_request answers and changes the   *)
(* backend in one call: Allowed is the answer, AllowRequest the backend    *)
(* afterwards.  None of these methods suspends, so each is atomic.         *)
(***************************************************************************)
EXTENDS BackendModel

HasHalfOpenSlot(b) == b.half_open_in_flight < HalfOpenRequests

\* Mutated: a request is let through without taking a slot.
TryHalfOpenUncounted(b) == b

TryHalfOpen(b) ==
  IF HasHalfOpenSlot(b) THEN [b EXCEPT !.half_open_in_flight = @ + 1] ELSE b

\* OPEN -> HALF_OPEN once the recovery timeout has elapsed.
HalfOpen(b) == [b EXCEPT !.circuit_state = "HALF_OPEN",
                         !.half_open_in_flight = 0,
                         !.cooled = FALSE]

\* Mutated: the recovery timeout is not awaited.
MayHalfOpenAtOnce(b) == b.circuit_state = "OPEN"

MayHalfOpen(b) == b.circuit_state = "OPEN" /\ b.cooled

Allowed(b) ==
  \/ b.circuit_state = "CLOSED"
  \/ MayHalfOpen(b) /\ HasHalfOpenSlot(HalfOpen(b))
  \/ b.circuit_state = "HALF_OPEN" /\ HasHalfOpenSlot(b)

AllowRequest(b) ==
  CASE MayHalfOpen(b)                  -> TryHalfOpen(HalfOpen(b))
    [] b.circuit_state = "HALF_OPEN"   -> TryHalfOpen(b)
    [] OTHER                           -> b

\* Mutated: a late success closes an OPEN circuit too.
OnSuccessFromOpen(b) ==
  [b EXCEPT !.circuit_state = "CLOSED", !.half_open_in_flight = 0,
            !.consecutive_failures = 0]

OnSuccess(b) ==
  IF b.circuit_state = "HALF_OPEN"
  THEN [b EXCEPT !.circuit_state = "CLOSED",
                 !.half_open_in_flight = 0,
                 !.consecutive_failures = 0]
  ELSE b

Trip(b) == [b EXCEPT !.circuit_state = "OPEN", !.cooled = FALSE]

ReachedThreshold(b) == b.consecutive_failures >= CircuitFailureThreshold

\* Mutated: a failure in HALF_OPEN does not open the circuit again.
OnFailureClosedOnly(b) ==
  IF b.circuit_state = "CLOSED" /\ ReachedThreshold(b) THEN Trip(b) ELSE b

\* Only a trip out of HALF_OPEN writes half_open_in_flight.
OnFailure(b) ==
  CASE b.circuit_state = "HALF_OPEN" -> [Trip(b) EXCEPT !.half_open_in_flight = 0]
    [] b.circuit_state = "CLOSED" /\ ReachedThreshold(b) -> Trip(b)
    [] OTHER -> b

=============================================================================
