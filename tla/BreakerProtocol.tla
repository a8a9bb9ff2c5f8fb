--------------------------- MODULE BreakerProtocol ---------------------------
(***************************************************************************)
(* What a circuit breaker promises of one backend, without the traffic,    *)
(* the health checks and the counters that drive it: the three states of   *)
(* README.md "Circuit Breaker" and the budget of recovery attempts.        *)
(* A new circuit state is reached along the drawn arrows only, OPEN is     *)
(* left only after its cooldown, and one HALF_OPEN period admits at most   *)
(* Budget requests.                                                        *)
(***************************************************************************)
EXTENDS Naturals

CONSTANT Budget

VARIABLES state, cooled, admitted

vars == <<state, cooled, admitted>>

Init ==
  /\ state = "CLOSED"
  /\ cooled = FALSE
  /\ admitted = 0

\* Too many failures in CLOSED, or a failure in HALF_OPEN.
Open ==
  /\ state # "OPEN"
  /\ state' = "OPEN"
  /\ cooled' = FALSE
  /\ admitted' = 0

Cool ==
  /\ state = "OPEN"
  /\ cooled' = TRUE
  /\ UNCHANGED <<state, admitted>>

\* The request that finds the cooldown over is the first one admitted.
Probe ==
  /\ state = "OPEN"
  /\ cooled
  /\ state' = "HALF_OPEN"
  /\ cooled' = FALSE
  /\ admitted' = IF Budget > 0 THEN 1 ELSE 0

Admit ==
  /\ state = "HALF_OPEN"
  /\ admitted < Budget
  /\ admitted' = admitted + 1
  /\ UNCHANGED <<state, cooled>>

Close ==
  /\ state = "HALF_OPEN"
  /\ state' = "CLOSED"
  /\ admitted' = 0
  /\ UNCHANGED cooled

Next == Open \/ Cool \/ Probe \/ Admit \/ Close

Spec == Init /\ [][Next]_vars

=============================================================================
