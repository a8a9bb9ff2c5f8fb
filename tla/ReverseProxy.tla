---------------------------- MODULE ReverseProxy ----------------------------
(***************************************************************************)
(* The proxy path of app/proxy.py together with everything that writes the *)
(* backends it routes to: the health probes of app/health/active.py and    *)
(* the admin API of app/admin/routes.py.  All of them are coroutines of    *)
(* one asyncio event loop, so a step of this specification is what a       *)
(* coroutine does between two points where it can really suspend.          *)
(*                                                                         *)
(* The locks of the connection pool are never held across a suspension,    *)
(* so taking them never suspends; neither does select_backend.  Judging    *)
(* the outcome of an attempt, the finally clause, and, on a retry, the     *)
(* next selection up to the new attempt are therefore one step.            *)
(***************************************************************************)
EXTENDS CircuitBreaker, HealthMonitor, FiniteSets

CONSTANTS
  Backends,              \* Backend objects: an id added again is a new object
  IdOf,                  \* the id of each Backend object
  InitialBackends,       \* the objects made from the configuration file
  Requests,              \* the handlers that may run at once
  SafeRequests,          \* those whose method is in retry.retryable_methods
  Statuses,              \* the status codes backends answer with
  RetryableStatusCodes,  \* retry.retryable_status_codes
  RetryEnabled,          \* retry.enabled
  MaxAttempts,           \* retry.max_attempts
  StrategyMaySkip,       \* select_backend may return None for a non-empty list
  Probing,               \* the active health checker runs
  AdminOps,              \* the admin calls that happen: "POST", "DELETE", "PATCH"
  PatchBodies,           \* the bodies of PATCH calls, see UpdateBackend
  NoBackend              \* a request that has not selected a backend

Ids == {IdOf[b] : b \in Backends}

\* ensure_backends: the configured ids are unique.  Pydantic takes any integer
\* for max_attempts; one below 1 acts as 1.
ASSUME ProxyAssumption ==
  /\ IsFiniteSet(Requests)
  /\ NoBackend \notin Backends
  /\ InitialBackends \subseteq Backends
  /\ \A b \in Backends : IdOf[b] \in Ids
  /\ \A b, c \in InitialBackends : IdOf[b] = IdOf[c] => b = c
  /\ SafeRequests \subseteq Requests
  /\ Statuses \subseteq Nat \ {0}
  /\ RetryEnabled \in BOOLEAN
  /\ MaxAttempts \in Nat

VARIABLES
  backends,    \* the fields of each Backend object
  registry,    \* BackendRegistry.backends: the object each id stands for
  retired,     \* the objects removed from it, possibly still used by requests
  pool,        \* ConnectionPool._active_count
  probes,      \* the objects the current round of probes still waits for
  req,         \* the handler of each request
  trials       \* history: requests sent to a backend in its HALF_OPEN period

vars == <<backends, registry, retired, pool, probes, req, trials>>

-----------------------------------------------------------------------------
(* A handler is done (no request), reading the body, sent (an attempt is   *)
(* under way, no response head yet) or streaming (the head has been        *)
(* forwarded to the client and the body follows).  attempts and answered   *)
(* are history: the attempts made, and whether a head went to the client.  *)

AttemptLimit == IF MaxAttempts > 1 THEN MaxAttempts ELSE 1

Request == [phase       : {"done", "reading", "sent", "streaming"},
            on          : Backends \cup {NoBackend},
            status      : Statuses \cup {0},
            retry_count : Nat,
            attempts    : 0..(AttemptLimit + 1),
            answered    : BOOLEAN]

NewRequest == [phase |-> "done", on |-> NoBackend, status |-> 0,
               retry_count |-> 0, attempts |-> 0, answered |-> FALSE]

InFlight(b) == {r \in Requests : req[r].on = b}

\* The object that the configuration file makes for an id.
Configured(i) ==
  IF \E b \in InitialBackends : IdOf[b] = i
  THEN CHOOSE b \in InitialBackends : IdOf[b] = i
  ELSE NoBackend

Init ==
  /\ backends = [b \in Backends |-> NewBackend]
  /\ registry = [i \in Ids |-> Configured(i)]
  /\ retired = {}
  /\ pool = [i \in Ids |-> 0]
  /\ probes = {}
  /\ req = [r \in Requests |-> NewRequest]
  /\ trials = [b \in Backends |-> {}]

-----------------------------------------------------------------------------
(* Selection.  bs is the backends as selection finds them: in a retry they *)
(* already carry the outcome of the failed attempt.                        *)

\* list_all: the objects in the registry.
Registered == {b \in Backends : registry[IdOf[b]] = b}

\* Mutated: disabled backends count as enabled.
EnabledInAll(bs) == Registered

Available(bs) == {b \in Registered : IsAvailable(bs[b])}
EnabledIn(bs) == {b \in Registered : bs[b].enabled}
Admitted(bs, asked) == {b \in asked : Allowed(bs[b])}

\* Mutated: without the first loop; without the second.
AskedEnabled(bs) == EnabledIn(bs)
AskedAvailable(bs) == Available(bs)

\* The first loop asks the available backends.  When it admits none it has
\* changed none of them, and the second loop asks every enabled one.
Asked(bs) ==
  IF Admitted(bs, Available(bs)) # {} THEN Available(bs) ELSE EnabledIn(bs)

Candidates(bs) == Admitted(bs, Asked(bs))

\* Every backend asked pays for the question, not only the one selected.
AfterAsking(bs) ==
  [b \in Backends |-> IF b \in Asked(bs) THEN AllowRequest(bs[b]) ELSE bs[b]]

\* The history after selection: a HALF_OPEN period that goes on keeps its
\* trials, and chosen, the set of the backend selected, gains r.
TrialsAfter(bs, after, r, chosen) ==
  [b \in Backends |->
     IF after[b].circuit_state # "HALF_OPEN" THEN {}
     ELSE (IF bs[b].circuit_state = "HALF_OPEN" THEN trials[b] ELSE {})
          \cup (IF b \in chosen THEN {r} ELSE {})]

SentTo(ctx, b) == [ctx EXCEPT !.phase = "sent", !.on = b, !.status = 0,
                              !.attempts = CountUpTo(AttemptLimit + 1, @)]

\* self._active_count[backend_id] += 1: the limit of the pool does not shed.
PoolAcquire(counts, b) == [counts EXCEPT ![IdOf[b]] = @ + 1]

\* Backend b is selected: the request is counted on it and sent, up to where
\* session.request suspends.
Send(r, ctx, bs, counts, b) ==
  /\ backends' = [AfterAsking(bs) EXCEPT ![b].active_connections = @ + 1]
  /\ pool' = PoolAcquire(counts, b)
  /\ req' = [req EXCEPT ![r] = SentTo(ctx, b)]
  /\ trials' = TrialsAfter(bs, AfterAsking(bs), r, {b})

\* None is selected: 503 "no available backends".
Unavailable(r, bs, counts) ==
  /\ backends' = AfterAsking(bs)
  /\ pool' = counts
  /\ req' = [req EXCEPT ![r] = NewRequest]
  /\ trials' = TrialsAfter(bs, AfterAsking(bs), r, {})

\* One turn of the loop of _proxy for a request with context ctx; the strategy
\* is any choice among the candidates.
Attempt(r, ctx, bs, counts) ==
  \/ \E b \in Candidates(bs) : Send(r, ctx, bs, counts, b)
  \/ /\ Candidates(bs) = {} \/ StrategyMaySkip
     /\ Unavailable(r, bs, counts)

-----------------------------------------------------------------------------
(* The life of a request.                                                  *)

Arrive(r) ==
  /\ req[r].phase = "done"
  /\ req' = [req EXCEPT ![r].phase = "reading"]
  /\ UNCHANGED <<backends, registry, retired, pool, probes, trials>>

\* The body is too large (413), or the client goes away while sending it.
BodyRefused(r) ==
  /\ req[r].phase = "reading"
  /\ req' = [req EXCEPT ![r] = NewRequest]
  /\ UNCHANGED <<backends, registry, retired, pool, probes, trials>>

BodyRead(r) ==
  /\ req[r].phase = "reading"
  /\ Attempt(r, req[r], backends, pool)
  /\ UNCHANGED <<registry, retired, probes>>

\* _forward forwards the head before it reads the body, whatever the status.
HeadArrives(r, status) ==
  /\ req[r].phase = "sent"
  /\ req' = [req EXCEPT ![r].phase = "streaming", ![r].status = status,
                        ![r].answered = TRUE]
  /\ UNCHANGED <<backends, registry, retired, pool, probes, trials>>

\* Mutated: the last connection is never given back.
PoolReleaseKeepsLast(b) ==
  [pool EXCEPT ![IdOf[b]] = IF @ > 1 THEN @ - 1 ELSE @]

\* self._active_count[backend_id] = max(0, self._active_count[backend_id] - 1)
PoolRelease(b) == [pool EXCEPT ![IdOf[b]] = IF @ > 0 THEN @ - 1 ELSE 0]

\* Mutated: one attempt too many.
MayRetryOnceMore(r) ==
  RetryEnabled /\ req[r].retry_count < MaxAttempts /\ r \in SafeRequests

MayRetry(r) ==
  /\ RetryEnabled
  /\ req[r].retry_count + 1 < MaxAttempts
  /\ r \in SafeRequests

\* Mutated: the retry is not counted.
NextTryUncounted(ctx) == ctx

NextTry(ctx) == [ctx EXCEPT !.retry_count = @ + 1]

\* The request ends with backend b in state rec.
Finish(r, b, rec) ==
  /\ backends' = [backends EXCEPT ![b] = rec]
  /\ pool' = PoolRelease(b)
  /\ req' = [req EXCEPT ![r] = NewRequest]
  /\ trials' = [trials EXCEPT ![b] =
       IF rec.circuit_state = "HALF_OPEN" THEN @ ELSE {}]

\* The request leaves b in state rec and makes its next attempt.
TryAgain(r, b, rec) ==
  Attempt(r, NextTry(req[r]), [backends EXCEPT ![b] = rec], PoolRelease(b))

\* The whole answer has been forwarded and its status is below 500.
Succeeds(r) ==
  /\ req[r].phase = "streaming"
  /\ req[r].status < 500
  /\ LET b == req[r].on IN
       Finish(r, b, Disconnect(OnSuccess(PassiveSuccess(backends[b]))))
  /\ UNCHANGED <<registry, retired, probes>>

\* Mutated: every status of 500 or more is retried.
ServerErrorRetriesAll(r) ==
  /\ req[r].phase = "streaming"
  /\ req[r].status >= 500
  /\ LET b == req[r].on
         rec == OnFailure(PassiveFailure(backends[b], TRUE))
     IN IF MayRetry(r)
        THEN TryAgain(r, b, Disconnect(Disconnect(rec)))
        ELSE Finish(r, b, Disconnect(rec))
  /\ UNCHANGED <<registry, retired, probes>>

\* The whole answer has been forwarded and its status is 500 or more.  Before
\* a retry both the branch itself and the finally clause count the connection
\* down; the answer already forwarded stays forwarded.
ServerError(r) ==
  /\ req[r].phase = "streaming"
  /\ req[r].status >= 500
  /\ LET b == req[r].on
         rec == OnFailure(PassiveFailure(backends[b], TRUE))
     IN IF MayRetry(r) /\ req[r].status \in RetryableStatusCodes
        THEN TryAgain(r, b, Disconnect(Disconnect(rec)))
        ELSE Finish(r, b, Disconnect(rec))
  /\ UNCHANGED <<registry, retired, probes>>

\* Mutated: a failed attempt leaves its connection counted.
AttemptFailsLeaks(r, timeout) ==
  /\ req[r].phase \in {"sent", "streaming"}
  /\ LET b == req[r].on
         rec == OnFailure(PassiveFailure(backends[b], timeout))
     IN IF MayRetry(r) THEN TryAgain(r, b, rec) ELSE Finish(r, b, rec)
  /\ UNCHANGED <<registry, retired, probes>>

\* A timeout or a connection error, before the head or while the body is
\* streamed; a client that goes away meanwhile is a connection error too.
AttemptFails(r, timeout) ==
  /\ req[r].phase \in {"sent", "streaming"}
  /\ LET b == req[r].on
         rec == Disconnect(OnFailure(PassiveFailure(backends[b], timeout)))
     IN IF MayRetry(r) THEN TryAgain(r, b, rec) ELSE Finish(r, b, rec)
  /\ UNCHANGED <<registry, retired, probes>>

-----------------------------------------------------------------------------
(* Time and the health checker.                                            *)

\* recovery_timeout seconds have passed since the circuit of b opened.
CooldownElapses(b) ==
  /\ backends[b].circuit_state = "OPEN"
  /\ ~backends[b].cooled
  /\ backends' = [backends EXCEPT ![b].cooled = TRUE]
  /\ UNCHANGED <<registry, retired, pool, probes, req, trials>>

\* A round probes the backends listed when it starts, and the next one waits
\* for all of its answers: a removed backend may still be probed.
StartRound ==
  /\ Probing
  /\ probes = {}
  /\ probes' = Registered
  /\ UNCHANGED <<backends, registry, retired, pool, req, trials>>

ProbeEnds(b, ok) ==
  /\ b \in probes
  /\ probes' = probes \ {b}
  /\ backends' = [backends EXCEPT ![b] =
       IF ok THEN ProbeSuccess(@) ELSE ProbeFailure(@)]
  /\ UNCHANGED <<registry, retired, pool, req, trials>>

-----------------------------------------------------------------------------
(* The admin API.                                                          *)

\* POST: 409 if the id is in use, else a new object is made and added.
AddBackend(b) ==
  /\ "POST" \in AdminOps
  /\ registry[IdOf[b]] = NoBackend
  /\ b \notin retired
  /\ registry' = [registry EXCEPT ![IdOf[b]] = b]
  /\ UNCHANGED <<backends, retired, pool, probes, req, trials>>

\* DELETE: 404 if the id is not in use.
DeleteBackend(b) ==
  /\ "DELETE" \in AdminOps
  /\ registry[IdOf[b]] = b
  /\ registry' = [registry EXCEPT ![IdOf[b]] = NoBackend]
  /\ retired' = retired \cup {b}
  /\ UNCHANGED <<backends, pool, probes, req, trials>>

\* A body has "enabled" and "status", each possibly "absent".  The object is
\* looked up before the body is read, so it may have been removed meanwhile.
UpdateBackend(b, body) ==
  /\ "PATCH" \in AdminOps
  /\ b \in Registered \cup retired
  /\ backends' = [backends EXCEPT
       ![b].enabled = IF body.enabled = "absent" THEN @
                      ELSE body.enabled = "true",
       ![b].status = IF \/ body.status = "DRAINING"
                        \/ body.status = "HEALTHY" /\ @ = "DRAINING"
                     THEN body.status ELSE @]
  /\ UNCHANGED <<registry, retired, pool, probes, req, trials>>

-----------------------------------------------------------------------------
RequestStep(r) ==
  \/ Arrive(r)
  \/ BodyRefused(r)
  \/ BodyRead(r)
  \/ \E status \in Statuses : HeadArrives(r, status)
  \/ Succeeds(r)
  \/ ServerError(r)
  \/ \E timeout \in BOOLEAN : AttemptFails(r, timeout)

BackendStep(b) ==
  \/ CooldownElapses(b)
  \/ \E ok \in BOOLEAN : ProbeEnds(b, ok)
  \/ AddBackend(b)
  \/ DeleteBackend(b)
  \/ \E body \in PatchBodies : UpdateBackend(b, body)

Next ==
  \/ \E r \in Requests : RequestStep(r)
  \/ \E b \in Backends : BackendStep(b)
  \/ StartRound

Spec == Init /\ [][Next]_vars

-----------------------------------------------------------------------------
(* Fairness, for the liveness properties only.  The read timeout of the    *)
(* client session ends an attempt whose backend is silent; that a body     *)
(* being streamed ends is an assumption on backends and clients, for the   *)
(* session has no total timeout.                                           *)

Progress(r) ==
  \/ BodyRefused(r)
  \/ BodyRead(r)
  \/ \E status \in Statuses : HeadArrives(r, status)
  \/ Succeeds(r)
  \/ ServerError(r)
  \/ \E timeout \in BOOLEAN : AttemptFails(r, timeout)

FairSpec == Spec /\ \A r \in Requests : WF_vars(Progress(r))

\* Clients keep sending requests whose bodies arrive, and time passes.
BusySpec ==
  /\ FairSpec
  /\ \A r \in Requests : WF_vars(Arrive(r)) /\ SF_vars(BodyRead(r))
  /\ \A b \in Backends : WF_vars(CooldownElapses(b))

-----------------------------------------------------------------------------
(* Properties.                                                             *)

\* Every variable has its type; a request is on a backend exactly while an
\* attempt of it is under way.
TypeOK ==
  /\ backends \in [Backends -> Backend]
  /\ registry \in [Ids -> Backends \cup {NoBackend}]
  /\ retired \subseteq Backends
  /\ pool \in [Ids -> Nat]
  /\ probes \subseteq Backends
  /\ req \in [Requests -> Request]
  /\ trials \in [Backends -> SUBSET Requests]
  /\ \A r \in Requests :
       req[r].on \in Backends <=> req[r].phase \in {"sent", "streaming"}

\* No slot of a HALF_OPEN period outlives it, although a trip out of CLOSED
\* does not write half_open_in_flight: a later period starts with its full
\* budget whichever way the circuit got there (CircuitBreaker).
NoSlotOutsideHalfOpen ==
  \A b \in Backends :
    backends[b].circuit_state # "HALF_OPEN" =>
      backends[b].half_open_in_flight = 0

\* A HALF_OPEN backend has received no more requests in this period than slots
\* were taken, whatever late outcomes of older requests arrive meanwhile
\* (allow_request, _try_half_open and the second loop of _select).
HalfOpenBudget ==
  \A b \in Backends :
    Cardinality(trials[b]) <= backends[b].half_open_in_flight

\* A HALF_OPEN circuit can still reach one of the other states: it has a slot
\* left for a request, or a request under way whose outcome will end the period
\* ("HALF_OPEN --success--> CLOSED", "HALF_OPEN --failure--> OPEN" in the comment
\* of CircuitBreaker).
HalfOpenCanEnd ==
  \A b \in Backends :
    backends[b].circuit_state = "HALF_OPEN" =>
      HasHalfOpenSlot(backends[b]) \/ InFlight(b) # {}

\* The count the pool keeps for an id is the number of attempts under way on
\* objects with this id, over retries, failures, and objects removed and added
\* again under the same id (acquire, release of app/pool/connection_pool.py).
PoolMatchesInFlight ==
  \A i \in Ids :
    pool[i] = Cardinality({r \in Requests :
                req[r].on # NoBackend /\ IdOf[req[r].on] = i})

\* active_connections, which least_connections and latency_aware route by,
\* never exceeds the number of attempts under way on the backend.
ConnectionsNeverOvercount ==
  \A b \in Backends :
    backends[b].active_connections <= Cardinality(InFlight(b))

\* active_connections is the number of attempts under way on the backend.
ConnectionsExact ==
  \A b \in Backends :
    backends[b].active_connections = Cardinality(InFlight(b))

\* A request makes at most max_attempts attempts, and one whose method is not
\* retryable makes at most one (should_retry of app/resilience/retry.py).
BoundedAttempts ==
  \A r \in Requests :
    req[r].attempts <= IF r \in SafeRequests THEN AttemptLimit ELSE 1

\* The step sends a new attempt of r to b.
Sends(r, b) ==
  /\ req'[r].phase = "sent"
  /\ req'[r].on = b
  /\ req'[r].attempts # req[r].attempts

\* No attempt is sent to a backend whose circuit is OPEN before its cooldown is
\* over, not even a retry in the step that opened it (_proxy, allow_request).
OpenShedsTraffic ==
  [][\A r \in Requests, b \in Backends : Sends(r, b) =>
       /\ backends'[b].circuit_state # "OPEN"
       /\ backends[b].circuit_state = "OPEN" => backends[b].cooled]_vars

\* An attempt goes to a registered and enabled backend; it goes to one that is
\* UNHEALTHY, DRAINING or was OPEN only if no other backend is available and
\* admitted by its circuit (_select).
FallbackIsLastResort ==
  [][\A r \in Requests, b \in Backends : Sends(r, b) =>
       /\ b \in Registered
       /\ backends[b].enabled
       /\ \/ backends'[b].status = "HEALTHY" /\ backends[b].circuit_state # "OPEN"
          \/ \A c \in Registered \ {b, req[r].on} :
               ~(IsAvailable(backends[c]) /\ Allowed(backends[c]))]_vars

\* Each backend's circuit behaves as the breaker protocol, with the slots taken
\* as the requests admitted: \A b \in Backends : Breaker(b)!Spec, in the form in
\* which TLC can check it.
Breaker(b) == INSTANCE BreakerProtocol WITH
  Budget <- HalfOpenRequests,
  state <- backends[b].circuit_state,
  cooled <- backends[b].cooled,
  admitted <- backends[b].half_open_in_flight

BreakersFollowProtocol ==
  /\ \A b \in Backends : Breaker(b)!Init
  /\ [][\A b \in Backends : [Breaker(b)!Next]_(Breaker(b)!vars)]_vars

\* Every request that arrives is answered, however its attempts fail and are
\* retried (the loop of _proxy ends).
EveryRequestAnswered ==
  \A r \in Requests : req[r].phase = "reading" ~> req[r].phase = "done"

\* Another backend is available and its circuit admits a request: while there is
\* one, nobody asks the circuit of b when it is OPEN.
Relieved(b) ==
  \E c \in Registered \ {b} : IsAvailable(backends[c]) /\ Allowed(backends[c])

\* An OPEN circuit is tried again once its recovery timeout is over, unless its
\* backend is removed or disabled, or another one is there to take the traffic: not
\* only when there is no other, but also when the others are UNHEALTHY, OPEN, or
\* HALF_OPEN without a slot left (the second loop of _select).
OpenIsRetriedInNeed ==
  \A b \in Backends :
    backends[b].circuit_state = "OPEN" ~>
      \/ backends[b].circuit_state = "HALF_OPEN"
      \/ Relieved(b)
      \/ b \notin EnabledIn(backends)

\* When from some point on no attempt succeeds, the CLOSED circuit of a backend
\* that keeps receiving requests opens, whatever the health probes say: "a backend
\* may technically respond to health probes while failing real application
\* requests" (README.md, "Circuit Breaker").
FailingTrafficTrips ==
  <>[][\A r \in Requests : ~Succeeds(r)]_vars =>
    \A b \in Backends :
      []<>(InFlight(b) # {}) =>
        (backends[b].circuit_state = "CLOSED" ~> backends[b].circuit_state = "OPEN")

-----------------------------------------------------------------------------
(* What the documentation says and the code does not do: each of these is  *)
(* the property of a run that finds it violated.                           *)

\* Only the admin API takes a backend out of DRAINING, never a probe or traffic
\* (README.md, DRAINING leads to REMOVED).
DrainingIsKept ==
  [][\A b \in Backends :
       backends[b].status = "DRAINING" /\ backends'[b].status # "DRAINING" =>
         \E body \in PatchBodies : UpdateBackend(b, body)]_vars

\* A client gets one response head per request: no head is forwarded after
\* another one (README.md: receive, update the state, return the response).
OneAnswerPerRequest ==
  [][\A r \in Requests :
       req[r].answered /\ req[r].phase = "sent" => req'[r].phase # "streaming"]_vars

=============================================================================
