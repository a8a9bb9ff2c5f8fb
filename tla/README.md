# A TLA+ verification of the adaptive layer-7 load balancer

This directory models the load balancer in `app/` in TLA+, checks the models
with TLC on small instances, and proves the most important results for every
value of the constants with TLAPS. `PROJECT.json` lists the components, the
runs, the definitions with the lines they model, the mutants that show that each
property can fail, the hazards, the findings and the theorems.

## 1. The system

One process, one asyncio event loop. Everything below is a coroutine of that
loop, so a step is what a coroutine does between two points where it can really
suspend. Locks that are never held across a suspension (the pool's, the
controller's `_lock`) never suspend anybody, and neither does `select_backend`,
although all of these are awaited.

| Component | State | Operations | Talks to |
|---|---|---|---|
| Reverse proxy, `app/proxy.py` | the context of each request | `handle`, `_proxy`, `_select`, `_forward` | all others, on every request |
| Backend and registry, `app/models/backend.py` | `status`, `enabled`, `active_connections`, the consecutive counters, the circuit's fields; the objects by id | `record_success/failure`, `is_available`, `add`, `remove`, `available` | shared by proxy, monitors, breaker, admin API and strategies |
| Circuit breaker, `app/resilience/circuit_breaker.py` | none of its own: three fields of the backend | `allow_request`, `on_success`, `on_failure` | called by `_select` and `_proxy` |
| Passive monitor, `app/health/passive.py` | none: the backend's counters and status | `record_success`, `record_failure` | called by `_proxy` |
| Active checker, `app/health/active.py` | its task, the probes in flight | `_loop`, `_check_all`, `_check_one` | writes the same counters and status |
| Retry policy, `app/resilience/retry.py` | none: `retry_count` of the context | `should_retry` | called by `_proxy` |
| Connection pool, `app/pool/connection_pool.py` | the count of attempts per id, the client session | `acquire`, `release` | called by `_forward` and `_proxy` |
| Backpressure, `app/resilience/backpressure.py` | a semaphore, `_queue_size`, `current_active` | `acquire`, `release` | called by `handle` |
| Routing strategies, `app/routing/` | an index; current weights; none for the two load-aware ones, which read connections and latencies | `select_backend` | called by `_select` with the candidates |
| Admin API, `app/admin/routes.py` | none | POST, PATCH, DELETE | changes the registry and the backends |
| Lifecycle, `app/server.py`, `app/main.py` | the tasks, the site, the runner, the stop event | `build_strategy`, `start`, `stop`, `run` | builds, starts and stops the others |

The behaviours that are hard to test:

- **Late outcomes.** A request sent while a circuit was CLOSED reports its
  outcome when it is OPEN or HALF_OPEN. Nothing identifies it.
- **Asking is taking.** `allow_request` both answers and takes a slot, and
  `_select` asks backends it does not use.
- **Shared counters.** Live traffic and probes write the same consecutive
  counters; two monitors, the breaker and the admin API write the same status.
- **Retries.** The outcome, the `finally` clause and the next selection are one
  uninterrupted step, after the head of the failed answer may have been
  forwarded.
- **Objects outlive the registry.** A removed backend is still counted, probed
  and reported on; its id can be added again meanwhile.
- **Semaphore races.** A release grants a permit to a waiter whose timer may
  expire before its task runs.
- **Cancellation.** At the end of a stop handlers are cancelled at whatever they
  await: in the queue, with a permit on its way, in an attempt, in a stream. No
  `except` clause of theirs runs.
- **Order of stopping.** Checker, site, connections, handlers and pool end one
  after the other, while requests on open connections go on.
- **Feedback.** The load-aware strategies choose by connections and latencies
  that their own choices cause.
- **Changing lists.** The strategies keep positions and weights over lists of
  candidates that change from one call to the next.

What makes each component correct:

- breaker: only the drawn transitions, nothing sent while OPEN, at most
  `half_open_requests` requests in a HALF_OPEN period, no state without an exit;
- proxy: the counts of connections match the attempts under way, attempts are
  bounded, every request is answered, and the fallback is the last resort;
- registry and admin API: a removed backend gets no
  new requests, draining means no new requests;
- monitors: the configured number of failures marks a backend, and traffic that
  fails opens its circuit;
- backpressure: permits and counts are exact, no wakeup is lost, no one starves
  or is overtaken;
- the whole: a slot per handler and no attempts beyond the slots, a session that
  outlives its users, a stop that ends, and nothing held at the exit;
- strategies: a backend that stays available is served, in turns or according to
  its weight, no backend is given more than its share or stampeded, and a list that is not empty yields a backend.

## 2. The modules

| Module | Models | Correspondence |
|---|---|---|
| `BackendModel` | `Backend` | a record with the fields that decide routing; each method is an operator from record to record |
| `CircuitBreaker` | `CircuitBreaker` | `allow_request` is the pair `Allowed` (the answer) and `AllowRequest` (the backend afterwards); `OnSuccess`, `OnFailure` |
| `HealthMonitor` | both monitors | `PassiveSuccess/Failure`, `ProbeSuccess/Failure` |
| `ReverseProxy` | `_proxy`, `_select`, `_forward`, the pool's counts, the rounds of probes, the admin API | one action per segment between suspensions, see below |
| `BreakerProtocol` | abstract: what one circuit promises | implemented by every backend of `ReverseProxy` (`BreakersFollowProtocol`) |
| `Backpressure` | `acquire`, `release`, with the semaphore and `wait_for` of asyncio | one action per segment between suspensions |
| `AdmissionControl` | abstract: bounded running and waiting sets | implemented by `Backpressure` (`ImplementsAdmission`) |
| `LoadBalancer` | `handle` | `EXTENDS ReverseProxy` and instantiates `Backpressure`: `Enter` joins `acquire` returning True with the start of `_proxy`, `Work` the return of `_proxy` with the release |
| `Lifecycle` | `start`, `stop`, `run`, the checker's and the pool's `start` and `stop`, cancelled handlers | `EXTENDS LoadBalancer`; `stage` is the await that `start` or `stop` has reached |
| `Service` | abstract: what the application promises while it starts and stops | implemented by `Lifecycle` (`ImplementsService`) |
| `Candidates` | the lists `_select` hands to the strategies | the backends and the sets of them, in the order of the registry |
| `RoundRobin`, `WeightedRoundRobin` | the two strategies with state | one action per call of `select_backend`, the list of candidates being any |
| `LoadAware` | least connections and latency-aware routing, with what they read | `Begin` is a selection and the connection it causes; `Succeed`, `Fail` and `RetriedServerError` end attempts, the last one lowering the counter `active` twice; `held` are the attempts really under way; `Succeed` and `Probe` measure |
| `Routing` | `build_strategy` | instantiates the three modules of strategies; `strategy` is fixed at the start |
| `MCReverseProxy`, `MCLifecycle` | | ids of backends and bodies of PATCH, for the configurations |
| `ReverseProxyProofs`, `ConnectionProofs` | | the theorems about `ReverseProxy`; the second extends the first and holds those about counts of requests |
| `BackpressureProofs`, `LifecycleProofs` | | the theorems about `Backpressure`, and about `LoadBalancer` and `Lifecycle`, which instantiate it |
| `RoundRobinProofs`, `WeightedProofs`, `RoutingProofs` | | the theorems about the strategies with state, and about `Routing`, which carries these over and adds the two load-aware ones |
| `SelectionLemmas` | | least elements and sums: what a fold over a finite set comes to |

A request in `ReverseProxy` is `done` (no handler), `reading` (in
`request.read()`), `sent` (in `session.request`, before the head) or `streaming`
(the head is with the client, the body is being copied). `Arrive`,
`BodyRefused`, `BodyRead`, `HeadArrives`, `Succeeds`, `ServerError` and
`AttemptFails` move it. The last three do all that the code does until it
suspends again: the passive monitor, the breaker, the `finally` clause, and on a
retry the next selection up to the new attempt. `Attempt` is one turn of the
`while` loop: `Asked` are the backends `_select` calls `allow_request` on,
`Candidates` those that answered yes, and the strategy takes any of them. A
strategy that returns None for a non-empty list is the constant
`StrategyMaySkip`; `WeightedRoundRobin` shows that one does.

A `Backend` object is an element of `Backends`, and `IdOf` gives its id: an id
that is removed and added again is another object with the same id. `registry` is
the dict from ids to objects, `Registered` what `list_all` returns. `retired` are
the objects that left the registry; requests and probes may still hold them.

Abstractions, each stated where it is made:

- the consecutive counters saturate at the largest threshold they are compared
  with, because the code only compares them with `>=` and resets them;
- `circuit_opened_at` is the boolean `cooled`: the recovery timeout is over. The
  clock may pass it at any moment after the circuit opened, so a
  `recovery_timeout` of 0 or less differs only in that a retry within the very
  step that opened the circuit would find it over;
- a backend answers with a status out of `Statuses`, or fails, at any time;
- latencies are in `LoadAware` only, in units of 10 ms and rounded up or down;
  totals, headers, bodies, logging and metrics are left out.

`Lifecycle` takes aiohttp's `AppRunner` and `asyncio.run` as external code, as
`start`, `stop` and `main` use them. `cleanup` lets the connections that are open
start requests until it closes the idle ones (`CloseIdle`), waits for the
handlers, and cancels those still running when its timeout is over
(`HandlersEnd`), without awaiting them, so that they unwind (`Abandon`) while the
pool is being stopped or after that. `asyncio.run` awaits them at the exit. A
cancelled handler in `acquire` leaves the semaphore as one whose timer fired
does, but `_queue_size` stays counted up, because `acquire` catches
`TimeoutError` only. The admin API is left out of this module.

In `Backpressure` the semaphore is external code, modelled from CPython 3.12, the
version that `pyproject.toml` and the Dockerfile require, whose `Semaphore` and
`wait_for` are what `acquire` runs on. Tasks that
are ready resume in any order, which includes the event loop's first-in
first-out order.

## 3. What is checked

Every action and every disjunct of a next-state relation fires in some passing
run. Deadlock is checked in all of them but `lifecycle`, whose process exits.

| Run | Instance | Shows |
|---|---|---|
| `proxy_traffic` | 2 backends, 2 requests, 3 statuses, 2 attempts, probes, a strategy that may skip | types, the breaker protocol, the HALF_OPEN budget, OPEN sheds, the fallback is last, attempts are bounded, connections are never overcounted |
| `proxy_admin` | 1 id with 2 objects, 2 requests, 2 slots of HALF_OPEN, POST, PATCH, DELETE | the pool's count per id is exact, routing uses registered and enabled backends, HALF_OPEN can always end where there are no two backends to ask |
| `proxy_pair` | 2 backends, 2 requests, DELETE, no retried status, no probes, steady traffic | connections are exact, every request is answered, traffic that fails opens the circuits of the backends it is sent to, OPEN leads to HALF_OPEN where no other backend takes the traffic |
| `backpressure` | 2 slots, queue of 3, 5 requests | permits, counters, wakeups, order of service, refinement of `AdmissionControl`, no one starves |
| `routing` | all four strategies: 5 backends for round robin, 3 for the others, weights from 0 to 2 and PATCH, 4 attempts at once, one retried server error per backend between two idle moments, two latencies, two hashes | turns while the list is stable; shares follow weights but for the credits that earlier lists and weights left, exactly from rest, and are never ahead of them on the way; no credit piles up; who stays listed with a weight is served again; the even share of the peak, but for retried server errors; no stampede |
| `lifecycle` | 1 backend, 3 requests, 2 slots, a queue of 1, 2 attempts, a retried status, probes | a slot per handler, attempts within the slots, the session outlives its users, everything is given back at the exit, refinement of `Service`, a stop ends, who waits gets through |

Why the bounds are enough for the cases that matter. Two requests are the
smallest number at which a late outcome meets the recovery attempt of another
request; one of them is retryable and one is not. Two backends are enough for
asked and not selected, for the fallback and for a retry elsewhere. With a
health threshold of 1 and a circuit threshold of 2 a status changes before, with
and after the circuit. `proxy_admin` has two slots, so that a HALF_OPEN period has
several trials beside late outcomes. `proxy_pair` has the other
backend that decides whether an OPEN circuit is asked: it may be HEALTHY,
UNHEALTHY by timeouts, OPEN itself, HALF_OPEN with its slot taken, or gone. Status 500 is a server
error that is not retried, 503 one that is. Five requests over two slots and
three places in the queue give a full queue, a refusal, two waiters whose timers
race and one that arrives between a release and a resumption. In `lifecycle` the two slots
and one place give a request in each state of `Backpressure` beside two that run,
and the stop may fall between any two steps. In `routing` every list of candidates
is possible for round robin and the weighted strategy; the load-aware ones are
given lists of at least `MinListed` = 2 of 3, and 4 attempts at once, one more
than it takes to stampede a backend when `CapacityFactor` is scaled from 50 to 2,
because connections matter in proportion to it. `MaxRetried` = 1 is what lets a backend hold
3 of the 4 attempts beside another one in every list, one more than its even share.

The shares of the weighted strategy are stated per window: as many calls as the
weights of the list add up to, with neither the list nor a weight changing.
`carried` remembers the current weights at its beginning, because a list that
shrinks or a weight that is changed leaves debts behind, and a backend that leaves
takes its debt with it, so that the others keep a surplus. `Credit` is what such a
surplus is worth: one call for a backend that carried no debt in, and one more for
each whole round that it carried. `ShareFollowsWeights` says that a backend is
served at most its weight and its credit, and at least its weight less the credits
of the others. It is not enough that everybody carries less than a round: that the
shares are then within one of the weights holds with three backends, and the proof
of it failed for a good reason. With five, let A, B and D have the weights 5, 5 and
6. A call with these three serves D and leaves 5, 5 and -10. A and B are patched to
3 and D to 2, and a call with A, B, C (weight 1), D and E (weight 9) serves E and
leaves 8, 8, 1 and -8 to the others. E leaves, A and B are patched to 1, C to 4 and
D to 3: the total is 9, everybody carries less, and the next nine calls serve A, B,
C and D 2, 2, 4 and 1 times. D gets one call for a weight of 3, because A and B had
a credit of one each. `CreditIsBounded` says how large a surplus can become at all.

All counters but `retried` (bounded by `MaxRetried`) and the attempts of the
load-aware strategies (`MaxLoad`) are finite without further bounds: `attempts` is bounded by the limit plus one and a
retry is refused at the limit.

**Fairness.** `FairSpec` of `ReverseProxy` assumes that a request under way makes
a step: the session's `connect` and `sock_read` timeouts end an attempt with a
silent backend, and aiohttp ends reads of clients that leave. That a stream of
chunks ends is an assumption about backends and clients, because the session has
no total timeout. `BusySpec` adds clients that keep arriving and whose bodies
arrive (strong fairness of `BodyRead`, since a client may also give up), and a
clock that advances. Nothing is assumed of probes, outcomes, the strategy or the
admin API. `FairSpec` of `Backpressure` assumes that ready tasks run and active
requests end, but no timer. `FairSpec` of
`Routing` assumes for the weighted strategy that requests keep coming, not which
lists they come with. `FairLifecycle` assumes that `stop` runs on when what it
awaits has come, that the timeout of the cleanup passes, and that cancelled tasks
run; of handlers, clients and backends it assumes nothing, so that `StopCompletes`
covers streams that never end. `WaitersGetThrough` states the fairness of handlers
as its own premise, and needs no timer.

**What the documents say and the code does not do.** The runs named `doc_*`
each check one statement of the documentation that TLC refutes; the counterexample
is the shortest history. The findings in `PROJECT.json` quote both sides.

| Run | In short |
|---|---|
| `doc_connections` | a retried status counts a connection down twice |
| `doc_half_open` | slots of backends asked and not selected are never given back: HALF_OPEN for ever |
| `doc_trips` | successful probes reset the failures the circuit counts |
| `doc_drain_kept` | a DRAINING backend loses the status to a probe and returns to HEALTHY |
| `doc_answer` | a second head is forwarded after a retry |
| `doc_weighted` | no backend is selected from a list that is not empty |

Further differences that the models contain and that no run states: while
another backend is available nobody asks an OPEN circuit, so that it stays OPEN for
ever, however long ago its recovery timeout ended (README.md:338-345,
`proxy.py:209`; `OpenIsRetriedInNeed` says, with two backends, exactly when it is
tried again); after a retried server error least connections may add to a backend
that holds more than another (`least_connections.py:13`, the drift of
`doc_connections`; `EvenShareOfPeak` bounds what it costs); the second
loop of `_select` sends requests to DRAINING backends when nothing else is
admitted (README.md:512, "Stop receiving new requests"; `FallbackIsLastResort`
is what does hold); a late
outcome of an older request may decide a HALF_OPEN period (README.md:357); a
connection error never marks a backend UNHEALTHY (`passive.py:21`); a retry may
go to the backend that just failed (README.md:405); and under round robin a
backend that is in every list may never be selected when the length of the list
alternates. In the strategies: the hash term of the latency-aware score is fixed
in a process and below half a millisecond, so that without concurrent load a
slower backend is not tried again (README.md:271, `latency_aware.py:19`;
`NoStampede` is what load does); its docstring treats stale latencies as a higher
cost, and the code raises the cost only before the first success
(`latency_aware.py:26`); POST takes a weight that `config.py:36` refuses: with 0
the properties of the weighted strategy hold, with less than 0 a backend alone in
the list is never selected.

## 4. What is proved

All theorems hold for every value of the constants that the named assumptions
allow; the ones with a further hypothesis say so below.

### The proxy

`ReverseProxyProofs` proves about `Spec` of `ReverseProxy`, for any finite set of
requests, any set of backends and ids, all thresholds, statuses, retry settings
and admin operations, from `ThresholdsAssumption` and `ProxyAssumption` alone:

- `TypeCorrect`: `TypeOK` is inductive as it stands. Each record operator maps
  `Backend` to `Backend` (`HealthType`, `CircuitType`), an attempt keeps the
  types wherever its backends and counts come from (`AttemptType`), and so do the
  ends of attempts (`FinishType`, `TryAgainType`).
- `SlotsBelongToHalfOpen`, `BreakersImplementProtocol`: the argument is
  `CircuitStep`, the ways in which one step may change the three circuit fields
  of one backend. `NextCircuit` shows that each step is one of them, in
  particular that an outcome and the next selection, which are one step on a
  retry, never open and half-open a circuit at once. A trip out of CLOSED does
  not reset the slots, so that the refinement needs `NoSlotOutsideHalfOpen`,
  which is inductive by the same lemma. In a run `BreakersFollowProtocol` implies
  it, so that no run states it as well.
- `HalfOpenBudgeted`: `HalfOpenBudget` is not inductive. `TrialsInv` adds that
  there are no trials outside HALF_OPEN. An attempt adds one trial exactly where
  `AllowRequest` took a slot (`AllowedAdmits`, `AttemptBudget`).
- `AttemptsBounded`: `BoundedAttempts` is not inductive. `AttemptsInv` adds that
  the attempts of a request under way are one more than its retries, which stay
  below the limit and are 0 for a method that is not retryable.
- `OpenCircuitsShed`, `FallbackOnlyAsLastResort`: `SendsSelected` shows that a
  step which sends an attempt is a selection over some `bs`, the backends as the
  selection finds them (`FoundBySelection`): those of the state before, except
  that on a retry the failed attempt's backend already carries the outcome, which
  may open its circuit and never disables it. Both action properties then follow
  from what `Candidates(bs)` admits (`SelectedBackend`, `AllowedAdmits`).

`ConnectionProofs` adds what the counts need. `PoolMatchesInFlight` and
`ConnectionsNeverOvercount` are inductive together with `TypeOK`; the work is in
counting. The requests on a set of backends are those other than `r`, whom its
step leaves alone, and `r` itself (`OthersCount`), so that each step comes down to
where `r` was and where it lands (`Landing`, `Leaving`):

- `PoolCountsAreExact` for the objects that share an id, `NeverOvercounted` for one
  backend, where the floor at 0 of the counter and the double decrement both only
  take away;
- `ExactUnlessServerErrorsRetried`: with the hypothesis `~RetriesServerErrors` (no
  status of 500 or more is retried) the counters are exact. `doc_connections`
  shows the drift otherwise, so this is the whole of it;
- `HalfOpenIsDecided`: for any number of backends, in every behaviour whose steps
  satisfy `SlotsGoToSelected` (where a step takes a slot of a circuit, or lets it
  into HALF_OPEN, it sends a request to this backend), a HALF_OPEN circuit has a
  slot left or a request under way. The work is in the requests that leave: an
  attempt that leaves a HALF_OPEN backend closes or opens the circuit, and its
  retry, which selects in the same step, finds the cooldown just begun
  (`LeavingDecides`). A slot passed over is therefore the only way into the state
  without an exit that `doc_half_open` shows. `AloneIsDecided` is the case in which
  the hypothesis is never broken: one backend, at least one slot and a strategy that
  does not skip it; `proxy_admin` checks the wider case of an id whose objects are
  removed and added again, one at a time.

### Backpressure and the lifecycle

`BackpressureProofs`: the invariant is `Consistent`, which says of the semaphore's
value, the deque, the states of the requests and both counters how they hang
together: the deque lists the suspended requests once each, `value` and the
requests holding or being handed a permit add up to the maximum, and the counters
are cardinalities. It is stated with `queue_size` at least exact, because that is
what cancellation leaves of it in `Lifecycle`; the exact form is `GateInvExact`,
from which `CountersAreExact` follows.
`NoWakeupIsLost` is inductive beside it: a step that frees a permit or takes a
woken request out of the deque wakes the next one (`StepWakes`). The action
property `PermitsInOrder` and the refinement
`ControllerImplementsAdmission` go through the same case analysis by action.

`LifecycleProofs` cites these lemmas for the instance inside the application. The
inductive invariant `LifeInv` joins the types, the controller's invariant,
`SlotPerHandler`, the two counts of the proxy and `StageInv`: what has ended by
the time `stop` has reached each of its awaits. From it follow
`HandlersHoldSlots`, `BackendsAreShielded` (attempts are handlers, handlers hold
slots, slots are permits), `CountsSurviveCancellation`, `SessionOutlives`,
`ExitIsClean` and the refinement `ApplicationImplementsService`. A cancelled
handler unwinds in one step of `LifecycleSpec` (`Abandon`), and the proofs show
for every await that it leaves `LifeInv` intact.

The promises of the proxy hold of the whole application as well. A step of
`LifecycleSpec` is one of `ReverseProxy`, the cancellation of an attempt, or the
end of the probes (`StepsOfProxy`). A cancelled attempt leaves its backend without
an outcome and its circuit as it was (`AbandonedAttempt`), which is a step of every
circuit (`LifecycleCircuit`) and keeps the budget (`LifecycleBudget`), and it sends
nothing (`SendsInProxy`): `BreakersSurviveCancellation`,
`BudgetSurvivesCancellation`, `AttemptsStayBounded`, `SelectionSurvivesStop`.

### The strategies

- `RoundRobinProofs`: `TurnInv` says that the backends served in the turn are those
  at the places `first`, `first + 1`, ... modulo the length of the list, for some
  `first`. Places and backends correspond one to one (`EveryPlaceTaken`), so that
  no turn repeats one (`ServesInTurns`).
- `WeightedProofs`: inside a window the current weight of a backend is what it
  carried in, plus its weight per call, minus the total per call it served
  (`WindowInv`). With weights that are not negative the backend that is selected had
  at least 0, so that who was served owes no more than a round: `NeverAhead`. At the
  end of a window this bounds each backend from above by its weight and its credit;
  the calls add up to the weights, so that what a backend misses the others had
  (`OthersMakeUp`): `SharesFollowWeights`. In a window that carried nothing in, the
  current weights add up to 0 (`RestInv`), so that the leader had more than 0 and
  nobody owes a whole round; with the sum of the calls served this leaves no choice
  but the weights themselves (`SharesAreExact`). `CreditStaysBounded` needs more
  than a bound for each backend, which is not inductive. `CreditInv` bounds what any
  j of the N backends are owed together, by j (N - j + 1) rounds, where a round is N
  times the largest weight. A call adds at most a round and goes to the highest: j
  backends that are passed over are each no higher than the one served, so that they
  have at most j parts of j + 1 of what the j + 1 are owed (`FairerShare`), and
  those are fewer rounds per backend; who is served gives back what the call added
  (`LevelledStaysBelow`). With j = 1 that is N rounds. The hypothesis
  `WeightsNotNegative` is that of the configuration and of PATCH; POST alone can
  break it.
- `RoutingProofs`: every step of `Routing` is one of the strategy in use, which
  carries the theorems above over (`RoundRobinServesInTurns`, `WeightedIsExact`,
  `WeightedKeepsShares`, `WeightedNeverAhead`, `WeightedCreditIsBounded`,
  `TypeCorrect`), the weighted ones with `MinWeight` 0 or 1.
  `LeastConnectionsSharesPeak` rests on two facts that are inductive together
  (`ShareInv`): the counter misses no more attempts of a backend than server errors
  were retried on it since it was last idle (`MissedStep`), and the counter itself
  keeps an even share of the peak. The latter is a pigeonhole argument: the chosen
  backend has the lowest counter, counters never exceed the attempts under way, so
  every backend in the list holds as many, and together they stay below the peak
  (`LoadAtLeast`). Where nothing is retried (`MaxRetried` 0) the share is exact.
  `LatencyAwareSpreadsLoad` bounds both scores
  by the slowest and the fastest sample (`EstimatesBounded`, `ScoresBoundLoad`).
- `SelectionLemmas`: what a fold comes to, over a finite set and over parts of it
  (`Part`), in any order (`AnyElementOut`), is proved by the least counterexample,
  a least element of a set of natural numbers, since the induction theorems of the
  library take operators that the provers at hand cannot instantiate.

### Only model-checked

Liveness, for which the provers at hand have no support: `EveryRequestAnswered`,
`OpenIsRetriedInNeed`, `FailingTrafficTrips`, `NoStarvation`, `WaitersGetThrough`,
`StopCompletes`, `ServedWhileAvailable`.

Every other property of the passing runs is stated by a theorem.

## 5. What is not modelled, and the plan

Not modelled: metrics and logging (nothing depends on them), YAML parsing,
authentication and the answers of the admin API, header filtering, the aiohttp
connector behind the session, exceptions other than those `_proxy` catches and
`CancelledError`, a process that is killed (nothing is persisted), and the test
equipment (`backends/`, `benchmarks/`). A failed `site.start` is modelled, and
leaves the session open; a client that goes away while a body is streamed is
modelled as the failure of the backend that the code takes it for
(`AttemptFails`), and no property says that it should be one.

What is left to do:

1. Prove of round robin how often a backend is served over lists that change, or
   refute it with the alternating lists described in section 3.
