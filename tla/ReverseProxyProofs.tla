------------------------- MODULE ReverseProxyProofs -------------------------
(***************************************************************************)
(* Theorems about ReverseProxy, for every set of backends, finite set of   *)
(* handlers, thresholds, retry policy and admin activity.                  *)
(***************************************************************************)
EXTENDS ReverseProxy, FiniteSetTheorems, TLAPS

USE ThresholdsAssumption

-----------------------------------------------------------------------------
(* The operators on a backend return a backend.                            *)

\* Counting one more stays within the cap.
LEMMA CountUpToType ==
  ASSUME NEW cap \in Nat, NEW n \in 0..cap
  PROVE  CountUpTo(cap, n) \in 0..cap
BY DEF CountUpTo

LEMMA FailureCapType == FailureCap \in Nat
BY DEF FailureCap

\* Writing one field of a backend; an operator that writes several is a chain.
LEMMA FieldType ==
  ASSUME NEW x \in Backend
  PROVE  /\ \A v \in BackendStatus : [x EXCEPT !.status = v] \in Backend
         /\ \A v \in BOOLEAN : [x EXCEPT !.enabled = v] \in Backend
         /\ \A v \in Nat : [x EXCEPT !.active_connections = v] \in Backend
         /\ \A v \in 0..FailureCap :
              [x EXCEPT !.consecutive_failures = v] \in Backend
         /\ \A v \in 0..RecoveryThreshold :
              [x EXCEPT !.consecutive_successes = v] \in Backend
         /\ \A v \in CircuitState : [x EXCEPT !.circuit_state = v] \in Backend
         /\ \A v \in BOOLEAN : [x EXCEPT !.cooled = v] \in Backend
         /\ \A v \in 0..HalfOpenRequests :
              [x EXCEPT !.half_open_in_flight = v] \in Backend
BY DEF Backend

\* The values the operators write.
LEMMA FieldValues ==
  /\ 0 \in 0..FailureCap
  /\ 0 \in 0..RecoveryThreshold
  /\ 0 \in 0..HalfOpenRequests
  /\ BackendStatus = {"HEALTHY", "UNHEALTHY", "DRAINING"}
  /\ CircuitState = {"CLOSED", "OPEN", "HALF_OPEN"}
BY FailureCapType DEF BackendStatus, CircuitState

\* Counting a success or a failure keeps a backend a backend.
LEMMA RecordType ==
  ASSUME NEW x \in Backend
  PROVE  RecordSuccess(x) \in Backend /\ RecordFailure(x) \in Backend
<1>1. /\ x.consecutive_successes \in 0..RecoveryThreshold
      /\ x.consecutive_failures \in 0..FailureCap
  BY DEF Backend
<1>2. /\ CountUpTo(RecoveryThreshold, x.consecutive_successes) \in 0..RecoveryThreshold
      /\ CountUpTo(FailureCap, x.consecutive_failures) \in 0..FailureCap
  BY <1>1, CountUpToType, FailureCapType
<1>3. RecordSuccess(x) \in Backend
  BY <1>2, FieldValues, FieldType DEF RecordSuccess
<1>4. RecordFailure(x) \in Backend
  BY <1>2, FieldValues, FieldType DEF RecordFailure
<1> QED
  BY <1>3, <1>4

LEMMA HealthType ==
  ASSUME NEW x \in Backend, NEW serious
  PROVE  /\ PassiveSuccess(x) \in Backend
         /\ PassiveFailure(x, serious) \in Backend
         /\ ProbeSuccess(x) \in Backend
         /\ ProbeFailure(x) \in Backend
<1>1. "HEALTHY" \in BackendStatus /\ "UNHEALTHY" \in BackendStatus
  BY DEF BackendStatus
<1>2. ASSUME NEW y \in Backend
      PROVE  Recover(y) \in Backend /\ Degrade(y) \in Backend
  BY <1>1, FieldType DEF Recover, Degrade
<1> QED
  BY <1>2, RecordType
  DEF PassiveSuccess, PassiveFailure, ProbeSuccess, ProbeFailure

LEMMA CircuitType ==
  ASSUME NEW x \in Backend
  PROVE  /\ AllowRequest(x) \in Backend
         /\ OnSuccess(x) \in Backend
         /\ OnFailure(x) \in Backend
         /\ Disconnect(x) \in Backend
<1>1. /\ "CLOSED" \in CircuitState
      /\ "OPEN" \in CircuitState
      /\ "HALF_OPEN" \in CircuitState
  BY DEF CircuitState
<1>2. HalfOpen(x) \in Backend
  BY <1>1, FieldValues, FieldType DEF HalfOpen
<1>3. ASSUME NEW y \in Backend PROVE TryHalfOpen(y) \in Backend
  <2>1. CASE HasHalfOpenSlot(y)
    <3>1. y.half_open_in_flight + 1 \in 0..HalfOpenRequests
      BY <2>1 DEF HasHalfOpenSlot, Backend
    <3> QED
      BY <2>1, <3>1, FieldType DEF TryHalfOpen
  <2> QED
    BY <2>1 DEF TryHalfOpen
<1>4. AllowRequest(x) \in Backend
  BY <1>2, <1>3 DEF AllowRequest
<1>5. OnSuccess(x) \in Backend
  BY <1>1, FieldValues, FieldType DEF OnSuccess
<1>6. OnFailure(x) \in Backend
  BY <1>1, FieldValues, FieldType DEF OnFailure, Trip
<1>7. Disconnect(x) \in Backend
  <2>1. (IF x.active_connections > 0 THEN x.active_connections - 1 ELSE 0) \in Nat
    BY DEF Backend
  <2> QED
    BY <2>1, FieldType DEF Disconnect
<1> QED
  BY <1>4, <1>5, <1>6, <1>7

-----------------------------------------------------------------------------
(* Type correctness.                                                       *)

LEMMA NewBackendType == NewBackend \in Backend
BY FailureCapType DEF NewBackend, Backend, BackendStatus, CircuitState

LEMMA AttemptLimitType == AttemptLimit \in Nat
BY ProxyAssumption DEF AttemptLimit

LEMMA NewRequestType == NewRequest \in Request
BY AttemptLimitType DEF NewRequest, Request

LEMMA RequestFieldType ==
  ASSUME NEW x \in Request
  PROVE  /\ \A v \in {"done", "reading", "sent", "streaming"} :
              [x EXCEPT !.phase = v] \in Request
         /\ \A v \in Backends : [x EXCEPT !.on = v] \in Request
         /\ \A v \in Statuses \cup {0} : [x EXCEPT !.status = v] \in Request
         /\ \A v \in Nat : [x EXCEPT !.retry_count = v] \in Request
         /\ \A v \in 0..(AttemptLimit + 1) : [x EXCEPT !.attempts = v] \in Request
         /\ \A v \in BOOLEAN : [x EXCEPT !.answered = v] \in Request
BY DEF Request

LEMMA SentType ==
  ASSUME NEW ctx \in Request, NEW b \in Backends
  PROVE  /\ SentTo(ctx, b) \in Request
         /\ SentTo(ctx, b).on = b
         /\ SentTo(ctx, b).phase = "sent"
         /\ SentTo(ctx, b).attempts = CountUpTo(AttemptLimit + 1, ctx.attempts)
         /\ SentTo(ctx, b).retry_count = ctx.retry_count
<1>1. CountUpTo(AttemptLimit + 1, ctx.attempts) \in 0..(AttemptLimit + 1)
  BY CountUpToType, AttemptLimitType DEF Request
<1>2. SentTo(ctx, b) \in Request
  BY <1>1, RequestFieldType DEF SentTo
<1>3. /\ SentTo(ctx, b).on = b
      /\ SentTo(ctx, b).phase = "sent"
      /\ SentTo(ctx, b).attempts = CountUpTo(AttemptLimit + 1, ctx.attempts)
      /\ SentTo(ctx, b).retry_count = ctx.retry_count
  BY DEF SentTo, Request
<1> QED
  BY <1>2, <1>3

\* The on and phase of a context that is not of a request under way.
LEMMA NewRequestFields ==
  NewRequest.phase = "done" /\ NewRequest.on \notin Backends
BY ProxyAssumption DEF NewRequest

\* Replacing the context of one request keeps the part of TypeOK about req, if
\* the new context keeps it.
ContextOK(ctx) == ctx.on \in Backends <=> ctx.phase \in {"sent", "streaming"}

LEMMA ReqUpdateType ==
  ASSUME TypeOK, NEW r \in Requests, NEW ctx \in Request, ContextOK(ctx),
         req' = [req EXCEPT ![r] = ctx]
  PROVE  /\ req' \in [Requests -> Request]
         /\ \A q \in Requests :
              req'[q].on \in Backends <=> req'[q].phase \in {"sent", "streaming"}
BY DEF TypeOK, ContextOK

LEMMA CandidatesRegistered ==
  ASSUME NEW bs
  PROVE  Candidates(bs) \subseteq Registered /\ Candidates(bs) \subseteq Backends
BY DEF Candidates, Admitted, Asked, Available, EnabledIn, Registered

LEMMA AfterAskingType ==
  ASSUME NEW bs \in [Backends -> Backend]
  PROVE  AfterAsking(bs) \in [Backends -> Backend]
BY CircuitType DEF AfterAsking

LEMMA FieldsOf ==
  ASSUME NEW x \in Backend
  PROVE  /\ x.active_connections \in Nat
         /\ x.half_open_in_flight \in 0..HalfOpenRequests
         /\ x.circuit_state \in {"CLOSED", "OPEN", "HALF_OPEN"}
         /\ x.cooled \in BOOLEAN
BY DEF Backend, CircuitState

\* One more connection on b.
LEMMA ConnectType ==
  ASSUME NEW bs \in [Backends -> Backend], NEW b \in Backends
  PROVE  [bs EXCEPT ![b].active_connections = @ + 1] \in [Backends -> Backend]
<1>1. ASSUME NEW x \in Backend
      PROVE  [x EXCEPT !.active_connections = @ + 1] \in Backend
  <2>1. x.active_connections + 1 \in Nat
    BY FieldsOf
  <2> QED
    BY <2>1, FieldType
<1> QED
  BY <1>1

\* A count of the pool goes up or down.
LEMMA PoolType ==
  ASSUME NEW b \in Backends, NEW counts \in [Ids -> Nat]
  PROVE  /\ PoolAcquire(counts, b) \in [Ids -> Nat]
         /\ pool = counts => PoolRelease(b) \in [Ids -> Nat]
<1>1. IdOf[b] \in Ids
  BY ProxyAssumption
<1>2. counts[IdOf[b]] \in Nat
  BY <1>1
<1>3. PoolAcquire(counts, b) \in [Ids -> Nat]
  BY <1>1, <1>2 DEF PoolAcquire
<1>4. ASSUME pool = counts PROVE PoolRelease(b) \in [Ids -> Nat]
  <2>1. (IF counts[IdOf[b]] > 0 THEN counts[IdOf[b]] - 1 ELSE 0) \in Nat
    BY <1>2
  <2> QED
    BY <1>1, <1>4, <2>1 DEF PoolRelease
<1> QED
  BY <1>3, <1>4

\* An attempt keeps the types, wherever the backends and counts it starts from
\* come from.
LEMMA AttemptType ==
  ASSUME TypeOK, NEW r \in Requests, NEW ctx \in Request,
         NEW bs \in [Backends -> Backend], NEW counts \in [Ids -> Nat],
         Attempt(r, ctx, bs, counts),
         UNCHANGED <<registry, retired, probes>>
  PROVE  TypeOK'
<1>1. ASSUME NEW c \in SUBSET Backends
      PROVE  TrialsAfter(bs, AfterAsking(bs), r, c) \in [Backends -> SUBSET Requests]
  BY DEF TrialsAfter, TypeOK
<1>2. ASSUME NEW b \in Candidates(bs), Send(r, ctx, bs, counts, b)
      PROVE  TypeOK'
  <2>1. b \in Backends
    BY CandidatesRegistered DEF TypeOK
  <2>2. backends' \in [Backends -> Backend]
    BY <1>2, <2>1, AfterAskingType, ConnectType DEF Send
  <2>3. pool' \in [Ids -> Nat]
    BY <1>2, <2>1, PoolType DEF Send
  <2>4. ContextOK(SentTo(ctx, b))
    BY <2>1, SentType DEF ContextOK
  <2>5. req' = [req EXCEPT ![r] = SentTo(ctx, b)]
    BY <1>2 DEF Send
  <2>6. trials' \in [Backends -> SUBSET Requests]
    BY <1>1, <1>2, <2>1 DEF Send
  <2> QED
    BY <2>1, <2>2, <2>3, <2>4, <2>5, <2>6, SentType, ReqUpdateType DEF TypeOK
<1>3. ASSUME Unavailable(r, bs, counts)
      PROVE  TypeOK'
  <2>1. ContextOK(NewRequest)
    BY NewRequestFields DEF ContextOK
  <2>2. req' = [req EXCEPT ![r] = NewRequest]
    BY <1>3 DEF Unavailable
  <2>3. trials' \in [Backends -> SUBSET Requests]
    BY <1>1, <1>3 DEF Unavailable
  <2> QED
    BY <1>3, <2>1, <2>2, <2>3, NewRequestType, ReqUpdateType, AfterAskingType
    DEF TypeOK, Unavailable
<1> QED
  BY <1>2, <1>3 DEF Attempt

\* The same of the end of a request.
LEMMA FinishType ==
  ASSUME TypeOK, NEW r \in Requests, NEW b \in Backends, NEW rec \in Backend,
         Finish(r, b, rec), UNCHANGED <<registry, retired, probes>>
  PROVE  TypeOK'
<1>1. PoolRelease(b) \in [Ids -> Nat]
  BY PoolType DEF TypeOK
<1>2. ContextOK(NewRequest)
  BY NewRequestFields DEF ContextOK
<1>3. trials' \in [Backends -> SUBSET Requests]
  BY DEF Finish, TypeOK
<1> QED
  BY <1>1, <1>2, <1>3, NewRequestType, ReqUpdateType DEF TypeOK, Finish

LEMMA TryAgainType ==
  ASSUME TypeOK, NEW r \in Requests, NEW b \in Backends, NEW rec \in Backend,
         TryAgain(r, b, rec), UNCHANGED <<registry, retired, probes>>
  PROVE  TypeOK'
<1>1. PoolRelease(b) \in [Ids -> Nat]
  BY PoolType DEF TypeOK
<1>2. req[r] \in Request /\ req[r].retry_count + 1 \in Nat
  BY DEF TypeOK, Request
<1>3. NextTry(req[r]) \in Request
  BY <1>2, RequestFieldType DEF NextTry
<1>4. [backends EXCEPT ![b] = rec] \in [Backends -> Backend]
  BY DEF TypeOK
<1> QED
  BY <1>1, <1>3, <1>4, AttemptType DEF TryAgain

\* Each step of a request keeps the types.
LEMMA RequestStepType ==
  ASSUME TypeOK, NEW r \in Requests, RequestStep(r)
  PROVE  TypeOK'
<1>0. req[r] \in Request
  BY DEF TypeOK
<1>1. CASE Arrive(r)
  <2>1. [req[r] EXCEPT !.phase = "reading"] \in Request
    BY <1>0, RequestFieldType
  <2>2. ContextOK([req[r] EXCEPT !.phase = "reading"])
    BY <1>0, <1>1 DEF ContextOK, Arrive, TypeOK, Request
  <2>3. req' = [req EXCEPT ![r] = [req[r] EXCEPT !.phase = "reading"]]
    BY <1>1 DEF Arrive
  <2> QED
    BY <1>1, <2>1, <2>2, <2>3, ReqUpdateType DEF Arrive, TypeOK
<1>2. CASE BodyRefused(r)
  <2>1. ContextOK(NewRequest)
    BY NewRequestFields DEF ContextOK
  <2> QED
    BY <1>2, <2>1, NewRequestType, ReqUpdateType DEF BodyRefused, TypeOK
<1>3. CASE BodyRead(r)
  BY <1>0, <1>3, AttemptType DEF BodyRead, TypeOK
<1>4. ASSUME NEW status \in Statuses, HeadArrives(r, status)
      PROVE  TypeOK'
  <2> DEFINE ctx == [req[r] EXCEPT !.phase = "streaming", !.status = status,
                                   !.answered = TRUE]
  <2>1. ctx \in Request
    BY <1>0, RequestFieldType
  <2>2. ctx.on = req[r].on /\ ctx.phase = "streaming"
    BY <1>0 DEF Request
  <2>3. req[r].on \in Backends
    BY <1>4 DEF HeadArrives, TypeOK
  <2>4. ContextOK(ctx)
    BY <2>2, <2>3 DEF ContextOK
  <2>5. req' = [req EXCEPT ![r] = ctx]
    BY <1>4 DEF HeadArrives
  <2> QED
    BY <1>4, <2>1, <2>4, <2>5, ReqUpdateType DEF HeadArrives, TypeOK
<1>5. CASE Succeeds(r)
  <2>1. req[r].on \in Backends
    BY <1>5 DEF Succeeds, TypeOK
  <2>2. backends[req[r].on] \in Backend
    BY <2>1 DEF TypeOK
  <2> QED
    BY <1>5, <2>1, <2>2, HealthType, CircuitType, FinishType DEF Succeeds
<1>6. CASE ServerError(r)
  <2>1. req[r].on \in Backends
    BY <1>6 DEF ServerError, TypeOK
  <2>2. backends[req[r].on] \in Backend
    BY <2>1 DEF TypeOK
  <2>3. OnFailure(PassiveFailure(backends[req[r].on], TRUE)) \in Backend
    BY <2>2, HealthType, CircuitType
  <2> QED
    BY <1>6, <2>1, <2>3, CircuitType, FinishType, TryAgainType DEF ServerError
<1>7. ASSUME NEW timeout \in BOOLEAN, AttemptFails(r, timeout)
      PROVE  TypeOK'
  <2>1. req[r].on \in Backends
    BY <1>7 DEF AttemptFails, TypeOK
  <2>2. backends[req[r].on] \in Backend
    BY <2>1 DEF TypeOK
  <2>3. OnFailure(PassiveFailure(backends[req[r].on], timeout)) \in Backend
    BY <2>2, HealthType, CircuitType
  <2> QED
    BY <1>7, <2>1, <2>3, CircuitType, FinishType, TryAgainType DEF AttemptFails
<1> QED
  BY <1>1, <1>2, <1>3, <1>4, <1>5, <1>6, <1>7 DEF RequestStep

\* So does each step of the clock, the health checker and the admin API.
LEMMA BackendStepType ==
  ASSUME TypeOK, NEW b \in Backends, BackendStep(b)
  PROVE  TypeOK'
<1>0. backends[b] \in Backend
  BY DEF TypeOK
<1>1. CASE CooldownElapses(b)
  <2>1. [backends[b] EXCEPT !.cooled = TRUE] \in Backend
    BY <1>0, FieldType
  <2> QED
    BY <1>1, <2>1 DEF CooldownElapses, TypeOK
<1>2. ASSUME NEW ok \in BOOLEAN, ProbeEnds(b, ok)
      PROVE  TypeOK'
  <2>1. (IF ok THEN ProbeSuccess(backends[b]) ELSE ProbeFailure(backends[b]))
          \in Backend
    BY <1>0, HealthType
  <2> QED
    BY <1>2, <2>1 DEF ProbeEnds, TypeOK
<1>3. CASE AddBackend(b)
  BY <1>3 DEF AddBackend, TypeOK
<1>4. CASE DeleteBackend(b)
  BY <1>4 DEF DeleteBackend, TypeOK
<1>5. ASSUME NEW body \in PatchBodies, UpdateBackend(b, body)
      PROVE  TypeOK'
  <2> DEFINE on == IF body.enabled = "absent" THEN backends[b].enabled
                   ELSE body.enabled = "true"
             is == IF \/ body.status = "DRAINING"
                      \/ body.status = "HEALTHY" /\ backends[b].status = "DRAINING"
                   THEN body.status ELSE backends[b].status
  <2>1. on \in BOOLEAN /\ is \in BackendStatus
    BY <1>0 DEF Backend, BackendStatus
  <2>2. [backends[b] EXCEPT !.enabled = on] \in Backend
    BY <1>0, <2>1, FieldType
  <2>3. [[backends[b] EXCEPT !.enabled = on] EXCEPT !.status = is] \in Backend
    BY <2>1, <2>2, FieldType
  <2>4. backends' = [backends EXCEPT ![b] =
                       [[backends[b] EXCEPT !.enabled = on] EXCEPT !.status = is]]
    BY <1>0, <1>5 DEF UpdateBackend, TypeOK
  <2> QED
    BY <1>5, <2>3, <2>4 DEF UpdateBackend, TypeOK
<1> QED
  BY <1>1, <1>2, <1>3, <1>4, <1>5 DEF BackendStep

LEMMA InitType ==
  ASSUME Init
  PROVE  TypeOK
<1>1. \A r \in Requests :
        req[r].on \in Backends <=> req[r].phase \in {"sent", "streaming"}
  BY NewRequestFields DEF Init
<1>2. \A i \in Ids : Configured(i) \in Backends \cup {NoBackend}
  BY ProxyAssumption DEF Configured
<1> QED
  BY <1>1, <1>2, NewBackendType, NewRequestType, ProxyAssumption DEF Init, TypeOK

\* Type correctness: no record leaves its ranges, in particular no counter
\* of a backend goes below 0 or above its bound, and a request is on a backend
\* exactly while an attempt is under way.
THEOREM TypeCorrect == Spec => []TypeOK
<1>1. Init => TypeOK
  BY InitType
<1>2. TypeOK /\ [Next]_vars => TypeOK'
  <2> SUFFICES ASSUME TypeOK, [Next]_vars PROVE TypeOK'
    OBVIOUS
  <2>1. CASE StartRound
    BY <2>1 DEF StartRound, TypeOK, Registered
  <2>2. CASE UNCHANGED vars
    BY <2>2 DEF vars, TypeOK
  <2> QED
    BY <2>1, <2>2, RequestStepType, BackendStepType DEF Next
<1> QED
  BY <1>1, <1>2, PTL DEF Spec

-----------------------------------------------------------------------------
(* The circuit.                                                            *)

\* How the three fields of the circuit may change from backend x to backend y.
SameCircuit(x, y) ==
  /\ y.circuit_state = x.circuit_state
  /\ y.cooled = x.cooled
  /\ y.half_open_in_flight = x.half_open_in_flight

Opens(x, y) ==
  /\ x.circuit_state # "OPEN"
  /\ y.circuit_state = "OPEN"
  /\ y.cooled = FALSE
  /\ y.half_open_in_flight =
       IF x.circuit_state = "HALF_OPEN" THEN 0 ELSE x.half_open_in_flight

Closes(x, y) ==
  /\ x.circuit_state = "HALF_OPEN"
  /\ y.circuit_state = "CLOSED"
  /\ y.cooled = x.cooled
  /\ y.half_open_in_flight = 0

Cools(x, y) ==
  /\ x.circuit_state = "OPEN"
  /\ y.circuit_state = "OPEN"
  /\ y.cooled = TRUE
  /\ y.half_open_in_flight = x.half_open_in_flight

\* The first request of a HALF_OPEN period, and a further one.
HalfOpens(x, y) ==
  /\ x.circuit_state = "OPEN"
  /\ x.cooled
  /\ y.circuit_state = "HALF_OPEN"
  /\ y.cooled = FALSE
  /\ y.half_open_in_flight = IF HalfOpenRequests > 0 THEN 1 ELSE 0

Admits(x, y) ==
  /\ x.circuit_state = "HALF_OPEN"
  /\ y.circuit_state = "HALF_OPEN"
  /\ x.half_open_in_flight < HalfOpenRequests
  /\ y.half_open_in_flight = x.half_open_in_flight + 1
  /\ y.cooled = x.cooled

CircuitStep(x, y) ==
  \/ SameCircuit(x, y)
  \/ Opens(x, y)
  \/ Closes(x, y)
  \/ Cools(x, y)
  \/ HalfOpens(x, y)
  \/ Admits(x, y)

\* The operators on the health of a backend, on its connections, and on what
\* the admin API writes, leave its circuit alone.
LEMMA HealthKeepsCircuit ==
  ASSUME NEW x \in Backend, NEW serious
  PROVE  /\ SameCircuit(x, PassiveSuccess(x))
         /\ SameCircuit(x, PassiveFailure(x, serious))
         /\ SameCircuit(x, ProbeSuccess(x))
         /\ SameCircuit(x, ProbeFailure(x))
<1>1. /\ SameCircuit(x, RecordSuccess(x))
      /\ SameCircuit(x, RecordFailure(x))
  BY DEF SameCircuit, RecordSuccess, RecordFailure, Backend
<1>2. ASSUME NEW y \in Backend
      PROVE  SameCircuit(y, Recover(y)) /\ SameCircuit(y, Degrade(y))
  BY DEF SameCircuit, Recover, Degrade, Backend
<1>3. /\ SameCircuit(RecordSuccess(x), Recover(RecordSuccess(x)))
      /\ SameCircuit(RecordFailure(x), Degrade(RecordFailure(x)))
  BY <1>2, RecordType
<1> QED
  BY <1>1, <1>3
  DEF SameCircuit, PassiveSuccess, PassiveFailure, ProbeSuccess, ProbeFailure

LEMMA ConnectionsKeepCircuit ==
  ASSUME NEW x \in Backend, NEW n
  PROVE  /\ SameCircuit(x, [x EXCEPT !.active_connections = n])
         /\ SameCircuit(x, Disconnect(x))
BY DEF SameCircuit, Disconnect, Backend

\* A success may close the circuit, a failure may open it, and a request that
\* asks for admission may take it to HALF_OPEN or use one of its slots.
LEMMA OutcomeCircuit ==
  ASSUME NEW x \in Backend
  PROVE  /\ SameCircuit(x, OnSuccess(x)) \/ Closes(x, OnSuccess(x))
         /\ SameCircuit(x, OnFailure(x)) \/ Opens(x, OnFailure(x))
<1>1. SameCircuit(x, OnSuccess(x)) \/ Closes(x, OnSuccess(x))
  BY DEF SameCircuit, Closes, OnSuccess, Backend
<1>2. SameCircuit(x, OnFailure(x)) \/ Opens(x, OnFailure(x))
  BY DEF SameCircuit, Opens, OnFailure, Trip, Backend
<1> QED
  BY <1>1, <1>2

LEMMA AllowCircuit ==
  ASSUME NEW x \in Backend
  PROVE  \/ SameCircuit(x, AllowRequest(x))
         \/ HalfOpens(x, AllowRequest(x))
         \/ Admits(x, AllowRequest(x))
<1>1. CASE MayHalfOpen(x)
  <2>0. HalfOpen(x) \in Backend
    BY FieldValues, FieldType DEF HalfOpen
  <2>1. /\ HalfOpen(x) \in Backend
        /\ HalfOpen(x).circuit_state = "HALF_OPEN"
        /\ HalfOpen(x).cooled = FALSE
        /\ HalfOpen(x).half_open_in_flight = 0
    BY <2>0 DEF HalfOpen, Backend
  <2>2. /\ TryHalfOpen(HalfOpen(x)).circuit_state = "HALF_OPEN"
        /\ TryHalfOpen(HalfOpen(x)).cooled = FALSE
        /\ TryHalfOpen(HalfOpen(x)).half_open_in_flight =
             IF HalfOpenRequests > 0 THEN 1 ELSE 0
    BY <2>1 DEF TryHalfOpen, HasHalfOpenSlot, Backend
  <2> QED
    BY <1>1, <2>2 DEF AllowRequest, HalfOpens, MayHalfOpen
<1>2. CASE ~MayHalfOpen(x) /\ x.circuit_state = "HALF_OPEN"
  <2>1. SameCircuit(x, TryHalfOpen(x)) \/ Admits(x, TryHalfOpen(x))
    BY <1>2 DEF SameCircuit, Admits, TryHalfOpen, HasHalfOpenSlot, Backend
  <2> QED
    BY <1>2, <2>1 DEF AllowRequest
<1>3. CASE ~MayHalfOpen(x) /\ x.circuit_state # "HALF_OPEN"
  BY <1>3 DEF AllowRequest, SameCircuit
<1> QED
  BY <1>1, <1>2, <1>3

\* Selection moves each circuit by at most one admission, and the connection it
\* counts on the selected backend moves none.
LEMMA AttemptKeepsCircuits ==
  ASSUME NEW r, NEW ctx, NEW bs \in [Backends -> Backend], NEW counts,
         Attempt(r, ctx, bs, counts), NEW b \in Backends
  PROVE  SameCircuit(AfterAsking(bs)[b], backends'[b])
<1>1. AfterAsking(bs) \in [Backends -> Backend]
  BY AfterAskingType
<1>2. AfterAsking(bs)[b] \in Backend
  BY <1>1
<1>3. ASSUME NEW c, Send(r, ctx, bs, counts, c)
      PROVE  SameCircuit(AfterAsking(bs)[b], backends'[b])
  <2>1. CASE b = c
    <3>1. backends'[b] = [AfterAsking(bs)[b] EXCEPT
                            !.active_connections = AfterAsking(bs)[b].active_connections + 1]
      BY <1>1, <1>3, <2>1 DEF Send
    <3> QED
      BY <1>2, <3>1, ConnectionsKeepCircuit
  <2>2. CASE b # c
    <3>1. backends'[b] = AfterAsking(bs)[b]
      BY <1>1, <1>3, <2>2 DEF Send
    <3> QED
      BY <3>1 DEF SameCircuit
  <2> QED
    BY <2>1, <2>2
<1>4. ASSUME Unavailable(r, bs, counts)
      PROVE  SameCircuit(AfterAsking(bs)[b], backends'[b])
  BY <1>4 DEF Unavailable, SameCircuit
<1> QED
  BY <1>3, <1>4 DEF Attempt

LEMMA AttemptCircuit ==
  ASSUME TypeOK, NEW r, NEW ctx, NEW bs \in [Backends -> Backend], NEW counts,
         Attempt(r, ctx, bs, counts), NEW b \in Backends,
         SameCircuit(backends[b], bs[b]) \/ Opens(backends[b], bs[b])
  PROVE  CircuitStep(backends[b], backends'[b])
<1>1. SameCircuit(AfterAsking(bs)[b], backends'[b])
  BY AttemptKeepsCircuits
<1>2. bs[b] \in Backend
  OBVIOUS
<1>3. \/ SameCircuit(bs[b], AfterAsking(bs)[b])
      \/ HalfOpens(bs[b], AfterAsking(bs)[b])
      \/ Admits(bs[b], AfterAsking(bs)[b])
  <2>1. \/ AfterAsking(bs)[b] = bs[b]
        \/ AfterAsking(bs)[b] = AllowRequest(bs[b])
    BY DEF AfterAsking
  <2> QED
    BY <1>2, <2>1, AllowCircuit DEF SameCircuit
<1> QED
  BY <1>1, <1>3
  DEF CircuitStep, SameCircuit, Opens, HalfOpens, Admits

\* What a request leaves of the backend it was on.
LEMMA FinishCircuit ==
  ASSUME TypeOK, NEW r, NEW c \in Backends, NEW rec \in Backend,
         Finish(r, c, rec), CircuitStep(backends[c], rec), NEW b \in Backends
  PROVE  CircuitStep(backends[b], backends'[b])
<1>1. CASE b = c
  BY <1>1 DEF Finish, TypeOK
<1>2. CASE b # c
  BY <1>2 DEF Finish, TypeOK, CircuitStep, SameCircuit
<1> QED
  BY <1>1, <1>2

LEMMA TryAgainCircuit ==
  ASSUME TypeOK, NEW r, NEW c \in Backends, NEW rec \in Backend,
         TryAgain(r, c, rec),
         SameCircuit(backends[c], rec) \/ Opens(backends[c], rec),
         NEW b \in Backends
  PROVE  CircuitStep(backends[b], backends'[b])
<1> DEFINE bs == [backends EXCEPT ![c] = rec]
<1>1. bs \in [Backends -> Backend]
  BY DEF TypeOK
<1>2. SameCircuit(backends[b], bs[b]) \/ Opens(backends[b], bs[b])
  <2>1. CASE b = c
    BY <2>1 DEF TypeOK
  <2>2. CASE b # c
    BY <2>2 DEF TypeOK, SameCircuit
  <2> QED
    BY <2>1, <2>2
<1> HIDE DEF bs
<1>3. Attempt(r, NextTry(req[r]), bs, PoolRelease(c))
  BY DEF TryAgain, bs
<1> QED
  BY <1>1, <1>2, <1>3, AttemptCircuit

\* The outcome of an attempt: what success and failure do to the circuit.
LEMMA FailureCircuit ==
  ASSUME NEW x \in Backend, NEW serious
  PROVE  LET y == OnFailure(PassiveFailure(x, serious)) IN
           /\ y \in Backend
           /\ Disconnect(y) \in Backend
           /\ SameCircuit(x, y) \/ Opens(x, y)
           /\ SameCircuit(x, Disconnect(y)) \/ Opens(x, Disconnect(y))
           /\ Disconnect(Disconnect(y)) \in Backend
           /\ \/ SameCircuit(x, Disconnect(Disconnect(y)))
              \/ Opens(x, Disconnect(Disconnect(y)))
<1> DEFINE p == PassiveFailure(x, serious)
           y == OnFailure(p)
<1>1. p \in Backend /\ SameCircuit(x, p)
  BY HealthType, HealthKeepsCircuit
<1>2. y \in Backend /\ (SameCircuit(p, y) \/ Opens(p, y))
  BY <1>1, CircuitType, OutcomeCircuit
<1>3. SameCircuit(x, y) \/ Opens(x, y)
  BY <1>1, <1>2 DEF SameCircuit, Opens
<1>4. Disconnect(y) \in Backend /\ SameCircuit(y, Disconnect(y))
  BY <1>2, CircuitType, ConnectionsKeepCircuit
<1>5. /\ Disconnect(Disconnect(y)) \in Backend
      /\ SameCircuit(Disconnect(y), Disconnect(Disconnect(y)))
  BY <1>4, CircuitType, ConnectionsKeepCircuit
<1> QED
  BY <1>2, <1>3, <1>4, <1>5 DEF SameCircuit, Opens

LEMMA SuccessCircuit ==
  ASSUME NEW x \in Backend
  PROVE  LET y == Disconnect(OnSuccess(PassiveSuccess(x))) IN
           y \in Backend /\ (SameCircuit(x, y) \/ Closes(x, y))
<1> DEFINE p == PassiveSuccess(x)
           q == OnSuccess(p)
<1>1. p \in Backend /\ SameCircuit(x, p)
  BY HealthType, HealthKeepsCircuit
<1>2. q \in Backend /\ (SameCircuit(p, q) \/ Closes(p, q))
  BY <1>1, CircuitType, OutcomeCircuit
<1>3. Disconnect(q) \in Backend /\ SameCircuit(q, Disconnect(q))
  BY <1>2, CircuitType, ConnectionsKeepCircuit
<1> QED
  BY <1>1, <1>2, <1>3 DEF SameCircuit, Closes

\* Every step of the system moves every circuit by one step of the breaker, or
\* not at all.
LEMMA NextCircuit ==
  ASSUME TypeOK, [Next]_vars, NEW b \in Backends
  PROVE  CircuitStep(backends[b], backends'[b])
<1>0. backends[b] \in Backend
  BY DEF TypeOK
<1>1. ASSUME UNCHANGED backends
      PROVE  CircuitStep(backends[b], backends'[b])
  BY <1>1 DEF CircuitStep, SameCircuit
<1>2. ASSUME NEW r \in Requests, BodyRead(r)
      PROVE  CircuitStep(backends[b], backends'[b])
  <2>1. /\ SameCircuit(backends[b], backends[b])
        /\ backends \in [Backends -> Backend]
    BY DEF SameCircuit, TypeOK
  <2> QED
    BY <1>2, <2>1, AttemptCircuit DEF BodyRead
<1>3. ASSUME NEW r \in Requests, Succeeds(r)
      PROVE  CircuitStep(backends[b], backends'[b])
  <2> DEFINE c == req[r].on
             rec == Disconnect(OnSuccess(PassiveSuccess(backends[c])))
  <2>1. c \in Backends /\ backends[c] \in Backend
    BY <1>3 DEF Succeeds, TypeOK
  <2>2. rec \in Backend /\ CircuitStep(backends[c], rec)
    BY <2>1, SuccessCircuit DEF CircuitStep
  <2>3. Finish(r, c, rec)
    BY <1>3 DEF Succeeds
  <2> QED
    BY <2>1, <2>2, <2>3, FinishCircuit
<1>4. ASSUME NEW r \in Requests, ServerError(r)
      PROVE  CircuitStep(backends[b], backends'[b])
  <2> DEFINE c == req[r].on
             rec == OnFailure(PassiveFailure(backends[c], TRUE))
  <2>1. c \in Backends /\ backends[c] \in Backend
    BY <1>4 DEF ServerError, TypeOK
  <2>2. /\ Disconnect(rec) \in Backend
        /\ CircuitStep(backends[c], Disconnect(rec))
    BY <2>1, FailureCircuit DEF CircuitStep
  <2>3. /\ Disconnect(Disconnect(rec)) \in Backend
        /\ \/ SameCircuit(backends[c], Disconnect(Disconnect(rec)))
           \/ Opens(backends[c], Disconnect(Disconnect(rec)))
    BY <2>1, FailureCircuit
  <2>4. \/ TryAgain(r, c, Disconnect(Disconnect(rec)))
        \/ Finish(r, c, Disconnect(rec))
    BY <1>4 DEF ServerError
  <2> QED
    BY <2>1, <2>2, <2>3, <2>4, FinishCircuit, TryAgainCircuit
<1>5. ASSUME NEW r \in Requests, NEW timeout \in BOOLEAN, AttemptFails(r, timeout)
      PROVE  CircuitStep(backends[b], backends'[b])
  <2> DEFINE c == req[r].on
             rec == Disconnect(OnFailure(PassiveFailure(backends[c], timeout)))
  <2>1. c \in Backends /\ backends[c] \in Backend
    BY <1>5 DEF AttemptFails, TypeOK
  <2>2. /\ rec \in Backend
        /\ SameCircuit(backends[c], rec) \/ Opens(backends[c], rec)
    BY <2>1, FailureCircuit
  <2>3. TryAgain(r, c, rec) \/ Finish(r, c, rec)
    BY <1>5 DEF AttemptFails
  <2>4. CircuitStep(backends[c], rec)
    BY <2>2 DEF CircuitStep
  <2> QED
    BY <2>1, <2>2, <2>3, <2>4, FinishCircuit, TryAgainCircuit
<1>6. ASSUME NEW c \in Backends, CooldownElapses(c)
      PROVE  CircuitStep(backends[b], backends'[b])
  <2>1. CASE b = c
    <3>1. backends'[b] = [backends[b] EXCEPT !.cooled = TRUE]
      BY <1>6, <2>1 DEF CooldownElapses, TypeOK
    <3> QED
      BY <1>0, <1>6, <2>1, <3>1 DEF CooldownElapses, CircuitStep, Cools, Backend
  <2>2. CASE b # c
    BY <1>6, <2>2 DEF CooldownElapses, CircuitStep, SameCircuit, TypeOK
  <2> QED
    BY <2>1, <2>2
<1>7. ASSUME NEW c \in Backends, NEW ok \in BOOLEAN, ProbeEnds(c, ok)
      PROVE  CircuitStep(backends[b], backends'[b])
  <2>1. CASE b = c
    <3>1. backends'[b] = IF ok THEN ProbeSuccess(backends[b])
                         ELSE ProbeFailure(backends[b])
      BY <1>7, <2>1 DEF ProbeEnds, TypeOK
    <3>2. SameCircuit(backends[b], backends'[b])
      BY <1>0, <3>1, HealthKeepsCircuit
    <3> QED
      BY <3>2 DEF CircuitStep
  <2>2. CASE b # c
    BY <1>7, <2>2 DEF ProbeEnds, CircuitStep, SameCircuit, TypeOK
  <2> QED
    BY <2>1, <2>2
<1>8. ASSUME NEW c \in Backends, NEW body \in PatchBodies, UpdateBackend(c, body)
      PROVE  CircuitStep(backends[b], backends'[b])
  <2>1. /\ backends'[b].circuit_state = backends[b].circuit_state
        /\ backends'[b].cooled = backends[b].cooled
        /\ backends'[b].half_open_in_flight = backends[b].half_open_in_flight
    BY <1>0, <1>8 DEF UpdateBackend, TypeOK, Backend
  <2> QED
    BY <2>1 DEF CircuitStep, SameCircuit
<1> QED
  BY <1>1, <1>2, <1>3, <1>4, <1>5, <1>6, <1>7, <1>8
  DEF Next, RequestStep, BackendStep, Arrive, BodyRefused, HeadArrives,
      StartRound, AddBackend, DeleteBackend, vars

\* What a step of every circuit keeps, and how the protocol sees it.
LEMMA StepsKeepSlots ==
  ASSUME NoSlotOutsideHalfOpen,
         \A b \in Backends : CircuitStep(backends[b], backends'[b])
  PROVE  NoSlotOutsideHalfOpen'
<1> SUFFICES ASSUME NEW b \in Backends, backends'[b].circuit_state # "HALF_OPEN"
             PROVE  backends'[b].half_open_in_flight = 0
  BY DEF NoSlotOutsideHalfOpen
<1>1. CircuitStep(backends[b], backends'[b])
  OBVIOUS
<1> QED
  BY <1>1
  DEF NoSlotOutsideHalfOpen, CircuitStep, SameCircuit, Opens, Closes, Cools,
      HalfOpens, Admits

LEMMA StepsFollowProtocol ==
  ASSUME NoSlotOutsideHalfOpen, NEW b \in Backends,
         CircuitStep(backends[b], backends'[b])
  PROVE  [Breaker(b)!Next]_(Breaker(b)!vars)
BY DEF NoSlotOutsideHalfOpen, CircuitStep, SameCircuit, Opens, Closes, Cools, HalfOpens, Admits,
  Breaker!Next, Breaker!vars, Breaker!Open, Breaker!Close, Breaker!Cool,
  Breaker!Probe, Breaker!Admit

\* A period of HALF_OPEN starts with all of its slots: outside HALF_OPEN none
\* is taken.
THEOREM SlotsBelongToHalfOpen == Spec => []NoSlotOutsideHalfOpen
<1>1. Init => NoSlotOutsideHalfOpen
  BY DEF Init, NewBackend, NoSlotOutsideHalfOpen
<1>2. TypeOK /\ NoSlotOutsideHalfOpen /\ [Next]_vars => NoSlotOutsideHalfOpen'
  BY NextCircuit, StepsKeepSlots
<1> QED
  BY <1>1, <1>2, TypeCorrect, PTL DEF Spec

\* The breaker of each backend implements the breaker protocol: whatever
\* traffic, probes and the admin API do, its circuit moves along the drawn
\* arrows, leaves OPEN only after the cooldown and admits at most
\* half_open_requests requests in one HALF_OPEN period.  That opening the
\* circuit leaves no slot taken needs SlotsBelongToHalfOpen: a trip out of CLOSED
\* does not write half_open_in_flight.
THEOREM BreakersImplementProtocol == Spec => BreakersFollowProtocol
<1>1. Init => \A b \in Backends : Breaker(b)!Init
  BY DEF Init, NewBackend, Breaker!Init
<1>2. TypeOK /\ NoSlotOutsideHalfOpen /\ [Next]_vars =>
        \A b \in Backends : [Breaker(b)!Next]_(Breaker(b)!vars)
  BY NextCircuit, StepsFollowProtocol
<1> QED
  BY <1>1, <1>2, TypeCorrect, SlotsBelongToHalfOpen, PTL
  DEF Spec, BreakersFollowProtocol

-----------------------------------------------------------------------------
(* The attempts of a request.                                              *)

\* An attempt is one more than the retries counted, the retries stay below the
\* limit, and only a request with a retryable method has any.
AttemptsInv ==
  \A r \in Requests :
    /\ req[r].phase \in {"done", "reading"} =>
         req[r].attempts = 0 /\ req[r].retry_count = 0
    /\ req[r].phase \in {"sent", "streaming"} =>
         /\ req[r].attempts = req[r].retry_count + 1
         /\ req[r].retry_count < AttemptLimit
         /\ r \notin SafeRequests => req[r].retry_count = 0

\* What an attempt makes of the contexts.
LEMMA AttemptReq ==
  ASSUME TypeOK, NEW r \in Requests, NEW ctx, NEW bs, NEW counts,
         Attempt(r, ctx, bs, counts)
  PROVE  \/ req' = [req EXCEPT ![r] = NewRequest]
         \/ \E b \in Backends : req' = [req EXCEPT ![r] = SentTo(ctx, b)]
BY CandidatesRegistered DEF Attempt, Send, Unavailable, TypeOK

\* A new context that satisfies AttemptsInv for its request keeps it.
LEMMA AttemptsUpdate ==
  ASSUME TypeOK, AttemptsInv, NEW r \in Requests, NEW ctx \in Request,
         req' = [req EXCEPT ![r] = ctx],
         ctx.phase \in {"done", "reading"} =>
           ctx.attempts = 0 /\ ctx.retry_count = 0,
         ctx.phase \in {"sent", "streaming"} =>
           /\ ctx.attempts = ctx.retry_count + 1
           /\ ctx.retry_count < AttemptLimit
           /\ r \notin SafeRequests => ctx.retry_count = 0
  PROVE  AttemptsInv'
BY DEF AttemptsInv, TypeOK

LEMMA FinishedAttempts ==
  ASSUME TypeOK, AttemptsInv, NEW r \in Requests,
         req' = [req EXCEPT ![r] = NewRequest]
  PROVE  AttemptsInv'
<1>1. /\ NewRequest.phase = "done"
      /\ NewRequest.attempts = 0
      /\ NewRequest.retry_count = 0
  BY DEF NewRequest
<1> QED
  BY <1>1, NewRequestType, AttemptsUpdate

\* An attempt of a context whose retries allow it.
LEMMA AttemptCounts ==
  ASSUME TypeOK, AttemptsInv, NEW r \in Requests, NEW ctx \in Request,
         NEW bs, NEW counts, Attempt(r, ctx, bs, counts),
         ctx.attempts = ctx.retry_count,
         ctx.retry_count < AttemptLimit,
         r \notin SafeRequests => ctx.retry_count = 0
  PROVE  AttemptsInv'
<1>1. ASSUME NEW b \in Backends, req' = [req EXCEPT ![r] = SentTo(ctx, b)]
      PROVE  AttemptsInv'
  <2>1. ctx.attempts \in Nat /\ ctx.retry_count \in Nat
    BY DEF Request
  <2>2. CountUpTo(AttemptLimit + 1, ctx.attempts) = ctx.attempts + 1
    BY <2>1, AttemptLimitType DEF CountUpTo
  <2> QED
    BY <1>1, <2>1, <2>2, SentType, AttemptsUpdate
<1> QED
  BY <1>1, AttemptReq, FinishedAttempts

LEMMA RetryCounts ==
  ASSUME TypeOK, AttemptsInv, NEW r \in Requests, NEW b, NEW rec,
         req[r].phase \in {"sent", "streaming"},
         MayRetry(r), TryAgain(r, b, rec)
  PROVE  AttemptsInv'
<1> DEFINE ctx == NextTry(req[r])
<1>1. /\ req[r] \in Request
      /\ req[r].retry_count \in Nat
      /\ req[r].retry_count + 1 \in Nat
  BY DEF TypeOK, Request
<1>2. ctx \in Request
  BY <1>1, RequestFieldType DEF NextTry
<1>3. /\ ctx.retry_count = req[r].retry_count + 1
      /\ ctx.attempts = req[r].attempts
  BY <1>1 DEF NextTry, Request
<1>4. /\ req[r].attempts = req[r].retry_count + 1
      /\ req[r].retry_count + 1 < AttemptLimit
      /\ r \in SafeRequests
  BY <1>1, ProxyAssumption DEF AttemptsInv, MayRetry, AttemptLimit
<1> HIDE DEF ctx
<1>5. Attempt(r, ctx, [backends EXCEPT ![b] = rec], PoolRelease(b))
  BY DEF TryAgain, ctx
<1> QED
  BY <1>2, <1>3, <1>4, <1>5, AttemptCounts

LEMMA AttemptsNext ==
  ASSUME TypeOK, AttemptsInv, [Next]_vars
  PROVE  AttemptsInv'
<1>1. ASSUME UNCHANGED req
      PROVE  AttemptsInv'
  BY <1>1 DEF AttemptsInv
<1>2. ASSUME NEW r \in Requests, RequestStep(r)
      PROVE  AttemptsInv'
  <2>0. req[r] \in Request
    BY DEF TypeOK
  <2>1. CASE Arrive(r)
    <3>1. [req[r] EXCEPT !.phase = "reading"] \in Request
      BY <2>0, RequestFieldType
    <3>2. /\ [req[r] EXCEPT !.phase = "reading"].phase = "reading"
          /\ [req[r] EXCEPT !.phase = "reading"].attempts = 0
          /\ [req[r] EXCEPT !.phase = "reading"].retry_count = 0
      BY <2>0, <2>1 DEF Arrive, AttemptsInv, Request
    <3> QED
      BY <2>1, <3>1, <3>2, AttemptsUpdate DEF Arrive
  <2>2. CASE BodyRefused(r)
    BY <2>2, FinishedAttempts DEF BodyRefused
  <2>3. CASE BodyRead(r)
    <3>1. /\ req[r].attempts = 0
          /\ req[r].retry_count = 0
          /\ 0 < AttemptLimit
      BY <2>3, ProxyAssumption DEF BodyRead, AttemptsInv, AttemptLimit
    <3> QED
      BY <2>0, <2>3, <3>1, AttemptCounts DEF BodyRead
  <2>4. ASSUME NEW status \in Statuses, HeadArrives(r, status)
        PROVE  AttemptsInv'
    <3> DEFINE ctx == [req[r] EXCEPT !.phase = "streaming", !.status = status,
                                     !.answered = TRUE]
    <3>1. ctx \in Request
      BY <2>0, RequestFieldType
    <3>2. /\ ctx.phase = "streaming"
          /\ ctx.attempts = req[r].attempts
          /\ ctx.retry_count = req[r].retry_count
      BY <2>0 DEF Request
    <3>3. req' = [req EXCEPT ![r] = ctx]
      BY <2>4 DEF HeadArrives
    <3>4. /\ req[r].attempts = req[r].retry_count + 1
          /\ req[r].retry_count < AttemptLimit
          /\ r \notin SafeRequests => req[r].retry_count = 0
      BY <2>4 DEF HeadArrives, AttemptsInv
    <3> HIDE DEF ctx
    <3> QED
      BY <3>1, <3>2, <3>3, <3>4, AttemptsUpdate
  <2>5. CASE Succeeds(r)
    BY <2>5, FinishedAttempts DEF Succeeds, Finish
  <2>6. CASE ServerError(r)
    <3> DEFINE b == req[r].on
               rec == OnFailure(PassiveFailure(backends[b], TRUE))
    <3>1. \/ MayRetry(r) /\ TryAgain(r, b, Disconnect(Disconnect(rec)))
          \/ Finish(r, b, Disconnect(rec))
      BY <2>6 DEF ServerError
    <3>2. req[r].phase \in {"sent", "streaming"}
      BY <2>6 DEF ServerError
    <3> HIDE DEF b, rec
    <3> QED
      BY <3>1, <3>2, FinishedAttempts, RetryCounts DEF Finish
  <2>7. ASSUME NEW timeout \in BOOLEAN, AttemptFails(r, timeout)
        PROVE  AttemptsInv'
    BY <2>7, FinishedAttempts, RetryCounts DEF AttemptFails, Finish
  <2> QED
    BY <1>2, <2>1, <2>2, <2>3, <2>4, <2>5, <2>6, <2>7 DEF RequestStep
<1> QED
  BY <1>1, <1>2
  DEF Next, BackendStep, StartRound, vars, CooldownElapses, ProbeEnds,
      AddBackend, DeleteBackend, UpdateBackend

LEMMA AttemptsWithinLimit ==
  ASSUME TypeOK, AttemptsInv
  PROVE  BoundedAttempts
<1> SUFFICES ASSUME NEW r \in Requests
             PROVE  req[r].attempts <= IF r \in SafeRequests THEN AttemptLimit ELSE 1
  BY DEF BoundedAttempts
<1>1. /\ req[r].attempts \in Nat
      /\ req[r].retry_count \in Nat
      /\ req[r].phase \in {"done", "reading", "sent", "streaming"}
  BY DEF TypeOK, Request
<1> QED
  BY <1>1, AttemptLimitType DEF AttemptsInv

\* Retries are bounded: whatever fails, and however often, a request makes at
\* most max_attempts attempts, and only one if its method is not retryable.
THEOREM AttemptsBounded == Spec => []BoundedAttempts
<1>1. Init => AttemptsInv
  BY DEF Init, NewRequest, AttemptsInv
<1>2. TypeOK /\ AttemptsInv /\ [Next]_vars => AttemptsInv'
  BY AttemptsNext
<1>3. TypeOK /\ AttemptsInv => BoundedAttempts
  BY AttemptsWithinLimit
<1> QED
  BY <1>1, <1>2, <1>3, TypeCorrect, PTL DEF Spec

-----------------------------------------------------------------------------
(* The budget of a HALF_OPEN period.                                       *)

\* A backend whose circuit admits a request is CLOSED, or the request takes a
\* slot of its HALF_OPEN period.
LEMMA AllowedAdmits ==
  ASSUME NEW x \in Backend, Allowed(x)
  PROVE  \/ x.circuit_state = "CLOSED" /\ SameCircuit(x, AllowRequest(x))
         \/ HalfOpens(x, AllowRequest(x)) /\ HalfOpenRequests > 0
         \/ Admits(x, AllowRequest(x))
<1>1. CASE MayHalfOpen(x)
  <2>0. HalfOpen(x) \in Backend
    BY FieldValues, FieldType DEF HalfOpen
  <2>1. HalfOpen(x).half_open_in_flight = 0
    BY DEF HalfOpen, Backend
  <2>2. HalfOpenRequests > 0
    BY <1>1, <2>1 DEF Allowed, HasHalfOpenSlot, MayHalfOpen
  <2> QED
    BY <1>1, <2>2, AllowCircuit DEF MayHalfOpen, Admits, HalfOpens, SameCircuit,
      AllowRequest, TryHalfOpen, HasHalfOpenSlot, HalfOpen, Backend
<1>2. CASE ~MayHalfOpen(x) /\ x.circuit_state = "HALF_OPEN"
  <2>1. HasHalfOpenSlot(x)
    BY <1>2 DEF Allowed
  <2>2. AllowRequest(x) = [x EXCEPT !.half_open_in_flight = @ + 1]
    BY <1>2, <2>1 DEF AllowRequest, TryHalfOpen
  <2> QED
    BY <1>2, <2>1, <2>2 DEF Admits, HasHalfOpenSlot, Backend
<1>3. CASE ~MayHalfOpen(x) /\ x.circuit_state # "HALF_OPEN"
  BY <1>3 DEF Allowed, AllowRequest, SameCircuit
<1> QED
  BY <1>1, <1>2, <1>3

\* The steps other than attempts and their outcomes.
QuietStep ==
  \/ \E r \in Requests :
       \/ Arrive(r)
       \/ BodyRefused(r)
       \/ \E status \in Statuses : HeadArrives(r, status)
  \/ \E b \in Backends : BackendStep(b)
  \/ StartRound
  \/ UNCHANGED vars

\* They leave each circuit alone or let its cooldown elapse.
LEMMA QuietCircuit ==
  ASSUME TypeOK, QuietStep, NEW b \in Backends
  PROVE  /\ trials' = trials
         /\ \/ SameCircuit(backends[b], backends'[b])
            \/ Cools(backends[b], backends'[b])
<1>0. backends[b] \in Backend
  BY DEF TypeOK
<1>1. trials' = trials
  BY DEF QuietStep, BackendStep, Arrive, BodyRefused, HeadArrives, StartRound,
    CooldownElapses, ProbeEnds, AddBackend, DeleteBackend, UpdateBackend, vars
<1>2. CASE UNCHANGED backends
  BY <1>1, <1>2 DEF SameCircuit
<1>3. ASSUME NEW c \in Backends, CooldownElapses(c)
      PROVE  \/ SameCircuit(backends[b], backends'[b])
             \/ Cools(backends[b], backends'[b])
  <2>1. CASE b = c
    <3>1. backends'[b] = [backends[b] EXCEPT !.cooled = TRUE]
      BY <1>3, <2>1 DEF CooldownElapses, TypeOK
    <3> QED
      BY <1>0, <1>3, <2>1, <3>1 DEF CooldownElapses, Cools, Backend
  <2>2. CASE b # c
    BY <1>3, <2>2 DEF CooldownElapses, SameCircuit, TypeOK
  <2> QED
    BY <2>1, <2>2
<1>4. ASSUME NEW c \in Backends, NEW ok \in BOOLEAN, ProbeEnds(c, ok)
      PROVE  SameCircuit(backends[b], backends'[b])
  <2>1. CASE b = c
    <3>1. backends'[b] = IF ok THEN ProbeSuccess(backends[b])
                         ELSE ProbeFailure(backends[b])
      BY <1>4, <2>1 DEF ProbeEnds, TypeOK
    <3> QED
      BY <1>0, <3>1, HealthKeepsCircuit
  <2>2. CASE b # c
    BY <1>4, <2>2 DEF ProbeEnds, SameCircuit, TypeOK
  <2> QED
    BY <2>1, <2>2
<1>5. ASSUME NEW c \in Backends, NEW body \in PatchBodies, UpdateBackend(c, body)
      PROVE  SameCircuit(backends[b], backends'[b])
  BY <1>0, <1>5 DEF UpdateBackend, TypeOK, Backend, SameCircuit
<1>6. \/ UNCHANGED backends
      \/ \E c \in Backends : CooldownElapses(c)
      \/ \E c \in Backends, ok \in BOOLEAN : ProbeEnds(c, ok)
      \/ \E c \in Backends, body \in PatchBodies : UpdateBackend(c, body)
  BY DEF QuietStep, BackendStep, Arrive, BodyRefused, HeadArrives, StartRound,
    AddBackend, DeleteBackend, vars
<1> QED
  BY <1>1, <1>2, <1>3, <1>4, <1>5, <1>6

\* The trials of a backend, given its trials and the state of its circuit.
WithinBudget(s, x) ==
  /\ Cardinality(s) <= x.half_open_in_flight
  /\ x.circuit_state # "HALF_OPEN" => s = {}

TrialsInv == \A b \in Backends : WithinBudget(trials[b], backends[b])

LEMMA NoTrials == Cardinality({}) = 0
BY FS_EmptySet

LEMMA OneMoreTrial ==
  ASSUME NEW s \in SUBSET Requests, NEW r \in Requests
  PROVE  /\ Cardinality(s) \in Nat
         /\ Cardinality(s \cup {r}) \in Nat
         /\ Cardinality(s \cup {r}) <= Cardinality(s) + 1
<1>1. IsFiniteSet(s)
  BY ProxyAssumption, FS_Subset
<1>2. IsFiniteSet(s \cup {r})
  BY <1>1, FS_AddElement
<1>3. /\ Cardinality(s) \in Nat
      /\ Cardinality(s \cup {r}) \in Nat
  BY <1>1, <1>2, FS_CardinalityType
<1>4. \/ Cardinality(s \cup {r}) = Cardinality(s)
      \/ Cardinality(s \cup {r}) = Cardinality(s) + 1
  BY <1>1, FS_AddElement
<1> QED
  BY <1>3, <1>4

\* An attempt adds at most one trial, and only to a backend that gave it a slot.
LEMMA AttemptBudget ==
  ASSUME TypeOK, TrialsInv, NEW r \in Requests, NEW ctx,
         NEW bs \in [Backends -> Backend], NEW counts,
         Attempt(r, ctx, bs, counts), NEW b \in Backends,
         SameCircuit(backends[b], bs[b]) \/ Opens(backends[b], bs[b])
  PROVE  WithinBudget(trials'[b], backends'[b])
<1> DEFINE after == AfterAsking(bs)
<1>0. /\ bs[b] \in Backend
      /\ trials[b] \in SUBSET Requests
      /\ after[b] \in Backend
  BY AfterAskingType DEF TypeOK
<1>1. SameCircuit(after[b], backends'[b])
  BY AttemptKeepsCircuits
<1>2. PICK chosen \in SUBSET Backends :
        /\ chosen \subseteq Candidates(bs)
        /\ trials' = TrialsAfter(bs, after, r, chosen)
  BY CandidatesRegistered DEF Attempt, Send, Unavailable, TypeOK
<1>3. trials'[b] =
        IF after[b].circuit_state # "HALF_OPEN" THEN {}
        ELSE (IF bs[b].circuit_state = "HALF_OPEN" THEN trials[b] ELSE {})
             \cup (IF b \in chosen THEN {r} ELSE {})
  BY <1>2 DEF TrialsAfter
<1>4. /\ after[b].half_open_in_flight \in Nat
      /\ bs[b].half_open_in_flight \in Nat
  BY <1>0, FieldsOf
<1>5. CASE b \in chosen
  <2>1. Allowed(bs[b]) /\ b \in Asked(bs)
    BY <1>2, <1>5 DEF Candidates, Admitted
  <2>2. after[b] = AllowRequest(bs[b])
    BY <2>1 DEF AfterAsking
  <2>3. \/ bs[b].circuit_state = "CLOSED" /\ SameCircuit(bs[b], after[b])
        \/ HalfOpens(bs[b], after[b]) /\ HalfOpenRequests > 0
        \/ Admits(bs[b], after[b])
    BY <1>0, <2>1, <2>2, AllowedAdmits
  <2> HIDE DEF after
  <2>4. CASE bs[b].circuit_state = "CLOSED" /\ SameCircuit(bs[b], after[b])
    <3>1. after[b].circuit_state # "HALF_OPEN"
      BY <2>4 DEF SameCircuit
    <3> QED
      BY <1>1, <1>3, <1>4, <3>1, NoTrials DEF WithinBudget, SameCircuit
  <2>5. CASE HalfOpens(bs[b], after[b]) /\ HalfOpenRequests > 0
    <3>1. trials'[b] = {} \cup {r}
      BY <1>3, <1>5, <2>5 DEF HalfOpens
    <3>2. Cardinality(trials'[b]) <= 1
      BY <3>1, NoTrials, OneMoreTrial
    <3>3. /\ backends'[b].half_open_in_flight = 1
          /\ backends'[b].circuit_state = "HALF_OPEN"
      BY <1>1, <2>5 DEF HalfOpens, SameCircuit
    <3> QED
      BY <3>2, <3>3 DEF WithinBudget
  <2>6. CASE Admits(bs[b], after[b])
    <3>1. trials'[b] = trials[b] \cup {r}
      BY <1>3, <1>5, <2>6 DEF Admits
    <3>2. Cardinality(trials[b]) <= bs[b].half_open_in_flight
      BY <2>6 DEF TrialsInv, WithinBudget, Admits, SameCircuit, Opens
    <3>3. Cardinality(trials'[b]) <= bs[b].half_open_in_flight + 1
      BY <1>0, <1>4, <3>1, <3>2, OneMoreTrial
    <3>4. /\ backends'[b].half_open_in_flight = bs[b].half_open_in_flight + 1
          /\ backends'[b].circuit_state = "HALF_OPEN"
      BY <1>1, <2>6 DEF Admits, SameCircuit
    <3> QED
      BY <3>3, <3>4 DEF WithinBudget
  <2> QED
    BY <2>3, <2>4, <2>5, <2>6
<1>6. CASE b \notin chosen
  <2>1. \/ SameCircuit(bs[b], after[b])
        \/ HalfOpens(bs[b], after[b])
        \/ Admits(bs[b], after[b])
    <3>1. after[b] = bs[b] \/ after[b] = AllowRequest(bs[b])
      BY DEF AfterAsking
    <3> QED
      BY <1>0, <3>1, AllowCircuit DEF SameCircuit
  <2> HIDE DEF after
  <2>2. trials'[b] = {} \/ (trials'[b] = trials[b] /\ bs[b].circuit_state = "HALF_OPEN"
                            /\ after[b].circuit_state = "HALF_OPEN")
    BY <1>3, <1>6
  <2>3. CASE trials'[b] = {}
    BY <1>1, <1>4, <2>3, NoTrials DEF WithinBudget, SameCircuit
  <2>4. CASE /\ trials'[b] = trials[b]
             /\ bs[b].circuit_state = "HALF_OPEN"
             /\ after[b].circuit_state = "HALF_OPEN"
    <3>1. Cardinality(trials[b]) <= bs[b].half_open_in_flight
      BY <2>4 DEF TrialsInv, WithinBudget, SameCircuit, Opens
    <3>2. bs[b].half_open_in_flight <= backends'[b].half_open_in_flight
      BY <1>1, <1>4, <2>1, <2>4 DEF SameCircuit, HalfOpens, Admits
    <3>3. backends'[b].half_open_in_flight \in Nat /\ Cardinality(trials[b]) \in Nat
      BY <1>0, <1>1, <1>4, OneMoreTrial DEF SameCircuit
    <3>4. backends'[b].circuit_state = "HALF_OPEN"
      BY <1>1, <2>4 DEF SameCircuit
    <3> QED
      BY <1>4, <2>4, <3>1, <3>2, <3>3, <3>4 DEF WithinBudget
  <2> QED
    BY <2>2, <2>3, <2>4
<1> QED
  BY <1>5, <1>6

\* The outcome of an attempt ends the HALF_OPEN period of its backend.
LEMMA FinishBudget ==
  ASSUME TypeOK, TrialsInv, NEW r, NEW c \in Backends, NEW rec \in Backend,
         Finish(r, c, rec),
         \/ SameCircuit(backends[c], rec)
         \/ Opens(backends[c], rec)
         \/ Closes(backends[c], rec),
         NEW b \in Backends
  PROVE  WithinBudget(trials'[b], backends'[b])
<1>1. CASE b # c
  BY <1>1 DEF Finish, TrialsInv, TypeOK
<1>2. CASE b = c
  <2>1. /\ backends'[b] = rec
        /\ trials'[b] = IF rec.circuit_state = "HALF_OPEN" THEN trials[b] ELSE {}
    BY <1>2 DEF Finish, TypeOK
  <2>2. rec.half_open_in_flight \in Nat
    BY FieldsOf
  <2>3. CASE rec.circuit_state = "HALF_OPEN"
    BY <1>2, <2>1, <2>3
    DEF TrialsInv, WithinBudget, SameCircuit, Opens, Closes
  <2>4. CASE rec.circuit_state # "HALF_OPEN"
    BY <2>1, <2>2, <2>4, NoTrials DEF WithinBudget
  <2> QED
    BY <2>3, <2>4
<1> QED
  BY <1>1, <1>2

LEMMA TryAgainBudget ==
  ASSUME TypeOK, TrialsInv, NEW r \in Requests, NEW c \in Backends,
         NEW rec \in Backend, TryAgain(r, c, rec),
         SameCircuit(backends[c], rec) \/ Opens(backends[c], rec),
         NEW b \in Backends
  PROVE  WithinBudget(trials'[b], backends'[b])
<1> DEFINE bs == [backends EXCEPT ![c] = rec]
<1>1. bs \in [Backends -> Backend]
  BY DEF TypeOK
<1>2. SameCircuit(backends[b], bs[b]) \/ Opens(backends[b], bs[b])
  <2>1. CASE b = c
    BY <2>1 DEF TypeOK
  <2>2. CASE b # c
    BY <2>2 DEF TypeOK, SameCircuit
  <2> QED
    BY <2>1, <2>2
<1> HIDE DEF bs
<1>3. Attempt(r, NextTry(req[r]), bs, PoolRelease(c))
  BY DEF TryAgain, bs
<1> QED
  BY <1>1, <1>2, <1>3, AttemptBudget

LEMMA BudgetNext ==
  ASSUME TypeOK, TrialsInv, [Next]_vars
  PROVE  TrialsInv'
<1> SUFFICES ASSUME NEW b \in Backends
             PROVE  WithinBudget(trials'[b], backends'[b])
  BY DEF TrialsInv
<1>1. CASE QuietStep
  <2>1. /\ trials' = trials
        /\ \/ SameCircuit(backends[b], backends'[b])
           \/ Cools(backends[b], backends'[b])
    BY <1>1, QuietCircuit
  <2> QED
    BY <2>1 DEF TrialsInv, WithinBudget, SameCircuit, Cools
<1>2. ASSUME NEW r \in Requests, BodyRead(r)
      PROVE  WithinBudget(trials'[b], backends'[b])
  <2>1. /\ SameCircuit(backends[b], backends[b])
        /\ backends \in [Backends -> Backend]
    BY DEF SameCircuit, TypeOK
  <2> QED
    BY <1>2, <2>1, AttemptBudget DEF BodyRead
<1>3. ASSUME NEW r \in Requests, Succeeds(r)
      PROVE  WithinBudget(trials'[b], backends'[b])
  <2> DEFINE c == req[r].on
             rec == Disconnect(OnSuccess(PassiveSuccess(backends[c])))
  <2>1. c \in Backends /\ backends[c] \in Backend
    BY <1>3 DEF Succeeds, TypeOK
  <2>2. rec \in Backend /\ (SameCircuit(backends[c], rec) \/ Closes(backends[c], rec))
    BY <2>1, SuccessCircuit
  <2>3. Finish(r, c, rec)
    BY <1>3 DEF Succeeds
  <2> QED
    BY <2>1, <2>2, <2>3, FinishBudget
<1>4. ASSUME NEW r \in Requests, ServerError(r)
      PROVE  WithinBudget(trials'[b], backends'[b])
  <2> DEFINE c == req[r].on
             rec == OnFailure(PassiveFailure(backends[c], TRUE))
  <2>1. c \in Backends /\ backends[c] \in Backend
    BY <1>4 DEF ServerError, TypeOK
  <2>2. /\ Disconnect(rec) \in Backend
        /\ \/ SameCircuit(backends[c], Disconnect(rec))
           \/ Opens(backends[c], Disconnect(rec))
    BY <2>1, FailureCircuit
  <2>3. /\ Disconnect(Disconnect(rec)) \in Backend
        /\ \/ SameCircuit(backends[c], Disconnect(Disconnect(rec)))
           \/ Opens(backends[c], Disconnect(Disconnect(rec)))
    BY <2>1, FailureCircuit
  <2>4. \/ TryAgain(r, c, Disconnect(Disconnect(rec)))
        \/ Finish(r, c, Disconnect(rec))
    BY <1>4 DEF ServerError
  <2> QED
    BY <2>1, <2>2, <2>3, <2>4, FinishBudget, TryAgainBudget
<1>5. ASSUME NEW r \in Requests, NEW timeout \in BOOLEAN, AttemptFails(r, timeout)
      PROVE  WithinBudget(trials'[b], backends'[b])
  <2> DEFINE c == req[r].on
             rec == Disconnect(OnFailure(PassiveFailure(backends[c], timeout)))
  <2>1. c \in Backends /\ backends[c] \in Backend
    BY <1>5 DEF AttemptFails, TypeOK
  <2>2. /\ rec \in Backend
        /\ SameCircuit(backends[c], rec) \/ Opens(backends[c], rec)
    BY <2>1, FailureCircuit
  <2>3. TryAgain(r, c, rec) \/ Finish(r, c, rec)
    BY <1>5 DEF AttemptFails
  <2> QED
    BY <2>1, <2>2, <2>3, FinishBudget, TryAgainBudget
<1> QED
  BY <1>1, <1>2, <1>3, <1>4, <1>5 DEF QuietStep, Next, RequestStep

\* A backend that recovers is not flooded: over its whole HALF_OPEN period it
\* is sent no more requests than slots were taken, of which there are at most
\* half_open_requests (TypeOK).  The budget is not disturbed by late outcomes of
\* older requests, nor by removing or changing the backend.
THEOREM HalfOpenBudgeted == Spec => []HalfOpenBudget
<1>1. Init => TrialsInv
  BY NoTrials DEF Init, NewBackend, TrialsInv, WithinBudget
<1>2. TypeOK /\ TrialsInv /\ [Next]_vars => TrialsInv'
  BY BudgetNext
<1>3. TrialsInv => HalfOpenBudget
  BY DEF TrialsInv, WithinBudget, HalfOpenBudget
<1> QED
  BY <1>1, <1>2, <1>3, TypeCorrect, PTL DEF Spec

-----------------------------------------------------------------------------
(* Where attempts are sent.                                                *)

\* Outcomes and admission leave the field of the admin API alone; admission
\* leaves the status alone too.
LEMMA OutcomeKeepsEnabled ==
  ASSUME NEW x \in Backend, NEW serious
  PROVE  LET y == OnFailure(PassiveFailure(x, serious)) IN
           /\ Disconnect(y).enabled = x.enabled
           /\ Disconnect(Disconnect(y)).enabled = x.enabled
<1> DEFINE p == PassiveFailure(x, serious)
           y == OnFailure(p)
<1>1. /\ RecordFailure(x) \in Backend
      /\ RecordFailure(x).enabled = x.enabled
  BY RecordType DEF RecordFailure, Backend
<1>2. p \in Backend /\ p.enabled = x.enabled
  <2>1. p \in Backend
    BY HealthType
  <2>2. p.enabled = x.enabled
    BY <1>1 DEF PassiveFailure, Degrade, Backend
  <2> QED
    BY <2>1, <2>2
<1> HIDE DEF p
<1>3. y \in Backend /\ y.enabled = x.enabled
  <2>1. y \in Backend
    BY <1>2, CircuitType
  <2>2. y.enabled = p.enabled
    BY <1>2 DEF OnFailure, Trip, Backend
  <2> QED
    BY <1>2, <2>1, <2>2
<1> HIDE DEF y
<1>4. Disconnect(y) \in Backend /\ Disconnect(y).enabled = y.enabled
  BY <1>3, CircuitType DEF Disconnect, Backend
<1>5. Disconnect(Disconnect(y)).enabled = Disconnect(y).enabled
  BY <1>4 DEF Disconnect, Backend
<1> QED
  BY <1>3, <1>4, <1>5 DEF y, p

LEMMA AllowKeepsStatus ==
  ASSUME NEW x \in Backend
  PROVE  AllowRequest(x).status = x.status
<1>1. HalfOpen(x) \in Backend /\ HalfOpen(x).status = x.status
  <2>1. HalfOpen(x) \in Backend
    BY FieldValues, FieldType DEF HalfOpen
  <2>2. HalfOpen(x).status = x.status
    BY DEF HalfOpen, Backend
  <2> QED
    BY <2>1, <2>2
<1>2. ASSUME NEW y \in Backend PROVE TryHalfOpen(y).status = y.status
  BY DEF TryHalfOpen, Backend
<1> QED
  BY <1>1, <1>2 DEF AllowRequest

\* bs is the backends as the selection for r finds them: the outcome of the
\* attempt it retries is judged, and nothing else is different.
FoundBySelection(r, bs) ==
  /\ bs \in [Backends -> Backend]
  /\ \A c \in Backends :
       /\ c # req[r].on => bs[c] = backends[c]
       /\ bs[c].enabled = backends[c].enabled
       /\ SameCircuit(backends[c], bs[c]) \/ Opens(backends[c], bs[c])

SelectedIn(b, bs) ==
  /\ b \in Candidates(bs)
  /\ backends' = [AfterAsking(bs) EXCEPT ![b].active_connections = @ + 1]

\* An attempt starts in a step of its own request only.
LEMMA AttemptSends ==
  ASSUME TypeOK, NEW q \in Requests, NEW ctx \in Request, NEW bs, NEW counts,
         Attempt(q, ctx, bs, counts),
         NEW r \in Requests, NEW b \in Backends, Sends(r, b)
  PROVE  r = q /\ SelectedIn(b, bs)
<1>1. ASSUME NEW new, req' = [req EXCEPT ![q] = new]
      PROVE  r = q /\ req'[r] = new
  BY <1>1 DEF TypeOK, Sends
<1>2. ASSUME NEW c \in Candidates(bs), Send(q, ctx, bs, counts, c)
      PROVE  r = q /\ SelectedIn(b, bs)
  <2>1. c \in Backends
    BY CandidatesRegistered DEF TypeOK
  <2>2. r = q /\ req'[r] = SentTo(ctx, c)
    BY <1>1, <1>2 DEF Send
  <2>3. b = c
    BY <2>1, <2>2, SentType DEF Sends
  <2> QED
    BY <1>2, <2>2, <2>3 DEF Send, SelectedIn
<1>3. ~Unavailable(q, bs, counts)
  BY <1>1, NewRequestFields DEF Unavailable, Sends
<1> QED
  BY <1>2, <1>3 DEF Attempt

\* A retry finds the backends with the outcome of the attempt that failed.
LEMMA RetryFinds ==
  ASSUME TypeOK, NEW q \in Requests, req[q].on \in Backends,
         NEW rec \in Backend, TryAgain(q, req[q].on, rec),
         rec.enabled = backends[req[q].on].enabled,
         \/ SameCircuit(backends[req[q].on], rec)
         \/ Opens(backends[req[q].on], rec),
         NEW r \in Requests, NEW b \in Backends, Sends(r, b)
  PROVE  \E bs : FoundBySelection(r, bs) /\ SelectedIn(b, bs)
<1> DEFINE bs == [backends EXCEPT ![req[q].on] = rec]
<1>1. req[q] \in Request /\ req[q].retry_count + 1 \in Nat
  BY DEF TypeOK, Request
<1>2. NextTry(req[q]) \in Request
  BY <1>1, RequestFieldType DEF NextTry
<1>3. r = q /\ SelectedIn(b, bs)
  BY <1>2, AttemptSends DEF TryAgain
<1>4. FoundBySelection(q, bs)
  BY DEF FoundBySelection, TypeOK, SameCircuit
<1> QED
  BY <1>3, <1>4

\* Every attempt is sent by a selection.
LEMMA SendsSelected ==
  ASSUME TypeOK, [Next]_vars, NEW r \in Requests, NEW b \in Backends, Sends(r, b)
  PROVE  \E bs : FoundBySelection(r, bs) /\ SelectedIn(b, bs)
<1>1. req' # req
  BY DEF Sends
<1>2. PICK q \in Requests : RequestStep(q)
  BY <1>1 DEF Next, BackendStep, StartRound, vars, CooldownElapses, ProbeEnds,
    AddBackend, DeleteBackend, UpdateBackend
<1>3. ASSUME NEW new, req' = [req EXCEPT ![q] = new]
      PROVE  req'[r] = new
  BY <1>3 DEF TypeOK, Sends
<1>4. ASSUME NEW c, NEW rec PROVE ~Finish(q, c, rec)
  BY <1>3, NewRequestFields DEF Finish, Sends
<1>5. CASE Arrive(q)
  <2>1. req' = [req EXCEPT ![q] = [req[q] EXCEPT !.phase = "reading"]]
    BY <1>5 DEF Arrive
  <2>2. [req[q] EXCEPT !.phase = "reading"].phase = "reading"
    BY DEF TypeOK, Request
  <2> QED
    BY <1>3, <2>1, <2>2 DEF Sends
<1>6. CASE BodyRefused(q)
  BY <1>3, <1>6, NewRequestFields DEF BodyRefused, Sends
<1>7. CASE BodyRead(q)
  <2>1. req[q] \in Request
    BY DEF TypeOK
  <2>2. r = q /\ SelectedIn(b, backends)
    BY <1>7, <2>1, AttemptSends DEF BodyRead
  <2>3. FoundBySelection(r, backends)
    BY DEF FoundBySelection, TypeOK, SameCircuit
  <2> QED
    BY <2>2, <2>3
<1>8. ASSUME NEW status \in Statuses, HeadArrives(q, status)
      PROVE  FALSE
  <2> DEFINE ctx == [req[q] EXCEPT !.phase = "streaming", !.status = status,
                                   !.answered = TRUE]
  <2>1. req' = [req EXCEPT ![q] = ctx]
    BY <1>8 DEF HeadArrives
  <2>2. ctx.phase = "streaming"
    BY DEF TypeOK, Request
  <2> HIDE DEF ctx
  <2> QED
    BY <1>3, <2>1, <2>2 DEF Sends
<1>9. CASE Succeeds(q)
  BY <1>4, <1>9 DEF Succeeds
<1>10. CASE ServerError(q)
  <2> DEFINE c == req[q].on
             rec == OnFailure(PassiveFailure(backends[c], TRUE))
  <2>1. c \in Backends /\ backends[c] \in Backend
    BY <1>10 DEF ServerError, TypeOK
  <2>2. TryAgain(q, c, Disconnect(Disconnect(rec)))
    BY <1>4, <1>10 DEF ServerError
  <2>3. /\ Disconnect(Disconnect(rec)) \in Backend
        /\ \/ SameCircuit(backends[c], Disconnect(Disconnect(rec)))
           \/ Opens(backends[c], Disconnect(Disconnect(rec)))
        /\ Disconnect(Disconnect(rec)).enabled = backends[c].enabled
    BY <2>1, FailureCircuit, OutcomeKeepsEnabled
  <2> HIDE DEF rec
  <2> QED
    BY <2>1, <2>2, <2>3, RetryFinds
<1>11. ASSUME NEW timeout \in BOOLEAN, AttemptFails(q, timeout)
       PROVE  \E bs : FoundBySelection(r, bs) /\ SelectedIn(b, bs)
  <2> DEFINE c == req[q].on
             rec == Disconnect(OnFailure(PassiveFailure(backends[c], timeout)))
  <2>1. c \in Backends /\ backends[c] \in Backend
    BY <1>11 DEF AttemptFails, TypeOK
  <2>2. TryAgain(q, c, rec)
    BY <1>4, <1>11 DEF AttemptFails
  <2>3. /\ rec \in Backend
        /\ SameCircuit(backends[c], rec) \/ Opens(backends[c], rec)
        /\ rec.enabled = backends[c].enabled
    BY <2>1, FailureCircuit, OutcomeKeepsEnabled
  <2> HIDE DEF rec
  <2> QED
    BY <2>1, <2>2, <2>3, RetryFinds
<1> QED
  BY <1>2, <1>5, <1>6, <1>7, <1>8, <1>9, <1>10, <1>11 DEF RequestStep

\* What a selection says of the backend selected, before and after.
LEMMA SelectedBackend ==
  ASSUME TypeOK, NEW r \in Requests, NEW b \in Backends, NEW bs,
         FoundBySelection(r, bs), SelectedIn(b, bs)
  PROVE  /\ b \in Asked(bs)
         /\ bs[b] \in Backend
         /\ Allowed(bs[b])
         /\ SameCircuit(AllowRequest(bs[b]), backends'[b])
         /\ backends'[b].status = bs[b].status
<1>1. bs \in [Backends -> Backend] /\ bs[b] \in Backend
  BY DEF FoundBySelection
<1>2. b \in Asked(bs) /\ Allowed(bs[b])
  BY DEF SelectedIn, Candidates, Admitted
<1>3. AfterAsking(bs)[b] = AllowRequest(bs[b])
  BY <1>2 DEF AfterAsking
<1>4. AfterAsking(bs) \in [Backends -> Backend]
  BY <1>1, AfterAskingType
<1>5. AllowRequest(bs[b]) \in Backend
  BY <1>1, CircuitType
<1>6. backends'[b] = [AllowRequest(bs[b]) EXCEPT
                        !.active_connections = AllowRequest(bs[b]).active_connections + 1]
  BY <1>3, <1>4 DEF SelectedIn
<1>7. SameCircuit(AllowRequest(bs[b]), backends'[b])
  BY <1>5, <1>6, ConnectionsKeepCircuit
<1>8. backends'[b].status = AllowRequest(bs[b]).status
  BY <1>5, <1>6 DEF Backend
<1> QED
  BY <1>1, <1>2, <1>7, <1>8, AllowKeepsStatus

LEMMA SendsAdmitted ==
  ASSUME TypeOK, [Next]_vars, NEW r \in Requests, NEW b \in Backends, Sends(r, b)
  PROVE  /\ backends'[b].circuit_state # "OPEN"
         /\ backends[b].circuit_state = "OPEN" => backends[b].cooled
<1>1. PICK bs : FoundBySelection(r, bs) /\ SelectedIn(b, bs)
  BY SendsSelected
<1>2. /\ bs[b] \in Backend
      /\ Allowed(bs[b])
      /\ SameCircuit(AllowRequest(bs[b]), backends'[b])
  BY <1>1, SelectedBackend
<1>3. backends'[b].circuit_state # "OPEN"
  BY <1>2, AllowedAdmits DEF SameCircuit, HalfOpens, Admits
<1>4. ASSUME backends[b].circuit_state = "OPEN" PROVE backends[b].cooled
  <2>1. SameCircuit(backends[b], bs[b])
    BY <1>1, <1>4 DEF FoundBySelection, Opens
  <2> QED
    BY <1>2, <1>4, <2>1 DEF SameCircuit, Allowed, MayHalfOpen
<1> QED
  BY <1>3, <1>4

\* An OPEN circuit sheds its traffic, first attempts and retries alike: what is
\* sent goes to a backend whose circuit is CLOSED, HALF_OPEN with a slot left, or
\* OPEN with its cooldown over, and the circuit is not OPEN afterwards.
THEOREM OpenCircuitsShed == Spec => OpenShedsTraffic
<1>1. TypeOK /\ [Next]_vars =>
        [\A r \in Requests, b \in Backends : Sends(r, b) =>
           /\ backends'[b].circuit_state # "OPEN"
           /\ backends[b].circuit_state = "OPEN" => backends[b].cooled]_vars
  BY SendsAdmitted
<1> QED
  BY <1>1, TypeCorrect, PTL DEF Spec, OpenShedsTraffic

\* Where an attempt for r may go: what FallbackIsLastResort says of one.
LastResort(r, b) ==
  /\ b \in Registered
  /\ backends[b].enabled
  /\ \/ backends'[b].status = "HEALTHY" /\ backends[b].circuit_state # "OPEN"
     \/ \A c \in Registered \ {b, req[r].on} :
          ~(IsAvailable(backends[c]) /\ Allowed(backends[c]))

LEMMA SendsLastResort ==
  ASSUME TypeOK, [Next]_vars, NEW r \in Requests, NEW b \in Backends, Sends(r, b)
  PROVE  LastResort(r, b)
<1>1. PICK bs : FoundBySelection(r, bs) /\ SelectedIn(b, bs)
  BY SendsSelected
<1>2. /\ b \in Asked(bs)
      /\ bs[b] \in Backend
      /\ backends'[b].status = bs[b].status
  BY <1>1, SelectedBackend
<1>3. b \in Registered /\ bs[b].enabled
  BY <1>2 DEF Asked, Available, EnabledIn, IsAvailable
<1>4. backends[b].enabled
  BY <1>1, <1>3 DEF FoundBySelection
<1>5. CASE Admitted(bs, Available(bs)) # {}
  <2>1. IsAvailable(bs[b])
    BY <1>2, <1>5 DEF Asked, Available
  <2>2. bs[b].status = "HEALTHY" /\ bs[b].circuit_state # "OPEN"
    BY <1>2, <2>1 DEF IsAvailable, Backend, BackendStatus
  <2>3. backends[b].circuit_state # "OPEN"
    BY <1>1, <2>2 DEF FoundBySelection, SameCircuit, Opens
  <2> QED
    BY <1>2, <1>3, <1>4, <2>2, <2>3 DEF LastResort
<1>6. CASE Admitted(bs, Available(bs)) = {}
  <2>1. ASSUME NEW c \in Registered \ {b, req[r].on}
        PROVE  ~(IsAvailable(backends[c]) /\ Allowed(backends[c]))
    <3>1. bs[c] = backends[c]
      BY <1>1 DEF FoundBySelection, TypeOK, Registered
    <3> QED
      BY <1>6, <3>1 DEF Admitted, Available
  <2> QED
    BY <1>3, <1>4, <2>1 DEF LastResort
<1> QED
  BY <1>5, <1>6

\* The second loop of _select is a last resort: no attempt goes to a backend
\* that is UNHEALTHY, DRAINING or was OPEN while another one, which the outcome
\* of a failed attempt did not touch, was available and would have admitted it;
\* and none goes to a backend that is disabled or no longer registered.
THEOREM FallbackOnlyAsLastResort == Spec => FallbackIsLastResort
<1>1. TypeOK /\ [Next]_vars =>
        [\A r \in Requests, b \in Backends : Sends(r, b) => LastResort(r, b)]_vars
  BY SendsLastResort
<1> QED
  BY <1>1, TypeCorrect, PTL DEF Spec, FallbackIsLastResort, LastResort

=============================================================================
