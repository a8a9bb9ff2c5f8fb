-------------------------- MODULE ConnectionProofs --------------------------
(***************************************************************************)
(* Theorems about what ReverseProxy counts while attempts are under way:   *)
(* the connections of the pool and of each backend.  The two are counted   *)
(* by different code, and only the pool is counted exactly; the last       *)
(* theorems say under which configuration the other one is exact too, and  *)
(* what it takes for a HALF_OPEN circuit to have no request to decide it.  *)
(***************************************************************************)
EXTENDS ReverseProxyProofs

-----------------------------------------------------------------------------
(* Counting the requests whose attempt is on one of a set of backends.     *)

Users(rq, bs) == {q \in Requests : rq[q].on \in bs}

\* The same without r: what is counted while r leaves one backend for another.
Others(r, rq, bs) == {q \in Requests \ {r} : rq[q].on \in bs}

\* The objects that share an id, and with it a count of the pool.
Objects(i) == {b \in Backends : IdOf[b] = i}

LEMMA OthersCount ==
  ASSUME NEW rq, NEW r \in Requests, NEW bs
  PROVE  /\ Cardinality(Others(r, rq, bs)) \in Nat
         /\ Cardinality(Users(rq, bs)) =
              Cardinality(Others(r, rq, bs)) + (IF rq[r].on \in bs THEN 1 ELSE 0)
<1> DEFINE others == Others(r, rq, bs)
           users == Users(rq, bs)
<1>1. IsFiniteSet(others)
  <2>1. others \in SUBSET Requests
    BY DEF Others
  <2> QED
    BY <2>1, ProxyAssumption, FS_Subset
<1>2. /\ rq[r].on \in bs => users = others \cup {r}
      /\ rq[r].on \notin bs => users = others
      /\ r \notin others
  BY DEF Users, Others
<1> HIDE DEF others, users
<1>3. Cardinality(others) \in Nat
  BY <1>1, FS_CardinalityType
<1>4. Cardinality(others \cup {r}) = Cardinality(others) + 1
  BY <1>1, <1>2, FS_AddElement
<1>5. Cardinality(users) = Cardinality(others) + (IF rq[r].on \in bs THEN 1 ELSE 0)
  BY <1>2, <1>3, <1>4
<1> QED
  BY <1>3, <1>5 DEF others, users

\* A step that changes the context of r alone.
LEMMA OthersKept ==
  ASSUME req \in [Requests -> Request], NEW r \in Requests, NEW ctx,
         req' = [req EXCEPT ![r] = ctx]
  PROVE  /\ req'[r] = ctx
         /\ \A bs : Others(r, req', bs) = Others(r, req, bs)
BY DEF Others

\* The counts in the properties, as numbers of users.
LEMMA CountsAreUsers ==
  ASSUME TypeOK
  PROVE  /\ \A i : {q \in Requests : req[q].on # NoBackend /\ IdOf[req[q].on] = i}
                     = Users(req, Objects(i))
         /\ \A b : InFlight(b) = Users(req, {b})
<1>1. \A q \in Requests : req[q].on # NoBackend <=> req[q].on \in Backends
  BY ProxyAssumption DEF TypeOK, Request
<1> QED
  BY <1>1 DEF Users, Objects, InFlight

-----------------------------------------------------------------------------
(* What the operators on a backend do to its count.                        *)

LEMMA AdmissionKeepsCount ==
  ASSUME NEW x \in Backend
  PROVE  AllowRequest(x).active_connections = x.active_connections
<1>1. ASSUME NEW y \in Backend
      PROVE  TryHalfOpen(y).active_connections = y.active_connections
  BY DEF TryHalfOpen, Backend
<1>2. /\ HalfOpen(x) \in Backend
      /\ HalfOpen(x).active_connections = x.active_connections
  <2>1. HalfOpen(x) \in Backend
    BY FieldValues, FieldType DEF HalfOpen
  <2> QED
    BY <2>1 DEF HalfOpen, Backend
<1> QED
  BY <1>1, <1>2 DEF AllowRequest

\* One connection less, and none below 0.
OneLess(n) == IF n > 0 THEN n - 1 ELSE 0

LEMMA DisconnectCounts ==
  ASSUME NEW x \in Backend
  PROVE  /\ Disconnect(x) \in Backend
         /\ Disconnect(x).active_connections = OneLess(x.active_connections)
BY CircuitType DEF Disconnect, Backend, OneLess

LEMMA OutcomeKeepsCount ==
  ASSUME NEW x \in Backend, NEW serious
  PROVE  LET failed == OnFailure(PassiveFailure(x, serious))
             succeeded == OnSuccess(PassiveSuccess(x)) IN
           /\ failed \in Backend /\ succeeded \in Backend
           /\ failed.active_connections = x.active_connections
           /\ succeeded.active_connections = x.active_connections
<1>1. /\ RecordFailure(x) \in Backend
      /\ RecordFailure(x).active_connections = x.active_connections
      /\ RecordSuccess(x) \in Backend
      /\ RecordSuccess(x).active_connections = x.active_connections
  BY RecordType DEF RecordFailure, RecordSuccess, Backend
<1>2. /\ PassiveFailure(x, serious) \in Backend
      /\ PassiveSuccess(x) \in Backend
  BY HealthType
<1>3. /\ PassiveFailure(x, serious).active_connections = x.active_connections
      /\ PassiveSuccess(x).active_connections = x.active_connections
  BY <1>1 DEF PassiveFailure, PassiveSuccess, Degrade, Recover, Backend
<1>4. ASSUME NEW y \in Backend
      PROVE  /\ OnFailure(y).active_connections = y.active_connections
             /\ OnSuccess(y).active_connections = y.active_connections
  BY DEF OnFailure, OnSuccess, Trip, Backend
<1> QED
  BY <1>2, <1>3, <1>4, CircuitType

-----------------------------------------------------------------------------
(* A request leaves one backend and lands on another, or on none.          *)

\* r lands on d, NoBackend if it ends: one more on d than bs and counts say.
Lands(r, d, bs, counts) ==
  /\ \E ctx : ctx.on = d /\ req' = [req EXCEPT ![r] = ctx]
  /\ \A i \in Ids : pool'[i] = counts[i] + (IF d \in Objects(i) THEN 1 ELSE 0)
  /\ \A b \in Backends :
       backends'[b].active_connections =
         bs[b].active_connections + (IF d = b THEN 1 ELSE 0)

\* counts and bs say how many others there are.
PoolOfOthers(r, counts) ==
  \A i \in Ids : counts[i] = Cardinality(Others(r, req, Objects(i)))

AtMostOthers(r, bs) ==
  \A b \in Backends :
    bs[b].active_connections <= Cardinality(Others(r, req, {b}))

JustOthers(r, bs) ==
  \A b \in Backends :
    bs[b].active_connections = Cardinality(Others(r, req, {b}))

LEMMA Landing ==
  ASSUME TypeOK, TypeOK', NEW r \in Requests, NEW d, NEW counts,
         NEW bs \in [Backends -> Backend], Lands(r, d, bs, counts)
  PROVE  /\ PoolOfOthers(r, counts) => PoolMatchesInFlight'
         /\ AtMostOthers(r, bs) => ConnectionsNeverOvercount'
         /\ JustOthers(r, bs) => ConnectionsExact'
<1>1. PICK ctx : ctx.on = d /\ req' = [req EXCEPT ![r] = ctx]
  BY DEF Lands
<1>2. /\ req'[r].on = d
      /\ \A cs : Others(r, req', cs) = Others(r, req, cs)
  BY <1>1, OthersKept DEF TypeOK
<1>3. ASSUME NEW cs
      PROVE  /\ Cardinality(Others(r, req, cs)) \in Nat
             /\ Cardinality(Users(req', cs)) =
                  Cardinality(Others(r, req, cs)) + (IF d \in cs THEN 1 ELSE 0)
  BY <1>2, OthersCount
<1>4. /\ \A i : {q \in Requests : req'[q].on # NoBackend /\ IdOf[req'[q].on] = i}
                  = Users(req', Objects(i))
      /\ \A b : InFlight(b)' = Users(req', {b})
  <2>1. \A q \in Requests : req'[q].on # NoBackend <=> req'[q].on \in Backends
    BY ProxyAssumption DEF TypeOK, Request
  <2> QED
    BY <2>1 DEF Users, Objects, InFlight
<1>5. ASSUME PoolOfOthers(r, counts) PROVE PoolMatchesInFlight'
  <2>1. ASSUME NEW i \in Ids
        PROVE  pool'[i] = Cardinality(Users(req', Objects(i)))
    BY <1>3, <1>5 DEF Lands, PoolOfOthers
  <2> QED
    BY <1>4, <2>1 DEF PoolMatchesInFlight
<1>6. ASSUME NEW b \in Backends
      PROVE  /\ d \in {b} <=> d = b
             /\ bs[b].active_connections \in Nat
  BY FieldsOf
<1>7. ASSUME AtMostOthers(r, bs) PROVE ConnectionsNeverOvercount'
  <2>1. ASSUME NEW b \in Backends
        PROVE  backends'[b].active_connections <= Cardinality(Users(req', {b}))
    <3>1. /\ backends'[b].active_connections =
               bs[b].active_connections + (IF d = b THEN 1 ELSE 0)
          /\ bs[b].active_connections <= Cardinality(Others(r, req, {b}))
      BY <1>7 DEF Lands, AtMostOthers
    <3> QED
      BY <1>3, <1>6, <3>1
  <2> QED
    BY <1>4, <2>1 DEF ConnectionsNeverOvercount
<1>8. ASSUME JustOthers(r, bs) PROVE ConnectionsExact'
  <2>1. ASSUME NEW b \in Backends
        PROVE  backends'[b].active_connections = Cardinality(Users(req', {b}))
    <3>1. /\ backends'[b].active_connections =
               bs[b].active_connections + (IF d = b THEN 1 ELSE 0)
          /\ bs[b].active_connections = Cardinality(Others(r, req, {b}))
      BY <1>8 DEF Lands, JustOthers
    <3> QED
      BY <1>3, <1>6, <3>1
  <2> QED
    BY <1>4, <2>1 DEF ConnectionsExact
<1> QED
  BY <1>5, <1>7, <1>8

\* An attempt lands r on the backend it selects, or ends it.
LEMMA AttemptLands ==
  ASSUME TypeOK, NEW r \in Requests, NEW ctx \in Request,
         NEW bs \in [Backends -> Backend], NEW counts \in [Ids -> Nat],
         Attempt(r, ctx, bs, counts)
  PROVE  \E d \in Backends \cup {NoBackend} : Lands(r, d, bs, counts)
<1>1. /\ AfterAsking(bs) \in [Backends -> Backend]
      /\ \A b \in Backends :
           AfterAsking(bs)[b].active_connections = bs[b].active_connections
  BY AfterAskingType, AdmissionKeepsCount DEF AfterAsking
<1>2. ASSUME NEW c \in Candidates(bs), Send(r, ctx, bs, counts, c)
      PROVE  Lands(r, c, bs, counts) /\ c \in Backends
  <2>1. c \in Backends
    BY CandidatesRegistered DEF TypeOK
  <2>2. SentTo(ctx, c).on = c /\ req' = [req EXCEPT ![r] = SentTo(ctx, c)]
    BY <1>2, <2>1, SentType DEF Send
  <2>3. ASSUME NEW i \in Ids
        PROVE  pool'[i] = counts[i] + (IF c \in Objects(i) THEN 1 ELSE 0)
    <3>1. pool' = [counts EXCEPT ![IdOf[c]] = counts[IdOf[c]] + 1] /\ counts[i] \in Nat
      BY <1>2 DEF Send, PoolAcquire
    <3>2. c \in Objects(i) <=> IdOf[c] = i
      BY <2>1 DEF Objects
    <3> QED
      BY <3>1, <3>2
  <2>4. ASSUME NEW b \in Backends
        PROVE  backends'[b].active_connections =
                 bs[b].active_connections + (IF c = b THEN 1 ELSE 0)
    <3>1. /\ AfterAsking(bs)[b] \in Backend
          /\ bs[b].active_connections \in Nat
      BY <1>1, FieldsOf
    <3>2. backends' = [AfterAsking(bs) EXCEPT
                         ![c].active_connections = AfterAsking(bs)[c].active_connections + 1]
      BY <1>2 DEF Send
    <3>3. CASE c = b
      <4>1. backends'[b] = [AfterAsking(bs)[b] EXCEPT
                              !.active_connections = AfterAsking(bs)[b].active_connections + 1]
        BY <1>1, <3>2, <3>3
      <4>2. backends'[b].active_connections = AfterAsking(bs)[b].active_connections + 1
        BY <3>1, <4>1 DEF Backend
      <4> QED
        BY <1>1, <3>3, <4>2
    <3>4. CASE c # b
      <4>1. backends'[b] = AfterAsking(bs)[b]
        BY <1>1, <3>2, <3>4
      <4> QED
        BY <1>1, <3>1, <3>4, <4>1
    <3> QED
      BY <3>3, <3>4
  <2> QED
    BY <2>1, <2>2, <2>3, <2>4 DEF Lands
<1>3. ASSUME Unavailable(r, bs, counts)
      PROVE  Lands(r, NoBackend, bs, counts)
  <2>1. /\ NewRequest.on = NoBackend /\ req' = [req EXCEPT ![r] = NewRequest]
        /\ pool' = counts
        /\ backends' = AfterAsking(bs)
    BY <1>3 DEF Unavailable, NewRequest
  <2>2. \A b \in Backends : NoBackend # b /\ bs[b].active_connections \in Nat
    BY ProxyAssumption, FieldsOf
  <2>3. \A i \in Ids : NoBackend \notin Objects(i) /\ counts[i] \in Nat
    BY ProxyAssumption DEF Objects
  <2>4. \A i \in Ids : pool'[i] = counts[i] + (IF NoBackend \in Objects(i) THEN 1 ELSE 0)
    BY <2>1, <2>3
  <2>5. \A b \in Backends :
          backends'[b].active_connections =
            bs[b].active_connections + (IF NoBackend = b THEN 1 ELSE 0)
    BY <1>1, <2>1, <2>2
  <2> QED
    BY <2>1, <2>4, <2>5 DEF Lands
<1> QED
  BY <1>2, <1>3 DEF Attempt

\* A request that ends on backend c lands on none.
LEMMA FinishLands ==
  ASSUME TypeOK, NEW r \in Requests, NEW c \in Backends, NEW rec \in Backend,
         Finish(r, c, rec)
  PROVE  Lands(r, NoBackend, [backends EXCEPT ![c] = rec], PoolRelease(c))
<1> DEFINE bs == [backends EXCEPT ![c] = rec]
<1>1. /\ NewRequest.on = NoBackend /\ req' = [req EXCEPT ![r] = NewRequest]
      /\ pool' = PoolRelease(c)
      /\ backends' = bs
  BY DEF Finish, NewRequest
<1>2. bs \in [Backends -> Backend]
  BY DEF TypeOK
<1>3. PoolRelease(c) \in [Ids -> Nat]
  BY PoolType DEF TypeOK
<1>4. \A b \in Backends : NoBackend # b /\ bs[b].active_connections \in Nat
  <2> HIDE DEF bs
  <2> QED
    BY <1>2, ProxyAssumption, FieldsOf
<1>5. \A i \in Ids : NoBackend \notin Objects(i) /\ PoolRelease(c)[i] \in Nat
  BY <1>3, ProxyAssumption DEF Objects
<1> HIDE DEF bs
<1>6. Lands(r, NoBackend, bs, PoolRelease(c))
  <2>1. \A i \in Ids :
          pool'[i] = PoolRelease(c)[i] + (IF NoBackend \in Objects(i) THEN 1 ELSE 0)
    BY <1>1, <1>5
  <2>2. \A b \in Backends :
          backends'[b].active_connections =
            bs[b].active_connections + (IF NoBackend = b THEN 1 ELSE 0)
    BY <1>1, <1>4
  <2> QED
    BY <1>1, <2>1, <2>2 DEF Lands
<1> QED
  BY <1>6 DEF bs

\* r, on backend c, leaves the pool and c in state rec: what is left are the
\* others, for r was counted.
LEMMA Leaving ==
  ASSUME TypeOK, NEW r \in Requests, NEW c \in Backends, req[r].on = c,
         NEW rec \in Backend
  PROVE  LET bs == [backends EXCEPT ![c] = rec] IN
         /\ PoolMatchesInFlight => PoolOfOthers(r, PoolRelease(c))
         /\ ConnectionsNeverOvercount
              /\ rec.active_connections <= OneLess(backends[c].active_connections) =>
                AtMostOthers(r, bs)
         /\ ConnectionsExact
              /\ rec.active_connections = OneLess(backends[c].active_connections) =>
                JustOthers(r, bs)
<1> DEFINE bs == [backends EXCEPT ![c] = rec]
<1>1. ASSUME NEW cs
      PROVE  /\ Cardinality(Others(r, req, cs)) \in Nat
             /\ Cardinality(Users(req, cs)) =
                  Cardinality(Others(r, req, cs)) + (IF c \in cs THEN 1 ELSE 0)
  BY OthersCount
<1>2. ASSUME PoolMatchesInFlight PROVE PoolOfOthers(r, PoolRelease(c))
  <2>1. ASSUME NEW i \in Ids
        PROVE  PoolRelease(c)[i] = Cardinality(Others(r, req, Objects(i)))
    <3>1. pool[i] = Cardinality(Users(req, Objects(i)))
      BY <1>2, CountsAreUsers DEF PoolMatchesInFlight
    <3>2. c \in Objects(i) <=> IdOf[c] = i
      BY DEF Objects
    <3>3. PoolRelease(c)[i] = IF IdOf[c] = i THEN OneLess(pool[i]) ELSE pool[i]
      BY DEF PoolRelease, OneLess, TypeOK
    <3> QED
      BY <1>1, <3>1, <3>2, <3>3 DEF OneLess
  <2> QED
    BY <2>1 DEF PoolOfOthers
<1>3. ASSUME NEW b \in Backends
      PROVE  /\ bs[b] = IF b = c THEN rec ELSE backends[b]
             /\ backends[b].active_connections \in Nat
             /\ rec.active_connections \in Nat
             /\ c \in {b} <=> b = c
  BY FieldsOf DEF TypeOK
<1> HIDE DEF bs
<1>4. ASSUME ConnectionsNeverOvercount,
             rec.active_connections <= OneLess(backends[c].active_connections)
      PROVE  AtMostOthers(r, bs)
  <2>1. ASSUME NEW b \in Backends
        PROVE  bs[b].active_connections <= Cardinality(Others(r, req, {b}))
    <3>1. backends[b].active_connections <= Cardinality(Users(req, {b}))
      BY <1>4, CountsAreUsers DEF ConnectionsNeverOvercount
    <3> QED
      BY <1>1, <1>3, <1>4, <3>1 DEF OneLess
  <2> QED
    BY <2>1 DEF AtMostOthers
<1>5. ASSUME ConnectionsExact,
             rec.active_connections = OneLess(backends[c].active_connections)
      PROVE  JustOthers(r, bs)
  <2>1. ASSUME NEW b \in Backends
        PROVE  bs[b].active_connections = Cardinality(Others(r, req, {b}))
    <3>1. backends[b].active_connections = Cardinality(Users(req, {b}))
      BY <1>5, CountsAreUsers DEF ConnectionsExact
    <3> QED
      BY <1>1, <1>3, <1>5, <3>1 DEF OneLess
  <2> QED
    BY <2>1 DEF JustOthers
<1> QED
  BY <1>2, <1>4, <1>5 DEF bs

-----------------------------------------------------------------------------
(* The steps.                                                              *)

\* A step that moves no request and no count.
LEMMA Unmoved ==
  ASSUME TypeOK, UNCHANGED pool,
         \A q \in Requests : req'[q].on = req[q].on,
         \A b \in Backends :
           backends'[b].active_connections = backends[b].active_connections
  PROVE  /\ PoolMatchesInFlight => PoolMatchesInFlight'
         /\ ConnectionsNeverOvercount => ConnectionsNeverOvercount'
         /\ ConnectionsExact => ConnectionsExact'
<1>1. \A b \in Backends : InFlight(b)' = InFlight(b)
  BY DEF InFlight
<1>2. \A i \in Ids : {q \in Requests : req'[q].on # NoBackend /\ IdOf[req'[q].on] = i}
                   = {q \in Requests : req[q].on # NoBackend /\ IdOf[req[q].on] = i}
  OBVIOUS
<1>3. PoolMatchesInFlight => PoolMatchesInFlight'
  BY <1>2 DEF PoolMatchesInFlight
<1>4. /\ ConnectionsNeverOvercount => ConnectionsNeverOvercount'
      /\ ConnectionsExact => ConnectionsExact'
  BY <1>1 DEF ConnectionsNeverOvercount, ConnectionsExact
<1> QED
  BY <1>3, <1>4

\* Probes, timers, admin calls, arrivals and heads move no request.
LEMMA QuietCounts ==
  ASSUME TypeOK, QuietStep
  PROVE  /\ UNCHANGED pool
         /\ \A q \in Requests : req'[q].on = req[q].on
         /\ \A b \in Backends :
              backends'[b].active_connections = backends[b].active_connections
<1>1. UNCHANGED pool
  BY DEF QuietStep, BackendStep, Arrive, BodyRefused, HeadArrives, StartRound,
    CooldownElapses, ProbeEnds, AddBackend, DeleteBackend, UpdateBackend, vars
<1>2. ASSUME NEW q \in Requests PROVE req'[q].on = req[q].on
  <2>0. \A r \in Requests : req[r] \in Request
    BY DEF TypeOK
  <2>1. CASE UNCHANGED req
    BY <2>1
  <2>2. ASSUME NEW r \in Requests, BodyRefused(r)
        PROVE  req'[q].on = req[q].on
    <3>1. req[r].on = NoBackend /\ NewRequest.on = NoBackend
      BY <2>0, <2>2 DEF BodyRefused, TypeOK, Request, NewRequest
    <3> QED
      BY <2>2, <3>1 DEF BodyRefused, TypeOK
  <2>3. ASSUME NEW r \in Requests, Arrive(r)
        PROVE  req'[q].on = req[q].on
    BY <2>0, <2>3 DEF Arrive, TypeOK, Request
  <2>4. ASSUME NEW r \in Requests, NEW status \in Statuses, HeadArrives(r, status)
        PROVE  req'[q].on = req[q].on
    BY <2>0, <2>4 DEF HeadArrives, TypeOK, Request
  <2>5. \/ UNCHANGED req
        \/ \E r \in Requests : BodyRefused(r) \/ Arrive(r)
        \/ \E r \in Requests, status \in Statuses : HeadArrives(r, status)
    BY DEF QuietStep, BackendStep, StartRound, CooldownElapses, ProbeEnds, AddBackend,
      DeleteBackend, UpdateBackend, vars
  <2> QED
    BY <2>1, <2>2, <2>3, <2>4, <2>5
<1>3. ASSUME NEW b \in Backends
      PROVE  backends'[b].active_connections = backends[b].active_connections
  <2>0. backends[b] \in Backend
    BY DEF TypeOK
  <2>1. CASE UNCHANGED backends
    BY <2>1
  <2>2. ASSUME NEW c \in Backends, CooldownElapses(c)
        PROVE  backends'[b].active_connections = backends[b].active_connections
    BY <2>0, <2>2 DEF CooldownElapses, TypeOK, Backend
  <2>3. ASSUME NEW c \in Backends, NEW ok \in BOOLEAN, ProbeEnds(c, ok)
        PROVE  backends'[b].active_connections = backends[b].active_connections
    <3>1. /\ RecordFailure(backends[b]) \in Backend
          /\ RecordSuccess(backends[b]) \in Backend
      BY <2>0, RecordType
    <3>2. /\ ProbeSuccess(backends[b]).active_connections = backends[b].active_connections
          /\ ProbeFailure(backends[b]).active_connections = backends[b].active_connections
      BY <2>0, <3>1 DEF ProbeSuccess, ProbeFailure, Recover, Degrade, RecordSuccess,
        RecordFailure, Backend
    <3>3. \/ backends'[b] = backends[b]
          \/ backends'[b] = ProbeSuccess(backends[b])
          \/ backends'[b] = ProbeFailure(backends[b])
      BY <2>3 DEF ProbeEnds, TypeOK
    <3> QED
      BY <3>2, <3>3
  <2>4. ASSUME NEW c \in Backends, NEW body \in PatchBodies, UpdateBackend(c, body)
        PROVE  backends'[b].active_connections = backends[b].active_connections
    BY <2>0, <2>4 DEF UpdateBackend, TypeOK, Backend
  <2>5. \/ UNCHANGED backends
        \/ \E c \in Backends : CooldownElapses(c)
        \/ \E c \in Backends, ok \in BOOLEAN : ProbeEnds(c, ok)
        \/ \E c \in Backends, body \in PatchBodies : UpdateBackend(c, body)
    BY DEF QuietStep, BackendStep, Arrive, BodyRefused, HeadArrives, StartRound,
      AddBackend, DeleteBackend, vars
  <2> QED
    BY <2>1, <2>2, <2>3, <2>4, <2>5
<1> QED
  BY <1>1, <1>2, <1>3

\* The outcome of an attempt on c, which leaves it in state rec, after which the
\* request ends or makes its next attempt.
LEMMA OutcomeCounts ==
  ASSUME TypeOK, TypeOK', NEW r \in Requests, NEW c \in Backends, req[r].on = c,
         NEW rec \in Backend, Finish(r, c, rec) \/ TryAgain(r, c, rec)
  PROVE  /\ PoolMatchesInFlight => PoolMatchesInFlight'
         /\ ConnectionsNeverOvercount
              /\ rec.active_connections <= OneLess(backends[c].active_connections) =>
                ConnectionsNeverOvercount'
         /\ ConnectionsExact
              /\ rec.active_connections = OneLess(backends[c].active_connections) =>
                ConnectionsExact'
<1> DEFINE bs == [backends EXCEPT ![c] = rec]
<1>1. bs \in [Backends -> Backend]
  BY DEF TypeOK
<1>2. PoolRelease(c) \in [Ids -> Nat]
  BY PoolType DEF TypeOK
<1>3. \E d \in Backends \cup {NoBackend} : Lands(r, d, bs, PoolRelease(c))
  <2>1. CASE Finish(r, c, rec)
    BY <2>1, FinishLands
  <2>2. CASE TryAgain(r, c, rec)
    <3>1. NextTry(req[r]) \in Request
      <4>1. req[r] \in Request /\ req[r].retry_count + 1 \in Nat
        BY DEF TypeOK, Request
      <4> QED
        BY <4>1, RequestFieldType DEF NextTry
    <3>2. Attempt(r, NextTry(req[r]), bs, PoolRelease(c))
      BY <2>2 DEF TryAgain
    <3> HIDE DEF bs
    <3> QED
      BY <1>1, <1>2, <3>1, <3>2, AttemptLands
  <2> QED
    BY <2>1, <2>2
<1>4. PICK d \in Backends \cup {NoBackend} : Lands(r, d, bs, PoolRelease(c))
  BY <1>3
<1>5. /\ PoolMatchesInFlight => PoolOfOthers(r, PoolRelease(c))
      /\ ConnectionsNeverOvercount
           /\ rec.active_connections <= OneLess(backends[c].active_connections) =>
             AtMostOthers(r, bs)
      /\ ConnectionsExact
           /\ rec.active_connections = OneLess(backends[c].active_connections) =>
             JustOthers(r, bs)
  BY Leaving
<1> HIDE DEF bs
<1> QED
  BY <1>1, <1>4, <1>5, Landing

\* A retried answer of 500 or more is counted down twice; whether it happens is
\* up to the configuration.
RetriesServerErrors ==
  /\ RetryEnabled
  /\ MaxAttempts > 1
  /\ SafeRequests # {}
  /\ \E status \in Statuses \cap RetryableStatusCodes : status >= 500

LEMMA RequestCounts ==
  ASSUME TypeOK, TypeOK', NEW r \in Requests, RequestStep(r)
  PROVE  /\ PoolMatchesInFlight => PoolMatchesInFlight'
         /\ ConnectionsNeverOvercount => ConnectionsNeverOvercount'
         /\ ConnectionsExact /\ ~RetriesServerErrors => ConnectionsExact'
<1>1. CASE QuietStep
  BY <1>1, QuietCounts, Unmoved
<1>2. CASE BodyRead(r)
  <2>0. backends \in [Backends -> Backend] /\ pool \in [Ids -> Nat] /\ req[r] \in Request
    BY DEF TypeOK
  <2>1. PICK d \in Backends \cup {NoBackend} : Lands(r, d, backends, pool)
    BY <1>2, <2>0, AttemptLands DEF BodyRead
  <2>2. \A cs \in SUBSET Backends : req[r].on \notin cs
    BY <1>2 DEF BodyRead, TypeOK
  <2>3. \A cs \in SUBSET Backends :
          Cardinality(Users(req, cs)) = Cardinality(Others(r, req, cs))
    BY <2>2, OthersCount
  <2>4. /\ PoolMatchesInFlight => PoolOfOthers(r, pool)
        /\ ConnectionsNeverOvercount => AtMostOthers(r, backends)
        /\ ConnectionsExact => JustOthers(r, backends)
    <3>1. (\A i \in Ids : Objects(i) \in SUBSET Backends)
          /\ \A b \in Backends : {b} \in SUBSET Backends
      BY DEF Objects
    <3> QED
      BY <2>3, <3>1, CountsAreUsers
      DEF PoolMatchesInFlight, PoolOfOthers, ConnectionsNeverOvercount, AtMostOthers,
          ConnectionsExact, JustOthers
  <2> QED
    BY <2>0, <2>1, <2>4, Landing
<1>3. CASE Succeeds(r)
  <2> DEFINE c == req[r].on
             rec == Disconnect(OnSuccess(PassiveSuccess(backends[c])))
  <2>1. c \in Backends /\ backends[c] \in Backend
    BY <1>3 DEF Succeeds, TypeOK
  <2>2. rec \in Backend /\ rec.active_connections = OneLess(backends[c].active_connections)
    BY <2>1, OutcomeKeepsCount, DisconnectCounts
  <2>3. Finish(r, c, rec)
    BY <1>3 DEF Succeeds
  <2>4. rec.active_connections \in Nat
    BY <2>2, FieldsOf
  <2> HIDE DEF rec
  <2> QED
    BY <2>1, <2>2, <2>3, <2>4, OutcomeCounts
<1>4. ASSUME NEW timeout \in BOOLEAN, AttemptFails(r, timeout)
      PROVE  /\ PoolMatchesInFlight => PoolMatchesInFlight'
             /\ ConnectionsNeverOvercount => ConnectionsNeverOvercount'
             /\ ConnectionsExact => ConnectionsExact'
  <2> DEFINE c == req[r].on
             rec == Disconnect(OnFailure(PassiveFailure(backends[c], timeout)))
  <2>1. c \in Backends /\ backends[c] \in Backend
    BY <1>4 DEF AttemptFails, TypeOK
  <2>2. rec \in Backend /\ rec.active_connections = OneLess(backends[c].active_connections)
    BY <2>1, OutcomeKeepsCount, DisconnectCounts
  <2>3. TryAgain(r, c, rec) \/ Finish(r, c, rec)
    BY <1>4 DEF AttemptFails
  <2>4. rec.active_connections \in Nat
    BY <2>2, FieldsOf
  <2> HIDE DEF rec
  <2> QED
    BY <2>1, <2>2, <2>3, <2>4, OutcomeCounts
<1>5. CASE ServerError(r)
  <2> DEFINE c == req[r].on
             once == Disconnect(OnFailure(PassiveFailure(backends[c], TRUE)))
             twice == Disconnect(once)
             n == backends[c].active_connections
  <2>1. c \in Backends /\ backends[c] \in Backend /\ n \in Nat
    BY <1>5, FieldsOf DEF ServerError, TypeOK
  <2>2. once \in Backend /\ once.active_connections = OneLess(n)
    <3> DEFINE failed == OnFailure(PassiveFailure(backends[c], TRUE))
    <3>1. failed \in Backend /\ failed.active_connections = n
      BY <2>1, OutcomeKeepsCount
    <3> HIDE DEF failed
    <3>2. /\ Disconnect(failed) \in Backend
          /\ Disconnect(failed).active_connections = OneLess(n)
      BY <3>1, DisconnectCounts
    <3> QED
      BY <3>2 DEF failed
  <2>3. twice \in Backend /\ twice.active_connections <= OneLess(n)
    <3> HIDE DEF once
    <3>1. twice \in Backend /\ twice.active_connections = OneLess(OneLess(n))
      BY <2>2, DisconnectCounts
    <3> QED
      BY <2>1, <3>1 DEF OneLess
  <2>4. \/ Finish(r, c, once)
        \/ TryAgain(r, c, twice) /\ RetriesServerErrors
    <3>1. req[r].status \in Statuses \cup {0} /\ req[r].retry_count \in Nat
      BY DEF TypeOK, Request
    <3>2. ASSUME MayRetry(r), req[r].status \in RetryableStatusCodes
          PROVE  RetriesServerErrors
      <4>1. /\ RetryEnabled /\ r \in SafeRequests
            /\ req[r].retry_count + 1 < MaxAttempts
        BY <3>2 DEF MayRetry
      <4>2. MaxAttempts > 1
        <5>1. MaxAttempts \in Nat
          BY ProxyAssumption
        <5> QED
          BY <3>1, <4>1, <5>1
      <4>3. req[r].status >= 500
        BY <1>5 DEF ServerError
      <4>4. req[r].status \in Statuses
        <5>1. ~(0 >= 500)
          OBVIOUS
        <5> QED
          BY <3>1, <4>3, <5>1
      <4> QED
        BY <3>2, <4>1, <4>2, <4>3, <4>4 DEF RetriesServerErrors
    <3> QED
      BY <1>5, <3>2 DEF ServerError
  <2>5. OneLess(n) <= OneLess(n)
    BY <2>1 DEF OneLess
  <2> HIDE DEF once, twice
  <2> QED
    BY <2>1, <2>2, <2>3, <2>4, <2>5, OutcomeCounts
<1> QED
  BY <1>1, <1>2, <1>3, <1>4, <1>5 DEF RequestStep, QuietStep

\* The counts of the proxy keep up with every step.
LEMMA NextCounts ==
  ASSUME TypeOK, TypeOK', [Next]_vars
  PROVE  /\ PoolMatchesInFlight => PoolMatchesInFlight'
         /\ ConnectionsNeverOvercount => ConnectionsNeverOvercount'
         /\ ConnectionsExact /\ ~RetriesServerErrors => ConnectionsExact'
<1>1. CASE QuietStep
  BY <1>1, QuietCounts, Unmoved
<1>2. ASSUME NEW r \in Requests, RequestStep(r)
      PROVE  /\ PoolMatchesInFlight => PoolMatchesInFlight'
             /\ ConnectionsNeverOvercount => ConnectionsNeverOvercount'
             /\ ConnectionsExact /\ ~RetriesServerErrors => ConnectionsExact'
  BY <1>2, RequestCounts
<1> QED
  BY <1>1, <1>2 DEF Next, QuietStep

LEMMA InitCounts ==
  ASSUME Init
  PROVE  PoolMatchesInFlight /\ ConnectionsExact /\ ConnectionsNeverOvercount
<1>1. /\ \A b \in Backends : InFlight(b) = {}
      /\ \A i \in Ids :
           {q \in Requests : req[q].on # NoBackend /\ IdOf[req[q].on] = i} = {}
  BY ProxyAssumption DEF Init, NewRequest, InFlight
<1>2. \A b \in Backends : backends[b].active_connections = 0
  BY DEF Init, NewBackend
<1>3. \A i \in Ids : pool[i] = 0
  BY DEF Init
<1>4. PoolMatchesInFlight
  BY <1>1, <1>3, NoTrials DEF PoolMatchesInFlight
<1>5. ConnectionsExact /\ ConnectionsNeverOvercount
  <2>1. \A b \in Backends : Cardinality(InFlight(b)) = 0
    BY <1>1, NoTrials
  <2> QED
    BY <1>2, <2>1 DEF ConnectionsExact, ConnectionsNeverOvercount
<1> QED
  BY <1>4, <1>5

\* The pool counts for every id the attempts under way on its objects, over
\* retries, failures, removals and objects added again under an id in use.
THEOREM PoolCountsAreExact == Spec => []PoolMatchesInFlight
<1>1. TypeOK /\ TypeOK' /\ PoolMatchesInFlight /\ [Next]_vars => PoolMatchesInFlight'
  BY NextCounts
<1> QED
  BY <1>1, InitCounts, TypeCorrect, PTL DEF Spec

\* A backend never looks busier than it is: active_connections is at most the
\* number of attempts under way on it, although a retried answer of 500 or more
\* is counted down twice.
THEOREM NeverOvercounted == Spec => []ConnectionsNeverOvercount
<1>1. /\ TypeOK /\ TypeOK' /\ ConnectionsNeverOvercount /\ [Next]_vars =>
           ConnectionsNeverOvercount'
  BY NextCounts
<1> QED
  BY <1>1, InitCounts, TypeCorrect, PTL DEF Spec

\* The double count is the only cause of drift: where no answer of 500 or more
\* is retried, active_connections is the number of attempts under way.
THEOREM ExactUnlessServerErrorsRetried ==
  ~RetriesServerErrors => (Spec => []ConnectionsExact)
<1> SUFFICES ASSUME ~RetriesServerErrors PROVE Spec => []ConnectionsExact
  OBVIOUS
<1>1. TypeOK /\ TypeOK' /\ ConnectionsExact /\ [Next]_vars => ConnectionsExact'
  BY NextCounts
<1> QED
  BY <1>1, InitCounts, TypeCorrect, PTL DEF Spec

-----------------------------------------------------------------------------
(* The end of a HALF_OPEN period.                                          *)

\* Whatever the outcome of an attempt, it leaves its backend CLOSED or OPEN.
LEMMA OutcomeDecides ==
  ASSUME NEW x \in Backend, NEW serious
  PROVE  LET failed == Disconnect(OnFailure(PassiveFailure(x, serious)))
             succeeded == Disconnect(OnSuccess(PassiveSuccess(x))) IN
           /\ failed.circuit_state # "HALF_OPEN"
           /\ succeeded.circuit_state # "HALF_OPEN"
           /\ Disconnect(failed).circuit_state # "HALF_OPEN"
<1>1. ASSUME NEW y \in Backend
      PROVE  /\ OnFailure(y).circuit_state # "HALF_OPEN"
             /\ OnSuccess(y).circuit_state # "HALF_OPEN"
             /\ Disconnect(y).circuit_state = y.circuit_state
  BY DEF OnFailure, OnSuccess, Trip, Disconnect, Backend
<1>2. /\ OnFailure(PassiveFailure(x, serious)) \in Backend
      /\ OnSuccess(PassiveSuccess(x)) \in Backend
  BY OutcomeKeepsCount
<1>3. /\ OnFailure(PassiveFailure(x, serious)).circuit_state # "HALF_OPEN"
      /\ OnSuccess(PassiveSuccess(x)).circuit_state # "HALF_OPEN"
  BY <1>1, HealthType
<1>4. /\ Disconnect(OnFailure(PassiveFailure(x, serious))) \in Backend
      /\ Disconnect(OnFailure(PassiveFailure(x, serious))).circuit_state # "HALF_OPEN"
      /\ Disconnect(OnSuccess(PassiveSuccess(x))).circuit_state # "HALF_OPEN"
  BY <1>1, <1>2, <1>3, DisconnectCounts
<1> QED
  BY <1>1, <1>4

\* A step lets the circuit of b into HALF_OPEN, or takes a slot there.
SlotTaken(b) ==
  /\ backends'[b].circuit_state = "HALF_OPEN"
  /\ \/ backends[b].circuit_state # "HALF_OPEN"
     \/ backends'[b].half_open_in_flight # backends[b].half_open_in_flight

\* A slot goes with the request that the step sends to this backend: no backend is
\* asked for a slot and then passed over.
SlotsGoToSelected ==
  \A b \in Backends : SlotTaken(b) => \E r \in Requests : Sends(r, b)

\* What the outcome of an attempt makes of the circuit.
Judged(x, y) ==
  /\ y.circuit_state # "HALF_OPEN"
  /\ SameCircuit(x, y) \/ Opens(x, y) \/ Closes(x, y)

\* The attempt of r is judged, after which r ends or makes its next attempt.
AttemptEnds(r) ==
  /\ req[r].on \in Backends
  /\ \E rec \in Backend :
       /\ Judged(backends[req[r].on], rec)
       /\ Finish(r, req[r].on, rec) \/ TryAgain(r, req[r].on, rec)

\* Only the first attempt of a request and the end of one move more than a timer.
LEMMA LoudSteps ==
  ASSUME TypeOK, [Next]_vars, ~QuietStep
  PROVE  \E r \in Requests : BodyRead(r) \/ AttemptEnds(r)
<1>1. PICK r \in Requests :
        \/ BodyRead(r)
        \/ Succeeds(r)
        \/ ServerError(r)
        \/ \E timeout \in BOOLEAN : AttemptFails(r, timeout)
  BY DEF Next, QuietStep, RequestStep
<1> DEFINE c == req[r].on
<1>2. CASE Succeeds(r)
  <2> DEFINE rec == Disconnect(OnSuccess(PassiveSuccess(backends[c])))
  <2>1. c \in Backends /\ backends[c] \in Backend
    BY <1>2 DEF Succeeds, TypeOK
  <2>2. rec \in Backend /\ Judged(backends[c], rec)
    BY <2>1, SuccessCircuit, OutcomeDecides DEF Judged
  <2>3. Finish(r, c, rec)
    BY <1>2 DEF Succeeds
  <2> HIDE DEF rec
  <2> QED
    BY <2>1, <2>2, <2>3 DEF AttemptEnds
<1>3. CASE ServerError(r)
  <2> DEFINE once == Disconnect(OnFailure(PassiveFailure(backends[c], TRUE)))
             twice == Disconnect(once)
  <2>1. c \in Backends /\ backends[c] \in Backend
    BY <1>3 DEF ServerError, TypeOK
  <2>2. /\ once \in Backend /\ Judged(backends[c], once)
        /\ twice \in Backend /\ Judged(backends[c], twice)
    BY <2>1, FailureCircuit, OutcomeDecides DEF Judged
  <2>3. TryAgain(r, c, twice) \/ Finish(r, c, once)
    BY <1>3 DEF ServerError
  <2> HIDE DEF once, twice
  <2> QED
    BY <2>1, <2>2, <2>3 DEF AttemptEnds
<1>4. ASSUME NEW timeout \in BOOLEAN, AttemptFails(r, timeout)
      PROVE  AttemptEnds(r)
  <2> DEFINE rec == Disconnect(OnFailure(PassiveFailure(backends[c], timeout)))
  <2>1. c \in Backends /\ backends[c] \in Backend
    BY <1>4 DEF AttemptFails, TypeOK
  <2>2. rec \in Backend /\ Judged(backends[c], rec)
    BY <2>1, FailureCircuit, OutcomeDecides DEF Judged
  <2>3. TryAgain(r, c, rec) \/ Finish(r, c, rec)
    BY <1>4 DEF AttemptFails
  <2> HIDE DEF rec
  <2> QED
    BY <2>1, <2>2, <2>3 DEF AttemptEnds
<1> QED
  BY <1>1, <1>2, <1>3, <1>4

\* The next attempt of a request starts from a context of its type.
LEMMA NextTryType ==
  ASSUME TypeOK, NEW r \in Requests
  PROVE  /\ NextTry(req[r]) \in Request
         /\ NextTry(req[r]).attempts = req[r].attempts
<1>1. req[r] \in Request /\ req[r].retry_count + 1 \in Nat
  BY DEF TypeOK, Request
<1> QED
  BY <1>1, RequestFieldType DEF NextTry, Request

\* An attempt that leaves a HALF_OPEN backend ends the period: its outcome closes
\* or opens the circuit, and the retry in the same step does not let it into
\* HALF_OPEN again, since the cooldown has just begun.
LEMMA LeavingDecides ==
  ASSUME TypeOK, [Next]_vars, NEW q \in Requests, NEW b \in Backends,
         req[q].on = b, req'[q].on # b, backends[b].circuit_state = "HALF_OPEN"
  PROVE  backends'[b].circuit_state # "HALF_OPEN"
<1>1. ~QuietStep
  BY QuietCounts
<1>2. PICK r \in Requests : BodyRead(r) \/ AttemptEnds(r)
  BY <1>1, LoudSteps
<1>3. ASSUME NEW new, req' = [req EXCEPT ![r] = new] PROVE r = q
  BY <1>3 DEF TypeOK
<1>4. ASSUME BodyRead(r) PROVE FALSE
  <2>1. r = q
    BY <1>3, <1>4, AttemptReq DEF BodyRead
  <2> QED
    BY <1>4, <2>1 DEF BodyRead, TypeOK
<1>5. PICK rec \in Backend :
        /\ Judged(backends[req[r].on], rec)
        /\ Finish(r, req[r].on, rec) \/ TryAgain(r, req[r].on, rec)
  BY <1>2, <1>4 DEF AttemptEnds
<1>6. r = q
  BY <1>3, <1>5, AttemptReq DEF Finish, TryAgain
<1>7. /\ rec.circuit_state # "HALF_OPEN"
      /\ rec.circuit_state = "OPEN" => rec.cooled = FALSE
  BY <1>5, <1>6 DEF Judged, SameCircuit, Opens, Closes
<1>8. CASE Finish(r, b, rec)
  BY <1>7, <1>8 DEF Finish, TypeOK
<1>9. CASE TryAgain(r, b, rec)
  <2> DEFINE bs == [backends EXCEPT ![b] = rec]
  <2>1. bs \in [Backends -> Backend] /\ bs[b] = rec
    BY DEF TypeOK
  <2>2. Attempt(r, NextTry(req[r]), bs, PoolRelease(b))
    BY <1>9 DEF TryAgain
  <2> HIDE DEF bs
  <2>3. SameCircuit(AfterAsking(bs)[b], backends'[b])
    BY <2>1, <2>2, AttemptKeepsCircuits
  <2>4. AfterAsking(bs)[b] = rec \/ AfterAsking(bs)[b] = AllowRequest(rec)
    BY <2>1 DEF AfterAsking
  <2>5. SameCircuit(rec, AllowRequest(rec))
    BY <1>7, AllowCircuit DEF HalfOpens, Admits
  <2> QED
    BY <1>7, <2>3, <2>4, <2>5 DEF SameCircuit
<1> QED
  BY <1>5, <1>6, <1>8, <1>9

LEMMA HalfOpenStep ==
  ASSUME TypeOK, HalfOpenCanEnd, [Next]_vars, SlotsGoToSelected
  PROVE  HalfOpenCanEnd'
<1> SUFFICES ASSUME NEW b \in Backends, backends'[b].circuit_state = "HALF_OPEN"
             PROVE  HasHalfOpenSlot(backends'[b]) \/ InFlight(b)' # {}
  BY DEF HalfOpenCanEnd
<1>1. CASE SlotTaken(b)
  BY <1>1 DEF SlotsGoToSelected, Sends, InFlight
<1>2. CASE ~SlotTaken(b)
  <2>1. /\ backends[b].circuit_state = "HALF_OPEN"
        /\ backends'[b].half_open_in_flight = backends[b].half_open_in_flight
    BY <1>2 DEF SlotTaken
  <2>2. CASE HasHalfOpenSlot(backends[b])
    BY <2>1, <2>2 DEF HasHalfOpenSlot
  <2>3. CASE ~HasHalfOpenSlot(backends[b])
    <3>1. PICK q \in Requests : req[q].on = b
      BY <2>1, <2>3 DEF HalfOpenCanEnd, InFlight
    <3>2. req'[q].on = b
      BY <2>1, <3>1, LeavingDecides
    <3> QED
      BY <3>2 DEF InFlight
  <2> QED
    BY <2>2, <2>3
<1> QED
  BY <1>1, <1>2

\* With any number of backends, a HALF_OPEN period always ends, over retries and
\* late outcomes, unless a backend is once asked for a slot and passed over: until
\* then a HALF_OPEN circuit has a slot left or a request under way, and whatever
\* becomes of that one ends the period.
THEOREM HalfOpenIsDecided ==
  Spec /\ [][SlotsGoToSelected]_vars => []HalfOpenCanEnd
<1>1. Init => HalfOpenCanEnd
  BY DEF Init, NewBackend, HalfOpenCanEnd
<1>2. TypeOK /\ HalfOpenCanEnd /\ [Next]_vars /\ [SlotsGoToSelected]_vars
        => HalfOpenCanEnd'
  <2>1. ASSUME HalfOpenCanEnd, UNCHANGED vars PROVE HalfOpenCanEnd'
    BY <2>1 DEF HalfOpenCanEnd, InFlight, vars
  <2> QED
    BY <2>1, HalfOpenStep
<1> QED
  BY <1>1, <1>2, TypeCorrect, PTL DEF Spec

-----------------------------------------------------------------------------
(* A backend that is alone.                                                *)

\* One backend, half_open_requests of at least 1 and a strategy that returns a
\* backend whenever it is given one.
Alone ==
  /\ \A b, c \in Backends : b = c
  /\ HalfOpenRequests > 0
  /\ ~StrategyMaySkip

\* A backend that is asked and does not admit is left as it was.
LEMMA RefusalKeepsCircuit ==
  ASSUME NEW x \in Backend, HalfOpenRequests > 0, ~Allowed(x)
  PROVE  AllowRequest(x) = x
<1>1. CASE MayHalfOpen(x)
  <2>1. HalfOpen(x) \in Backend
    BY FieldValues, FieldType DEF HalfOpen
  <2>2. HalfOpen(x).half_open_in_flight = 0
    BY <2>1 DEF HalfOpen, Backend
  <2> QED
    BY <1>1, <2>2 DEF Allowed, HasHalfOpenSlot
<1>2. CASE ~MayHalfOpen(x)
  BY <1>2 DEF AllowRequest, Allowed, TryHalfOpen
<1> QED
  BY <1>1, <1>2

\* An attempt is sent to the only backend there is, or changes nothing of it.
LEMMA AloneSends ==
  ASSUME TypeOK, Alone, NEW r \in Requests, NEW ctx \in Request,
         ctx.attempts = req[r].attempts, req[r].attempts <= AttemptLimit,
         NEW bs \in [Backends -> Backend], NEW counts,
         Attempt(r, ctx, bs, counts), NEW b \in Backends
  PROVE  Sends(r, b) \/ backends'[b] = bs[b]
<1>1. ASSUME NEW c \in Candidates(bs), Send(r, ctx, bs, counts, c)
      PROVE  Sends(r, b)
  <2>1. c \in Backends /\ c = b
    BY CandidatesRegistered DEF TypeOK, Alone
  <2>2. req'[r] = SentTo(ctx, b)
    BY <1>1, <2>1 DEF Send, TypeOK
  <2>3. req[r].attempts \in Nat /\ AttemptLimit \in Nat
    BY AttemptLimitType DEF TypeOK, Request
  <2>4. CountUpTo(AttemptLimit + 1, ctx.attempts) # req[r].attempts
    BY <2>3 DEF CountUpTo
  <2> QED
    BY <2>2, <2>4, SentType DEF Sends
<1>2. ASSUME Candidates(bs) = {}, Unavailable(r, bs, counts)
      PROVE  backends'[b] = bs[b]
  <2>1. ASSUME b \in Asked(bs) PROVE AllowRequest(bs[b]) = bs[b]
    <3>1. ~Allowed(bs[b])
      BY <1>2, <2>1 DEF Candidates, Admitted
    <3> QED
      BY <3>1, RefusalKeepsCircuit DEF Alone
  <2> QED
    BY <1>2, <2>1 DEF Unavailable, AfterAsking
<1> QED
  BY <1>1, <1>2 DEF Attempt, Alone

LEMMA AloneIsSelected ==
  ASSUME TypeOK, BoundedAttempts, Alone, [Next]_vars
  PROVE  SlotsGoToSelected
<1> SUFFICES ASSUME NEW b \in Backends, SlotTaken(b)
             PROVE  \E r \in Requests : Sends(r, b)
  BY DEF SlotsGoToSelected
<1>1. ~QuietStep
  BY QuietCircuit DEF SlotTaken, SameCircuit, Cools
<1>2. PICK r \in Requests : BodyRead(r) \/ AttemptEnds(r)
  BY <1>1, LoudSteps
<1>3. /\ req[r] \in Request /\ req[r].attempts <= AttemptLimit
      /\ backends \in [Backends -> Backend]
  <2>1. req[r] \in Request /\ backends \in [Backends -> Backend]
    BY DEF TypeOK
  <2>2. req[r].attempts <= IF r \in SafeRequests THEN AttemptLimit ELSE 1
    BY DEF BoundedAttempts
  <2>3. 1 <= AttemptLimit
    BY ProxyAssumption DEF AttemptLimit
  <2>4. req[r].attempts \in Nat /\ AttemptLimit \in Nat
    BY <2>1, AttemptLimitType DEF Request
  <2> QED
    BY <2>1, <2>2, <2>3, <2>4
<1>4. CASE BodyRead(r)
  <2>1. Sends(r, b) \/ backends'[b] = backends[b]
    BY <1>3, <1>4, AloneSends DEF BodyRead
  <2> QED
    BY <2>1 DEF SlotTaken
<1>5. CASE AttemptEnds(r)
  <2>1. PICK rec \in Backend :
          /\ rec.circuit_state # "HALF_OPEN"
          /\ Finish(r, req[r].on, rec) \/ TryAgain(r, req[r].on, rec)
    BY <1>5 DEF AttemptEnds, Judged
  <2>2. req[r].on = b
    BY <1>5 DEF AttemptEnds, Alone
  <2>3. CASE Finish(r, b, rec)
    BY <1>3, <2>1, <2>3 DEF Finish, SlotTaken
  <2>4. CASE TryAgain(r, b, rec)
    <3> DEFINE new == [backends EXCEPT ![b] = rec]
    <3>1. new \in [Backends -> Backend] /\ new[b] = rec
      BY <1>3
    <3>2. Attempt(r, NextTry(req[r]), new, PoolRelease(b))
      BY <2>4 DEF TryAgain
    <3> HIDE DEF new
    <3>3. Sends(r, b) \/ backends'[b] = rec
      BY <1>3, <3>1, <3>2, NextTryType, AloneSends
    <3> QED
      BY <2>1, <3>3 DEF SlotTaken
  <2> QED
    BY <2>1, <2>2, <2>3, <2>4
<1> QED
  BY <1>2, <1>4, <1>5

\* No slot of a backend that is alone is passed over, so its HALF_OPEN periods end
\* whatever the requests do.
COROLLARY AloneIsDecided == Alone => (Spec => []HalfOpenCanEnd)
<1> SUFFICES ASSUME Alone PROVE Spec => []HalfOpenCanEnd
  OBVIOUS
<1>1. TypeOK /\ BoundedAttempts /\ [Next]_vars => [SlotsGoToSelected]_vars
  BY AloneIsSelected
<1>2. Spec => [][SlotsGoToSelected]_vars
  BY <1>1, TypeCorrect, AttemptsBounded, PTL DEF Spec
<1> QED
  BY <1>2, HalfOpenIsDecided, PTL

=============================================================================
