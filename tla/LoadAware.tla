------------------------------ MODULE LoadAware ------------------------------
(***************************************************************************)
(* LeastConnectionsStrategy and LatencyAwareStrategy of app/routing, with  *)
(* the fields of the backends they read and what writes these: attempts    *)
(* that begin and end, and probes.  Both strategies are stateless, so the  *)
(* behaviour is in the loop from a selection over the load it causes to    *)
(* the next one.                                                           *)
(*                                                                         *)
(* Abstractions.  Latencies are multiples of a unit of 10 ms; the average  *)
(* is rounded to it, up or down, which only adds behaviours.               *)
(* successful_requests is read only against 0.  Ids are ordered as the     *)
(* registry is.  A request that is retried selects again in a Begin of its *)
(* own: other requests may run before it does.  held and retried are not   *)
(* in the code; they tell the attempts under way from what the counter of  *)
(* the code says, which a retried server error lowers twice.               *)
(***************************************************************************)
EXTENDS Candidates

CONSTANTS
  MaxLoad,         \* a bound on the attempts under way
  MaxRetried,      \* a bound on retried
  MinListed,       \* at least so many backends are in every list
  Latencies,       \* what attempts and probes take, in units of 10 ms
  HashValues,      \* hash(b.id) % 100: Python salts it in each process
  CapacityFactor   \* the argument capacity_factor of LatencyAwareStrategy

VARIABLES
  strategy,  \* load_balancing.strategy
  hash,      \* hash(b.id) % 100, fixed while the process runs
  active,    \* Backend.active_connections
  held,      \* the attempts under way on a backend
  retried,   \* the server errors retried on it since it last held none
  average,   \* Backend.average_latency, 0 before the first sample
  proven     \* Backend.successful_requests > 0

loadVars == <<hash, active, held, retried, average, proven>>

\* The hash is read by the latency-aware strategy only.
LoadInit ==
  /\ hash \in IF strategy = "latency_aware" THEN [Backends -> HashValues]
              ELSE [Backends -> {0}]
  /\ active = [b \in Backends |-> 0]
  /\ held = [b \in Backends |-> 0]
  /\ retried = [b \in Backends |-> 0]
  /\ average = [b \in Backends |-> 0]
  /\ proven = [b \in Backends |-> FALSE]

LongLists == {l \in Lists : Cardinality(l) >= MinListed}

\* The attempts under way, numbered on each backend.
Attempts == {a \in Backends \X (1..MaxLoad) : a[2] <= held[a[1]]}

Load == Cardinality(Attempts)

-----------------------------------------------------------------------------
(* The strategies.                                                         *)

First(bs) == CHOOSE b \in bs : \A c \in bs : b <= c

\* (active_connections, average_latency) of b is at most that of c.
Preferred(b, c) ==
  \/ active[b] < active[c]
  \/ active[b] = active[c] /\ average[b] <= average[c]

LeastConnections(backends) ==
  First({b \in backends : \A c \in backends : Preferred(b, c)})

DefaultLatency == 5   \* 0.05 s

EstimatedLatency(b) == IF average[b] > 0 THEN average[b] ELSE DefaultLatency

\* Mutated: the connections do not count.
ScoreOfLatency(b) ==
  (IF proven[b] THEN 2000 ELSE 3000) * EstimatedLatency(b) * CapacityFactor
    + CapacityFactor * hash[b]

\* The score of b in units of 1 ms / (200 * CapacityFactor), which makes it an
\* integer: latency times 1.5 if b is not proven, times the load factor, plus
\* 0.005 ms times the hash.
Score(b) ==
  (IF proven[b] THEN 2000 ELSE 3000) * EstimatedLatency(b)
      * (CapacityFactor + active[b])
    + CapacityFactor * hash[b]

LatencyAware(backends) ==
  First({b \in backends : \A c \in backends : Score(b) <= Score(c)})

Choice(backends) ==
  IF strategy = "least_connections" THEN LeastConnections(backends)
  ELSE LatencyAware(backends)

-----------------------------------------------------------------------------
(* What the strategies read.                                               *)

\* Mutated: the new sample replaces the average of the others.
RoundedSwapped(avg, observed) ==
  LET exact == 30 * observed + 7 * avg IN {exact \div 10, (exact + 9) \div 10}

\* alpha = 0.3, rounded down or up.
Rounded(avg, observed) ==
  LET exact == 3 * observed + 7 * avg IN {exact \div 10, (exact + 9) \div 10}

UpdateLatency(b, observed) ==
  \E avg \in IF average[b] <= 0 THEN {observed} ELSE Rounded(average[b], observed) :
    average' = [average EXCEPT ![b] = avg]

Begin(backends) ==
  LET b == Choice(backends) IN
  /\ Load < MaxLoad
  /\ active' = [active EXCEPT ![b] = @ + 1]
  /\ held' = [held EXCEPT ![b] = @ + 1]
  /\ UNCHANGED <<hash, retried, average, proven>>

\* The counter stops at 0.
Lower(b, steps) ==
  active' = [active EXCEPT ![b] = IF @ > steps THEN @ - steps ELSE 0]

\* An attempt on b ends; errors is what retried is afterwards if others go on.
End(b, errors) ==
  /\ held[b] > 0
  /\ held' = [held EXCEPT ![b] = @ - 1]
  /\ retried' = [retried EXCEPT ![b] = IF held[b] = 1 THEN 0 ELSE errors]

Succeed(b, latency) ==
  /\ End(b, retried[b])
  /\ Lower(b, 1)
  /\ proven' = [proven EXCEPT ![b] = TRUE]
  /\ UpdateLatency(b, latency)
  /\ UNCHANGED hash

\* Mutated: every failure lowers the counter as a retried server error does.
FailTwice(b) ==
  /\ End(b, retried[b])
  /\ Lower(b, 2)
  /\ UNCHANGED <<hash, average, proven>>

\* A failure leaves no trace in what is read here but in the counter: the
\* latency it took is lost.
Fail(b) ==
  /\ End(b, retried[b])
  /\ Lower(b, 1)
  /\ UNCHANGED <<hash, average, proven>>

\* A server error that is retried lowers the counter before the loop goes on and
\* once more in the finally clause.
RetriedServerError(b) ==
  /\ retried[b] < MaxRetried
  /\ End(b, retried[b] + 1)
  /\ Lower(b, 2)
  /\ UNCHANGED <<hash, average, proven>>

\* A successful probe adds a sample and proves nothing.
Probe(b, latency) ==
  /\ UpdateLatency(b, latency)
  /\ UNCHANGED <<hash, active, held, retried, proven>>

BackendEvent(b) ==
  \/ Fail(b)
  \/ RetriedServerError(b)
  \/ \E latency \in Latencies : Succeed(b, latency) \/ Probe(b, latency)

LoadNext ==
  \/ \E backends \in LongLists : Begin(backends)
  \/ \E b \in Backends : BackendEvent(b)

-----------------------------------------------------------------------------
(* Properties.                                                             *)

\* Every variable has its type, the counter never exceeds the attempts under way,
\* and an average stays between the samples it was made from.
LoadTypeOK ==
  /\ hash \in [Backends -> 0..99]
  /\ held \in [Backends -> 0..MaxLoad]
  /\ retried \in [Backends -> 0..MaxRetried]
  /\ active \in [Backends -> 0..MaxLoad]
  /\ \A b \in Backends : active[b] <= held[b]
  /\ proven \in [Backends -> BOOLEAN]
  /\ average \in [Backends -> Nat]
  /\ \A b \in Backends :
       \/ average[b] = 0 /\ ~proven[b]
       \/ \E l, m \in Latencies : l <= average[b] /\ average[b] <= m

\* Under least connections no backend ever holds more than its even share of
\* the largest load there may be and one attempt more for each server error
\* retried on it since it last held none, in whatever order attempts end, fail
\* and are measured, as long as every list has at least MinListed backends.
EvenShareOfPeak ==
  strategy = "least_connections" =>
    \A b \in Backends : (held[b] - retried[b] - 1) * MinListed < MaxLoad

\* Half units of the largest and the smallest estimate that a score may start
\* from, the penalty for a backend that is not proven included.
Least(values) == CHOOSE v \in values : \A w \in values : v <= w
Most(values) == CHOOSE v \in values : \A w \in values : w <= v
Slowest == 3 * Most(Latencies \cup {DefaultLatency})
Fastest == Least({2 * l : l \in Latencies} \cup {3 * DefaultLatency})

\* Under the latency-aware strategy the fastest backend is not stampeded: while
\* another one in the list is idle by its counter, a backend gets a connection only as long as
\* its load factor has not made up for all that it may be faster and for the
\* exploration (README.md, "Other backends become attractive").
NoStampede ==
  [][\A backends \in LongLists, b \in Backends :
       /\ strategy = "latency_aware"
       /\ active'[b] > active[b]
       /\ \E c \in backends \ {b} : active[c] = 0
       /\ Begin(backends)
       => 1000 * Fastest * active[b] <=
            (1000 * (Slowest - Fastest) + 99) * CapacityFactor]_loadVars

=============================================================================
