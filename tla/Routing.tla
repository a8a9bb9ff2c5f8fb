------------------------------- MODULE Routing -------------------------------
(***************************************************************************)
(* build_strategy of app/server.py: the configuration names one of four    *)
(* strategies, which then serves every selection.  The four do not share   *)
(* state, so that of the ones not chosen keeps its initial value.          *)
(***************************************************************************)
EXTENDS Candidates, Sequences

CONSTANTS
  RingSize,                                                \* N of RoundRobin
  MinWeight, MaxWeight, AdminOps,                          \* WeightedRoundRobin
  MaxLoad, MaxRetried, MinListed, Latencies, HashValues,   \* LoadAware
  CapacityFactor

\* Latencies have a maximum: attempts and probes time out.
ASSUME RoutingAssumption ==
  /\ RingSize \in Nat \ {0}
  /\ MinWeight \in Int
  /\ MaxWeight \in Nat \ {0}
  /\ MinWeight <= 1
  /\ MaxLoad \in Nat
  /\ MaxRetried \in Nat
  /\ MinListed \in 1..N
  /\ Latencies \subseteq Nat \ {0}
  /\ HashValues \subseteq 0..99
  /\ CapacityFactor \in Nat \ {0}
  /\ \E most \in Latencies : \A latency \in Latencies : latency <= most

VARIABLES
  strategy,                                            \* load_balancing.strategy
  index, list, round,                                  \* see RoundRobin
  weight, current_weights, selected, served, carried,  \* see WeightedRoundRobin
  hash, active, held, retried, average, proven         \* see LoadAware

ringVars == <<index, list, round>>
weightedVars == <<weight, current_weights, selected, served, carried>>
loadVars == <<hash, active, held, retried, average, proven>>
vars == <<strategy, ringVars, weightedVars, loadVars>>

Ring == INSTANCE RoundRobin WITH N <- RingSize
Weighted == INSTANCE WeightedRoundRobin
LoadBased == INSTANCE LoadAware

Strategies ==
  {"round_robin", "weighted_round_robin", "least_connections", "latency_aware"}

\* Weights other than the default are of interest to one strategy only.
Init ==
  /\ strategy \in Strategies
  /\ Ring!Init
  /\ Weighted!Init
  /\ LoadBased!LoadInit
  /\ strategy # "weighted_round_robin" => weight = [b \in Backends |-> 1]

RingStep ==
  /\ strategy = "round_robin"
  /\ Ring!Next
  /\ UNCHANGED <<strategy, weightedVars, loadVars>>

SelectWeighted ==
  /\ strategy = "weighted_round_robin"
  /\ Weighted!Select
  /\ UNCHANGED <<strategy, ringVars, loadVars>>

PatchWeight ==
  /\ strategy = "weighted_round_robin"
  /\ \E b \in Backends, w \in Weighted!PatchedWeights : Weighted!UpdateWeight(b, w)
  /\ UNCHANGED <<strategy, ringVars, loadVars>>

LoadStep ==
  /\ strategy \in {"least_connections", "latency_aware"}
  /\ LoadBased!LoadNext
  /\ UNCHANGED <<strategy, ringVars, weightedVars>>

Next == RingStep \/ SelectWeighted \/ PatchWeight \/ LoadStep

Spec == Init /\ [][Next]_vars

\* Requests keep arriving.
FairSpec == Spec /\ WF_vars(SelectWeighted)

-----------------------------------------------------------------------------
(* Properties.                                                             *)

\* Every variable of every strategy has its type, and the strategy chosen at the
\* start is one that build_strategy knows.
TypeOK ==
  /\ strategy \in Strategies
  /\ Ring!TypeOK
  /\ Weighted!TypeOK
  /\ LoadBased!LoadTypeOK

\* Round robin serves in turns (see RoundRobin).
OncePerTurn == Ring!OncePerTurn

\* Weighted round robin keeps the shares (see WeightedRoundRobin).
ShareFollowsWeights == Weighted!ShareFollowsWeights

\* Weighted round robin is exact while nothing changes (see WeightedRoundRobin).
ExactFromRest == Weighted!ExactFromRest

\* Weighted round robin is never ahead of the shares (see WeightedRoundRobin).
NeverAheadOfShare == Weighted!NeverAheadOfShare

\* Weighted round robin owes no backend more and more (see WeightedRoundRobin).
CreditIsBounded == Weighted!CreditIsBounded

\* Weighted round robin starves no backend (see WeightedRoundRobin).
ServedWhileAvailable ==
  strategy = "weighted_round_robin" => Weighted!ServedWhileAvailable

\* Least connections bounds the load of a backend (see LoadAware).
EvenShareOfPeak == LoadBased!EvenShareOfPeak

\* Latency-aware routing leaves the fastest backend in time (see LoadAware).
NoStampede == LoadBased!NoStampede

=============================================================================
