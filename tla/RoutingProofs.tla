---------------------------- MODULE RoutingProofs ----------------------------
(***************************************************************************)
(* Proofs about Routing, for any number of backends and any constants: the *)
(* results about the single strategies hold of the program that runs one   *)
(* of them, and the loads that least connections and latency-aware routing *)
(* allow are bounded.                                                      *)
(***************************************************************************)
EXTENDS Routing, SelectionLemmas

RingP == INSTANCE RoundRobinProofs WITH N <- RingSize
WeightedP == INSTANCE WeightedProofs

-----------------------------------------------------------------------------
(* Round robin and weighted round robin.                                   *)

\* The steps of Routing are steps of the strategies or leave them alone.
LEMMA InitOfParts ==
  Init => RingP!Init /\ WeightedP!Init
BY DEF Init, Ring!Init, RingP!Init, Ring!Backends, RingP!Backends,
  Weighted!Init, WeightedP!Init, Weighted!Weights, WeightedP!Weights,
  Weighted!Backends, WeightedP!Backends, Weighted!NoWindow, WeightedP!NoWindow,
  Weighted!None, WeightedP!None


LEMMA RingSteps ==
  [Next]_vars => [RingP!Next]_(RingP!vars)
<1>1. Ring!Next => RingP!Next
  BY DEF Ring!Next, RingP!Next, Ring!SelectBackend, RingP!SelectBackend,
    Ring!NextIndex, RingP!NextIndex, Ring!Lists, RingP!Lists,
    Ring!Backends, RingP!Backends, Ring!At, RingP!At,
    Ring!Cardinality, RingP!Cardinality
<1> QED
  BY <1>1 DEF Next, RingStep, SelectWeighted, PatchWeight, LoadStep,
    vars, ringVars, RingP!vars

LEMMA TotalsAgree ==
  ASSUME NEW f
  PROVE  Weighted!Total(f) = WeightedP!Total(f)
BY DEF Weighted!Total, WeightedP!Total, Weighted!FoldFunction, WeightedP!FoldFunction,
  Weighted!FoldFunctionOnSet, WeightedP!FoldFunctionOnSet,
  Weighted!MapThenFoldSet, WeightedP!MapThenFoldSet

LEMMA WeightedSteps ==
  [Next]_vars => [WeightedP!Next]_(WeightedP!vars)
<1>1. ASSUME NEW backends, Weighted!SelectBackend(backends)
      PROVE  WeightedP!SelectBackend(backends)
  BY <1>1, TotalsAgree DEF Weighted!SelectBackend, WeightedP!SelectBackend,
    Weighted!Gained, WeightedP!Gained, Weighted!CurrentWeight, WeightedP!CurrentWeight,
    Weighted!Adjust, WeightedP!Adjust, Weighted!Leader, WeightedP!Leader,
    Weighted!Counted, WeightedP!Counted, Weighted!NewWindow, WeightedP!NewWindow,
    Weighted!NoWindow, WeightedP!NoWindow, Weighted!None, WeightedP!None,
    Weighted!TotalWeight, WeightedP!TotalWeight
<1>2. Weighted!Select => WeightedP!Select
  BY <1>1 DEF Weighted!Select, WeightedP!Select, Weighted!Lists, WeightedP!Lists,
    Weighted!Backends, WeightedP!Backends
<1>3. ASSUME NEW b, NEW w, Weighted!UpdateWeight(b, w)
      PROVE  WeightedP!UpdateWeight(b, w)
  BY <1>3 DEF Weighted!UpdateWeight, WeightedP!UpdateWeight,
    Weighted!NoWindow, WeightedP!NoWindow
<1>4. PatchWeight => WeightedP!Next
  BY <1>3 DEF PatchWeight, WeightedP!Next, Weighted!PatchedWeights,
    WeightedP!PatchedWeights, Backends, WeightedP!Backends
<1> QED
  BY <1>2, <1>4 DEF Next, RingStep, SelectWeighted, LoadStep,
    vars, weightedVars, WeightedP!vars, WeightedP!Next

\* Round robin serves every backend of a list once before it serves one twice,
\* whatever the lists were before.
THEOREM RoundRobinServesInTurns == Spec => []OncePerTurn
<1>1. RingP!Spec => []RingP!OncePerTurn
  BY RoutingAssumption, RingP!ServesInTurns
<1>2. Init => RingP!Init
  BY InitOfParts
<1>3. [Next]_vars => [RingP!Next]_(RingP!vars)
  BY RingSteps
<1>4. RingP!OncePerTurn => OncePerTurn
  BY DEF RingP!OncePerTurn, OncePerTurn, Ring!OncePerTurn,
    RingP!IsInjective, Ring!IsInjective
<1> QED
  BY <1>1, <1>2, <1>3, <1>4, PTL DEF Spec, RingP!Spec

\* Weighted round robin never serves a backend ahead of its share.
THEOREM WeightedNeverAhead ==
  ASSUME MinWeight \in 0..1
  PROVE  Spec => []NeverAheadOfShare
<1>1. WeightedP!Spec => []WeightedP!NeverAheadOfShare
  BY RoutingAssumption, CandidatesAssumption, WeightedP!NeverAhead
    DEF WeightedP!WeightsNotNegative
<1>2. Init => WeightedP!Init
  BY InitOfParts
<1>3. [Next]_vars => [WeightedP!Next]_(WeightedP!vars)
  BY WeightedSteps
<1>4. WeightedP!NeverAheadOfShare => NeverAheadOfShare
  BY TotalsAgree DEF WeightedP!NeverAheadOfShare, NeverAheadOfShare,
    Weighted!NeverAheadOfShare, WeightedP!TotalWeight, Weighted!TotalWeight
<1> QED
  BY <1>1, <1>2, <1>3, <1>4, PTL DEF Spec, WeightedP!Spec

\* Weighted round robin keeps to the weights, but for what earlier windows left.
THEOREM WeightedKeepsShares ==
  ASSUME MinWeight \in 0..1
  PROVE  Spec => []ShareFollowsWeights
<1>1. WeightedP!Spec => []WeightedP!ShareFollowsWeights
  BY RoutingAssumption, CandidatesAssumption, WeightedP!SharesFollowWeights
    DEF WeightedP!WeightsNotNegative
<1>2. Init => WeightedP!Init
  BY InitOfParts
<1>3. [Next]_vars => [WeightedP!Next]_(WeightedP!vars)
  BY WeightedSteps
<1>4. \A b : WeightedP!Credit(b) = Weighted!Credit(b)
  BY TotalsAgree DEF WeightedP!Credit, Weighted!Credit,
    WeightedP!TotalWeight, Weighted!TotalWeight
<1>5. WeightedP!ShareFollowsWeights => ShareFollowsWeights
  BY <1>4, TotalsAgree DEF WeightedP!ShareFollowsWeights, ShareFollowsWeights,
    Weighted!ShareFollowsWeights, WeightedP!TotalWeight, Weighted!TotalWeight
<1> QED
  BY <1>1, <1>2, <1>3, <1>5, PTL DEF Spec, WeightedP!Spec

\* From rest, weighted round robin serves exactly the shares that the weights say.
THEOREM WeightedIsExact ==
  ASSUME MinWeight \in 0..1
  PROVE  Spec => []ExactFromRest
<1>1. WeightedP!Spec => []WeightedP!ExactFromRest
  BY RoutingAssumption, CandidatesAssumption, WeightedP!SharesAreExact
    DEF WeightedP!WeightsNotNegative
<1>2. Init => WeightedP!Init
  BY InitOfParts
<1>3. [Next]_vars => [WeightedP!Next]_(WeightedP!vars)
  BY WeightedSteps
<1>4. WeightedP!ExactFromRest => ExactFromRest
  BY TotalsAgree DEF WeightedP!ExactFromRest, ExactFromRest, Weighted!ExactFromRest,
    WeightedP!TotalWeight, Weighted!TotalWeight
<1> QED
  BY <1>1, <1>2, <1>3, <1>4, PTL DEF Spec, WeightedP!Spec

\* Weighted round robin remembers bounded credits, however backends come and go.
THEOREM WeightedCreditIsBounded ==
  ASSUME MinWeight \in 0..1
  PROVE  Spec => []CreditIsBounded
<1>1. WeightedP!Spec => []WeightedP!CreditIsBounded
  BY RoutingAssumption, CandidatesAssumption, WeightedP!CreditStaysBounded
    DEF WeightedP!WeightsNotNegative
<1>2. Init => WeightedP!Init
  BY InitOfParts
<1>3. [Next]_vars => [WeightedP!Next]_(WeightedP!vars)
  BY WeightedSteps
<1>4. WeightedP!CreditIsBounded => CreditIsBounded
  BY DEF WeightedP!CreditIsBounded, CreditIsBounded, Weighted!CreditIsBounded
<1> QED
  BY <1>1, <1>2, <1>3, <1>4, PTL DEF Spec, WeightedP!Spec

-----------------------------------------------------------------------------
(* Least connections and latency-aware routing: lists and loads.           *)

LEMMA SameBackends ==
  /\ LoadBased!Backends = Backends
  /\ Backends \in SUBSET Nat
  /\ IsFiniteSet(Backends)
<1>1. IsFiniteSet(Backends)
  BY CandidatesAssumption, FS_Interval DEF Backends
<1> QED
  BY <1>1, CandidatesAssumption DEF Backends, LoadBased!Backends

LEMMA ListFacts ==
  ASSUME NEW backends \in LoadBased!LongLists
  PROVE  /\ backends \in SUBSET Backends
         /\ backends # {}
         /\ IsFiniteSet(backends)
         /\ Cardinality(backends) \in Nat
         /\ MinListed <= Cardinality(backends)
<1>1. /\ backends \in SUBSET Backends
      /\ backends # {}
      /\ MinListed <= Cardinality(backends)
  BY SameBackends DEF LoadBased!LongLists, LoadBased!Lists,
    LoadBased!Cardinality, Cardinality
<1>2. IsFiniteSet(backends)
  BY <1>1, SameBackends, FS_Subset
<1> QED
  BY <1>1, <1>2, FS_CardinalityType

\* Backends that all hold k attempts hold so many together.
LEMMA LoadAtLeast ==
  ASSUME LoadBased!LoadTypeOK, NEW S \in SUBSET Backends, NEW k \in Nat,
         \A b \in S : k <= held[b]
  PROVE  /\ LoadBased!Load \in Nat
         /\ Cardinality(S) \in Nat
         /\ Cardinality(S) * k <= LoadBased!Load
<1> DEFINE all == LoadBased!Attempts
<1>1. LoadBased!Load = Cardinality(all)
  BY DEF LoadBased!Load, LoadBased!Cardinality, Cardinality
<1>2. all = {a \in Backends \X (1..MaxLoad) : a[2] <= held[a[1]]}
  BY SameBackends DEF LoadBased!Attempts
<1>3. held \in [Backends -> 0..MaxLoad] /\ MaxLoad \in Nat
  BY SameBackends, RoutingAssumption DEF LoadBased!LoadTypeOK
<1>4. IsFiniteSet(all)
  <2>1. IsFiniteSet(1..MaxLoad)
    BY <1>3, FS_Interval
  <2>2. IsFiniteSet(Backends \X (1..MaxLoad))
    BY <2>1, SameBackends, FS_Product
  <2> QED
    BY <1>2, <2>2, FS_Subset
<1>5. S \X (1..k) \in SUBSET all
  <2> SUFFICES ASSUME NEW b \in S, NEW n \in 1..k PROVE <<b, n>> \in all
    OBVIOUS
  <2>1. b \in Backends /\ held[b] \in 0..MaxLoad /\ k <= held[b]
    BY <1>3
  <2>2. n \in 1..MaxLoad /\ n <= held[b]
    BY <1>3, <2>1
  <2> QED
    BY <1>2, <2>1, <2>2
<1>6. Cardinality(S \X (1..k)) = Cardinality(S) * k
  <2>1. IsFiniteSet(1..k) /\ Cardinality(1..k) = k
    BY FS_Interval
  <2>2. IsFiniteSet(S)
    BY SameBackends, FS_Subset
  <2> QED
    BY <2>1, <2>2, FS_Product
<1>7. Cardinality(S \X (1..k)) <= Cardinality(all)
  BY <1>4, <1>5, FS_Subset
<1>8. Cardinality(all) \in Nat /\ Cardinality(S) \in Nat
  BY <1>4, SameBackends, FS_Subset, FS_CardinalityType
<1> QED
  BY <1>1, <1>6, <1>7, <1>8

-----------------------------------------------------------------------------
(* What the two strategies choose.                                         *)

LEMMA FirstInList ==
  ASSUME NEW S \in SUBSET Backends, S # {}
  PROVE  LoadBased!First(S) \in S
BY SameBackends, LeastElement DEF LoadBased!First

\* Least connections takes a backend that no other has fewer attempts than.
LEMMA LeastHasFewest ==
  ASSUME LoadBased!LoadTypeOK, NEW backends \in LoadBased!LongLists,
         strategy = "least_connections"
  PROVE  LET b == LoadBased!Choice(backends) IN
           b \in backends /\ \A c \in backends : active[b] <= active[c]
<1> DEFINE best == {b \in backends : \A c \in backends : LoadBased!Preferred(b, c)}
<1>1. backends \in SUBSET Backends /\ backends # {}
  BY ListFacts
<1>2. \A b \in backends : active[b] \in Nat /\ average[b] \in Nat
  BY <1>1, SameBackends DEF LoadBased!LoadTypeOK
<1>3. \E b \in backends : \A c \in backends :
        active[b] < active[c] \/ (active[b] = active[c] /\ average[b] <= average[c])
  BY <1>1, <1>2, SmallestPair
<1>4. best # {} /\ best \in SUBSET Backends
  BY <1>1, <1>3 DEF LoadBased!Preferred
<1>5. \A b \in best : b \in backends /\ \A c \in backends : active[b] <= active[c]
  BY <1>2 DEF LoadBased!Preferred
<1>6. LoadBased!Choice(backends) = LoadBased!First(best)
  BY DEF LoadBased!Choice, LoadBased!LeastConnections
<1> HIDE DEF best
<1> QED
  BY <1>4, <1>5, <1>6, FirstInList

\* Latency-aware routing takes a backend that no other has a lower score than.
LEMMA LowestScore ==
  ASSUME LoadBased!LoadTypeOK, NEW backends \in LoadBased!LongLists,
         strategy # "least_connections"
  PROVE  LET b == LoadBased!Choice(backends) IN
           /\ b \in backends
           /\ \A c \in backends : LoadBased!Score(b) <= LoadBased!Score(c)
<1> DEFINE best == {b \in backends : \A c \in backends :
                                       LoadBased!Score(b) <= LoadBased!Score(c)}
           score == [b \in backends |-> LoadBased!Score(b)]
<1>1. backends \in SUBSET Backends /\ backends # {}
  BY ListFacts
<1>2. \A b \in backends : score[b] \in Nat
  <2> SUFFICES ASSUME NEW b \in backends PROVE LoadBased!Score(b) \in Nat
    OBVIOUS
  <2>1. /\ hash[b] \in Nat /\ active[b] \in Nat /\ average[b] \in Nat
        /\ CapacityFactor \in Nat
    BY <1>1, SameBackends, RoutingAssumption DEF LoadBased!LoadTypeOK
  <2>2. LoadBased!EstimatedLatency(b) \in Nat
    BY <2>1 DEF LoadBased!EstimatedLatency, LoadBased!DefaultLatency
  <2>3. \A x, y \in Nat : x * y \in Nat /\ x + y \in Nat
    OBVIOUS
  <2>4. (IF proven[b] THEN 2000 ELSE 3000) * LoadBased!EstimatedLatency(b) \in Nat
    BY <2>2
  <2>5. (IF proven[b] THEN 2000 ELSE 3000) * LoadBased!EstimatedLatency(b)
          * (CapacityFactor + active[b]) \in Nat
    BY <2>1, <2>3, <2>4
  <2> QED
    BY <2>1, <2>3, <2>5 DEF LoadBased!Score
<1>3. best # {} /\ best \in SUBSET Backends
  <2>1. \E b \in backends : \A c \in backends : score[b] <= score[c]
    <3> HIDE DEF score
    <3> QED
      BY <1>1, <1>2, SmallestKey
  <2> QED
    BY <1>1, <2>1
<1>4. LoadBased!Choice(backends) = LoadBased!First(best)
  BY DEF LoadBased!Choice, LoadBased!LatencyAware
<1>5. \A b \in best : b \in backends /\ \A c \in backends :
                        LoadBased!Score(b) <= LoadBased!Score(c)
  OBVIOUS
<1> HIDE DEF best
<1> QED
  BY <1>3, <1>4, <1>5, FirstInList

LEMMA ChosenInList ==
  ASSUME LoadBased!LoadTypeOK, NEW backends \in LoadBased!LongLists
  PROVE  /\ LoadBased!Choice(backends) \in backends
         /\ LoadBased!Choice(backends) \in Backends
BY LeastHasFewest, LowestScore, ListFacts

\* One attempt that begins: no backend passes the bound on the attempts.
LEMMA BeginCounts ==
  ASSUME LoadBased!LoadTypeOK, NEW backends \in LoadBased!LongLists,
         LoadBased!Begin(backends)
  PROVE  LET b == LoadBased!Choice(backends) IN
           /\ b \in Backends
           /\ held[b] \in Nat /\ held[b] < MaxLoad
           /\ active' = [active EXCEPT ![b] = active[b] + 1]
           /\ held' = [held EXCEPT ![b] = held[b] + 1]
           /\ UNCHANGED <<hash, retried, average, proven>>
<1> DEFINE b == LoadBased!Choice(backends)
<1>1. b \in Backends
  BY ChosenInList
<1>2. held[b] \in Nat
  <2>1. held \in [Backends -> 0..MaxLoad]
    BY SameBackends DEF LoadBased!LoadTypeOK
  <2> HIDE DEF b
  <2> QED
    BY <1>1, <2>1
<1>3. LoadBased!Load < MaxLoad /\ MaxLoad \in Nat
  BY RoutingAssumption DEF LoadBased!Begin
<1>4. /\ LoadBased!Load \in Nat
      /\ Cardinality({b}) * held[b] <= LoadBased!Load
  <2> HIDE DEF b
  <2> QED
    BY <1>1, <1>2, LoadAtLeast
<1>5. Cardinality({b}) = 1
  BY FS_Singleton
<1>6. held[b] < MaxLoad
  <2> HIDE DEF b
  <2> QED
    BY <1>2, <1>3, <1>4, <1>5
<1> QED
  BY <1>1, <1>2, <1>6 DEF LoadBased!Begin

\* One attempt that ends: the counter stays below the attempts under way.
LEMMA EndCounts ==
  ASSUME LoadBased!LoadTypeOK, NEW b \in Backends, NEW errors \in 0..MaxRetried,
         NEW steps \in {1, 2}, LoadBased!End(b, errors), LoadBased!Lower(b, steps)
  PROVE  /\ held' \in [Backends -> 0..MaxLoad]
         /\ retried' \in [Backends -> 0..MaxRetried]
         /\ active' \in [Backends -> 0..MaxLoad]
         /\ \A c \in Backends : active'[c] <= held'[c]
<1>1. /\ held \in [Backends -> 0..MaxLoad]
      /\ retried \in [Backends -> 0..MaxRetried]
      /\ active \in [Backends -> 0..MaxLoad]
      /\ \A c \in Backends : active[c] <= held[c]
      /\ MaxLoad \in Nat /\ MaxRetried \in Nat
  BY SameBackends, RoutingAssumption DEF LoadBased!LoadTypeOK
<1>2. /\ held[b] > 0 /\ held' = [held EXCEPT ![b] = held[b] - 1]
      /\ retried' = [retried EXCEPT ![b] = IF held[b] = 1 THEN 0 ELSE errors]
      /\ active' = [active EXCEPT ![b] = IF active[b] > steps
                                         THEN active[b] - steps ELSE 0]
  BY DEF LoadBased!End, LoadBased!Lower
<1>3. /\ held' \in [Backends -> 0..MaxLoad]
      /\ retried' \in [Backends -> 0..MaxRetried]
      /\ active' \in [Backends -> 0..MaxLoad]
  BY <1>1, <1>2
<1>4. ASSUME NEW c \in Backends PROVE active'[c] <= held'[c]
  BY <1>1, <1>2
<1> QED
  BY <1>3, <1>4

\* A rounded average stays between the samples.
LEMMA RoundedBetween ==
  ASSUME NEW l \in Nat, NEW m \in Nat, NEW avg \in Nat, NEW observed \in Nat,
         l <= avg, avg <= m, l <= observed, observed <= m,
         NEW new \in LoadBased!Rounded(avg, observed)
  PROVE  new \in Nat /\ l <= new /\ new <= m
BY DEF LoadBased!Rounded

Between(avg) == \E l, m \in Latencies : l <= avg /\ avg <= m

LEMMA SampleKeepsAverage ==
  ASSUME LoadBased!LoadTypeOK, NEW b \in Backends, NEW latency \in Latencies,
         LoadBased!UpdateLatency(b, latency)
  PROVE  \E avg \in Nat :
           average' = [average EXCEPT ![b] = avg] /\ Between(avg)
<1>1. /\ Latencies \subseteq Nat
      /\ average[b] \in Nat
      /\ average[b] = 0 \/ Between(average[b])
  BY SameBackends, RoutingAssumption DEF LoadBased!LoadTypeOK, Between
<1>2. CASE average[b] <= 0
  <2>1. average' = [average EXCEPT ![b] = latency]
    BY <1>2 DEF LoadBased!UpdateLatency
  <2>2. latency \in Nat /\ Between(latency)
    BY <1>1 DEF Between
  <2> QED
    BY <2>1, <2>2
<1>3. CASE ~(average[b] <= 0)
  <2>1. PICK avg \in LoadBased!Rounded(average[b], latency) :
          average' = [average EXCEPT ![b] = avg]
    BY <1>3 DEF LoadBased!UpdateLatency
  <2>2. PICK l0, m0 \in Latencies : l0 <= average[b] /\ average[b] <= m0
    BY <1>1, <1>3 DEF Between
  <2>3. PICK l \in Latencies : l <= average[b] /\ l <= latency
    <3>1. l0 \in Nat /\ latency \in Nat
      BY <1>1
    <3>2. CASE l0 <= latency
      BY <2>2, <3>2
    <3>3. CASE latency <= l0
      BY <1>1, <2>2, <3>1, <3>3
    <3> QED
      BY <3>1, <3>2, <3>3
  <2>4. PICK m \in Latencies : average[b] <= m /\ latency <= m
    <3>1. m0 \in Nat /\ latency \in Nat
      BY <1>1
    <3>2. CASE latency <= m0
      BY <2>2, <3>2
    <3>3. CASE m0 <= latency
      BY <1>1, <2>2, <3>1, <3>3
    <3> QED
      BY <3>1, <3>2, <3>3
  <2>5. avg \in Nat /\ l <= avg /\ avg <= m
    BY <1>1, <2>1, <2>3, <2>4, RoundedBetween
  <2> QED
    BY <2>1, <2>5 DEF Between
<1> QED
  BY <1>2, <1>3

-----------------------------------------------------------------------------
(* Types.                                                                  *)

LEMMA LoadTypeInit == Init => LoadBased!LoadTypeOK
<1> SUFFICES ASSUME Init PROVE LoadBased!LoadTypeOK
  OBVIOUS
<1>1. LoadBased!LoadInit
  BY DEF Init
<1>2. hash \in [Backends -> 0..99]
  <2>1. HashValues \subseteq 0..99 /\ {0} \subseteq 0..99
    BY RoutingAssumption
  <2>2. hash \in [Backends -> HashValues] \/ hash \in [Backends -> {0}]
    BY <1>1, SameBackends DEF LoadBased!LoadInit
  <2> QED
    BY <2>1, <2>2
<1> QED
  BY <1>1, <1>2, SameBackends, RoutingAssumption
    DEF LoadBased!LoadInit, LoadBased!LoadTypeOK

\* The counts of the attempts.
Counts ==
  /\ held \in [Backends -> 0..MaxLoad]
  /\ retried \in [Backends -> 0..MaxRetried]
  /\ active \in [Backends -> 0..MaxLoad]
  /\ \A b \in Backends : active[b] <= held[b]

LEMMA LoadTypeNext ==
  ASSUME LoadBased!LoadTypeOK, [Next]_vars
  PROVE  LoadBased!LoadTypeOK'
<1>0. /\ hash \in [Backends -> 0..99]
      /\ Counts
      /\ proven \in [Backends -> BOOLEAN]
      /\ average \in [Backends -> Nat]
      /\ \A b \in Backends : (average[b] = 0 /\ ~proven[b]) \/ Between(average[b])
  BY SameBackends DEF LoadBased!LoadTypeOK, Between, Counts
<1>1. MaxLoad \in Nat /\ MaxRetried \in Nat
  BY RoutingAssumption
<1> SUFFICES /\ hash' \in [Backends -> 0..99]
             /\ Counts'
             /\ proven' \in [Backends -> BOOLEAN]
             /\ average' \in [Backends -> Nat]
             /\ \A b \in Backends :
                  (average'[b] = 0 /\ ~proven'[b]) \/ Between(average'[b])
  BY SameBackends DEF LoadBased!LoadTypeOK, Between, Counts
<1>2. ASSUME NEW backends \in LoadBased!LongLists, LoadBased!Begin(backends)
      PROVE  Counts' /\ UNCHANGED <<hash, average, proven>>
  <2> DEFINE b == LoadBased!Choice(backends)
  <2>1. /\ b \in Backends
        /\ held[b] \in Nat /\ held[b] < MaxLoad
        /\ active' = [active EXCEPT ![b] = active[b] + 1]
        /\ held' = [held EXCEPT ![b] = held[b] + 1]
        /\ UNCHANGED <<hash, retried, average, proven>>
    BY <1>2, BeginCounts
  <2> HIDE DEF b
  <2> QED
    BY <1>0, <1>1, <2>1 DEF Counts
<1>3. ASSUME NEW b \in Backends, LoadBased!Fail(b) \/ LoadBased!RetriedServerError(b)
      PROVE  Counts' /\ UNCHANGED <<hash, average, proven>>
  <2>1. retried[b] \in 0..MaxRetried
    BY <1>0 DEF Counts
  <2>2. CASE LoadBased!Fail(b)
    BY <2>1, <2>2, EndCounts DEF LoadBased!Fail, Counts
  <2>3. CASE LoadBased!RetriedServerError(b)
    <3>1. retried[b] + 1 \in 0..MaxRetried
      BY <1>1, <2>1, <2>3 DEF LoadBased!RetriedServerError
    <3> QED
      BY <2>3, <3>1, EndCounts DEF LoadBased!RetriedServerError, Counts
  <2> QED
    BY <1>3, <2>2, <2>3
<1>4. ASSUME NEW b \in Backends, NEW latency \in Latencies,
             LoadBased!Succeed(b, latency)
      PROVE  /\ hash' = hash
             /\ Counts'
             /\ proven' \in [Backends -> BOOLEAN]
             /\ average' \in [Backends -> Nat]
             /\ \A c \in Backends :
                  (average'[c] = 0 /\ ~proven'[c]) \/ Between(average'[c])
  <2>1. PICK avg \in Nat : average' = [average EXCEPT ![b] = avg] /\ Between(avg)
    BY <1>4, SampleKeepsAverage DEF LoadBased!Succeed
  <2>2. /\ hash' = hash
        /\ proven' = [proven EXCEPT ![b] = TRUE]
    BY <1>4 DEF LoadBased!Succeed
  <2>3. retried[b] \in 0..MaxRetried
    BY <1>0 DEF Counts
  <2>4. Counts'
    BY <1>4, <2>3, EndCounts DEF LoadBased!Succeed, Counts
  <2> QED
    BY <1>0, <1>1, <2>1, <2>2, <2>4
<1>5. ASSUME NEW b \in Backends, NEW latency \in Latencies,
             LoadBased!Probe(b, latency)
      PROVE  /\ UNCHANGED <<hash, active, held, retried, proven>>
             /\ average' \in [Backends -> Nat]
             /\ \A c \in Backends :
                  (average'[c] = 0 /\ ~proven'[c]) \/ Between(average'[c])
  <2>1. PICK avg \in Nat : average' = [average EXCEPT ![b] = avg] /\ Between(avg)
    BY <1>5, SampleKeepsAverage DEF LoadBased!Probe
  <2>2. UNCHANGED <<hash, active, held, retried, proven>>
    BY <1>5 DEF LoadBased!Probe
  <2> QED
    BY <1>0, <2>1, <2>2
<1>6. CASE UNCHANGED loadVars
  BY <1>0, <1>6 DEF loadVars, Counts
<1>7. CASE LoadStep
  <2>1. \/ \E backends \in LoadBased!LongLists : LoadBased!Begin(backends)
        \/ \E b \in Backends : LoadBased!Fail(b) \/ LoadBased!RetriedServerError(b)
        \/ \E b \in Backends, latency \in Latencies :
             LoadBased!Succeed(b, latency) \/ LoadBased!Probe(b, latency)
    BY <1>7, SameBackends DEF LoadStep, LoadBased!LoadNext, LoadBased!BackendEvent
  <2> QED
    BY <1>0, <1>2, <1>3, <1>4, <1>5, <2>1 DEF Counts
<1> QED
  BY <1>6, <1>7 DEF Next, RingStep, SelectWeighted, PatchWeight, vars

\* Every variable of every strategy has its type; an average stays between the
\* samples that it was made from, in whatever order these come in.
THEOREM TypeCorrect == Spec => []TypeOK
<1>1. Spec => []RingP!TypeOK
  <2>1. RingP!Spec => []RingP!TypeOK
    BY RoutingAssumption, RingP!IndexInList
  <2>2. (Init => RingP!Init) /\ ([Next]_vars => [RingP!Next]_(RingP!vars))
    BY InitOfParts, RingSteps
  <2> QED
    BY <2>1, <2>2, PTL DEF Spec, RingP!Spec
<1>2. Spec => []WeightedP!TypeOK
  <2>1. WeightedP!Spec => []WeightedP!TypeOK
    BY RoutingAssumption, CandidatesAssumption, WeightedP!WeightedTypes
      DEF WeightedP!LowestIsPatched
  <2>2. (Init => WeightedP!Init) /\ ([Next]_vars => [WeightedP!Next]_(WeightedP!vars))
    BY InitOfParts, WeightedSteps
  <2> QED
    BY <2>1, <2>2, PTL DEF Spec, WeightedP!Spec
<1>3. Spec => [](strategy \in Strategies /\ LoadBased!LoadTypeOK)
  <2>1. Init => strategy \in Strategies /\ LoadBased!LoadTypeOK
    BY LoadTypeInit DEF Init
  <2>2. [Next]_vars => strategy' = strategy
    BY DEF Next, RingStep, SelectWeighted, PatchWeight, LoadStep, vars
  <2>3. /\ strategy \in Strategies /\ LoadBased!LoadTypeOK
        /\ [Next]_vars
        => strategy' \in Strategies /\ LoadBased!LoadTypeOK'
    BY <2>2, LoadTypeNext
  <2>4. (strategy \in Strategies)' <=> strategy' \in Strategies
    BY DEF Strategies
  <2> QED
    BY <2>1, <2>3, <2>4, PTL DEF Spec
<1>4. /\ strategy \in Strategies /\ LoadBased!LoadTypeOK
      /\ RingP!TypeOK
      /\ WeightedP!TypeOK
      => TypeOK
  <2>1. RingP!TypeOK => Ring!TypeOK
    BY DEF RingP!TypeOK, Ring!TypeOK, RingP!Lists, Ring!Lists,
      RingP!Backends, Ring!Backends, RingP!Cardinality, Ring!Cardinality
  <2>2. WeightedP!TypeOK => Weighted!TypeOK
    BY DEF WeightedP!TypeOK, Weighted!TypeOK, WeightedP!Lists, Weighted!Lists,
      WeightedP!Backends, Weighted!Backends, WeightedP!Weights, Weighted!Weights,
      WeightedP!None, Weighted!None
  <2> QED
    BY <2>1, <2>2 DEF TypeOK
<1> QED
  BY <1>1, <1>2, <1>3, <1>4, PTL

-----------------------------------------------------------------------------
(* The load that least connections allows.                                 *)

\* What is inductive: the counter misses no more attempts than server errors were
\* retried since the backend was last idle, and the counter has an even share.
Missed == \A b \in Backends : held[b] <= active[b] + retried[b]

CounterShare ==
  strategy = "least_connections" =>
    \A b \in Backends : (active[b] - 1) * MinListed < MaxLoad

ShareInv == LoadBased!LoadTypeOK /\ Missed /\ CounterShare

LEMMA CountTypes ==
  ASSUME LoadBased!LoadTypeOK
  PROVE  /\ held \in [Backends -> 0..MaxLoad]
         /\ retried \in [Backends -> 0..MaxRetried]
         /\ active \in [Backends -> 0..MaxLoad]
         /\ \A b \in Backends : active[b] <= held[b]
         /\ MaxLoad \in Nat /\ MaxRetried \in Nat /\ MinListed \in Nat
BY SameBackends, RoutingAssumption, CandidatesAssumption DEF LoadBased!LoadTypeOK

\* What a step does to the counts: an attempt begins or ends, or nothing changes.
LEMMA CountSteps ==
  ASSUME [Next]_vars
  PROVE  \/ UNCHANGED <<active, held, retried>>
         \/ \E backends \in LoadBased!LongLists : LoadBased!Begin(backends)
         \/ \E b \in Backends :
              LoadBased!End(b, retried[b]) /\ LoadBased!Lower(b, 1)
         \/ \E b \in Backends :
              LoadBased!End(b, retried[b] + 1) /\ LoadBased!Lower(b, 2)
BY SameBackends DEF Next, RingStep, SelectWeighted, PatchWeight, LoadStep, vars, loadVars,
  LoadBased!LoadNext, LoadBased!BackendEvent, LoadBased!Fail, LoadBased!Succeed,
  LoadBased!RetriedServerError, LoadBased!Probe

LEMMA MissedStep ==
  ASSUME ShareInv, [Next]_vars
  PROVE  Missed'
<1>1. /\ LoadBased!LoadTypeOK
      /\ \A b \in Backends : held[b] <= active[b] + retried[b]
  BY DEF ShareInv, Missed
<1>2. /\ held \in [Backends -> 0..MaxLoad]
      /\ retried \in [Backends -> 0..MaxRetried]
      /\ active \in [Backends -> 0..MaxLoad]
      /\ MaxLoad \in Nat /\ MaxRetried \in Nat
  BY <1>1, CountTypes
<1> SUFFICES ASSUME NEW c \in Backends PROVE held'[c] <= active'[c] + retried'[c]
  BY DEF Missed
<1>3. CASE UNCHANGED <<active, held, retried>>
  BY <1>1, <1>3
<1>4. ASSUME NEW backends \in LoadBased!LongLists, LoadBased!Begin(backends)
      PROVE  held'[c] <= active'[c] + retried'[c]
  <2> DEFINE chosen == LoadBased!Choice(backends)
  <2>1. /\ chosen \in Backends
        /\ active' = [active EXCEPT ![chosen] = active[chosen] + 1]
        /\ held' = [held EXCEPT ![chosen] = held[chosen] + 1]
        /\ retried' = retried
    BY <1>1, <1>4, BeginCounts
  <2> HIDE DEF chosen
  <2> QED
    BY <1>1, <1>2, <2>1
<1>5. ASSUME NEW b \in Backends,
             \/ LoadBased!End(b, retried[b]) /\ LoadBased!Lower(b, 1)
             \/ LoadBased!End(b, retried[b] + 1) /\ LoadBased!Lower(b, 2)
      PROVE  held'[c] <= active'[c] + retried'[c]
  <2>1. CASE c # b
    <3>1. held'[c] = held[c] /\ active'[c] = active[c] /\ retried'[c] = retried[c]
      BY <1>2, <1>5, <2>1 DEF LoadBased!End, LoadBased!Lower
    <3> QED
      BY <1>1, <3>1
  <2>2. CASE c = b
    <3>1. /\ held[b] \in Nat /\ active[b] \in Nat /\ retried[b] \in Nat
          /\ held[b] <= active[b] + retried[b]
      BY <1>1, <1>2
    <3>2. held[b] > 0 /\ held'[b] = held[b] - 1
      BY <1>2, <1>5 DEF LoadBased!End
    <3>3. CASE LoadBased!End(b, retried[b]) /\ LoadBased!Lower(b, 1)
      <4>1. /\ retried'[b] = IF held[b] = 1 THEN 0 ELSE retried[b]
            /\ active'[b] = IF active[b] > 1 THEN active[b] - 1 ELSE 0
        BY <1>2, <3>3 DEF LoadBased!End, LoadBased!Lower
      <4> QED
        BY <2>2, <3>1, <3>2, <4>1
    <3>4. CASE LoadBased!End(b, retried[b] + 1) /\ LoadBased!Lower(b, 2)
      <4>1. /\ retried'[b] = IF held[b] = 1 THEN 0 ELSE retried[b] + 1
            /\ active'[b] = IF active[b] > 2 THEN active[b] - 2 ELSE 0
        BY <1>2, <3>4 DEF LoadBased!End, LoadBased!Lower
      <4> QED
        BY <2>2, <3>1, <3>2, <4>1
    <3> QED
      BY <1>5, <3>3, <3>4
  <2> QED
    BY <2>1, <2>2
<1> QED
  BY <1>3, <1>4, <1>5, CountSteps

LEMMA ShareStep ==
  ASSUME ShareInv, [Next]_vars
  PROVE  CounterShare'
<1>1. /\ LoadBased!LoadTypeOK
      /\ strategy' = strategy
      /\ active \in [Backends -> 0..MaxLoad]
      /\ \A c \in Backends : active[c] \in Nat /\ active[c] <= held[c]
      /\ held \in [Backends -> 0..MaxLoad]
      /\ MaxLoad \in Nat /\ MinListed \in Nat
  <2>1. LoadBased!LoadTypeOK
    BY DEF ShareInv
  <2>2. strategy' = strategy
    BY DEF Next, RingStep, SelectWeighted, PatchWeight, LoadStep, vars
  <2> QED
    BY <2>1, <2>2, CountTypes
<1> SUFFICES ASSUME strategy = "least_connections", NEW b \in Backends
             PROVE  (active'[b] - 1) * MinListed < MaxLoad
  BY <1>1 DEF CounterShare
<1>2. (active[b] - 1) * MinListed < MaxLoad
  BY DEF ShareInv, CounterShare
<1>3. active[b] \in Nat
  BY <1>1
<1>4. ASSUME NEW backends \in LoadBased!LongLists, LoadBased!Begin(backends)
      PROVE  (active'[b] - 1) * MinListed < MaxLoad
  <2> DEFINE chosen == LoadBased!Choice(backends)
             n == Cardinality(backends)
  <2>1. /\ chosen \in backends
        /\ \A c \in backends : active[chosen] <= active[c]
    BY <1>1, LeastHasFewest
  <2>2. /\ chosen \in Backends
        /\ active' = [active EXCEPT ![chosen] = active[chosen] + 1]
    BY <1>1, <1>4, BeginCounts
  <2> HIDE DEF chosen
  <2>3. CASE b # chosen
    <3>1. active'[b] = active[b]
      BY <1>1, <2>2, <2>3
    <3> QED
      BY <1>2, <3>1
  <2>4. CASE b = chosen
    <3>1. active'[b] - 1 = active[b]
      BY <1>1, <2>2, <2>4
    <3>2. /\ LoadBased!Load \in Nat /\ n \in Nat
          /\ n * active[b] <= LoadBased!Load
      <4>1. backends \in SUBSET Backends
        BY ListFacts
      <4>2. \A c \in backends : active[b] <= held[c]
        <5> SUFFICES ASSUME NEW c \in backends PROVE active[b] <= held[c]
          OBVIOUS
        <5>1. active[b] <= active[c]
          BY <2>1, <2>4
        <5>2. c \in Backends /\ active[c] \in Nat /\ held[c] \in Nat /\ active[c] <= held[c]
          BY <1>1, <4>1
        <5> QED
          BY <1>3, <5>1, <5>2
      <4> QED
        BY <1>1, <1>3, <4>1, <4>2, LoadAtLeast
    <3>3. LoadBased!Load < MaxLoad
      BY <1>4 DEF LoadBased!Begin
    <3>4. MinListed <= n
      BY ListFacts
    <3>5. active[b] * MinListed <= n * active[b]
      <4>1. \A x, y, z \in Nat : y <= z => x * y <= z * x
        OBVIOUS
      <4> HIDE DEF n
      <4> QED
        BY <1>1, <1>3, <3>2, <3>4, <4>1
    <3>6. active[b] * MinListed \in Nat /\ n * active[b] \in Nat
      BY <1>1, <1>3, <3>2
    <3> HIDE DEF n
    <3> QED
      BY <1>1, <3>1, <3>2, <3>3, <3>5, <3>6
  <2> QED
    BY <2>3, <2>4
<1>5. ASSUME NEW c \in Backends,
             LoadBased!Lower(c, 1) \/ LoadBased!Lower(c, 2)
      PROVE  (active'[b] - 1) * MinListed < MaxLoad
  <2>1. active'[b] \in Nat /\ active'[b] <= active[b]
    BY <1>1, <1>5 DEF LoadBased!Lower
  <2>2. \A x, y, z \in Nat : x <= y /\ (y - 1) * z < MaxLoad => (x - 1) * z < MaxLoad
    <3> SUFFICES ASSUME NEW x \in Nat, NEW y \in Nat, NEW z \in Nat, x <= y,
                        (y - 1) * z < MaxLoad
                 PROVE  (x - 1) * z < MaxLoad
      OBVIOUS
    <3>1. (x - 1) * z + (y - x) * z = (y - 1) * z
      OBVIOUS
    <3>2. (y - x) * z \in Nat /\ (x - 1) * z \in Int
      <4>1. y - x \in Nat
        OBVIOUS
      <4> QED
        BY <4>1
    <3> QED
      BY <1>1, <3>1, <3>2
  <2> QED
    BY <1>1, <1>2, <1>3, <2>1, <2>2
<1>6. CASE active' = active
  BY <1>2, <1>6
<1> QED
  BY <1>4, <1>5, <1>6, CountSteps

\* Least connections: while every list has MinListed backends, a backend holds more
\* than its even share of the largest load only by the server errors that were
\* retried on it since it was last idle, whatever ends, fails or is measured.
THEOREM LeastConnectionsSharesPeak == Spec => []EvenShareOfPeak
<1>1. Init => ShareInv
  <2> SUFFICES ASSUME Init PROVE Missed /\ CounterShare
    BY LoadTypeInit DEF ShareInv
  <2>1. /\ active = [b \in Backends |-> 0]
        /\ held = [b \in Backends |-> 0]
        /\ retried = [b \in Backends |-> 0]
    BY SameBackends DEF Init, LoadBased!LoadInit
  <2>2. (0 - 1) * MinListed < MaxLoad
    BY RoutingAssumption, CandidatesAssumption
  <2> QED
    BY <2>1, <2>2 DEF Missed, CounterShare
<1>2. ShareInv /\ [Next]_vars => ShareInv'
  BY MissedStep, ShareStep, LoadTypeNext DEF ShareInv
<1>3. ShareInv => EvenShareOfPeak
  <2> SUFFICES ASSUME ShareInv, strategy = "least_connections", NEW b \in Backends
               PROVE  (held[b] - retried[b] - 1) * MinListed < MaxLoad
    BY SameBackends DEF EvenShareOfPeak, LoadBased!EvenShareOfPeak
  <2>1. /\ held[b] \in Nat /\ retried[b] \in Nat /\ active[b] \in Nat
        /\ MinListed \in Nat /\ MaxLoad \in Nat
    BY CountTypes DEF ShareInv
  <2>2. held[b] <= active[b] + retried[b] /\ (active[b] - 1) * MinListed < MaxLoad
    BY DEF ShareInv, Missed, CounterShare
  <2>3. \A h, r, a, m, top \in Nat :
          h <= a + r /\ (a - 1) * m < top => (h - r - 1) * m < top
    <3> SUFFICES ASSUME NEW h \in Nat, NEW r \in Nat, NEW a \in Nat, NEW m \in Nat,
                        NEW top \in Nat, h <= a + r, (a - 1) * m < top
                 PROVE  (h - r - 1) * m < top
      OBVIOUS
    <3>1. (h - r - 1) * m + (a + r - h) * m = (a - 1) * m
      OBVIOUS
    <3>2. (a + r - h) * m \in Nat /\ (h - r - 1) * m \in Int
      <4>1. a + r - h \in Nat
        OBVIOUS
      <4> QED
        BY <4>1
    <3> QED
      BY <3>1, <3>2
  <2> QED
    BY <2>1, <2>2, <2>3
<1> QED
  BY <1>1, <1>2, <1>3, PTL DEF Spec

-----------------------------------------------------------------------------
(* The load that latency-aware routing allows.                             *)

\* Slowest and Fastest bound the estimates, in units of 1 ms / 2.
LEMMA EstimatesBounded ==
  ASSUME LoadBased!LoadTypeOK, NEW b \in Backends
  PROVE  LET latency == LoadBased!EstimatedLatency(b) IN
           /\ LoadBased!Slowest \in Nat /\ LoadBased!Fastest \in Nat
           /\ latency \in Nat
           /\ 3 * latency <= LoadBased!Slowest
           /\ LoadBased!Fastest <= (IF proven[b] THEN 2 ELSE 3) * latency
<1> DEFINE samples == Latencies \cup {5}
           estimates == {2 * l : l \in Latencies} \cup {3 * 5}
           slow == LoadBased!Most(samples)
           fast == LoadBased!Least(estimates)
           latency == LoadBased!EstimatedLatency(b)
<1>1. /\ Latencies \subseteq Nat \ {0}
      /\ samples \in SUBSET Nat
      /\ estimates \in SUBSET Nat /\ estimates # {}
  BY RoutingAssumption
<1>2. fast \in Nat /\ \A e \in estimates : fast <= e
  <2> HIDE DEF estimates
  <2> QED
    BY <1>1, LeastElement DEF LoadBased!Least
<1>3. slow \in Nat /\ \A s \in samples : s <= slow
  <2>1. PICK most \in Latencies : \A l \in Latencies : l <= most
    BY RoutingAssumption
  <2>2. \E m \in samples : \A s \in samples : s <= m
    <3>1. CASE most <= 5
      <4>1. \A s \in samples : s <= 5
        BY <1>1, <2>1, <3>1
      <4> QED
        BY <4>1
    <3>2. CASE 5 <= most
      <4>1. \A s \in samples : s <= most
        BY <1>1, <2>1, <3>2
      <4> QED
        BY <2>1, <4>1
    <3> QED
      BY <1>1, <2>1, <3>1, <3>2
  <2> HIDE DEF samples
  <2> QED
    BY <1>1, <2>2 DEF LoadBased!Most
<1>4. LoadBased!Slowest = 3 * slow /\ LoadBased!Fastest = fast
  BY DEF LoadBased!Slowest, LoadBased!Fastest, LoadBased!DefaultLatency
<1>5. /\ average[b] \in Nat
      /\ \/ average[b] = 0 /\ ~proven[b]
         \/ \E l, m \in Latencies : l <= average[b] /\ average[b] <= m
  BY SameBackends DEF LoadBased!LoadTypeOK
<1>6. CASE average[b] = 0 /\ ~proven[b]
  <2>1. latency = 5
    BY <1>6 DEF LoadBased!EstimatedLatency, LoadBased!DefaultLatency
  <2>2. 5 <= slow /\ fast <= 15
    BY <1>2, <1>3
  <2> HIDE DEF slow, fast, latency
  <2> QED
    BY <1>2, <1>3, <1>4, <1>6, <2>1, <2>2 DEF latency
<1>7. ASSUME NEW l \in Latencies, NEW m \in Latencies,
             l <= average[b], average[b] <= m
      PROVE  /\ latency \in Nat
             /\ 3 * latency <= 3 * slow
             /\ fast <= (IF proven[b] THEN 2 ELSE 3) * latency
  <2>1. l \in Nat \ {0} /\ m \in Nat
    BY <1>1
  <2>2. latency = average[b]
    BY <1>5, <1>7, <2>1 DEF LoadBased!EstimatedLatency
  <2>3. m <= slow /\ fast <= 2 * l
    BY <1>2, <1>3
  <2> HIDE DEF slow, fast, latency
  <2>4. fast <= 2 * latency /\ 2 * latency <= 3 * latency
    BY <1>2, <1>5, <1>7, <2>1, <2>2, <2>3
  <2>5. 3 * latency <= 3 * slow
    BY <1>3, <1>5, <1>7, <2>1, <2>2, <2>3
  <2>6. fast <= 3 * latency /\ latency \in Nat
    BY <1>2, <1>5, <2>2, <2>4
  <2> QED
    BY <2>4, <2>5, <2>6
<1> HIDE DEF slow, fast, latency
<1> QED
  BY <1>2, <1>3, <1>4, <1>5, <1>6, <1>7 DEF latency

\* What two scores, of which the second is of an idle backend, say of the load of
\* the first.
LEMMA ScoresBoundLoad ==
  ASSUME NEW fast \in Nat, NEW slow \in Nat, NEW factor \in Nat, NEW load \in Nat,
         NEW x \in Nat, NEW y \in Nat, NEW h \in Nat, NEW i \in 0..99,
         1000 * fast <= x, y <= 1000 * slow,
         x * (factor + load) + factor * h <= y * (factor + 0) + factor * i
  PROVE  1000 * fast * load <= (1000 * (slow - fast) + 99) * factor
<1>1. \A p, q, r \in Nat : p <= q => p * r <= q * r
  OBVIOUS
<1>2. (1000 * fast) * (factor + load) <= x * (factor + load)
  BY <1>1
<1>3. y * factor <= (1000 * slow) * factor
  BY <1>1
<1>4. factor * i <= 99 * factor /\ factor * h >= 0
  <2>1. i * factor <= 99 * factor /\ 0 * factor <= h * factor
    BY <1>1
  <2> QED
    BY <2>1
<1>5. /\ (1000 * fast) * (factor + load) = (1000 * fast) * factor + (1000 * fast) * load
      /\ (1000 * (slow - fast) + 99) * factor
           = (1000 * slow) * factor - (1000 * fast) * factor + 99 * factor
  OBVIOUS
<1>6. /\ (1000 * fast) * factor \in Nat /\ (1000 * fast) * load \in Nat
      /\ (1000 * slow) * factor \in Nat /\ x * (factor + load) \in Nat
      /\ y * factor \in Nat /\ factor * h \in Nat /\ factor * i \in Nat
  OBVIOUS
<1>7. y * (factor + 0) = y * factor
  OBVIOUS
<1> QED
  BY <1>2, <1>3, <1>4, <1>5, <1>6, <1>7

LEMMA SelectionSpreads ==
  ASSUME LoadBased!LoadTypeOK, strategy = "latency_aware",
         NEW backends \in LoadBased!LongLists, NEW b \in Backends,
         active'[b] > active[b],
         NEW c \in backends, active[c] = 0,
         LoadBased!Begin(backends)
  PROVE  1000 * LoadBased!Fastest * active[b] <=
           (1000 * (LoadBased!Slowest - LoadBased!Fastest) + 99) * CapacityFactor
<1> DEFINE chosen == LoadBased!Choice(backends)
           fast == LoadBased!Fastest
           slow == LoadBased!Slowest
           X(d) == (IF proven[d] THEN 2000 ELSE 3000) * LoadBased!EstimatedLatency(d)
<1>1. /\ active \in [Backends -> 0..MaxLoad]
      /\ hash \in [Backends -> 0..99]
      /\ CapacityFactor \in Nat
  BY SameBackends, RoutingAssumption DEF LoadBased!LoadTypeOK
<1>2. b = chosen
  <2>1. /\ chosen \in Backends
        /\ active' = [active EXCEPT ![chosen] = active[chosen] + 1]
    BY BeginCounts
  <2> HIDE DEF chosen
  <2>2. b # chosen => active'[b] = active[b]
    BY <1>1, <2>1
  <2>3. active[b] \in Nat
    BY <1>1
  <2> QED
    BY <2>2, <2>3
<1>3. c \in Backends /\ LoadBased!Score(b) <= LoadBased!Score(c)
  BY <1>2, ListFacts, LowestScore
<1>4. /\ fast \in Nat /\ slow \in Nat
      /\ X(b) \in Nat /\ 1000 * fast <= X(b)
  <2> DEFINE latency == LoadBased!EstimatedLatency(b)
  <2>1. /\ fast \in Nat /\ slow \in Nat /\ latency \in Nat
        /\ fast <= (IF proven[b] THEN 2 ELSE 3) * latency
    BY EstimatesBounded
  <2>2. X(b) = (IF proven[b] THEN 2000 ELSE 3000) * latency
    OBVIOUS
  <2> HIDE DEF X, fast, slow, latency
  <2> QED
    BY <2>1, <2>2
<1>5. X(c) \in Nat /\ X(c) <= 1000 * slow
  <2> DEFINE latency == LoadBased!EstimatedLatency(c)
  <2>1. slow \in Nat /\ latency \in Nat /\ 3 * latency <= slow
    BY <1>3, EstimatesBounded
  <2>2. X(c) = (IF proven[c] THEN 2000 ELSE 3000) * latency
    OBVIOUS
  <2> HIDE DEF X, slow, latency
  <2> QED
    BY <2>1, <2>2
<1>6. X(b) * (CapacityFactor + active[b]) + CapacityFactor * hash[b]
        <= X(c) * (CapacityFactor + 0) + CapacityFactor * hash[c]
  BY <1>3 DEF LoadBased!Score
<1>7. active[b] \in Nat /\ hash[b] \in Nat /\ hash[c] \in 0..99
  BY <1>1, <1>3
<1> HIDE DEF X, fast, slow, chosen
<1>8. 1000 * fast * active[b] <= (1000 * (slow - fast) + 99) * CapacityFactor
  <2>1. PICK x \in Nat, y \in Nat, h \in Nat, i \in 0..99, load \in Nat :
          /\ x = X(b) /\ y = X(c) /\ h = hash[b] /\ i = hash[c]
          /\ load = active[b]
    BY <1>4, <1>5, <1>7
  <2>2. /\ 1000 * fast <= x /\ y <= 1000 * slow
        /\ x * (CapacityFactor + load) + CapacityFactor * h
             <= y * (CapacityFactor + 0) + CapacityFactor * i
    BY <1>4, <1>5, <1>6, <2>1
  <2>3. 1000 * fast * load <= (1000 * (slow - fast) + 99) * CapacityFactor
    BY <1>1, <1>4, <2>2, ScoresBoundLoad
  <2> QED
    BY <2>1, <2>3
<1> QED
  BY <1>8 DEF fast, slow

\* Latency-aware routing gives a backend one more connection beside an idle one only
\* as long as the load of it has not made up for what it may be faster.
THEOREM LatencyAwareSpreadsLoad == Spec => NoStampede
<1>1. Init => LoadBased!LoadTypeOK
  BY LoadTypeInit
<1>2. LoadBased!LoadTypeOK /\ [Next]_vars => LoadBased!LoadTypeOK'
  BY LoadTypeNext
<1>3. LoadBased!LoadTypeOK =>
        \A backends \in LoadBased!LongLists, b \in LoadBased!Backends :
          /\ strategy = "latency_aware"
          /\ active'[b] > active[b]
          /\ \E c \in backends \ {b} : active[c] = 0
          /\ LoadBased!Begin(backends)
          => 1000 * LoadBased!Fastest * active[b] <=
               (1000 * (LoadBased!Slowest - LoadBased!Fastest) + 99) * CapacityFactor
  BY SelectionSpreads, SameBackends
<1> QED
  BY <1>1, <1>2, <1>3, PTL DEF Spec, NoStampede, LoadBased!NoStampede
=============================================================================
