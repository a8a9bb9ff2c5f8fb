---------------------------- MODULE WeightedProofs ----------------------------
(***************************************************************************)
(* Proofs about WeightedRoundRobin, for any number of backends and any     *)
(* weights.  What the proof of the shares needs is a balance: inside a     *)
(* window the current weight of a backend is what it carried in, plus its  *)
(* weight for each call, minus the total for each call that it served.     *)
(***************************************************************************)
EXTENDS WeightedRoundRobin, SelectionLemmas

\* What Routing assumes of the constants: a weight that PATCH gives is a weight.
LowestIsPatched == MinWeight \in Int /\ MinWeight <= 1

-----------------------------------------------------------------------------
(* Lemmas about lists, sums and the choice.                                *)

LEMMA FiniteLists ==
  ASSUME NEW S \in SUBSET Backends
  PROVE  IsFiniteSet(S) /\ S \in SUBSET Nat /\ 0 \notin S
<1>1. IsFiniteSet(Backends)
  BY CandidatesAssumption, FS_Interval DEF Backends
<1>2. IsFiniteSet(S)
  BY <1>1, FS_Subset
<1> QED
  BY <1>2, CandidatesAssumption DEF Backends

LEMMA TotalIsSum ==
  ASSUME NEW f
  PROVE  Total(f) = Sum(f)
BY DEF Total, Sum

LEMMA TotalType ==
  ASSUME NEW S \in SUBSET Backends, NEW f \in [S -> Int]
  PROVE  Total(f) \in Int
<1>1. IsFiniteSet(S)
  BY FiniteLists
<1>2. Sum(f) \in Int
  BY <1>1, SumIsNumber
<1> QED
  BY <1>2, TotalIsSum

LEMMA TotalWeightType ==
  ASSUME TypeOK, NEW S \in SUBSET Backends
  PROVE  TotalWeight(S) \in Int
<1> DEFINE f == [b \in S |-> weight[b]]
<1>1. f \in [S -> Int]
  BY DEF TypeOK, Weights
<1> HIDE DEF f
<1>2. Total(f) \in Int
  BY <1>1, TotalType
<1> QED
  BY <1>2 DEF TotalWeight, f

\* One more call is served by b: first in the window, and later.
LEMMA OneMoreServed ==
  ASSUME NEW S \in SUBSET Backends, NEW f \in [S -> Int], NEW b \in S
  PROVE  Total([c \in S |-> f[c] + (IF c = b THEN 1 ELSE 0)]) = Total(f) + 1
<1> DEFINE g == [c \in S |-> f[c] + (IF c = b THEN 1 ELSE 0)]
<1>1. IsFiniteSet(S)
  BY FiniteLists
<1>2. g \in [S -> Int] /\ g[b] = f[b] + 1 /\ \A y \in S \ {b} : g[y] = f[y]
  OBVIOUS
<1> HIDE DEF g
<1>3. Sum(g) = Sum(f) + g[b] - f[b]
  BY <1>1, <1>2, SumUpdate
<1>4. Sum(f) \in Int /\ f[b] \in Int
  BY <1>1, SumIsNumber
<1>5. Sum(g) = Sum(f) + 1
  BY <1>2, <1>3, <1>4
<1> QED
  BY <1>5, TotalIsSum DEF g

LEMMA NoneServed ==
  ASSUME NEW S \in SUBSET Backends
  PROVE  Total([c \in S |-> 0]) = 0
<1> DEFINE f == [c \in S |-> 0]
<1>1. f \in [S -> Int] /\ \A y \in S : f[y] = 0
  OBVIOUS
<1> HIDE DEF f
<1>2. Sum(f) = 0
  BY <1>1, FiniteLists, SumOfZeros
<1> QED
  BY <1>2, TotalIsSum DEF f

\* The leader is in the list, and has a current weight that is not negative.
LEMMA LeaderInList ==
  ASSUME NEW cw, DOMAIN cw \in SUBSET Backends, \A b \in DOMAIN cw : cw[b] \in Int
  PROVE  /\ Leader(cw) \in DOMAIN cw \cup {None}
         /\ Leader(cw) # None => /\ cw[Leader(cw)] >= 0
                                 /\ \A c \in DOMAIN cw : cw[c] <= cw[Leader(cw)]
<1> DEFINE best == {b \in DOMAIN cw : cw[b] > -1 /\ \A c \in DOMAIN cw : cw[c] <= cw[b]}
<1>1. Leader(cw) = IF best = {} THEN None
                   ELSE CHOOSE b \in best : \A c \in best : b <= c
  BY DEF Leader
<1>2. best \in SUBSET Nat
  BY FiniteLists
<1>3. \A b \in best : /\ b \in DOMAIN cw
                      /\ cw[b] >= 0
                      /\ \A c \in DOMAIN cw : cw[c] <= cw[b]
  OBVIOUS
<1> HIDE DEF best
<1>4. best # {} => Leader(cw) \in best
  BY <1>1, <1>2, SmallestChosen
<1>5. best = {} => Leader(cw) = None
  BY <1>1
<1> QED
  BY <1>3, <1>4, <1>5

-----------------------------------------------------------------------------
(* Types.                                                                  *)

LEMMA GainedType ==
  ASSUME TypeOK, NEW backends \in Lists
  PROVE  /\ Gained(backends) \in [backends -> Int]
         /\ \A b \in backends : Gained(backends)[b] = CurrentWeight(b) + weight[b]
         /\ \A b \in backends : CurrentWeight(b) \in Int /\ weight[b] \in Int
<1>1. ASSUME NEW b \in backends
      PROVE  CurrentWeight(b) \in Int /\ weight[b] \in Int
  BY DEF TypeOK, Weights, CurrentWeight, Lists
<1> QED
  BY <1>1 DEF Gained

LEMMA SelectedIn ==
  ASSUME TypeOK, NEW backends \in Lists
  PROVE  LET b == Leader(Gained(backends)) IN
           /\ b \in backends \cup {None}
           /\ b \in backends <=> b # None
           /\ b \in backends =>
                /\ CurrentWeight(b) + weight[b] >= 0
                /\ \A c \in backends : Gained(backends)[c] <= Gained(backends)[b]
<1> DEFINE cw == Gained(backends)
<1>1. /\ cw \in [backends -> Int]
      /\ \A b \in backends : cw[b] = CurrentWeight(b) + weight[b]
  BY GainedType
<1>2. backends \in SUBSET Backends /\ None \notin backends
  BY FiniteLists DEF Lists, None
<1> HIDE DEF cw
<1>3. DOMAIN cw \in SUBSET Backends /\ \A b \in DOMAIN cw : cw[b] \in Int
  BY <1>1, <1>2
<1>4. /\ Leader(cw) \in DOMAIN cw \cup {None}
      /\ Leader(cw) # None => /\ cw[Leader(cw)] >= 0
                              /\ \A c \in DOMAIN cw : cw[c] <= cw[Leader(cw)]
  BY <1>3, LeaderInList
<1> QED
  BY <1>1, <1>2, <1>4 DEF cw

LEMMA AdjustType ==
  ASSUME TypeOK, NEW backends \in Lists
  PROVE  LET cw == Gained(backends) IN
           /\ Adjust(cw, backends) \in [backends -> Int]
           /\ \A b \in backends :
                Adjust(cw, backends)[b] =
                  CurrentWeight(b) + weight[b]
                    - (IF b = Leader(cw) THEN TotalWeight(backends) ELSE 0)
<1>1. TotalWeight(backends) \in Int
  BY TotalWeightType DEF Lists
<1> QED
  BY <1>1, GainedType DEF Adjust

LEMMA TypeInit == Init => TypeOK
BY DEF Init, TypeOK, Weights

LEMMA TypeNext ==
  ASSUME LowestIsPatched, TypeOK, [Next]_vars
  PROVE  TypeOK'
<1>1. ASSUME NEW backends \in Lists, SelectBackend(backends)
      PROVE  TypeOK'
  <2>1. Adjust(Gained(backends), backends) \in [backends -> Int]
    BY AdjustType
  <2>2. Leader(Gained(backends)) \in backends \cup {None}
    BY SelectedIn
  <2>3. /\ current_weights' = Adjust(Gained(backends), backends)
        /\ selected' = Leader(Gained(backends))
        /\ weight' = weight
    BY <1>1 DEF SelectBackend
  <2> QED
    BY <2>1, <2>2, <2>3 DEF TypeOK
<1>2. ASSUME NEW b \in Backends, NEW w \in PatchedWeights, UpdateWeight(b, w)
      PROVE  TypeOK'
  <2>1. w \in Weights
    BY DEF LowestIsPatched, PatchedWeights, Weights
  <2> QED
    BY <1>2, <2>1 DEF UpdateWeight, TypeOK
<1>3. CASE UNCHANGED vars
  BY <1>3 DEF vars, TypeOK
<1> QED
  BY <1>1, <1>2, <1>3 DEF Next, Select

\* Current weights stay numbers for exactly the last list, and what a call returns
\* was in it: no current weight of a backend that left survives.
THEOREM WeightedTypes ==
  ASSUME LowestIsPatched
  PROVE  Spec => []TypeOK
<1>1. Init => TypeOK
  BY TypeInit
<1>2. TypeOK /\ [Next]_vars => TypeOK'
  BY TypeNext
<1> QED
  BY <1>1, <1>2, PTL DEF Spec

-----------------------------------------------------------------------------
(* The balance of a window.                                                *)

\* What b has in the current window for k calls and s of them served.
Balance(b, k, s, all) == carried[b] + k * weight[b] - all * s

WindowInv ==
  LET backends == DOMAIN served
      all == TotalWeight(backends)
  IN /\ backends \in Lists \cup {{}}
     /\ served \in [backends -> Int]
     /\ backends # {} =>
          /\ DOMAIN current_weights = backends
          /\ carried \in [backends -> Int]
          /\ \A b \in backends :
               current_weights[b] = Balance(b, Total(served), served[b], all)
          /\ (\A b \in backends : weight[b] >= 0)
               => \A b \in backends : served[b] > 0 => -all <= current_weights[b]

BalanceInv == TypeOK /\ WindowInv

\* One call that goes on with a window.
LEMMA BalanceStep ==
  ASSUME NEW carry \in Int, NEW w \in Int, NEW k \in Int, NEW s \in Int, NEW all \in Int
  PROVE  /\ (carry + k * w - all * s) + w - all = carry + (k + 1) * w - all * (s + 1)
         /\ (carry + k * w - all * s) + w = carry + (k + 1) * w - all * s
<1>1. (k + 1) * w = k * w + w /\ all * (s + 1) = all * s + all
  OBVIOUS
<1>2. k * w \in Int /\ all * s \in Int
  OBVIOUS
<1> QED
  BY <1>1, <1>2


LEMMA BalanceInit == Init => BalanceInv
BY TypeInit DEF Init, BalanceInv, WindowInv, NoWindow

\* A call that selects nothing ends the window.
LEMMA NothingSelected ==
  ASSUME NEW backends \in Lists, SelectBackend(backends),
         Leader(Gained(backends)) = None
  PROVE  WindowInv'
<1>1. served' = NoWindow
  BY DEF SelectBackend, Counted
<1> QED
  BY <1>1 DEF WindowInv, NoWindow

\* What a call that selects b leaves: of the current weights, in terms of what was
\* carried into the window, and of the calls counted.
LEMMA Served ==
  ASSUME BalanceInv, NEW backends \in Lists, SelectBackend(backends),
         NEW b \in backends, b = Leader(Gained(backends))
  PROVE  LET new == NewWindow(backends)
             before == IF new THEN [c \in backends |-> 0] ELSE served
             k == IF new THEN 0 ELSE Total(served)
         IN /\ before \in [backends -> Int]
            /\ k \in Int
            /\ served' = [c \in backends |-> before[c] + (IF c = b THEN 1 ELSE 0)]
            /\ served' \in [backends -> Int]
            /\ Total(served') = k + 1
            /\ carried' \in [backends -> Int]
            /\ weight' = weight
            /\ TotalWeight(backends) \in Int
            /\ TotalWeight(backends)' = TotalWeight(backends)
            /\ current_weights' \in [backends -> Int]
            /\ \A c \in backends :
                 /\ weight[c] \in Int
                 /\ CurrentWeight(c) \in Int
                 /\ CurrentWeight(c) = carried'[c] + k * weight[c]
                                         - TotalWeight(backends) * before[c]
                 /\ current_weights'[c] =
                      CurrentWeight(c) + weight[c]
                        - (IF c = b THEN TotalWeight(backends) ELSE 0)
<1> DEFINE new == NewWindow(backends)
           before == IF new THEN [c \in backends |-> 0] ELSE served
           k == IF new THEN 0 ELSE Total(served)
           all == TotalWeight(backends)
<1>1. /\ TypeOK /\ WindowInv
      /\ backends \in SUBSET Backends /\ backends # {}
      /\ b # None
  BY SelectedIn DEF BalanceInv, Lists
<1>2. /\ current_weights' = Adjust(Gained(backends), backends)
      /\ served' = Counted(backends, b)
      /\ carried' = IF new THEN [c \in backends |-> CurrentWeight(c)] ELSE carried
      /\ weight' = weight
  BY DEF SelectBackend
<1>3. all \in Int /\ TotalWeight(backends)' = all
  BY <1>1, <1>2, TotalWeightType DEF TotalWeight
<1>4. /\ current_weights' \in [backends -> Int]
      /\ \A c \in backends :
           current_weights'[c] = CurrentWeight(c) + weight[c]
                                   - (IF c = b THEN all ELSE 0)
  BY <1>1, <1>2, AdjustType
<1>5. \A c \in backends : CurrentWeight(c) \in Int /\ weight[c] \in Int
  BY <1>1, GainedType
<1>6. ~new => /\ DOMAIN served = backends
              /\ served \in [backends -> Int]
              /\ carried \in [backends -> Int]
              /\ \A c \in backends :
                   CurrentWeight(c) = carried[c] + Total(served) * weight[c]
                                        - all * served[c]
  <2> SUFFICES ASSUME ~new
               PROVE  /\ DOMAIN served = backends
                      /\ served \in [backends -> Int]
                      /\ carried \in [backends -> Int]
                      /\ \A c \in backends :
                           CurrentWeight(c) = carried[c] + Total(served) * weight[c]
                                                - all * served[c]
    OBVIOUS
  <2>1. DOMAIN served = backends
    BY DEF NewWindow
  <2>2. /\ served \in [backends -> Int]
        /\ DOMAIN current_weights = backends
        /\ carried \in [backends -> Int]
        /\ \A c \in backends :
             current_weights[c] = Balance(c, Total(served), served[c], all)
    BY <1>1, <2>1 DEF WindowInv
  <2> QED
    BY <2>1, <2>2 DEF CurrentWeight, Balance
<1>7. before \in [backends -> Int] /\ k \in Int /\ Total(before) = k
  <2>1. CASE new
    BY <1>1, <2>1, NoneServed
  <2>2. CASE ~new
    BY <1>1, <1>6, <2>2, TotalType
  <2> QED
    BY <2>1, <2>2
<1>8. served' = [c \in backends |-> before[c] + (IF c = b THEN 1 ELSE 0)]
  BY <1>1, <1>2 DEF Counted
<1>9. carried' \in [backends -> Int]
  BY <1>2, <1>5, <1>6
<1>10. ASSUME NEW c \in backends
       PROVE  CurrentWeight(c) = carried'[c] + k * weight[c] - all * before[c]
  <2>1. CASE new
    <3>1. carried'[c] = CurrentWeight(c) /\ k = 0 /\ before[c] = 0
      BY <1>2, <2>1
    <3>2. 0 * weight[c] = 0 /\ all * 0 = 0
      BY <1>3, <1>5
    <3> HIDE DEF new, before, k, all
    <3> QED
      BY <1>5, <3>1, <3>2
  <2>2. CASE ~new
    <3>1. carried'[c] = carried[c] /\ k = Total(served) /\ before[c] = served[c]
      BY <1>2, <2>2
    <3> QED
      BY <1>6, <2>2, <3>1
  <2> QED
    BY <2>1, <2>2
<1> HIDE DEF new, before, k, all
<1>11. Total(served') = k + 1
  <2>1. Total([c \in backends |-> before[c] + (IF c = b THEN 1 ELSE 0)]) = Total(before) + 1
    BY <1>1, <1>7, OneMoreServed
  <2> QED
    BY <1>7, <1>8, <2>1
<1>12. served' \in [backends -> Int]
  BY <1>7, <1>8
<1> USE DEF new, before, k, all
<1> QED
  BY <1>2, <1>3, <1>4, <1>5, <1>7, <1>8, <1>9, <1>10, <1>11, <1>12

LEMMA WindowGoesOn ==
  ASSUME BalanceInv, NEW backends \in Lists, SelectBackend(backends),
         NEW b \in backends, b = Leader(Gained(backends))
  PROVE  WindowInv'
<1> DEFINE new == NewWindow(backends)
           before == IF new THEN [c \in backends |-> 0] ELSE served
           k == IF new THEN 0 ELSE Total(served)
           all == TotalWeight(backends)
<1>1. /\ before \in [backends -> Int]
      /\ k \in Int
      /\ served' = [c \in backends |-> before[c] + (IF c = b THEN 1 ELSE 0)]
      /\ served' \in [backends -> Int]
      /\ Total(served') = k + 1
      /\ carried' \in [backends -> Int]
      /\ weight' = weight
      /\ all \in Int
      /\ TotalWeight(backends)' = all
      /\ current_weights' \in [backends -> Int]
      /\ \A c \in backends :
           /\ weight[c] \in Int
           /\ CurrentWeight(c) \in Int
           /\ CurrentWeight(c) = carried'[c] + k * weight[c] - all * before[c]
           /\ current_weights'[c] = CurrentWeight(c) + weight[c]
                                      - (IF c = b THEN all ELSE 0)
  BY Served
<1>2. DOMAIN served' = backends /\ DOMAIN current_weights' = backends
  BY <1>1
<1>3. ASSUME NEW c \in backends
      PROVE  current_weights'[c] =
               carried'[c] + Total(served') * weight[c] - all * served'[c]
  <2> HIDE DEF before, k, all
  <2>1. /\ carried'[c] \in Int /\ weight[c] \in Int /\ k \in Int
        /\ before[c] \in Int /\ all \in Int
    BY <1>1
  <2>4. PICK carry \in Int, w \in Int, n \in Int, s \in Int, a \in Int :
          carry = carried'[c] /\ w = weight[c] /\ n = k /\ s = before[c] /\ a = all
    BY <2>1
  <2>5. /\ (carry + n * w - a * s) + w - a = carry + (n + 1) * w - a * (s + 1)
        /\ (carry + n * w - a * s) + w = carry + (n + 1) * w - a * s
    BY BalanceStep
  <2>2. CASE c = b
    <3>1. served'[c] = before[c] + 1 /\ Total(served') = k + 1
      BY <1>1, <2>2
    <3>2. current_weights'[c] =
            (carried'[c] + k * weight[c] - all * before[c]) + weight[c] - all
      BY <1>1, <2>2
    <3>3. current_weights'[c] =
            carried'[c] + (k + 1) * weight[c] - all * (before[c] + 1)
      <4>1. (carried'[c] + k * weight[c] - all * before[c]) + weight[c] - all
              = carried'[c] + (k + 1) * weight[c] - all * (before[c] + 1)
        BY <2>4, <2>5
      <4> QED
        BY <3>2, <4>1
    <3> QED
      BY <3>1, <3>3
  <2>3. CASE c # b
    <3>1. served'[c] = before[c] /\ Total(served') = k + 1
      BY <1>1, <2>1, <2>3
    <3>2. current_weights'[c] =
            (carried'[c] + k * weight[c] - all * before[c]) + weight[c]
      <4>1. CurrentWeight(c) + weight[c] - 0 = CurrentWeight(c) + weight[c]
        BY <1>1
      <4> QED
        BY <1>1, <2>3, <4>1
    <3>3. current_weights'[c] = carried'[c] + (k + 1) * weight[c] - all * before[c]
      <4>1. (carried'[c] + k * weight[c] - all * before[c]) + weight[c]
              = carried'[c] + (k + 1) * weight[c] - all * before[c]
        BY <2>4, <2>5
      <4> QED
        BY <3>2, <4>1
    <3> QED
      BY <3>1, <3>3
  <2> QED
    BY <2>2, <2>3
<1>4. ASSUME \A c \in backends : weight[c] >= 0, NEW c \in backends, served'[c] > 0
      PROVE  -all <= current_weights'[c]
  <2>1. CASE c = b
    <3>1. CurrentWeight(c) + weight[c] >= 0
      BY <2>1, SelectedIn DEF BalanceInv
    <3> HIDE DEF all
    <3> QED
      BY <1>1, <2>1, <3>1
  <2>2. CASE c # b
    <3>1. -all <= CurrentWeight(c)
      <4>1. before[c] > 0
        <5>1. served'[c] = before[c] + 0 /\ before[c] \in Int
          BY <1>1, <2>2
        <5> HIDE DEF before
        <5> QED
          BY <1>4, <5>1
      <4>2. ~new /\ before[c] = served[c]
        BY <4>1
      <4>3. DOMAIN served = backends /\ backends # {}
        BY <4>2 DEF NewWindow
      <4>4. /\ DOMAIN current_weights = backends
            /\ -all <= current_weights[c]
        BY <1>4, <4>1, <4>2, <4>3 DEF BalanceInv, WindowInv
      <4> QED
        BY <4>4 DEF CurrentWeight
    <3>2. CurrentWeight(c) \in Int /\ weight[c] \in Int /\ weight[c] >= 0 /\ all \in Int
      BY <1>1, <1>4
    <3>3. current_weights'[c] = CurrentWeight(c) + weight[c] - 0
      BY <1>1, <2>2
    <3> HIDE DEF all
    <3> QED
      BY <3>1, <3>2, <3>3
  <2> QED
    BY <2>1, <2>2
<1> HIDE DEF new, before, k
<1>5. TotalWeight(DOMAIN served)' = all
  <2>1. TotalWeight(DOMAIN served)' = TotalWeight(backends)'
    BY <1>2 DEF TotalWeight
  <2> QED
    BY <1>1, <2>1
<1> HIDE DEF all
<1> SUFFICES
      /\ DOMAIN served' \in Lists \cup {{}}
      /\ served' \in [DOMAIN served' -> Int]
      /\ DOMAIN current_weights' = DOMAIN served'
      /\ carried' \in [DOMAIN served' -> Int]
      /\ \A c \in DOMAIN served' :
           current_weights'[c] =
             carried'[c] + Total(served') * weight'[c] - all * served'[c]
      /\ (\A c \in DOMAIN served' : weight'[c] >= 0)
           => \A c \in DOMAIN served' : served'[c] > 0 => -all <= current_weights'[c]
  BY <1>5 DEF WindowInv, Balance
<1> QED
  BY <1>1, <1>2, <1>3, <1>4

LEMMA BalanceNext ==
  ASSUME LowestIsPatched, BalanceInv, [Next]_vars
  PROVE  BalanceInv'
<1>1. TypeOK'
  BY TypeNext DEF BalanceInv
<1>2. ASSUME NEW backends \in Lists, SelectBackend(backends)
      PROVE  WindowInv'
  <2>1. CASE Leader(Gained(backends)) = None
    BY <1>2, <2>1, NothingSelected
  <2>2. CASE Leader(Gained(backends)) # None
    <3>1. Leader(Gained(backends)) \in backends
      BY <2>2, SelectedIn DEF BalanceInv
    <3> QED
      BY <1>2, <3>1, WindowGoesOn
  <2> QED
    BY <2>1, <2>2
<1>3. ASSUME NEW b \in Backends, NEW w \in PatchedWeights, UpdateWeight(b, w)
      PROVE  WindowInv'
  <2>1. served' = NoWindow
    BY <1>3 DEF UpdateWeight
  <2> QED
    BY <2>1 DEF WindowInv, NoWindow
<1>4. CASE UNCHANGED vars
  <2>1. /\ served' = served /\ weight' = weight /\ carried' = carried
        /\ current_weights' = current_weights
    BY <1>4 DEF vars
  <2>2. TotalWeight(DOMAIN served)' = TotalWeight(DOMAIN served)
    BY <2>1 DEF TotalWeight
  <2>3. WindowInv'
    BY <2>1, <2>2 DEF BalanceInv, WindowInv, Balance
  <2> QED
    BY <1>1, <2>3 DEF BalanceInv
<1> QED
  BY <1>1, <1>2, <1>3, <1>4 DEF BalanceInv, Next, Select

\* Weights that may not be negative, as those of the configuration and of PATCH.
WeightsNotNegative == MinWeight \in 0..1

\* From the balance: who was served had something to give back, and owes no more
\* than a round since.
LEMMA BalanceBounds ==
  ASSUME WeightsNotNegative, BalanceInv
  PROVE  NeverAheadOfShare
<1> DEFINE backends == DOMAIN served
           all == TotalWeight(backends)
<1> SUFFICES ASSUME NEW b \in backends, served[b] > 0
             PROVE  all * (served[b] - 1) <= carried[b] + Total(served) * weight[b]
  BY DEF NeverAheadOfShare
<1>1. /\ TypeOK
      /\ backends \in SUBSET Backends
      /\ served \in [backends -> Int]
      /\ DOMAIN current_weights = backends
      /\ carried \in [backends -> Int]
      /\ current_weights[b] = carried[b] + Total(served) * weight[b] - all * served[b]
  BY DEF BalanceInv, WindowInv, Balance, Lists
<1>2. \A c \in backends : weight[c] \in Int /\ weight[c] >= 0
  BY <1>1 DEF WeightsNotNegative, TypeOK, Weights
<1>3. -all <= current_weights[b]
  BY <1>2 DEF BalanceInv, WindowInv
<1>4. all \in Int /\ Total(served) \in Int
  BY <1>1, TotalWeightType, TotalType
<1> HIDE DEF all, backends
<1>5. /\ served[b] \in Int /\ carried[b] \in Int /\ weight[b] \in Int
      /\ all * (served[b] - 1) = all * served[b] - all
      /\ all * served[b] \in Int /\ Total(served) * weight[b] \in Int
  BY <1>1, <1>2, <1>4
<1> QED
  BY <1>1, <1>3, <1>4, <1>5

\* In every window, however the lists and the weights changed before it, no backend
\* that is served is ahead of its share by more than one call and what it carried in.
THEOREM NeverAhead ==
  ASSUME WeightsNotNegative
  PROVE  Spec => []NeverAheadOfShare
<1>1. LowestIsPatched
  BY DEF WeightsNotNegative, LowestIsPatched
<1>2. Init => BalanceInv
  BY BalanceInit
<1>3. BalanceInv /\ [Next]_vars => BalanceInv'
  BY <1>1, BalanceNext
<1>4. BalanceInv => NeverAheadOfShare
  BY BalanceBounds
<1> QED
  BY <1>2, <1>3, <1>4, PTL DEF Spec

-----------------------------------------------------------------------------
(* Windows that begin with nothing carried.  The selected backend gives    *)
(* back what all of them gained, so that the current weights add up to 0   *)
(* in such a window; the leader is then above 0 before it gives back, and  *)
(* no backend ends up owing a whole round.                                 *)

RestInv ==
  LET backends == DOMAIN served
      all == TotalWeight(backends)
  IN backends # {} =>
       /\ Total(served) > 0
       /\ (\A b \in backends : weight[b] >= 0 /\ carried[b] = 0) /\ all > 0
          => /\ Total(current_weights) = 0
             /\ \A b \in backends : -all < current_weights[b]

\* The leader of current weights that add up to something has a part of it.
LEMMA LeaderHasSome ==
  ASSUME NEW S \in SUBSET Backends, NEW cw \in [S -> Int], Total(cw) > 0,
         NEW b \in S, \A c \in S : cw[c] <= cw[b]
  PROVE  cw[b] > 0
<1> SUFFICES ASSUME cw[b] <= 0 PROVE FALSE
  OBVIOUS
<1> DEFINE zero == [c \in S |-> 0]
<1>1. zero \in [S -> Int] /\ \A c \in S : cw[c] <= zero[c]
  OBVIOUS
<1>2. Sum(zero) = 0
  BY NoneServed, TotalIsSum
<1> HIDE DEF zero
<1>3. Sum(cw) <= Sum(zero) /\ Sum(cw) \in Int
  BY <1>1, FiniteLists, SumOrder, SumIsNumber
<1> QED
  BY <1>2, <1>3, TotalIsSum

LEMMA RestStep ==
  ASSUME BalanceInv, RestInv, NEW backends \in Lists, SelectBackend(backends),
         NEW b \in backends, b = Leader(Gained(backends))
  PROVE  RestInv'
<1> DEFINE new == NewWindow(backends)
           all == TotalWeight(backends)
           cw == [c \in backends |-> CurrentWeight(c)]
           w == [c \in backends |-> weight[c]]
           gained == Gained(backends)
           k == IF new THEN 0 ELSE Total(served)
<1>1. /\ TypeOK /\ WindowInv
      /\ backends \in SUBSET Backends /\ backends # {}
  BY DEF BalanceInv, Lists
<1>2. /\ k \in Int
      /\ Total(served') = k + 1
      /\ served' \in [backends -> Int]
      /\ carried' \in [backends -> Int]
      /\ weight' = weight
      /\ all \in Int
      /\ TotalWeight(backends)' = all
      /\ current_weights' \in [backends -> Int]
  BY Served
<1>3. \A c \in backends :
        /\ weight[c] \in Int
        /\ CurrentWeight(c) \in Int
        /\ current_weights'[c] =
             CurrentWeight(c) + weight[c] - (IF c = b THEN all ELSE 0)
  BY Served
<1>4. /\ gained \in [backends -> Int]
      /\ \A c \in backends : gained[c] = CurrentWeight(c) + weight[c]
      /\ \A c \in backends : gained[c] <= gained[b]
  BY <1>1, GainedType, SelectedIn
<1>5. carried' = IF new THEN cw ELSE carried
  BY DEF SelectBackend
<1>6. ~new => DOMAIN served = backends
  BY DEF NewWindow
<1>7. Total(served') > 0
  <2>1. k >= 0
    BY <1>1, <1>2, <1>6 DEF RestInv
  <2> HIDE DEF k
  <2> QED
    BY <1>2, <2>1
<1>8. ASSUME \A c \in backends : weight[c] >= 0 /\ carried'[c] = 0, all > 0
      PROVE  /\ Total(current_weights') = 0
             /\ \A c \in backends : -all < current_weights'[c]
  <2>1. /\ cw \in [backends -> Int]
        /\ Total(cw) = 0
        /\ \A c \in backends : -all < cw[c]
    <3>1. CASE new
      <4>1. cw = [c \in backends |-> 0]
        BY <1>5, <1>8, <3>1
      <4> HIDE DEF cw
      <4>2. Total(cw) = 0
        BY <1>1, <4>1, NoneServed
      <4> QED
        BY <1>2, <1>8, <4>1, <4>2
    <3>2. CASE ~new
      <4>1. DOMAIN served = backends /\ carried' = carried
        BY <1>5, <1>6, <3>2
      <4>2. /\ Total(current_weights) = 0
            /\ \A c \in backends : -all < current_weights[c]
        BY <1>1, <1>8, <4>1 DEF RestInv
      <4>3. DOMAIN current_weights = backends
        BY <1>1, <4>1 DEF WindowInv
      <4>4. \A c \in backends : cw[c] = current_weights[c]
        BY <4>3 DEF CurrentWeight
      <4>5. current_weights \in [backends -> Int]
        BY <1>1, <4>3 DEF TypeOK
      <4>6. cw = current_weights
        BY <4>4, <4>5
      <4> QED
        BY <4>2, <4>5, <4>6
    <3> QED
      BY <3>1, <3>2
  <2>2. w \in [backends -> Int] /\ Total(w) = all
    BY <1>3 DEF TotalWeight
  <2>3. /\ \A c \in backends : gained[c] = cw[c] + w[c]
        /\ current_weights'[b] = gained[b] - Total(w)
        /\ \A c \in backends \ {b} : current_weights'[c] = gained[c]
    <3>1. \A c \in backends : cw[c] = CurrentWeight(c) /\ w[c] = weight[c]
      OBVIOUS
    <3> HIDE DEF cw, w, gained, all
    <3>2. current_weights'[b] = gained[b] - all
      <4>1. current_weights'[b] = CurrentWeight(b) + weight[b] - all
        BY <1>3
      <4>2. gained[b] = CurrentWeight(b) + weight[b]
        BY <1>4
      <4>3. CurrentWeight(b) \in Int /\ weight[b] \in Int /\ all \in Int
        BY <1>2, <1>3
      <4> QED
        BY <4>1, <4>2, <4>3
    <3>3. ASSUME NEW c \in backends \ {b} PROVE current_weights'[c] = gained[c]
      <4>1. current_weights'[c] = CurrentWeight(c) + weight[c] - 0
        BY <1>3
      <4> QED
        BY <1>3, <1>4, <4>1
    <3> QED
      BY <1>4, <2>2, <3>1, <3>2, <3>3
  <2>4. \A c \in backends : w[c] >= 0
    BY <1>8
  <2> HIDE DEF cw, w, gained, all
  <2>5. Total(gained) = Total(cw) + Total(w) /\ Total(current_weights') = Total(cw)
    <3>1. PICK after \in [backends -> Int] : after = current_weights'
      BY <1>2
    <3>2. after[b] = gained[b] - Total(w) /\ \A c \in backends \ {b} : after[c] = gained[c]
      BY <2>3, <3>1
    <3>3. /\ gained \in [backends -> Int]
          /\ \A c \in backends : gained[c] = cw[c] + w[c]
      BY <1>4, <2>3
    <3>4. /\ backends \in SUBSET Backends
          /\ cw \in [backends -> Int]
          /\ w \in [backends -> Int]
      BY <1>1, <2>1, <2>2
    <3>5. IsFiniteSet(backends)
      BY <3>4, FiniteLists
    <3>6. Sum(gained) = Sum(cw) + Sum(w)
      BY <3>3, <3>4, <3>5, SumAdds
    <3>7. Sum(after) = Sum(gained) + after[b] - gained[b]
      BY <3>2, <3>3, <3>5, SumUpdate
    <3>8. Sum(cw) \in Int /\ Sum(w) \in Int /\ gained[b] \in Int
      BY <3>3, <3>4, <3>5, SumIsNumber
    <3>9. Total(w) = Sum(w) /\ Total(cw) = Sum(cw)
      BY TotalIsSum
    <3>10. Total(gained) = Sum(gained) /\ Total(current_weights') = Sum(after)
      BY <3>1, TotalIsSum
    <3> QED
      BY <3>2, <3>6, <3>7, <3>8, <3>9, <3>10
  <2>6. gained[b] > 0
    <3>1. Total(gained) > 0
      BY <1>2, <1>8, <2>1, <2>2, <2>5
    <3> QED
      BY <1>1, <1>4, <3>1, LeaderHasSome
  <2>7. ASSUME NEW c \in backends PROVE -all < current_weights'[c]
    <3>1. CASE c = b
      BY <1>2, <1>4, <2>2, <2>3, <2>6, <3>1
    <3>2. CASE c # b
      <4>1. current_weights'[c] = cw[c] + w[c]
        BY <2>3, <3>2
      <4>2. cw[c] \in Int /\ w[c] \in Int /\ w[c] >= 0 /\ -all < cw[c]
        BY <2>1, <2>2, <2>4
      <4> QED
        BY <1>2, <4>1, <4>2
    <3> QED
      BY <3>1, <3>2
  <2> QED
    BY <2>1, <2>5, <2>7
<1>9. DOMAIN served' = backends /\ TotalWeight(DOMAIN served)' = all
  <2>1. DOMAIN served' = backends
    BY <1>2
  <2>2. TotalWeight(DOMAIN served)' = TotalWeight(backends)'
    BY <2>1 DEF TotalWeight
  <2> QED
    BY <1>2, <2>1, <2>2
<1> HIDE DEF all, k, new, cw, w, gained
<1> SUFFICES /\ Total(served') > 0
             /\ (\A c \in DOMAIN served' : weight'[c] >= 0 /\ carried'[c] = 0) /\ all > 0
                => /\ Total(current_weights') = 0
                   /\ \A c \in DOMAIN served' : -all < current_weights'[c]
  BY <1>9 DEF RestInv
<1> QED
  BY <1>2, <1>7, <1>8, <1>9

RoundInv == BalanceInv /\ RestInv

LEMMA RoundNext ==
  ASSUME LowestIsPatched, RoundInv, [Next]_vars
  PROVE  RoundInv'
<1>1. BalanceInv'
  BY BalanceNext DEF RoundInv
<1>2. ASSUME NEW backends \in Lists, SelectBackend(backends)
      PROVE  RestInv'
  <2>1. CASE Leader(Gained(backends)) = None
    <3>1. served' = NoWindow
      BY <1>2, <2>1 DEF SelectBackend, Counted
    <3> QED
      BY <3>1 DEF RestInv, NoWindow
  <2>2. CASE Leader(Gained(backends)) # None
    <3>1. Leader(Gained(backends)) \in backends
      BY <2>2, SelectedIn DEF RoundInv, BalanceInv
    <3> QED
      BY <1>2, <3>1, RestStep DEF RoundInv
  <2> QED
    BY <2>1, <2>2
<1>3. ASSUME NEW b \in Backends, NEW w \in PatchedWeights, UpdateWeight(b, w)
      PROVE  RestInv'
  <2>1. served' = NoWindow
    BY <1>3 DEF UpdateWeight
  <2> QED
    BY <2>1 DEF RestInv, NoWindow
<1>4. CASE UNCHANGED vars
  <2>1. /\ served' = served /\ weight' = weight /\ carried' = carried
        /\ current_weights' = current_weights
    BY <1>4 DEF vars
  <2>2. TotalWeight(DOMAIN served)' = TotalWeight(DOMAIN served)
    BY <2>1 DEF TotalWeight
  <2>3. RestInv'
    BY <2>1, <2>2 DEF RoundInv, RestInv
  <2> QED
    BY <1>1, <2>3 DEF RoundInv
<1> QED
  BY <1>1, <1>2, <1>3, <1>4 DEF RoundInv, Next, Select

\* A backend that does not owe a whole round was not served beyond its weight.
LEMMA NoWholeRound ==
  ASSUME NEW all \in Int, NEW s \in Int, NEW w \in Int, -all < all * w - all * s, all > 0
  PROVE  s <= w
<1> SUFFICES ASSUME s > w PROVE FALSE
  OBVIOUS
<1> DEFINE d == s - w - 1
<1>1. d \in Nat /\ all \in Nat /\ s = w + 1 + d
  OBVIOUS
<1>2. \A x, y \in Nat : x * y >= 0
  OBVIOUS
<1>3. all * d >= 0
  BY <1>1, <1>2
<1>4. all * (w + 1 + d) = all * w + all + all * d
  BY <1>1
<1> QED
  BY <1>1, <1>3, <1>4

LEMMA RoundIsExact ==
  ASSUME WeightsNotNegative, RoundInv
  PROVE  ExactFromRest
<1> DEFINE backends == DOMAIN served
           all == TotalWeight(backends)
           w == [b \in backends |-> weight[b]]
<1> SUFFICES ASSUME Total(served) = all,
                    \A b \in backends : carried[b] = 0,
                    NEW b \in backends
             PROVE  served[b] = weight[b] /\ current_weights[b] = 0
  BY DEF ExactFromRest
<1>1. /\ TypeOK
      /\ backends \in SUBSET Backends /\ backends # {}
      /\ served \in [backends -> Int]
      /\ \A c \in backends :
           current_weights[c] = carried[c] + Total(served) * weight[c] - all * served[c]
  BY DEF RoundInv, BalanceInv, WindowInv, Balance, Lists
<1>2. \A c \in backends : weight[c] \in Int /\ weight[c] >= 0
  BY <1>1 DEF WeightsNotNegative, TypeOK, Weights
<1>3. all \in Int /\ all > 0
  BY <1>1, TotalWeightType DEF RoundInv, RestInv
<1>4. \A c \in backends : -all < current_weights[c]
  BY <1>1, <1>2, <1>3 DEF RoundInv, RestInv
<1>5. w \in [backends -> Int] /\ Total(w) = all
  BY <1>2 DEF TotalWeight
<1>6. \A c \in backends : w[c] = weight[c]
  OBVIOUS
<1> HIDE DEF all, w, backends
<1>7. ASSUME NEW c \in backends
      PROVE  /\ current_weights[c] = all * weight[c] - all * served[c]
             /\ served[c] <= w[c]
  <2>1. weight[c] \in Int /\ served[c] \in Int
    BY <1>1, <1>2
  <2>2. current_weights[c] = 0 + all * weight[c] - all * served[c]
    BY <1>1
  <2>3. all * weight[c] \in Int /\ all * served[c] \in Int
    BY <1>3, <2>1
  <2>4. current_weights[c] = all * weight[c] - all * served[c]
    BY <2>2, <2>3
  <2>5. -all < all * weight[c] - all * served[c]
    BY <1>4, <2>4
  <2>6. served[c] <= weight[c]
    BY <1>3, <2>1, <2>5, NoWholeRound
  <2> QED
    BY <1>6, <2>4, <2>6
<1>8. Sum(served) = Sum(w)
  BY <1>5, TotalIsSum
<1>9. \A c \in backends : served[c] = w[c]
  BY <1>1, <1>5, <1>7, <1>8, FiniteLists, SumsEqual
<1>10. served[b] = weight[b]
  BY <1>6, <1>9
<1>11. current_weights[b] = all * weight[b] - all * weight[b]
  BY <1>7, <1>10
<1>12. all * weight[b] \in Int
  BY <1>2, <1>3
<1> QED
  BY <1>10, <1>11, <1>12

\* A window that begins with nothing carried, as the first one does, serves every
\* backend exactly as often as its weight says, and so does every window after it
\* until the list or a weight changes.
THEOREM SharesAreExact ==
  ASSUME WeightsNotNegative
  PROVE  Spec => []ExactFromRest
<1>1. LowestIsPatched
  BY DEF WeightsNotNegative, LowestIsPatched
<1>2. Init => RoundInv
  BY BalanceInit DEF RoundInv, RestInv, Init, NoWindow
<1>3. RoundInv /\ [Next]_vars => RoundInv'
  BY <1>1, RoundNext
<1>4. RoundInv => ExactFromRest
  BY RoundIsExact
<1> QED
  BY <1>2, <1>3, <1>4, PTL DEF Spec

-----------------------------------------------------------------------------
(* Windows that begin with something carried.                              *)

\* Rounded down, a quotient is the largest number that fits.
LEMMA QuotientFits ==
  ASSUME NEW all \in Int, all > 0, NEW carry \in Int, NEW d \in Int,
         all * d <= carry
  PROVE  /\ carry < 0 => d < 0
         /\ d <= carry \div all
         /\ carry \div all \in Int
         /\ carry >= 0 => carry \div all >= 0
<1>1. PICK q \in Int : q = carry \div all
  OBVIOUS
<1>2. all * q <= carry /\ carry < all * q + all
  BY <1>1
<1>3. \A x, y \in Nat : x * y >= 0
  OBVIOUS
<1>4. ASSUME carry < 0 PROVE d < 0
  <2> SUFFICES ASSUME d >= 0 PROVE FALSE
    OBVIOUS
  <2> QED
    BY <1>3, <1>4
<1>5. d <= q
  <2> SUFFICES ASSUME d > q PROVE FALSE
    OBVIOUS
  <2> DEFINE e == d - q - 1
  <2>1. e \in Nat /\ all \in Nat /\ d = q + 1 + e
    OBVIOUS
  <2>2. all * e >= 0
    BY <1>3, <2>1
  <2>3. all * (q + 1 + e) = all * q + all + all * e
    BY <2>1
  <2> QED
    BY <1>2, <2>1, <2>2, <2>3
<1>6. ASSUME carry >= 0 PROVE q >= 0
  <2> SUFFICES ASSUME q < 0 PROVE FALSE
    OBVIOUS
  <2> DEFINE e == -1 - q
  <2>1. e \in Nat /\ all \in Nat /\ q = -1 - e
    OBVIOUS
  <2>2. all * e >= 0
    BY <1>3, <2>1
  <2>3. all * (-1 - e) = -all - all * e
    BY <2>1
  <2> QED
    BY <1>2, <1>6, <2>1, <2>2, <2>3
<1> QED
  BY <1>1, <1>4, <1>5, <1>6

\* What all but one are given beyond their part, that one is given less.
LEMMA OthersMakeUp ==
  ASSUME NEW S \in SUBSET Backends, NEW f \in [S -> Int], NEW w \in [S -> Int],
         NEW extra \in [S -> Int], NEW b \in S, extra[b] = 0,
         \A c \in S \ {b} : f[c] <= w[c] + extra[c],
         Total(f) = Total(w)
  PROVE  w[b] <= f[b] + Total(extra)
<1> DEFINE most == [c \in S |-> w[c] + extra[c]]
           given == [most EXCEPT ![b] = f[b]]
<1>1. /\ most \in [S -> Int] /\ given \in [S -> Int]
      /\ most[b] = w[b] /\ given[b] = f[b]
      /\ \A c \in S : most[c] = w[c] + extra[c]
      /\ \A c \in S \ {b} : given[c] = most[c]
      /\ \A c \in S : f[c] <= given[c]
  OBVIOUS
<1>2. IsFiniteSet(S)
  BY FiniteLists
<1> HIDE DEF most, given
<1>3. Sum(most) = Sum(w) + Sum(extra)
  BY <1>1, <1>2, SumAdds
<1>4. Sum(given) = Sum(most) + given[b] - most[b]
  <2>1. /\ most \in [S -> Int] /\ given \in [S -> Int] /\ b \in S
        /\ \A c \in S \ {b} : given[c] = most[c]
    BY <1>1
  <2> QED
    BY <1>2, <2>1, SumUpdate, Zenon
<1>5. Sum(f) <= Sum(given)
  BY <1>1, <1>2, SumOrder
<1>6. PICK F \in Int, W \in Int, X \in Int : F = Sum(f) /\ W = Sum(w) /\ X = Sum(extra)
  BY <1>2, SumIsNumber
<1>7. F = W /\ Total(extra) = X
  BY <1>6, TotalIsSum
<1>8. F <= W + X + f[b] - w[b]
  BY <1>1, <1>3, <1>4, <1>5, <1>6
<1> QED
  BY <1>7, <1>8

LEMMA RoundFollowsWeights ==
  ASSUME WeightsNotNegative, RoundInv
  PROVE  ShareFollowsWeights
<1> DEFINE backends == DOMAIN served
           all == TotalWeight(backends)
           w == [c \in backends |-> weight[c]]
           Others(b) == [c \in backends |-> IF c = b THEN 0 ELSE Credit(c)]
<1> SUFFICES ASSUME Total(served) = all, NEW b \in backends
             PROVE  /\ served[b] <= weight[b] + Credit(b)
                    /\ weight[b] <= served[b] + Total(Others(b))
  BY DEF ShareFollowsWeights
<1>1. /\ TypeOK
      /\ backends \in SUBSET Backends
      /\ served \in [backends -> Int]
      /\ carried \in [backends -> Int]
  BY DEF RoundInv, BalanceInv, WindowInv, Lists
<1>2. \A c \in backends : weight[c] \in Int /\ weight[c] >= 0
  BY <1>1 DEF WeightsNotNegative, TypeOK, Weights
<1>3. all \in Int /\ all > 0
  BY <1>1, TotalWeightType DEF RoundInv, RestInv
<1>4. w \in [backends -> Int] /\ Total(w) = all /\ \A c \in backends : w[c] = weight[c]
  BY <1>2 DEF TotalWeight
<1>5. NeverAheadOfShare
  BY BalanceBounds DEF RoundInv
<1>6. ASSUME NEW c \in backends
      PROVE  Credit(c) \in Int /\ served[c] <= weight[c] + Credit(c)
  <2>1. Credit(c) = IF carried[c] < 0 THEN 0 ELSE 1 + carried[c] \div all
    BY DEF Credit
  <2>2. served[c] > 0 => all * (served[c] - 1) <= carried[c] + all * weight[c]
    BY <1>5 DEF NeverAheadOfShare
  <2>3. PICK s \in Int, r \in Int, carry \in Int :
          s = served[c] /\ r = weight[c] /\ carry = carried[c]
    BY <1>1, <1>2
  <2> HIDE DEF all, backends
  <2>4. carry \div all \in Int /\ (carry >= 0 => carry \div all >= 0)
    BY <1>3, QuotientFits
  <2>5. CASE s <= 0
    BY <1>2, <2>1, <2>3, <2>4, <2>5
  <2>6. CASE s > 0
    <3> DEFINE d == s - r - 1
    <3>1. d \in Int /\ s = r + 1 + d
      OBVIOUS
    <3>2. all * (s - 1) = all * d + all * r
      BY <1>3
    <3>3. all * d <= carry
      BY <1>3, <2>2, <2>3, <2>6, <3>1, <3>2
    <3> HIDE DEF d
    <3>4. (carry < 0 => d < 0) /\ d <= carry \div all
      BY <1>3, <3>1, <3>3, QuotientFits
    <3> QED
      BY <2>1, <2>3, <2>4, <3>1, <3>4
  <2> QED
    BY <2>3, <2>5, <2>6
<1>7. /\ Others(b) \in [backends -> Int]
      /\ Others(b)[b] = 0
      /\ \A c \in backends \ {b} : Others(b)[c] = Credit(c)
  BY <1>6
<1>8. PICK extra \in [backends -> Int] :
        extra = Others(b) /\ extra[b] = 0 /\ \A c \in backends \ {b} : extra[c] = Credit(c)
  BY <1>7
<1> HIDE DEF all, backends, w, Others
<1>9. \A c \in backends \ {b} : served[c] <= w[c] + extra[c]
  BY <1>4, <1>6, <1>8
<1>10. w[b] <= served[b] + Total(extra)
  BY <1>1, <1>4, <1>8, <1>9, OthersMakeUp
<1> QED
  BY <1>4, <1>6, <1>8, <1>10

\* In every window, however the lists and the weights changed before it, a backend
\* is served as often as its weight says, but for the credit that it or the others
\* carried in.
THEOREM SharesFollowWeights ==
  ASSUME WeightsNotNegative
  PROVE  Spec => []ShareFollowsWeights
<1>1. LowestIsPatched
  BY DEF WeightsNotNegative, LowestIsPatched
<1>2. Init => RoundInv
  BY BalanceInit DEF RoundInv, RestInv, Init, NoWindow
<1>3. RoundInv /\ [Next]_vars => RoundInv'
  BY <1>1, RoundNext
<1>4. RoundInv => ShareFollowsWeights
  BY RoundFollowsWeights
<1> QED
  BY <1>2, <1>3, <1>4, PTL DEF Spec

-----------------------------------------------------------------------------
(* Nothing piles up.  A call raises the current weights of its list by a   *)
(* round in all and lowers the highest by as much; a backend that leaves   *)
(* takes its debt with it, so that the sum of the others grows.  It is     *)
(* bounded because the call goes to the highest: j backends that it passes *)
(* over are each no higher than the one it serves, and so have at most j   *)
(* parts of j + 1 of what these j + 1 have.  What j backends may have      *)
(* together is therefore bounded for each j, from all of them down to one. *)

\* What b is owed.  A backend that is not in the last list is owed nothing.
Owed ==
  [b \in Backends |->
     IF b \in DOMAIN current_weights /\ current_weights[b] > 0
     THEN current_weights[b] ELSE 0]

Round == N * MaxWeight

\* What j backends may be owed together.
Cap(j, round) == j * ((N - j + 1) * round)

CreditInv ==
  /\ \A b \in DOMAIN current_weights : -Round <= current_weights[b]
  /\ \A S \in SUBSET Backends : Part(Owed, S) <= Cap(Cardinality(S), Round)

LEMMA SizeOfPart ==
  ASSUME NEW S \in SUBSET Backends
  PROVE  /\ N \in Nat /\ N >= 1
         /\ IsFiniteSet(Backends)
         /\ IsFiniteSet(S)
         /\ Cardinality(S) \in Nat
         /\ Cardinality(S) <= N
<1>1. N \in Nat /\ N >= 1
  BY CandidatesAssumption
<1>2. IsFiniteSet(Backends) /\ Cardinality(Backends) = N
  BY <1>1, FS_Interval DEF Backends
<1> QED
  BY <1>1, <1>2, FS_Subset, FS_CardinalityType

\* j backends below one other that has m.
LEMMA FairerShare ==
  ASSUME NEW n \in Nat, NEW j \in Nat, j + 1 <= n, NEW round \in Nat,
         NEW x \in Int, NEW m \in Int,
         x <= j * m,
         x + m <= (j + 1) * ((n - j) * round) + round
  PROVE  x <= j * ((n - j + 1) * round)
<1> DEFINE a == (n - j) * round
<1>1. \A p, q \in Nat : p * q \in Nat
  OBVIOUS
<1>2. n - j \in Nat /\ a \in Int /\ j * a \in Int
  OBVIOUS
<1>3. (n - j + 1) * round = a + round
  OBVIOUS
<1> HIDE DEF a
<1>4. j * (x + m) <= j * ((j + 1) * a + round)
  <2>1. x + m <= (j + 1) * a + round
    BY DEF a
  <2>2. PICK d \in Nat : (j + 1) * a + round = x + m + d
    <3>1. PICK c \in Int : c = (j + 1) * a + round
      BY <1>2
    <3>2. c - (x + m) \in Nat /\ c = x + m + (c - (x + m))
      BY <2>1, <3>1
    <3> QED
      BY <3>1, <3>2, Zenon
  <2>3. j * (x + m + d) = j * (x + m) + j * d /\ j * d >= 0
    BY <1>1
  <2>4. j * (x + m) \in Int /\ j * d \in Int
    OBVIOUS
  <2> QED
    BY <2>2, <2>3, <2>4
<1>5. j * (x + m) = j * x + j * m /\ j * x \in Int /\ j * m \in Int
  OBVIOUS
<1>6. (j + 1) * x = j * x + x
  OBVIOUS
<1>7. j * ((j + 1) * a + round) = (j + 1) * (j * a) + j * round
  BY <1>2
<1>8. (j + 1) * (j * (a + round)) = (j + 1) * (j * a) + (j + 1) * (j * round)
  BY <1>2
<1>9. j * round <= (j + 1) * (j * round)
  <2>1. j * round \in Nat
    BY <1>1
  <2>2. (j + 1) * (j * round) = j * (j * round) + j * round /\ j * (j * round) \in Nat
    BY <1>1, <2>1
  <2> QED
    BY <2>1, <2>2
<1>10. (j + 1) * x <= (j + 1) * (j * (a + round))
  BY <1>2, <1>4, <1>5, <1>6, <1>7, <1>8, <1>9
<1>11. x <= j * (a + round)
  <2>1. PICK y \in Int : y = j * (a + round)
    BY <1>2
  <2> SUFFICES ASSUME x > y PROVE FALSE
    BY <2>1
  <2> DEFINE d == x - y - 1
  <2>2. d \in Nat /\ x = y + 1 + d
    OBVIOUS
  <2>3. (j + 1) * d >= 0
    BY <1>1, <2>2
  <2>4. (j + 1) * (y + 1 + d) = (j + 1) * y + (j + 1) + (j + 1) * d
    BY <2>2
  <2>5. (j + 1) * y \in Int /\ (j + 1) * d \in Int
    BY <2>2
  <2> QED
    BY <1>10, <2>1, <2>2, <2>3, <2>4, <2>5
<1> QED
  BY <1>3, <1>11

\* One call, told of what everybody is owed: before it, after the gain, and after
\* the highest has given back a round.
Levelled(before, gain, gained, after, top, all) ==
  /\ before \in [Backends -> Int]
  /\ gain \in [Backends -> Int]
  /\ gained \in [Backends -> Int]
  /\ after \in [Backends -> Int]
  /\ \A b \in Backends : gained[b] <= before[b] + gain[b]
  /\ \A S \in SUBSET Backends : Part(gain, S) <= all
  /\ top \in Backends
  /\ \A b \in Backends : gained[b] <= gained[top]
  /\ \A b \in Backends \ {top} : after[b] <= gained[b]
  /\ after[top] = IF gained[top] > all THEN gained[top] - all ELSE 0

LEMMA LevelledStaysBelow ==
  ASSUME NEW before, NEW gain, NEW gained, NEW after, NEW top,
         NEW all \in Nat, NEW round \in Nat, all <= round,
         Levelled(before, gain, gained, after, top, all),
         \A S \in SUBSET Backends : Part(before, S) <= Cap(Cardinality(S), round),
         NEW S \in SUBSET Backends
  PROVE  Part(after, S) <= Cap(Cardinality(S), round)
<1>1. /\ N \in Nat /\ N >= 1
      /\ IsFiniteSet(Backends)
      /\ IsFiniteSet(S)
      /\ Cardinality(S) \in Nat
      /\ Cardinality(S) <= N
  BY SizeOfPart
<1> USE DEF Levelled
<1>2. ASSUME NEW s \in SUBSET Backends
      PROVE  /\ Part(before, s) \in Int /\ Part(gain, s) \in Int
             /\ Part(gained, s) \in Int /\ Part(after, s) \in Int
             /\ Part(gained, s) <= Part(before, s) + Part(gain, s)
             /\ Part(gained, s) <= Cap(Cardinality(s), round) + all
  <2>1. /\ before \in [Backends -> Int] /\ gain \in [Backends -> Int]
        /\ gained \in [Backends -> Int] /\ after \in [Backends -> Int]
        /\ \A b \in s : gained[b] <= before[b] + gain[b]
    OBVIOUS
  <2>2. /\ Part(before, s) \in Int /\ Part(gain, s) \in Int
        /\ Part(gained, s) \in Int /\ Part(after, s) \in Int
    BY <1>1, <2>1, PartIsNumber
  <2>3. Part(gained, s) <= Part(before, s) + Part(gain, s)
    BY <1>1, <2>1, PartAdds
  <2>4. Part(gain, s) <= all /\ Part(before, s) <= Cap(Cardinality(s), round)
    OBVIOUS
  <2>5. Cap(Cardinality(s), round) \in Int
    <3>1. N \in Nat /\ Cardinality(s) \in Nat
      BY SizeOfPart
    <3> QED
      BY <3>1 DEF Cap
  <2> QED
    BY <2>2, <2>3, <2>4, <2>5
<1>3. PICK j \in Nat : j = Cardinality(S)
  BY <1>1
<1>4. after \in [Backends -> Int] /\ gained \in [Backends -> Int] /\ top \in Backends
  OBVIOUS
<1>5. CASE top \in S /\ gained[top] > all
  \* Who gives back a round in full cannot leave more than there was.
  <2> DEFINE rest == S \ {top}
  <2>1. rest \in SUBSET Backends /\ \A b \in rest : after[b] <= gained[b]
    OBVIOUS
  <2>2. Part(after, rest) <= Part(gained, rest)
    BY <1>1, <1>4, <2>1, PartOrder
  <2>3. /\ Part(after, S) = after[top] + Part(after, rest)
        /\ Part(gained, S) = gained[top] + Part(gained, rest)
    BY <1>1, <1>4, <1>5, PartWithout
  <2>4. after[top] = gained[top] - all /\ gained[top] \in Int
    BY <1>5
  <2>5. /\ Part(gain, S) <= all
        /\ Part(before, S) <= Cap(Cardinality(S), round)
        /\ Part(gained, S) <= Part(before, S) + Part(gain, S)
    BY <1>2
  <2>6. Part(after, rest) \in Int /\ Part(gained, rest) \in Int
    BY <1>2, <2>1
  <2> HIDE DEF rest
  <2>7. PICK pa \in Int, pg \in Int, g \in Int, pb \in Int, pw \in Int :
          /\ pa = Part(after, rest) /\ pg = Part(gained, rest) /\ g = gained[top]
          /\ pb = Part(before, S) /\ pw = Part(gain, S)
    BY <1>2, <2>4, <2>6
  <2>8. /\ pa <= pg /\ g + pg <= pb + pw /\ pw <= all
        /\ Part(after, S) = (g - all) + pa
    BY <2>2, <2>3, <2>4, <2>5, <2>7
  <2>9. Part(after, S) <= pb
    BY <2>8
  <2>10. Cap(Cardinality(S), round) \in Int
    BY <1>1 DEF Cap
  <2>11. pb <= Cap(Cardinality(S), round)
    BY <2>5, <2>7
  <2>12. Part(after, S) \in Int
    BY <1>2
  <2> HIDE DEF Levelled
  <2> QED
    BY <2>9, <2>10, <2>11, <2>12
<1>6. CASE gained[top] <= all
  \* Nobody is owed more than a round.
  <2>1. \A b \in S : after[b] <= round
    <3> SUFFICES ASSUME NEW b \in S PROVE after[b] <= round
      OBVIOUS
    <3>1. /\ gained[b] \in Int /\ gained[top] \in Int /\ after[b] \in Int
          /\ gained[b] <= gained[top]
          /\ b # top => after[b] <= gained[b]
          /\ b = top => after[b] = 0
      BY <1>6
    <3> QED
      BY <1>6, <3>1
  <2>2. Part(after, S) <= j * round
    BY <1>1, <1>3, <1>4, <2>1, PartAtMost
  <2>3. j * round <= j * ((N - j + 1) * round)
    <3>1. \A p, q \in Nat : p * q \in Nat
      OBVIOUS
    <3>2. PICK k \in Nat : k = N - j
      BY <1>1, <1>3
    <3>3. (N - j + 1) * round = k * round + round /\ k * round \in Nat
      BY <3>1, <3>2
    <3>4. j * (k * round + round) = j * (k * round) + j * round
      BY <3>3
    <3>5. j * (k * round) \in Nat /\ j * round \in Nat
      BY <3>1, <3>3
    <3> QED
      BY <3>3, <3>4, <3>5
  <2>4. j * round \in Int /\ j * ((N - j + 1) * round) \in Int /\ Part(after, S) \in Int
    BY <1>1, <1>2, <1>3
  <2> HIDE DEF Levelled
  <2> QED
    BY <1>3, <2>2, <2>3, <2>4 DEF Cap
<1>7. CASE top \notin S
  \* The backends passed over are no higher than the one that is served.
  <2>1. Part(after, S) <= Part(gained, S)
    <3>1. \A b \in S : after[b] <= gained[b]
      BY <1>7
    <3> QED
      BY <1>1, <1>4, <3>1, PartOrder
  <2>2. Part(gained, S) <= j * gained[top]
    <3>1. \A b \in S : gained[b] <= gained[top]
      OBVIOUS
    <3>2. PICK m \in Int : m = gained[top]
      OBVIOUS
    <3> QED
      BY <1>1, <1>3, <1>4, <3>1, <3>2, PartAtMost
  <2> DEFINE both == S \cup {top}
  <2>3. both \in SUBSET Backends /\ Cardinality(both) = j + 1 /\ j + 1 <= N
    <3>1. both \in SUBSET Backends
      OBVIOUS
    <3>2. Cardinality(both) = Cardinality(S) + 1
      BY <1>1, <1>7, FS_AddElement
    <3>3. Cardinality(both) <= N
      BY <3>1, SizeOfPart
    <3> QED
      BY <1>3, <3>1, <3>2, <3>3
  <2>4. Part(gained, both) = Part(gained, S) + gained[top]
    BY <1>1, <1>4, <1>7, PartWith
  <2>5. Part(gained, both) <= Cap(Cardinality(both), round) + all
    BY <1>2, <2>3
  <2>6. PICK x \in Int, m \in Int : x = Part(gained, S) /\ m = gained[top]
    BY <1>2, <1>4
  <2> HIDE DEF both, Levelled
  <2>7. x + m <= (j + 1) * ((N - j) * round) + round
    <3>1. Cap(Cardinality(both), round) = (j + 1) * ((N - (j + 1) + 1) * round)
      BY <2>3 DEF Cap
    <3>2. N - (j + 1) + 1 = N - j
      BY <1>1
    <3>3. PICK c \in Int : c = (j + 1) * ((N - j) * round)
      BY <1>1
    <3> QED
      BY <2>4, <2>5, <2>6, <3>1, <3>2, <3>3
  <2>8. x <= j * ((N - j + 1) * round)
    BY <1>1, <2>2, <2>3, <2>6, <2>7, FairerShare
  <2>9. j * ((N - j + 1) * round) \in Int /\ Part(after, S) \in Int
    BY <1>1, <1>2
  <2> QED
    BY <1>3, <2>1, <2>6, <2>8, <2>9 DEF Cap
<1> HIDE DEF Levelled
<1>8. gained[top] \in Int
  BY <1>4
<1> QED
  BY <1>5, <1>6, <1>7, <1>8

LEMMA RoundType ==
  ASSUME MaxWeight \in Nat
  PROVE  /\ Round \in Nat
         /\ MaxWeight <= Round
         /\ \A j \in 0..N : Cap(j, Round) \in Nat /\ j * MaxWeight <= Round
<1>1. N \in Nat /\ N >= 1
  BY CandidatesAssumption
<1>2. \A p, q \in Nat : p * q \in Nat
  OBVIOUS
<1>3. Round \in Nat
  BY <1>1, <1>2 DEF Round
<1>4. ASSUME NEW j \in 0..N
      PROVE  j * MaxWeight <= Round
  <2>1. PICK d \in Nat : N = j + d
    <3>1. N - j \in Nat /\ N = j + (N - j)
      BY <1>1
    <3> QED
      BY <3>1
  <2>2. (j + d) * MaxWeight = j * MaxWeight + d * MaxWeight
    OBVIOUS
  <2>3. j * MaxWeight \in Nat /\ d * MaxWeight \in Nat
    BY <1>2
  <2> QED
    BY <2>1, <2>2, <2>3 DEF Round
<1>5. ASSUME NEW j \in 0..N
      PROVE  Cap(j, Round) \in Nat
  <2>1. PICK k \in Nat : k = N - j + 1
    BY <1>1
  <2>2. k * Round \in Nat
    BY <1>2, <1>3
  <2>3. j * (k * Round) \in Nat
    BY <1>2, <2>2
  <2> QED
    BY <2>1, <2>3 DEF Cap
<1>6. MaxWeight <= Round
  <2>1. 1 \in 0..N /\ 1 * MaxWeight = MaxWeight
    BY <1>1
  <2> QED
    BY <1>4, <2>1
<1> QED
  BY <1>3, <1>4, <1>5, <1>6

\* The weights of a list add up to no more than a round.
LEMMA ListWithinRound ==
  ASSUME WeightsNotNegative, TypeOK, MaxWeight \in Nat, NEW backends \in Lists
  PROVE  LET gain == [b \in Backends |-> IF b \in backends THEN weight[b] ELSE 0]
         IN /\ TotalWeight(backends) \in Nat
            /\ TotalWeight(backends) <= Round
            /\ gain \in [Backends -> Int]
            /\ \A S \in SUBSET Backends : Part(gain, S) <= TotalWeight(backends)
<1> DEFINE gain == [b \in Backends |-> IF b \in backends THEN weight[b] ELSE 0]
           all == TotalWeight(backends)
<1>1. backends \in SUBSET Backends
  BY DEF Lists
<1>2. \A b \in Backends : weight[b] \in Int /\ weight[b] >= 0 /\ weight[b] <= MaxWeight
  BY DEF WeightsNotNegative, TypeOK, Weights
<1>3. /\ gain \in [Backends -> Int]
      /\ \A b \in Backends : gain[b] >= 0 /\ gain[b] <= MaxWeight
      /\ \A b \in Backends \ backends : gain[b] = 0
      /\ \A b \in backends : gain[b] = weight[b]
  BY <1>1, <1>2
<1>4. all = Part(gain, backends)
  <2>1. [b \in backends |-> gain[b]] = [b \in backends |-> weight[b]]
    BY <1>3
  <2>2. Part(gain, backends) = Sum([b \in backends |-> weight[b]])
    BY <2>1 DEF Part
  <2> QED
    BY <2>2, TotalIsSum DEF TotalWeight
<1> HIDE DEF gain, all
<1>5. IsFiniteSet(Backends) /\ all \in Int
  BY <1>1, SizeOfPart, TotalWeightType DEF all
<1>6. \A S \in SUBSET Backends : Part(gain, S) <= all
  BY <1>1, <1>3, <1>4, <1>5, PartWithin
<1>7. all >= 0
  <2>1. Part(gain, {}) <= all
    BY <1>6
  <2> QED
    BY <1>5, <2>1, PartEmpty
<1>8. all <= Round
  <2>1. all <= Cardinality(backends) * MaxWeight
    BY <1>1, <1>3, <1>4, <1>5, PartAtMost
  <2>2. Cardinality(backends) \in 0..N
    BY <1>1, SizeOfPart
  <2>3. Cardinality(backends) * MaxWeight <= Round /\ Round \in Nat
    BY <2>2, RoundType
  <2>4. PICK k \in Int : k = Cardinality(backends) * MaxWeight
    BY <2>2
  <2> QED
    BY <1>5, <2>1, <2>3, <2>4
<1> QED
  BY <1>3, <1>5, <1>6, <1>7, <1>8 DEF gain, all

\* If nobody is selected, nobody is owed anything.
LEMMA NobodyOwed ==
  ASSUME TypeOK, NEW backends \in Lists, Leader(Gained(backends)) = None
  PROVE  \A b \in backends : Gained(backends)[b] < 0
<1> DEFINE cw == Gained(backends)
           best == {b \in DOMAIN cw : cw[b] > -1 /\ \A c \in DOMAIN cw : cw[c] <= cw[b]}
<1>1. cw \in [backends -> Int]
  BY GainedType
<1>2. IsFiniteSet(backends) /\ backends # {} /\ backends \in SUBSET Nat /\ 0 \notin backends
  BY FiniteLists DEF Lists
<1>3. Leader(cw) = IF best = {} THEN None
                   ELSE CHOOSE b \in best : \A c \in best : b <= c
  BY DEF Leader
<1>4. best = {}
  <2>1. best \in SUBSET Nat /\ 0 \notin best
    BY <1>1, <1>2
  <2> HIDE DEF best
  <2>2. best # {} => Leader(cw) \in best
    BY <1>3, <2>1, SmallestChosen
  <2> QED
    BY <2>1, <2>2 DEF None
<1> HIDE DEF cw
<1>5. PICK x \in backends : \A y \in backends : cw[y] <= cw[x]
  BY <1>1, <1>2, LargestValue
<1>6. ~(cw[x] > -1)
  BY <1>1, <1>4, <1>5
<1>7. cw[x] \in Int /\ \A y \in backends : cw[y] \in Int
  BY <1>1
<1>8. \A y \in backends : cw[y] < 0
  BY <1>5, <1>6, <1>7
<1> QED
  BY <1>8 DEF cw

LEMMA OwedType ==
  ASSUME TypeOK
  PROVE  /\ Owed \in [Backends -> Int]
         /\ \A b \in Backends : Owed[b] >= 0 /\ CurrentWeight(b) <= Owed[b]
<1>1. \A b \in DOMAIN current_weights : current_weights[b] \in Int
  BY DEF TypeOK
<1> QED
  BY <1>1 DEF Owed, CurrentWeight

LEMMA CreditInit ==
  ASSUME MaxWeight \in Nat
  PROVE  Init => CreditInv
<1> SUFFICES ASSUME Init PROVE CreditInv
  OBVIOUS
<1>1. DOMAIN current_weights = {}
  BY DEF Init
<1>2. Owed \in [Backends -> Int] /\ \A b \in Backends : Owed[b] <= 0
  BY <1>1 DEF Owed
<1>3. ASSUME NEW S \in SUBSET Backends
      PROVE  Part(Owed, S) <= Cap(Cardinality(S), Round)
  <2>1. IsFiniteSet(Backends) /\ Cardinality(S) \in 0..N
    BY SizeOfPart
  <2>2. Part(Owed, S) <= Cardinality(S) * 0 /\ Part(Owed, S) \in Int
    BY <1>2, <2>1, PartAtMost, PartIsNumber
  <2>3. Cap(Cardinality(S), Round) \in Nat
    BY <2>1, RoundType
  <2>4. Cardinality(S) * 0 = 0
    BY <2>1
  <2> QED
    BY <2>2, <2>3, <2>4
<1> QED
  BY <1>1, <1>3 DEF CreditInv

\* A call that selects nobody, or one that does.
LEMMA CreditStep ==
  ASSUME WeightsNotNegative, MaxWeight \in Nat, TypeOK, CreditInv,
         NEW backends \in Lists, SelectBackend(backends)
  PROVE  CreditInv'
<1> DEFINE top == Leader(Gained(backends))
           all == TotalWeight(backends)
           gain == [b \in Backends |-> IF b \in backends THEN weight[b] ELSE 0]
           sum(b) == CurrentWeight(b) + weight[b]
           gained == [b \in Backends |-> IF b \in backends /\ sum(b) > 0 THEN sum(b) ELSE 0]
           after == Owed'
<1>1. backends \in SUBSET Backends /\ IsFiniteSet(Backends)
  BY SizeOfPart DEF Lists
<1>2. /\ current_weights' \in [backends -> Int]
      /\ \A b \in backends : /\ Gained(backends)[b] = sum(b)
                             /\ sum(b) \in Int /\ weight[b] \in Int /\ CurrentWeight(b) \in Int
                             /\ current_weights'[b] = sum(b) - (IF b = top THEN all ELSE 0)
  BY AdjustType, GainedType, TotalWeightType, <1>1 DEF SelectBackend
<1>3. /\ all \in Nat /\ all <= Round
      /\ gain \in [Backends -> Int]
      /\ \A S \in SUBSET Backends : Part(gain, S) <= all
  BY ListWithinRound
<1>4. Round \in Nat
  BY RoundType
<1>5. /\ top \in backends <=> top # None
      /\ top \in backends => /\ sum(top) >= 0
                             /\ \A b \in backends : sum(b) <= sum(top)
  BY <1>2, SelectedIn
<1>6. after = [b \in Backends |-> IF b \in backends /\ current_weights'[b] > 0
                                  THEN current_weights'[b] ELSE 0]
  BY <1>2 DEF Owed
<1>7. after \in [Backends -> Int]
  BY <1>2, <1>6
<1>8. \A b \in backends : weight[b] >= 0
  BY <1>1 DEF WeightsNotNegative, TypeOK, Weights
<1>9. top \notin backends => \A b \in backends : sum(b) < 0
  BY <1>2, <1>5, NobodyOwed
<1>10. \A b \in backends : -Round <= CurrentWeight(b)
  <2>1. \A b \in DOMAIN current_weights : -Round <= current_weights[b]
    BY DEF CreditInv
  <2> QED
    BY <1>4, <2>1 DEF CurrentWeight
<1> HIDE DEF top, all, gain
<1>11. ASSUME NEW b \in backends
       PROVE  -Round <= current_weights'[b]
  <2>1. /\ CurrentWeight(b) \in Int /\ weight[b] \in Int
        /\ current_weights'[b] = sum(b) - (IF b = top THEN all ELSE 0)
    BY <1>2
  <2>2. b = top => CurrentWeight(b) + weight[b] >= 0
    BY <1>5
  <2> QED
    BY <1>3, <1>4, <1>8, <1>10, <2>1, <2>2
<1>12. ASSUME NEW S \in SUBSET Backends, top \in backends
       PROVE  Part(after, S) <= Cap(Cardinality(S), Round)
  <2>1. /\ Owed \in [Backends -> Int]
        /\ \A b \in Backends : Owed[b] >= 0 /\ CurrentWeight(b) <= Owed[b]
    BY OwedType
  <2>2. gained \in [Backends -> Int]
    BY <1>2
  <2>3. ASSUME NEW b \in Backends
        PROVE  gained[b] <= Owed[b] + gain[b]
    <3>1. Owed[b] \in Int /\ Owed[b] >= 0 /\ CurrentWeight(b) <= Owed[b]
      BY <2>1
    <3>2. CASE b \in backends
      <4>1. gain[b] = weight[b] /\ CurrentWeight(b) \in Int /\ weight[b] \in Int
        BY <1>2, <3>2 DEF gain
      <4>2. gained[b] = IF sum(b) > 0 THEN sum(b) ELSE 0
        BY <3>2
      <4>3. weight[b] >= 0
        BY <1>8, <3>2
      <4> HIDE DEF gained
      <4> QED
        BY <3>1, <4>1, <4>2, <4>3
    <3>3. CASE b \notin backends
      <4>1. gain[b] = 0 /\ gained[b] = 0
        BY <3>3 DEF gain
      <4> HIDE DEF gained
      <4> QED
        BY <3>1, <4>1
    <3> QED
      BY <3>2, <3>3
  <2>4. \A b \in Backends : gained[b] <= gained[top]
    BY <1>1, <1>2, <1>5, <1>12
  <2>5. \A b \in Backends \ {top} : after[b] <= gained[b]
    <3> SUFFICES ASSUME NEW b \in Backends \ {top} PROVE after[b] <= gained[b]
      OBVIOUS
    <3>1. CASE b \in backends
      <4>1. current_weights'[b] = sum(b) /\ sum(b) \in Int
        BY <1>2, <3>1
      <4> QED
        BY <1>6, <3>1, <4>1
    <3>2. CASE b \notin backends
      BY <1>6, <3>2
    <3> QED
      BY <3>1, <3>2
  <2>6. after[top] = IF gained[top] > all THEN gained[top] - all ELSE 0
    <3>1. /\ current_weights'[top] = sum(top) - all
          /\ sum(top) \in Int /\ sum(top) >= 0
      BY <1>2, <1>5, <1>12
    <3>2. after[top] = IF sum(top) - all > 0 THEN sum(top) - all ELSE 0
      BY <1>1, <1>6, <1>12, <3>1
    <3>3. gained[top] = sum(top)
      BY <1>1, <1>12, <3>1
    <3> HIDE DEF gained, after, sum
    <3> QED
      BY <1>3, <3>1, <3>2, <3>3
  <2>7. top \in Backends
    BY <1>1, <1>12
  <2> HIDE DEF gained, after
  <2>8. Levelled(Owed, gain, gained, after, top, all)
    BY <1>3, <1>7, <2>1, <2>2, <2>3, <2>4, <2>5, <2>6, <2>7 DEF Levelled
  <2>9. \A s \in SUBSET Backends : Part(Owed, s) <= Cap(Cardinality(s), Round)
    BY DEF CreditInv
  <2> QED
    BY <1>3, <1>4, <2>8, <2>9, LevelledStaysBelow
<1>13. ASSUME NEW S \in SUBSET Backends, top \notin backends
       PROVE  Part(after, S) <= Cap(Cardinality(S), Round)
  <2>1. \A b \in S : after[b] <= 0
    <3>1. \A b \in backends : current_weights'[b] = sum(b) /\ sum(b) \in Int /\ sum(b) < 0
      BY <1>2, <1>9, <1>13
    <3> QED
      BY <1>6, <3>1
  <2> HIDE DEF after
  <2>2. Cardinality(S) \in 0..N
    BY SizeOfPart
  <2>3. Part(after, S) <= Cardinality(S) * 0 /\ Part(after, S) \in Int
    BY <1>1, <1>7, <2>1, PartAtMost, PartIsNumber
  <2>4. Cap(Cardinality(S), Round) \in Nat
    BY <2>2, RoundType
  <2>5. Cardinality(S) * 0 = 0
    BY <2>2
  <2> QED
    BY <2>3, <2>4, <2>5
<1>14. /\ DOMAIN current_weights' = backends
       /\ Round' = Round
       /\ \A S \in SUBSET Backends : Part(Owed', S) <= Cap(Cardinality(S), Round)
  BY <1>2, <1>12, <1>13 DEF Round
<1> QED
  BY <1>11, <1>14 DEF CreditInv

LEMMA CreditNext ==
  ASSUME WeightsNotNegative, MaxWeight \in Nat, TypeOK, CreditInv, [Next]_vars
  PROVE  CreditInv'
<1>1. ASSUME NEW backends \in Lists, SelectBackend(backends)
      PROVE  CreditInv'
  BY <1>1, CreditStep
<1>2. CASE current_weights' = current_weights
  <2>1. Owed' = Owed
    BY <1>2 DEF Owed
  <2> QED
    BY <1>2, <2>1 DEF CreditInv
<1> QED
  BY <1>1, <1>2 DEF Next, Select, UpdateWeight, vars

\* The cap of a single backend.
LEMMA CreditOfOne ==
  ASSUME MaxWeight \in Nat, TypeOK, CreditInv
  PROVE  CreditIsBounded
<1> SUFFICES ASSUME NEW b \in DOMAIN current_weights
             PROVE  -Round <= current_weights[b] /\ current_weights[b] <= N * Round
  BY DEF CreditIsBounded, Round
<1>1. b \in Backends /\ current_weights[b] \in Int
  BY DEF TypeOK, Lists
<1>2. {b} \in SUBSET Backends /\ {b} \ {b} = {} /\ IsFiniteSet(Backends) /\ N \in Nat
  BY <1>1, SizeOfPart
<1>3. Owed \in [Backends -> Int] /\ current_weights[b] <= Owed[b]
  BY <1>1, OwedType DEF CurrentWeight
<1>4. Part(Owed, {b}) = Owed[b] + Part(Owed, {b} \ {b})
  BY <1>2, <1>3, PartWithout
<1>5. Part(Owed, {b} \ {b}) = 0
  BY <1>2, PartEmpty
<1>6. Cardinality({b}) = 1
  BY FS_Singleton
<1>7. Part(Owed, {b}) <= Cap(1, Round)
  BY <1>2, <1>6 DEF CreditInv
<1>8. Cap(1, Round) = N * Round /\ N * Round \in Int
  <2>1. Round \in Nat /\ N - 1 + 1 = N
    BY <1>2, RoundType
  <2>2. N * Round \in Nat /\ 1 * (N * Round) = N * Round
    BY <1>2, <2>1
  <2> QED
    BY <2>1, <2>2 DEF Cap
<1>9. -Round <= current_weights[b]
  BY DEF CreditInv
<1>10. Owed[b] \in Int
  BY <1>1, <1>3
<1> QED
  BY <1>1, <1>3, <1>4, <1>5, <1>7, <1>8, <1>9, <1>10

\* Whatever lists the requests bring and however the weights change, a current weight
\* stays between a round below 0 and N rounds above.
THEOREM CreditStaysBounded ==
  ASSUME WeightsNotNegative, MaxWeight \in Nat
  PROVE  Spec => []CreditIsBounded
<1>1. LowestIsPatched
  BY DEF WeightsNotNegative, LowestIsPatched
<1>2. Init => TypeOK /\ CreditInv
  BY TypeInit, CreditInit
<1>3. TypeOK /\ CreditInv /\ [Next]_vars => (TypeOK /\ CreditInv)'
  BY <1>1, TypeNext, CreditNext
<1>4. TypeOK /\ CreditInv => CreditIsBounded
  BY CreditOfOne
<1> QED
  BY <1>2, <1>3, <1>4, PTL DEF Spec
=============================================================================
