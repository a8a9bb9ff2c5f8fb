--------------------------- MODULE SelectionLemmas ---------------------------
(***************************************************************************)
(* What the proofs about the strategies need of numbers and of sums: that  *)
(* a least and a largest choice exist, and what Total of                   *)
(* WeightedRoundRobin, a fold, comes to.                                   *)
(*                                                                         *)
(* The inductions are by the least counterexample, an element of a set of  *)
(* natural numbers.                                                        *)
(***************************************************************************)
EXTENDS Integers, FiniteSetTheorems, TLAPS

-----------------------------------------------------------------------------
(* Least and largest.                                                      *)

LEMMA LeastElement ==
  ASSUME NEW T \in SUBSET Nat, T # {}
  PROVE  \E n \in T : \A m \in T : n <= m
<1> DEFINE R == OpToRel(<, Nat)
<1>1. IsWellFoundedOn(R, Nat)
  BY NatLessThanWellFounded, Zenon
<1>2. \A x, y \in Nat : <<x, y>> \in R <=> x < y
  BY DEF OpToRel
<1> HIDE DEF R
<1>3. PICK n \in T : \A m \in T : ~(<<m, n>> \in R)
  BY <1>1, WFMin
<1>4. n \in Nat /\ \A m \in T : m \in Nat /\ ~(m < n)
  BY <1>2, <1>3
<1> QED
  BY <1>4

\* The smallest of a set that is not empty, as the strategies choose it.
LEMMA SmallestChosen ==
  ASSUME NEW T \in SUBSET Nat, T # {}
  PROVE  LET s == CHOOSE n \in T : \A m \in T : n <= m
         IN  s \in T /\ \A m \in T : s <= m
BY LeastElement

LEMMA SmallestKey ==
  ASSUME NEW S, S # {}, NEW key, \A b \in S : key[b] \in Nat
  PROVE  \E b \in S : \A c \in S : key[b] <= key[c]
<1> DEFINE T == {key[b] : b \in S}
<1>1. T \in SUBSET Nat /\ T # {}
  OBVIOUS
<1>2. PICK n \in T : \A m \in T : n <= m
  BY <1>1, LeastElement
<1> QED
  BY <1>2

\* The first backend by one key, and by another among those equal in it.
LEMMA SmallestPair ==
  ASSUME NEW S, S # {}, NEW key, NEW second,
         \A b \in S : key[b] \in Nat /\ second[b] \in Nat
  PROVE  \E b \in S : \A c \in S :
           key[b] < key[c] \/ (key[b] = key[c] /\ second[b] <= second[c])
<1>1. PICK least \in S : \A c \in S : key[least] <= key[c]
  BY SmallestKey
<1> DEFINE ties == {b \in S : key[b] = key[least]}
<1>2. PICK b \in ties : \A c \in ties : second[b] <= second[c]
  <2>1. ties # {} /\ \A c \in ties : second[c] \in Nat
    BY <1>1
  <2> HIDE DEF ties
  <2> QED
    BY <2>1, SmallestKey
<1>3. b \in S /\ key[b] = key[least]
  BY <1>2
<1>4. ASSUME NEW c \in S
      PROVE  key[b] < key[c] \/ (key[b] = key[c] /\ second[b] <= second[c])
  <2>1. key[b] <= key[c] /\ key[b] \in Nat /\ key[c] \in Nat
    BY <1>1, <1>3
  <2>2. key[b] = key[c] => c \in ties
    BY <1>3
  <2> HIDE DEF ties
  <2> QED
    BY <1>2, <2>1, <2>2
<1> QED
  BY <1>3, <1>4

-----------------------------------------------------------------------------
(* Sums.                                                                   *)

\* The recursion in FoldFunction, for a sum: one turn, and the function of the
\* subsets of the domain that it defines.
Picked(s) == CHOOSE x \in s : TRUE

SumStep(f, g, s) ==
  IF s = {} THEN 0 ELSE f[Picked(s)] + g[s \ {Picked(s)}]

Partial(f) == CHOOSE g : g = [s \in SUBSET DOMAIN f |-> SumStep(f, g, s)]

Sum(f) == FoldFunction(LAMBDA x, y : x + y, 0, f)

LEMMA SumUnfolded ==
  ASSUME NEW f
  PROVE  Sum(f) = Partial(f)[DOMAIN f]
BY DEF Sum, FoldFunction, FoldFunctionOnSet, MapThenFoldSet, Partial, SumStep, Picked

\* The subsets of up to k elements, and the recursion carried so far.
Small(S, k) == {s \in SUBSET S : Cardinality(s) <= k}

SumsTo(f, S, k) ==
  \E g \in [Small(S, k) -> Int] : \A s \in Small(S, k) : g[s] = SumStep(f, g, s)

LEMMA SmallSubsets ==
  ASSUME NEW S, IsFiniteSet(S), NEW s \in SUBSET S
  PROVE  /\ IsFiniteSet(s)
         /\ Cardinality(s) \in Nat
         /\ Cardinality(s) <= Cardinality(S)
         /\ s = {} <=> Cardinality(s) = 0
         /\ s # {} => /\ Picked(s) \in s
                      /\ s \ {Picked(s)} \in SUBSET S
                      /\ Cardinality(s \ {Picked(s)}) = Cardinality(s) - 1
<1>1. IsFiniteSet(s) /\ Cardinality(s) <= Cardinality(S)
  BY FS_Subset
<1>2. Cardinality(s) \in Nat /\ (s = {} <=> Cardinality(s) = 0)
  BY <1>1, FS_CardinalityType, FS_EmptySet
<1>3. s # {} => Picked(s) \in s
  BY DEF Picked
<1> QED
  BY <1>1, <1>2, <1>3, FS_RemoveElement

\* One more element: from the subsets of up to k elements to those of k + 1.
LEMMA OneLarger ==
  ASSUME NEW S, IsFiniteSet(S), NEW f, \A x \in S : f[x] \in Int,
         NEW k \in Nat, SumsTo(f, S, k)
  PROVE  SumsTo(f, S, k + 1)
<1>1. PICK g \in [Small(S, k) -> Int] : \A s \in Small(S, k) : g[s] = SumStep(f, g, s)
  BY DEF SumsTo
<1> DEFINE h == [s \in Small(S, k + 1) |->
                   IF s \in Small(S, k) THEN g[s] ELSE SumStep(f, g, s)]
<1>2. ASSUME NEW s \in Small(S, k + 1), s # {}
      PROVE  /\ Picked(s) \in s
             /\ s \ {Picked(s)} \in Small(S, k)
             /\ f[Picked(s)] \in Int
  <2>1. s \in SUBSET S /\ Cardinality(s) <= k + 1
    BY DEF Small
  <2> QED
    BY <1>2, <2>1, SmallSubsets DEF Small
<1>3. Small(S, k) \subseteq Small(S, k + 1)
  <2> SUFFICES ASSUME NEW s \in Small(S, k) PROVE s \in Small(S, k + 1)
    OBVIOUS
  <2>1. s \in SUBSET S /\ Cardinality(s) <= k
    BY DEF Small
  <2>2. Cardinality(s) \in Nat
    BY <2>1, SmallSubsets
  <2>3. Cardinality(s) <= k + 1
    BY <2>1, <2>2
  <2> QED
    BY <2>1, <2>3 DEF Small
<1>4. ASSUME NEW s \in Small(S, k + 1)
      PROVE  SumStep(f, g, s) \in Int /\ SumStep(f, h, s) = SumStep(f, g, s)
  <2>1. CASE s = {}
    BY <2>1 DEF SumStep
  <2>2. CASE s # {}
    <3> DEFINE x == Picked(s)
    <3>1. s \ {x} \in Small(S, k) /\ f[x] \in Int
      BY <1>2, <2>2
    <3>2. h[s \ {x}] = g[s \ {x}] /\ g[s \ {x}] \in Int
      BY <1>1, <1>3, <3>1
    <3> HIDE DEF h
    <3> QED
      BY <2>2, <3>1, <3>2 DEF SumStep
  <2> QED
    BY <2>1, <2>2
<1>5. h \in [Small(S, k + 1) -> Int]
  BY <1>1, <1>4
<1>6. \A s \in Small(S, k + 1) : h[s] = SumStep(f, h, s)
  <2>1. \A s \in Small(S, k + 1) : h[s] = SumStep(f, g, s)
    BY <1>1, <1>3
  <2> HIDE DEF h
  <2> QED
    BY <1>4, <2>1
<1> HIDE DEF h
<1> QED
  BY <1>5, <1>6 DEF SumsTo

LEMMA EverySize ==
  ASSUME NEW S, IsFiniteSet(S), NEW f, \A x \in S : f[x] \in Int
  PROVE  \A k \in Nat : SumsTo(f, S, k)
<1> DEFINE missing == {k \in Nat : ~SumsTo(f, S, k)}
<1> SUFFICES ASSUME missing # {} PROVE FALSE
  OBVIOUS
<1>1. PICK k \in missing : \A m \in missing : k <= m
  BY LeastElement
<1>2. k \in Nat /\ ~SumsTo(f, S, k)
  OBVIOUS
<1>3. SumsTo(f, S, 0)
  <2> DEFINE g == [s \in Small(S, 0) |-> 0]
  <2>1. ASSUME NEW s \in Small(S, 0) PROVE s = {}
    <3>1. s \in SUBSET S /\ Cardinality(s) <= 0
      BY <2>1 DEF Small
    <3>2. Cardinality(s) \in Nat /\ (s = {} <=> Cardinality(s) = 0)
      BY <3>1, SmallSubsets
    <3> QED
      BY <3>1, <3>2
  <2>2. \A s \in Small(S, 0) : g[s] = SumStep(f, g, s)
    BY <2>1 DEF SumStep
  <2>3. g \in [Small(S, 0) -> Int]
    OBVIOUS
  <2> HIDE DEF g
  <2> QED
    BY <2>2, <2>3 DEF SumsTo
<1>4. k # 0
  BY <1>2, <1>3
<1>5. k - 1 \in Nat /\ k - 1 \notin missing /\ (k - 1) + 1 = k
  BY <1>1, <1>2, <1>4
<1>6. SumsTo(f, S, k - 1)
  BY <1>5
<1>7. SumsTo(f, S, (k - 1) + 1)
  BY <1>5, <1>6, OneLarger
<1> QED
  BY <1>2, <1>5, <1>7

\* The recursion defines the sum over every subset.
LEMMA PartialSums ==
  ASSUME NEW S, IsFiniteSet(S), NEW f \in [S -> Int]
  PROVE  /\ Partial(f) \in [SUBSET S -> Int]
         /\ \A s \in SUBSET S : Partial(f)[s] = SumStep(f, Partial(f), s)
<1>1. Small(S, Cardinality(S)) = SUBSET S
  BY SmallSubsets DEF Small
<1>2. SumsTo(f, S, Cardinality(S))
  BY EverySize, FS_CardinalityType
<1>3. PICK g \in [SUBSET S -> Int] : \A s \in SUBSET S : g[s] = SumStep(f, g, s)
  BY <1>1, <1>2 DEF SumsTo
<1>4. g = [s \in SUBSET DOMAIN f |-> SumStep(f, g, s)]
  BY <1>3
<1>5. Partial(f) = [s \in SUBSET DOMAIN f |-> SumStep(f, Partial(f), s)]
  BY <1>4 DEF Partial
<1>6. \A s \in SUBSET S : Partial(f)[s] = SumStep(f, Partial(f), s)
  BY <1>5
<1> DEFINE wrong == {k \in Nat : \E s \in Small(S, k) : Partial(f)[s] \notin Int}
<1>7. wrong = {}
  <2> SUFFICES ASSUME wrong # {} PROVE FALSE
    OBVIOUS
  <2>1. PICK k \in wrong : \A m \in wrong : k <= m
    BY LeastElement
  <2>2. PICK s \in Small(S, k) : Partial(f)[s] \notin Int
    BY <2>1
  <2>3. s \in SUBSET S /\ Cardinality(s) <= k /\ k \in Nat
    BY <2>1 DEF Small
  <2>4. s # {}
    <3>1. Partial(f)[s] = SumStep(f, Partial(f), s)
      BY <1>6, <2>3
    <3>2. s = {} => SumStep(f, Partial(f), s) = 0
      BY DEF SumStep
    <3> QED
      BY <2>2, <3>1, <3>2
  <2> DEFINE x == Picked(s)
  <2>5. /\ x \in S /\ s \ {x} \in SUBSET S
        /\ Cardinality(s \ {x}) <= k - 1 /\ k - 1 \in Nat
    <3>1. /\ x \in s /\ s \ {x} \in SUBSET S
          /\ Cardinality(s \ {x}) = Cardinality(s) - 1
          /\ Cardinality(s) \in Nat \ {0}
      BY <2>3, <2>4, SmallSubsets
    <3> QED
      BY <2>3, <3>1
  <2>6. k - 1 \notin wrong
    BY <2>1, <2>3, <2>5
  <2>7. Partial(f)[s \ {x}] \in Int
    BY <2>5, <2>6 DEF Small
  <2> HIDE DEF wrong
  <2>8. Partial(f)[s] = f[x] + Partial(f)[s \ {x}]
    BY <1>6, <2>3, <2>4 DEF SumStep
  <2> QED
    BY <2>2, <2>5, <2>7, <2>8
<1>8. \A s \in SUBSET S : Partial(f)[s] \in Int
  <2> SUFFICES ASSUME NEW s \in SUBSET S PROVE Partial(f)[s] \in Int
    OBVIOUS
  <2>1. Cardinality(s) \in Nat /\ s \in Small(S, Cardinality(s))
    BY SmallSubsets DEF Small
  <2> QED
    BY <1>7, <2>1
<1> QED
  BY <1>5, <1>6, <1>8


\* Induction over the subsets: the smallest set that is bad would be one element,
\* the one that the recursion takes out, larger than a set that is not.
LEMMA NoSetIsBad ==
  ASSUME NEW S, IsFiniteSet(S), NEW bad \in SUBSET (SUBSET S), {} \notin bad,
         \A s \in SUBSET S : s # {} /\ s \ {Picked(s)} \notin bad => s \notin bad
  PROVE  \A s \in SUBSET S : s \notin bad
<1> DEFINE sizes == {Cardinality(s) : s \in bad}
<1> SUFFICES ASSUME bad # {} PROVE FALSE
  OBVIOUS
<1>1. sizes \in SUBSET Nat /\ sizes # {}
  <2>1. \A s \in bad : Cardinality(s) \in Nat
    BY SmallSubsets
  <2> QED
    BY <2>1
<1>2. PICK k \in sizes : \A m \in sizes : k <= m
  BY <1>1, LeastElement
<1>3. PICK s \in bad : Cardinality(s) = k
  BY <1>2
<1> DEFINE x == Picked(s)
<1>4. /\ s \in SUBSET S /\ s # {}
      /\ s \ {x} \in bad
  BY <1>3
<1>5. Cardinality(s \ {x}) = Cardinality(s) - 1 /\ Cardinality(s) \in Nat
  BY <1>4, SmallSubsets
<1>6. Cardinality(s \ {x}) \in sizes
  BY <1>4
<1> HIDE DEF sizes, x
<1> QED
  BY <1>2, <1>3, <1>5, <1>6

\* F is the sum of f over every subset of S.
SumsUp(F, f, S) ==
  /\ F \in [SUBSET S -> Int]
  /\ F[{}] = 0
  /\ \A s \in SUBSET S : s # {} =>
       /\ Picked(s) \in s /\ Picked(s) \in S
       /\ s \ {Picked(s)} \in SUBSET S
       /\ F[s] = f[Picked(s)] + F[s \ {Picked(s)}]

LEMMA SumOnce ==
  ASSUME NEW S, IsFiniteSet(S), NEW f \in [S -> Int]
  PROVE  Sum(f) = Partial(f)[S] /\ SumsUp(Partial(f), f, S)
<1>1. /\ Partial(f) \in [SUBSET S -> Int]
      /\ \A s \in SUBSET S : Partial(f)[s] = SumStep(f, Partial(f), s)
  BY PartialSums
<1>2. Sum(f) = Partial(f)[S]
  BY SumUnfolded
<1>3. {} \in SUBSET S
  OBVIOUS
<1>4. Partial(f)[{}] = 0
  BY <1>1, <1>3 DEF SumStep
<1>5. ASSUME NEW s \in SUBSET S, s # {}
      PROVE  /\ Picked(s) \in s /\ Picked(s) \in S
             /\ s \ {Picked(s)} \in SUBSET S
             /\ Partial(f)[s] = f[Picked(s)] + Partial(f)[s \ {Picked(s)}]
  <2>1. Picked(s) \in s
    BY <1>5 DEF Picked
  <2>2. Partial(f)[s] = SumStep(f, Partial(f), s)
    BY <1>1
  <2> QED
    BY <1>5, <2>1, <2>2 DEF SumStep
<1> QED
  BY <1>1, <1>2, <1>4, <1>5 DEF SumsUp

LEMMA SumIsNumber ==
  ASSUME NEW S, IsFiniteSet(S), NEW f \in [S -> Int]
  PROVE  Sum(f) \in Int
<1>1. Sum(f) = Partial(f)[S] /\ SumsUp(Partial(f), f, S)
  BY SumOnce
<1> QED
  BY <1>1 DEF SumsUp

\* Sums add up.
LEMMA SumAdds ==
  ASSUME NEW S, IsFiniteSet(S), NEW f \in [S -> Int], NEW g \in [S -> Int],
         NEW h \in [S -> Int], \A x \in S : h[x] = f[x] + g[x]
  PROVE  Sum(h) = Sum(f) + Sum(g)
<1> DEFINE F == Partial(f)
           G == Partial(g)
           H == Partial(h)
           bad == {s \in SUBSET S : H[s] # F[s] + G[s]}
<1>1. SumsUp(F, f, S)
  BY SumOnce
<1>2. SumsUp(G, g, S)
  BY SumOnce
<1>3. SumsUp(H, h, S)
  BY SumOnce
<1>4. ASSUME NEW s \in SUBSET S, s # {}, s \ {Picked(s)} \notin bad
      PROVE  s \notin bad
  <2> DEFINE x == Picked(s)
             rest == s \ {x}
  <2>1. /\ x \in S /\ rest \in SUBSET S
        /\ F[s] = f[x] + F[rest] /\ G[s] = g[x] + G[rest] /\ H[s] = h[x] + H[rest]
    BY <1>1, <1>2, <1>3, <1>4 DEF SumsUp
  <2>2. H[rest] = F[rest] + G[rest]
    BY <1>4, <2>1
  <2> HIDE DEF F, G, H, x, rest
  <2>3. H[s] = F[s] + G[s]
    <3>1. f[x] \in Int /\ g[x] \in Int /\ h[x] = f[x] + g[x]
      BY <2>1
    <3>2. F[rest] \in Int /\ G[rest] \in Int
      BY <1>1, <1>2, <2>1 DEF SumsUp
    <3> QED
      BY <2>1, <2>2, <3>1, <3>2
  <2> QED
    BY <2>3
<1>5. bad \in SUBSET (SUBSET S) /\ {} \notin bad
  BY <1>1, <1>2, <1>3 DEF SumsUp
<1>6. S \notin bad
  <2> HIDE DEF bad
  <2> QED
    BY <1>4, <1>5, NoSetIsBad
<1>7. H[S] = F[S] + G[S]
  BY <1>6
<1>8. Sum(h) = H[S] /\ Sum(f) = F[S] /\ Sum(g) = G[S]
  BY SumOnce
<1> QED
  BY <1>7, <1>8

\* A sum of numbers that are not larger is not larger.
LEMMA SumOrder ==
  ASSUME NEW S, IsFiniteSet(S), NEW f \in [S -> Int], NEW g \in [S -> Int],
         \A x \in S : f[x] <= g[x]
  PROVE  Sum(f) <= Sum(g)
<1> DEFINE F == Partial(f)
           G == Partial(g)
           bad == {s \in SUBSET S : ~(F[s] <= G[s])}
<1>1. SumsUp(F, f, S)
  BY SumOnce
<1>2. SumsUp(G, g, S)
  BY SumOnce
<1>3. ASSUME NEW s \in SUBSET S, s # {}, s \ {Picked(s)} \notin bad
      PROVE  s \notin bad
  <2> DEFINE x == Picked(s)
             rest == s \ {x}
  <2>1. /\ x \in S /\ rest \in SUBSET S
        /\ F[s] = f[x] + F[rest] /\ G[s] = g[x] + G[rest]
    BY <1>1, <1>2, <1>3 DEF SumsUp
  <2>2. F[rest] <= G[rest]
    BY <1>3, <2>1
  <2> HIDE DEF F, G, x, rest
  <2>3. F[s] <= G[s]
    <3>1. f[x] \in Int /\ g[x] \in Int /\ f[x] <= g[x]
      BY <2>1
    <3>2. F[rest] \in Int /\ G[rest] \in Int
      BY <1>1, <1>2, <2>1 DEF SumsUp
    <3> QED
      BY <2>1, <2>2, <3>1, <3>2
  <2> QED
    BY <2>3
<1>4. bad \in SUBSET (SUBSET S) /\ {} \notin bad
  BY <1>1, <1>2 DEF SumsUp
<1>5. S \notin bad
  <2> HIDE DEF bad
  <2> QED
    BY <1>3, <1>4, NoSetIsBad
<1>6. F[S] <= G[S]
  BY <1>5
<1>7. Sum(f) = F[S] /\ Sum(g) = G[S]
  BY SumOnce
<1> QED
  BY <1>6, <1>7

\* One value that changes changes the sum by as much.
LEMMA SumUpdate ==
  ASSUME NEW S, IsFiniteSet(S), NEW f \in [S -> Int], NEW g \in [S -> Int],
         NEW x \in S, \A y \in S \ {x} : g[y] = f[y]
  PROVE  Sum(g) = Sum(f) + g[x] - f[x]
<1> DEFINE F == Partial(f)
           G == Partial(g)
           Change(s) == IF x \in s THEN g[x] - f[x] ELSE 0
           bad == {s \in SUBSET S : G[s] # F[s] + Change(s)}
<1>1. SumsUp(F, f, S)
  BY SumOnce
<1>2. SumsUp(G, g, S)
  BY SumOnce
<1>3. ASSUME NEW s \in SUBSET S, s # {}, s \ {Picked(s)} \notin bad
      PROVE  s \notin bad
  <2> DEFINE z == Picked(s)
             rest == s \ {z}
  <2>1. /\ z \in s /\ z \in S /\ rest \in SUBSET S
        /\ F[s] = f[z] + F[rest] /\ G[s] = g[z] + G[rest]
    BY <1>1, <1>2, <1>3 DEF SumsUp
  <2>2. G[rest] = F[rest] + Change(rest)
    BY <1>3, <2>1
  <2>3. g[z] + Change(rest) = f[z] + Change(s)
    <3>1. z = x => x \notin rest /\ x \in s
      BY <2>1
    <3>2. z # x => (x \in rest <=> x \in s) /\ g[z] = f[z]
      BY <2>1
    <3>3. f[z] \in Int /\ g[z] \in Int /\ f[x] \in Int /\ g[x] \in Int
      BY <2>1
    <3> HIDE DEF z, rest
    <3> QED
      BY <3>1, <3>2, <3>3
  <2>4. /\ F[rest] \in Int /\ f[z] \in Int /\ g[z] \in Int
        /\ Change(rest) \in Int /\ Change(s) \in Int
    BY <1>1, <1>2, <2>1 DEF SumsUp
  <2>5. G[s] = F[s] + Change(s)
    <3> HIDE DEF F, G, Change, z, rest
    <3> QED
      BY <2>1, <2>2, <2>3, <2>4
  <2> QED
    BY <2>5
<1>4. bad \in SUBSET (SUBSET S) /\ {} \notin bad
  BY <1>1, <1>2 DEF SumsUp
<1>5. S \notin bad
  <2> HIDE DEF bad
  <2> QED
    BY <1>3, <1>4, NoSetIsBad
<1>6. G[S] = F[S] + g[x] - f[x] /\ F[S] \in Int
  BY <1>1, <1>5 DEF SumsUp
<1>7. Sum(f) = F[S] /\ Sum(g) = G[S]
  BY SumOnce
<1> QED
  BY <1>6, <1>7

LEMMA SumOfZeros ==
  ASSUME NEW S, IsFiniteSet(S), NEW f \in [S -> Int], \A x \in S : f[x] = 0
  PROVE  Sum(f) = 0
<1>1. \A x \in S : f[x] = f[x] + f[x]
  OBVIOUS
<1>2. Sum(f) = Sum(f) + Sum(f) /\ Sum(f) \in Int
  BY <1>1, SumAdds, SumIsNumber
<1>3. \A n \in Int : n = n + n => n = 0
  OBVIOUS
<1> QED
  BY <1>2, <1>3, Zenon

\* Sums that are equal are sums of equal numbers, if none of the first is larger.
LEMMA SumsEqual ==
  ASSUME NEW S, IsFiniteSet(S), NEW f \in [S -> Int], NEW g \in [S -> Int],
         \A x \in S : f[x] <= g[x], Sum(f) = Sum(g)
  PROVE  \A x \in S : f[x] = g[x]
<1> SUFFICES ASSUME NEW x \in S, f[x] < g[x] PROVE FALSE
  OBVIOUS
<1> DEFINE h == [f EXCEPT ![x] = g[x]]
<1>1. /\ h \in [S -> Int]
      /\ h[x] = g[x]
      /\ \A y \in S \ {x} : h[y] = f[y]
      /\ \A y \in S : h[y] <= g[y]
  OBVIOUS
<1> HIDE DEF h
<1>2. Sum(h) = Sum(f) + h[x] - f[x]
  BY <1>1, SumUpdate
<1>3. Sum(h) <= Sum(g)
  BY <1>1, SumOrder
<1>4. Sum(f) \in Int /\ f[x] \in Int /\ g[x] \in Int
  BY SumIsNumber
<1> QED
  BY <1>1, <1>2, <1>3, <1>4 DEF SumsUp


-----------------------------------------------------------------------------
(* Sums over parts of the domain.                                          *)

Part(f, s) == Sum([x \in s |-> f[x]])

\* A sum takes its elements in any order.
LEMMA AnyElementOut ==
  ASSUME NEW S, IsFiniteSet(S), NEW F, NEW f \in [S -> Int], SumsUp(F, f, S)
  PROVE  \A s \in SUBSET S : \A x \in s : F[s] = f[x] + F[s \ {x}]
<1> DEFINE wrong == {s \in SUBSET S : ~(\A x \in s : F[s] = f[x] + F[s \ {x}])}
           sizes == {Cardinality(s) : s \in wrong}
<1> SUFFICES ASSUME wrong # {} PROVE FALSE
  OBVIOUS
<1>1. sizes \in SUBSET Nat /\ sizes # {}
  <2>1. \A s \in wrong : Cardinality(s) \in Nat
    BY SmallSubsets
  <2> QED
    BY <2>1
<1>2. PICK k \in sizes : \A m \in sizes : k <= m
  BY <1>1, LeastElement
<1>3. PICK s \in wrong : Cardinality(s) = k
  BY <1>2
<1>4. ASSUME NEW y \in s
      PROVE  \A x \in s \ {y} : F[s \ {y}] = f[x] + F[(s \ {y}) \ {x}]
  <2>1. s \ {y} \in SUBSET S
    BY <1>3
  <2>2. Cardinality(s \ {y}) = Cardinality(s) - 1 /\ Cardinality(s) \in Nat
    <3>1. IsFiniteSet(s)
      BY <1>3, FS_Subset
    <3> QED
      BY <3>1, FS_RemoveElement, FS_CardinalityType
  <2>3. s \ {y} \in wrong => Cardinality(s \ {y}) \in sizes
    OBVIOUS
  <2>4. s \ {y} \notin wrong
    <3> HIDE DEF sizes, wrong
    <3> QED
      BY <1>2, <1>3, <2>2, <2>3
  <2> QED
    BY <2>1, <2>4
<1>5. PICK x \in s : F[s] # f[x] + F[s \ {x}]
  BY <1>3
<1>6. s \in SUBSET S /\ s # {}
  BY <1>3, <1>5
<1>7. PICK z \in s : z = Picked(s) /\ F[s] = f[z] + F[s \ {z}]
  BY <1>6 DEF SumsUp
<1>8. x # z
  BY <1>5, <1>7
<1>9. /\ F[s \ {z}] = f[x] + F[(s \ {z}) \ {x}]
      /\ F[s \ {x}] = f[z] + F[(s \ {x}) \ {z}]
  BY <1>4, <1>8
<1>10. (s \ {z}) \ {x} = (s \ {x}) \ {z} /\ (s \ {x}) \ {z} \in SUBSET S
  BY <1>6
<1>11. PICK rest \in Int : rest = F[(s \ {x}) \ {z}]
  BY <1>10 DEF SumsUp
<1>12. f[x] \in Int /\ f[z] \in Int
  BY <1>6
<1>13. F[s] = f[z] + (f[x] + rest) /\ F[s \ {x}] = f[z] + rest
  BY <1>7, <1>9, <1>10, <1>11
<1>14. F[s] = f[x] + F[s \ {x}]
  BY <1>12, <1>13
<1> QED
  BY <1>5, <1>14

\* One element is taken out of the domain.
LEMMA SumWithout ==
  ASSUME NEW S, IsFiniteSet(S), NEW f \in [S -> Int], NEW x \in S,
         NEW g \in [S \ {x} -> Int], \A y \in S \ {x} : g[y] = f[y]
  PROVE  Sum(f) = f[x] + Sum(g)
<1> DEFINE F == Partial(f)
           G == Partial(g)
           R == S \ {x}
           bad == {s \in SUBSET R : F[s] # G[s]}
<1>1. IsFiniteSet(R) /\ R \in SUBSET S
  BY FS_Subset
<1>2. Sum(f) = F[S] /\ SumsUp(F, f, S)
  BY SumOnce
<1>3. Sum(g) = G[R] /\ SumsUp(G, g, R)
  BY <1>1, SumOnce
<1>4. F[S] = f[x] + F[R]
  <2> HIDE DEF F
  <2> QED
    BY <1>2, AnyElementOut
<1> HIDE DEF F, G
<1>5. ASSUME NEW s \in SUBSET R, s # {}, s \ {Picked(s)} \notin bad
      PROVE  s \notin bad
  <2> DEFINE z == Picked(s)
  <2>1. z \in s /\ s \ {z} \in SUBSET R /\ G[s] = g[z] + G[s \ {z}]
    BY <1>3, <1>5 DEF SumsUp
  <2>2. F[s] = f[z] + F[s \ {z}]
    BY <1>2, <1>5 DEF SumsUp
  <2>3. F[s \ {z}] = G[s \ {z}] /\ f[z] = g[z]
    BY <1>5, <2>1
  <2> QED
    BY <2>1, <2>2, <2>3
<1>6. bad \in SUBSET (SUBSET R) /\ {} \notin bad
  BY <1>2, <1>3 DEF SumsUp
<1>7. R \notin bad
  <2> HIDE DEF bad, R
  <2> QED
    BY <1>1, <1>5, <1>6, NoSetIsBad
<1> QED
  BY <1>2, <1>3, <1>4, <1>7

LEMMA PartIsNumber ==
  ASSUME NEW U, IsFiniteSet(U), NEW f \in [U -> Int], NEW s \in SUBSET U
  PROVE  Part(f, s) \in Int
<1> DEFINE g == [x \in s |-> f[x]]
<1>1. IsFiniteSet(s) /\ g \in [s -> Int]
  BY FS_Subset
<1> HIDE DEF g
<1>2. Sum(g) \in Int
  BY <1>1, SumIsNumber
<1> QED
  BY <1>2 DEF Part, g

LEMMA PartEmpty ==
  ASSUME NEW f
  PROVE  Part(f, {}) = 0
<1> DEFINE g == [x \in {} |-> f[x]]
<1>1. IsFiniteSet({}) /\ g \in [{} -> Int] /\ \A x \in {} : g[x] = 0
  BY FS_EmptySet
<1> HIDE DEF g
<1>2. Sum(g) = 0
  BY <1>1, SumOfZeros
<1> QED
  BY <1>2 DEF Part, g

LEMMA PartWithout ==
  ASSUME NEW U, IsFiniteSet(U), NEW f \in [U -> Int], NEW s \in SUBSET U, NEW x \in s
  PROVE  Part(f, s) = f[x] + Part(f, s \ {x})
<1> DEFINE g == [y \in s |-> f[y]]
           h == [y \in s \ {x} |-> f[y]]
<1>1. IsFiniteSet(s)
  BY FS_Subset
<1>2. /\ g \in [s -> Int] /\ h \in [s \ {x} -> Int]
      /\ g[x] = f[x] /\ \A y \in s \ {x} : h[y] = g[y]
  OBVIOUS
<1> HIDE DEF g, h
<1>3. Sum(g) = f[x] + Sum(h)
  BY <1>1, <1>2, SumWithout
<1> QED
  BY <1>3 DEF Part, g, h

LEMMA PartWith ==
  ASSUME NEW U, IsFiniteSet(U), NEW f \in [U -> Int], NEW s \in SUBSET U, NEW x \in U \ s
  PROVE  Part(f, s \cup {x}) = Part(f, s) + f[x]
<1>1. s \cup {x} \in SUBSET U /\ x \in s \cup {x} /\ (s \cup {x}) \ {x} = s
  OBVIOUS
<1>2. Part(f, s \cup {x}) = f[x] + Part(f, s)
  BY <1>1, PartWithout
<1>3. Part(f, s) \in Int /\ f[x] \in Int
  BY PartIsNumber
<1> QED
  BY <1>2, <1>3

LEMMA PartOrder ==
  ASSUME NEW U, IsFiniteSet(U), NEW f \in [U -> Int], NEW g \in [U -> Int],
         NEW s \in SUBSET U, \A x \in s : f[x] <= g[x]
  PROVE  Part(f, s) <= Part(g, s)
<1> DEFINE f1 == [x \in s |-> f[x]]
           g1 == [x \in s |-> g[x]]
<1>1. IsFiniteSet(s)
  BY FS_Subset
<1>2. f1 \in [s -> Int] /\ g1 \in [s -> Int] /\ \A x \in s : f1[x] <= g1[x]
  OBVIOUS
<1> HIDE DEF f1, g1
<1>3. Sum(f1) <= Sum(g1)
  BY <1>1, <1>2, SumOrder
<1> QED
  BY <1>3 DEF Part, f1, g1

LEMMA PartAdds ==
  ASSUME NEW U, IsFiniteSet(U), NEW f \in [U -> Int], NEW g \in [U -> Int],
         NEW h \in [U -> Int], NEW s \in SUBSET U, \A x \in s : h[x] <= f[x] + g[x]
  PROVE  Part(h, s) <= Part(f, s) + Part(g, s)
<1> DEFINE f1 == [x \in s |-> f[x]]
           g1 == [x \in s |-> g[x]]
           h1 == [x \in s |-> h[x]]
           both == [x \in s |-> f[x] + g[x]]
<1>1. IsFiniteSet(s)
  BY FS_Subset
<1>2. /\ f1 \in [s -> Int] /\ g1 \in [s -> Int] /\ h1 \in [s -> Int]
      /\ both \in [s -> Int]
      /\ \A x \in s : both[x] = f1[x] + g1[x]
      /\ \A x \in s : h1[x] <= both[x]
  OBVIOUS
<1> HIDE DEF f1, g1, h1, both
<1>3. Sum(h1) <= Sum(both) /\ Sum(both) = Sum(f1) + Sum(g1)
  BY <1>1, <1>2, SumOrder, SumAdds
<1> QED
  BY <1>3 DEF Part, f1, g1, h1

\* A part of numbers up to m.
LEMMA PartAtMost ==
  ASSUME NEW U, IsFiniteSet(U), NEW f \in [U -> Int], NEW S \in SUBSET U,
         NEW m \in Int, \A x \in S : f[x] <= m
  PROVE  /\ Cardinality(S) \in Nat
         /\ Part(f, S) <= Cardinality(S) * m
<1> DEFINE bad == {s \in SUBSET S : ~(Part(f, s) <= Cardinality(s) * m)}
<1>1. IsFiniteSet(S)
  BY FS_Subset
<1>2. ASSUME NEW s \in SUBSET S, s # {}, s \ {Picked(s)} \notin bad
      PROVE  s \notin bad
  <2>1. PICK z \in s : z = Picked(s)
    BY <1>2 DEF Picked
  <2>2. Part(f, s) = f[z] + Part(f, s \ {z})
    BY PartWithout
  <2>3. Part(f, s \ {z}) <= Cardinality(s \ {z}) * m
    BY <1>2, <2>1
  <2>4. Cardinality(s \ {z}) = Cardinality(s) - 1 /\ Cardinality(s) \in Nat
    BY <1>1, <1>2, <2>1, SmallSubsets
  <2>5. PICK k \in Int, p \in Int :
          k = Cardinality(s) /\ p = Part(f, s \ {z})
    BY <2>4, PartIsNumber
  <2>6. f[z] \in Int /\ f[z] <= m /\ (k - 1) * m = k * m - m /\ k * m \in Int
    OBVIOUS
  <2>7. p <= (k - 1) * m
    BY <2>3, <2>4, <2>5
  <2>8. f[z] + p <= k * m
    BY <2>6, <2>7
  <2> QED
    BY <2>2, <2>5, <2>8
<1>3. bad \in SUBSET (SUBSET S) /\ {} \notin bad
  <2>1. Cardinality({}) = 0 /\ 0 * m = 0
    BY FS_EmptySet
  <2> QED
    BY <2>1, PartEmpty
<1>4. S \notin bad
  <2> HIDE DEF bad
  <2> QED
    BY <1>1, <1>2, <1>3, NoSetIsBad
<1> QED
  BY <1>1, <1>4, FS_CardinalityType

\* What is not negative, and 0 outside L, adds up to no more in S than in L.
LEMMA PartWithin ==
  ASSUME NEW U, IsFiniteSet(U), NEW f \in [U -> Int], \A x \in U : f[x] >= 0,
         NEW L \in SUBSET U, \A x \in U \ L : f[x] = 0, NEW S \in SUBSET U
  PROVE  Part(f, S) <= Part(f, L)
<1> DEFINE bad == {s \in SUBSET U : ~(Part(f, s \cap S) <= Part(f, s \cap L))}
<1>1. ASSUME NEW s \in SUBSET U, s # {}, s \ {Picked(s)} \notin bad
      PROVE  s \notin bad
  <2>1. PICK z \in s : z = Picked(s)
    BY <1>1 DEF Picked
  <2> DEFINE rest == s \ {z}
  <2>2. Part(f, rest \cap S) <= Part(f, rest \cap L)
    BY <1>1, <2>1
  <2>3. ASSUME NEW T \in SUBSET U
        PROVE  /\ Part(f, rest \cap T) \in Int
               /\ Part(f, s \cap T) =
                    Part(f, rest \cap T) + (IF z \in T THEN f[z] ELSE 0)
    <3>1. rest \cap T \in SUBSET U
      OBVIOUS
    <3>2. Part(f, rest \cap T) \in Int
      BY <3>1, PartIsNumber
    <3>3. CASE z \in T
      <4>1. s \cap T \in SUBSET U /\ z \in s \cap T /\ (s \cap T) \ {z} = rest \cap T
        BY <3>3
      <4>2. Part(f, s \cap T) = f[z] + Part(f, rest \cap T)
        BY <4>1, PartWithout
      <4>3. f[z] \in Int
        OBVIOUS
      <4> HIDE DEF rest
      <4> QED
        BY <3>2, <3>3, <4>2, <4>3
    <3>4. CASE z \notin T
      <4>1. s \cap T = rest \cap T
        BY <3>4
      <4> HIDE DEF rest
      <4>2. Part(f, s \cap T) = Part(f, rest \cap T)
        BY <4>1, Zenon
      <4>3. PICK p \in Int : p = Part(f, rest \cap T)
        BY <3>2
      <4> QED
        BY <3>4, <4>2, <4>3
    <3> QED
      BY <3>3, <3>4
  <2>4. f[z] \in Int /\ f[z] >= 0 /\ (z \notin L => f[z] = 0)
    OBVIOUS
  <2> HIDE DEF rest
  <2>5. PICK p \in Int, q \in Int : p = Part(f, rest \cap S) /\ q = Part(f, rest \cap L)
    BY <2>3
  <2>6. /\ Part(f, s \cap S) = p + (IF z \in S THEN f[z] ELSE 0)
        /\ Part(f, s \cap L) = q + (IF z \in L THEN f[z] ELSE 0)
    BY <2>3, <2>5
  <2>7. Part(f, s \cap S) <= Part(f, s \cap L)
    BY <2>2, <2>4, <2>5, <2>6
  <2> QED
    BY <2>7
<1>2. bad \in SUBSET (SUBSET U) /\ {} \notin bad
  <2>1. {} \cap S = {} /\ {} \cap L = {}
    OBVIOUS
  <2> QED
    BY <2>1, PartEmpty
<1>3. U \notin bad
  <2> HIDE DEF bad
  <2> QED
    BY <1>1, <1>2, NoSetIsBad
<1>4. U \cap S = S /\ U \cap L = L
  OBVIOUS
<1> QED
  BY <1>3, <1>4

\* Finitely many numbers, at least one, have a largest one.
LEMMA LargestValue ==
  ASSUME NEW S, IsFiniteSet(S), S # {}, NEW f \in [S -> Int]
  PROVE  \E x \in S : \A y \in S : f[y] <= f[x]
<1> DEFINE bad == {s \in SUBSET S : s # {} /\ ~(\E x \in s : \A y \in s : f[y] <= f[x])}
<1>1. ASSUME NEW s \in SUBSET S, s # {}, s \ {Picked(s)} \notin bad
      PROVE  s \notin bad
  <2>1. PICK z \in s : z = Picked(s)
    BY <1>1 DEF Picked
  <2> SUFFICES \E x \in s : \A y \in s : f[y] <= f[x]
    OBVIOUS
  <2>2. CASE s \ {z} = {}
    <3>1. \A y \in s : y = z /\ f[y] \in Int
      BY <2>2
    <3> QED
      BY <3>1
  <2>3. CASE s \ {z} # {}
    <3>1. PICK x \in s \ {z} : \A y \in s \ {z} : f[y] <= f[x]
      BY <1>1, <2>1, <2>3
    <3>2. f[x] \in Int /\ f[z] \in Int /\ \A y \in s : f[y] \in Int
      OBVIOUS
    <3>3. CASE f[z] <= f[x]
      BY <3>1, <3>2, <3>3
    <3>4. CASE f[x] < f[z]
      <4>1. \A y \in s : f[y] <= f[z]
        BY <3>1, <3>2, <3>4
      <4> QED
        BY <4>1
    <3> QED
      BY <3>2, <3>3, <3>4
  <2> QED
    BY <2>2, <2>3
<1>2. bad \in SUBSET (SUBSET S) /\ {} \notin bad
  OBVIOUS
<1>3. S \notin bad
  <2> HIDE DEF bad
  <2> QED
    BY <1>1, <1>2, NoSetIsBad
<1> QED
  BY <1>3

=============================================================================
