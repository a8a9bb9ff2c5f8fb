-------------------------- MODULE RoundRobinProofs --------------------------
(***************************************************************************)
(* Theorems about RoundRobin, for every number of backends and every       *)
(* sequence of lists.                                                      *)
(*                                                                         *)
(* The invariant says of a turn what the index alone does not: the         *)
(* backends selected stand at consecutive places of the list, counted      *)
(* around its end from the place where the turn began, and the index is    *)
(* the place after them.                                                   *)
(***************************************************************************)
EXTENDS RoundRobin, FiniteSetTheorems, TLAPS

-----------------------------------------------------------------------------
(* The list.                                                               *)

LEMMA ListFinite ==
  ASSUME NEW l \in Lists
  PROVE  /\ IsFiniteSet(l)
         /\ Cardinality(l) \in Nat \ {0}
         /\ l \subseteq Int
<1>1. IsFiniteSet(Backends) /\ Backends \subseteq Int
  BY CandidatesAssumption, FS_Interval DEF Backends
<1>2. l \in SUBSET Backends /\ l # {}
  BY DEF Lists
<1> QED
  BY <1>1, <1>2, FS_Subset, FS_CardinalityType, FS_EmptySet

\* The backends before b.
Below(l, b) == {c \in l : c < b}

\* At every place of a list there is one of its backends: the numbers of the
\* backends before each are distinct and below the length of the list.
LEMMA EveryPlaceTaken ==
  ASSUME NEW l \in Lists, NEW i \in 0..(Cardinality(l) - 1)
  PROVE  At(l, i) \in l /\ Cardinality(Below(l, At(l, i))) = i
<1> DEFINE n == Cardinality(l)
           place == [b \in l |-> Cardinality(Below(l, b))]
<1>1. IsFiniteSet(l) /\ n \in Nat \ {0} /\ l \subseteq Int
  BY ListFinite
<1>2. ASSUME NEW b \in l
      PROVE  IsFiniteSet(Below(l, b)) /\ Cardinality(Below(l, b)) \in 0..(n - 1)
  <2>1. Below(l, b) \in SUBSET l /\ Below(l, b) # l
    BY <1>1 DEF Below
  <2>2. /\ IsFiniteSet(Below(l, b))
        /\ Cardinality(Below(l, b)) <= n
        /\ Cardinality(Below(l, b)) # n
    BY <1>1, <2>1, FS_Subset
  <2>3. Cardinality(Below(l, b)) \in Nat
    BY <2>2, FS_CardinalityType
  <2> QED
    BY <1>1, <2>2, <2>3
<1>3. ASSUME NEW b \in l, NEW c \in l, b < c
      PROVE  place[b] < place[c]
  <2>0. b \in Int /\ c \in Int /\ \A x \in l : x \in Int
    BY <1>1
  <2>1. ~(b < b) /\ \A x \in l : x < b => x < c
    BY <1>3, <2>0
  <2>2. Below(l, b) \in SUBSET Below(l, c) /\ b \in Below(l, c) /\ b \notin Below(l, b)
    BY <1>3, <2>1 DEF Below
  <2>3. /\ Cardinality(Below(l, b)) <= Cardinality(Below(l, c))
        /\ Cardinality(Below(l, b)) # Cardinality(Below(l, c))
    BY <1>2, <2>2, FS_Subset
  <2> QED
    BY <1>1, <1>2, <2>3
<1>4. place \in [l -> 0..(n - 1)]
  BY <1>2
<1>5. \A b, c \in l : place[b] = place[c] => b = c
  <2> HIDE DEF place
  <2>1. \A b \in l : place[b] \in Int /\ b \in Int
    BY <1>1, <1>4
  <2> QED
    BY <1>3, <2>1
<1>6. place \in Injection(l, 0..(n - 1))
  BY <1>4, <1>5 DEF Injection, IsInjective
<1>7. IsFiniteSet(0..(n - 1)) /\ Cardinality(0..(n - 1)) = n
  <2> HIDE DEF n
  <2> QED
    BY <1>1, FS_Interval
<1>8. place \in Surjection(l, 0..(n - 1))
  BY <1>6, <1>7, FS_Injection
<1>9. \E b \in l : Cardinality(Below(l, b)) = i
  BY <1>8 DEF Surjection
<1> QED
  BY <1>9 DEF At, Below

\* The place k after first, around the end of a list of n.
Place(first, k, n) == IF first + k < n THEN first + k ELSE first + k - n

\* The index, reduced to a list of n, and the one after it.
LEMMA Modulo ==
  ASSUME NEW n \in Nat \ {0}, NEW i \in Nat
  PROVE  /\ i % n \in 0..(n - 1)
         /\ i < n => i % n = i
         /\ (i + 1) % n = Place(i % n, 1, n)
<1> DEFINE q == i \div n
           r == i % n
           q1 == (i + 1) \div n
           r1 == (i + 1) % n
<1>1. /\ r \in 0..(n - 1) /\ q \in Int /\ i = n * q + r
      /\ r1 \in 0..(n - 1) /\ q1 \in Int /\ i + 1 = n * q1 + r1
  OBVIOUS
<1> HIDE DEF q, r, q1, r1
<1>2. ASSUME NEW m \in Int, NEW d \in Int, d = n * m, -n < d, d < n
      PROVE  m = 0
  <2>1. m >= 1 => n * m >= n
    OBVIOUS
  <2>2. m <= -1 => n * m <= -n
    OBVIOUS
  <2> QED
    BY <1>2, <2>1, <2>2
<1>3. i < n => r = i
  <2> SUFFICES ASSUME i < n PROVE r = i
    OBVIOUS
  <2>1. i - r = n * q /\ i - r \in Int /\ -n < i - r /\ i - r < n
    BY <1>1
  <2>2. q = 0
    BY <1>1, <1>2, <2>1
  <2> QED
    BY <1>1, <2>2
<1>4. r + 1 < n => r1 = r + 1
  <2> SUFFICES ASSUME r + 1 < n PROVE r1 = r + 1
    OBVIOUS
  <2>1. r + 1 - r1 = n * (q1 - q)
    BY <1>1
  <2>2. r + 1 - r1 \in Int /\ -n < r + 1 - r1 /\ r + 1 - r1 < n /\ q1 - q \in Int
    BY <1>1
  <2>3. q1 - q = 0
    BY <1>2, <2>1, <2>2
  <2> QED
    BY <1>1, <2>1, <2>3
<1>5. r + 1 = n => r1 = 0
  <2> SUFFICES ASSUME r + 1 = n PROVE r1 = 0
    OBVIOUS
  <2>1. -r1 = n * (q1 - q - 1)
    BY <1>1
  <2>2. -r1 \in Int /\ -n < -r1 /\ -r1 < n /\ q1 - q - 1 \in Int
    BY <1>1
  <2>3. q1 - q - 1 = 0
    BY <1>2, <2>1, <2>2
  <2> QED
    BY <1>1, <2>1, <2>3
<1>6. r \in 0..(n - 1) /\ (i < n => r = i) /\ r1 = Place(r, 1, n)
  BY <1>1, <1>3, <1>4, <1>5 DEF Place
<1> QED
  BY <1>6 DEF r, r1

-----------------------------------------------------------------------------
(* The turn.                                                               *)

TurnFrom(first) ==
  LET n == Cardinality(list) IN
    /\ Len(round) <= n
    /\ \A k \in 1..Len(round) : round[k] = At(list, Place(first, k - 1, n))
    /\ index = Place(first, Len(round), n)

TurnInv ==
  /\ list \in Lists
  /\ round \in Seq(list)
  /\ \E first \in 0..(Cardinality(list) - 1) : TurnFrom(first)

LEMMA PlaceInList ==
  ASSUME NEW n \in Nat \ {0}, NEW first \in 0..(n - 1), NEW k \in 0..n
  PROVE  /\ Place(first, k, n) \in 0..(n - 1)
         /\ k < n => Place(Place(first, k, n), 1, n) = Place(first, k + 1, n)
         /\ Place(first, 0, n) = first
BY DEF Place

\* A turn that begins.
LEMMA TurnBegins ==
  ASSUME NEW l \in Lists, index \in Nat, list' = l,
         index' = NextIndex(Cardinality(l)),
         round' = <<At(l, index % Cardinality(l))>>
  PROVE  TurnInv'
<1> DEFINE n == Cardinality(l)
<1>1. n \in Nat \ {0}
  BY ListFinite
<1>2. PICK first \in 0..(n - 1) : first = index % n /\ index' = Place(first, 1, n)
  BY <1>1, Modulo DEF NextIndex
<1>3. At(l, first) \in l
  BY <1>2, EveryPlaceTaken
<1>4. Place(first, 0, n) = first
  BY <1>1, <1>2, PlaceInList
<1>5. round' = <<At(l, first)>> /\ Len(round') = 1 /\ round' \in Seq(l)
  BY <1>2, <1>3
<1>6. TurnFrom(first)'
  <2>1. \A k \in 1..Len(round') : round'[k] = At(l, Place(first, k - 1, n))
    BY <1>4, <1>5
  <2> QED
    BY <1>1, <1>2, <1>5, <2>1 DEF TurnFrom
<1> QED
  BY <1>2, <1>5, <1>6 DEF TurnInv

\* A turn that goes on.
LEMMA TurnGoesOn ==
  ASSUME TurnInv, Len(round) # Cardinality(list), UNCHANGED list,
         index' = NextIndex(Cardinality(list)),
         round' = Append(round, At(list, index % Cardinality(list)))
  PROVE  TurnInv'
<1> DEFINE n == Cardinality(list)
           len == Len(round)
<1>1. n \in Nat \ {0} /\ round \in Seq(list) /\ len \in Nat
  BY ListFinite DEF TurnInv
<1>2. PICK first \in 0..(n - 1) : TurnFrom(first)
  BY DEF TurnInv
<1>3. len < n /\ index = Place(first, len, n) /\ index \in 0..(n - 1)
  BY <1>1, <1>2, PlaceInList DEF TurnFrom
<1>4. index % n = index /\ index' = Place(first, len + 1, n)
  <2>1. index \in Nat /\ index < n /\ len \in 0..n
    BY <1>1, <1>3
  <2>2. index % n = index /\ (index + 1) % n = Place(index, 1, n)
    <3> HIDE DEF n
    <3> QED
      BY <1>1, <2>1, Modulo
  <2>3. Place(Place(first, len, n), 1, n) = Place(first, len + 1, n)
    BY <1>1, <1>2, <1>3, <2>1, PlaceInList
  <2> QED
    BY <1>3, <2>2, <2>3 DEF NextIndex
<1>5. At(list, index) \in list
  BY <1>3, EveryPlaceTaken DEF TurnInv
<1>6. /\ round' \in Seq(list)
      /\ Len(round') = len + 1
      /\ \A k \in 1..len : round'[k] = round[k]
      /\ round'[len + 1] = At(list, index)
  BY <1>1, <1>4, <1>5
<1>7. TurnFrom(first)'
  <2>1. ASSUME NEW k \in 1..(len + 1)
        PROVE  round'[k] = At(list, Place(first, k - 1, n))
    <3>1. CASE k = len + 1
      BY <1>1, <1>3, <1>6, <3>1
    <3>2. CASE k # len + 1
      <4>1. k \in 1..len
        BY <1>1, <3>2
      <4> QED
        BY <1>2, <1>6, <4>1 DEF TurnFrom
    <3> QED
      BY <3>1, <3>2
  <2> QED
    BY <1>1, <1>3, <1>4, <1>6, <2>1 DEF TurnFrom
<1> QED
  BY <1>2, <1>6, <1>7 DEF TurnInv

LEMMA TurnInit ==
  ASSUME Init
  PROVE  TurnInv
<1>1. Backends \in Lists
  BY CandidatesAssumption DEF Backends, Lists
<1>2. Cardinality(Backends) \in Nat \ {0}
  BY <1>1, ListFinite
<1>3. list = Backends /\ index = 0 /\ round = <<>>
  BY DEF Init
<1>4. TurnFrom(0)
  BY <1>2, <1>3 DEF TurnFrom, Place
<1> QED
  BY <1>1, <1>2, <1>3, <1>4 DEF TurnInv

LEMMA TurnNext ==
  ASSUME TurnInv, [Next]_vars
  PROVE  TurnInv'
<1>0. index \in Nat
  <2>1. Cardinality(list) \in Nat \ {0} /\ Len(round) \in Nat
    BY ListFinite DEF TurnInv
  <2> QED
    BY <2>1, PlaceInList DEF TurnInv, TurnFrom
<1>1. ASSUME NEW l \in Lists, SelectBackend(l)
      PROVE  TurnInv'
  <2>1. CASE l # list \/ Len(round) = Cardinality(l)
    BY <1>0, <1>1, <2>1, TurnBegins DEF SelectBackend
  <2>2. CASE ~(l # list \/ Len(round) = Cardinality(l))
    BY <1>1, <2>2, TurnGoesOn DEF SelectBackend
  <2> QED
    BY <2>1, <2>2
<1>2. CASE UNCHANGED vars
  BY <1>2 DEF vars, TurnInv, TurnFrom
<1> QED
  BY <1>1, <1>2 DEF Next

\* What the invariant says, in the properties of RoundRobin.
LEMMA TurnInvImplies ==
  ASSUME TurnInv
  PROVE  TypeOK /\ OncePerTurn
<1> DEFINE n == Cardinality(list)
           len == Len(round)
<1>1. n \in Nat \ {0} /\ round \in Seq(list) /\ len \in Nat
  BY ListFinite DEF TurnInv
<1>2. PICK first \in 0..(n - 1) : TurnFrom(first)
  BY DEF TurnInv
<1>3. index \in 0..(n - 1)
  BY <1>1, <1>2, PlaceInList DEF TurnFrom
<1>4. ASSUME NEW i \in 1..len, NEW j \in 1..len, round[i] = round[j]
      PROVE  i = j
  <2> DEFINE x == Place(first, i - 1, n)
             y == Place(first, j - 1, n)
  <2>1. i \in Nat /\ j \in Nat /\ i <= n /\ j <= n /\ i - 1 \in 0..n /\ j - 1 \in 0..n
    BY <1>1, <1>2 DEF TurnFrom
  <2>2. x \in 0..(n - 1) /\ y \in 0..(n - 1) /\ At(list, x) = At(list, y)
    BY <1>1, <1>2, <1>4, <2>1, PlaceInList DEF TurnFrom
  <2>3. x = y
    BY <2>2, EveryPlaceTaken DEF TurnInv
  <2> QED
    BY <1>1, <1>2, <2>1, <2>3 DEF Place
<1>5. OncePerTurn
  BY <1>1, <1>4 DEF OncePerTurn, IsInjective
<1> QED
  BY <1>1, <1>3, <1>5 DEF TypeOK, TurnInv

\* The index left behind is always one of the list it was computed for.
THEOREM IndexInList == Spec => []TypeOK
BY TurnInit, TurnNext, TurnInvImplies, PTL DEF Spec

\* While the list stays the same, each of its backends is selected once before
\* any is selected twice, for lists of any length and whatever index the lists
\* before have left.
THEOREM ServesInTurns == Spec => []OncePerTurn
BY TurnInit, TurnNext, TurnInvImplies, PTL DEF Spec

=============================================================================
