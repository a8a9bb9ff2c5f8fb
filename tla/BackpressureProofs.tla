------------------------- MODULE BackpressureProofs -------------------------
(***************************************************************************)
(* Theorems about Backpressure, for every finite set of requests, number   *)
(* of permits and size of the queue.                                       *)
(*                                                                         *)
(* The lemmas about single steps need of queue_size only that it covers    *)
(* the requests suspended in acquire, which is what remains true when      *)
(* handlers are cancelled; that it is exact follows from QueueSlack, which *)
(* no step of the controller changes.                                      *)
(***************************************************************************)
EXTENDS Backpressure, FiniteSetTheorems, SequenceTheorems, TLAPS

USE BackpressureAssumption

\* The states in which a request has a permit.
Holding == {"granted", "expired", "active"}

\* InState for a function that need not be st.
StateSet(sts, states) == {q \in Requests : sts[q] \in states}

-----------------------------------------------------------------------------
(* Counting requests.                                                      *)

LEMMA StateSetFinite ==
  ASSUME NEW sts, NEW states
  PROVE  /\ IsFiniteSet(StateSet(sts, states))
         /\ Cardinality(StateSet(sts, states)) \in Nat
<1>1. StateSet(sts, states) \in SUBSET Requests
  BY DEF StateSet
<1>2. IsFiniteSet(StateSet(sts, states))
  BY <1>1, FS_Subset
<1> QED
  BY <1>2, FS_CardinalityType

\* sts2 is sts with r moved to state s.
Moves(sts, r, s, sts2) == sts2 = [sts EXCEPT ![r] = s]

\* One request changes its state: what becomes of a set of requests in certain
\* states, and of its size.
LEMMA MoveCount ==
  ASSUME NEW sts \in [Requests -> RequestState], NEW r \in Requests,
         NEW s, NEW sts2, Moves(sts, r, s, sts2), NEW states
  PROVE  /\ (sts[r] \in states <=> s \in states) =>
              StateSet(sts2, states) = StateSet(sts, states)
         /\ (sts[r] \notin states /\ s \in states) =>
              /\ StateSet(sts2, states) = StateSet(sts, states) \cup {r}
              /\ Cardinality(StateSet(sts2, states)) =
                   Cardinality(StateSet(sts, states)) + 1
         /\ (sts[r] \in states /\ s \notin states) =>
              /\ StateSet(sts2, states) = StateSet(sts, states) \ {r}
              /\ Cardinality(StateSet(sts2, states)) =
                   Cardinality(StateSet(sts, states)) - 1
<1> DEFINE before == StateSet(sts, states)
           after == StateSet(sts2, states)
<1>1. IsFiniteSet(before)
  BY StateSetFinite
<1>2. ASSUME sts[r] \in states <=> s \in states
      PROVE  after = before
  BY <1>2 DEF StateSet, Moves
<1>3. ASSUME sts[r] \notin states, s \in states
      PROVE  after = before \cup {r} /\ r \notin before
  BY <1>3 DEF StateSet, Moves
<1>4. ASSUME sts[r] \in states, s \notin states
      PROVE  after = before \ {r} /\ r \in before
  BY <1>4 DEF StateSet, Moves
<1> HIDE DEF before, after
<1>5. ASSUME sts[r] \notin states, s \in states
      PROVE  Cardinality(after) = Cardinality(before) + 1
  BY <1>1, <1>3, <1>5, FS_AddElement
<1>6. ASSUME sts[r] \in states, s \notin states
      PROVE  Cardinality(after) = Cardinality(before) - 1
  BY <1>1, <1>4, <1>6, FS_RemoveElement
<1> QED
  BY <1>2, <1>3, <1>4, <1>5, <1>6 DEF before, after

LEMMA MoveType ==
  ASSUME NEW sts \in [Requests -> RequestState], NEW r \in Requests,
         NEW s \in RequestState, NEW sts2, Moves(sts, r, s, sts2)
  PROVE  /\ sts2 \in [Requests -> RequestState]
         /\ sts2[r] = s
         /\ \A q \in Requests : q # r => sts2[q] = sts[q]
BY DEF Moves

-----------------------------------------------------------------------------
(* The deque.                                                              *)

\* Removing from a sequence: the elements that remain keep their order.
LEMMA RemoveAtProperties ==
  ASSUME NEW S, NEW seq \in Seq(S), NEW k \in 1..Len(seq)
  PROVE  /\ RemoveAt(seq, k) \in Seq(S)
         /\ Len(RemoveAt(seq, k)) = Len(seq) - 1
         /\ \A i \in 1..(Len(seq) - 1) :
              RemoveAt(seq, k)[i] = seq[IF i < k THEN i ELSE i + 1]
<1> DEFINE left == SubSeq(seq, 1, k - 1)
           right == SubSeq(seq, k + 1, Len(seq))
<1>0. Len(seq) \in Nat /\ k \in Nat /\ k <= Len(seq) /\ k >= 1
  BY LenProperties
<1>1. /\ left \in Seq(S)
      /\ Len(left) = k - 1
      /\ \A i \in 1..(k - 1) : left[i] = seq[i]
  <2>1. \A i \in 1..(k - 1) : seq[i] \in S
    BY <1>0, ElementOfSeq
  <2>2. /\ left \in Seq(S)
        /\ Len(left) = IF 1 <= k - 1 THEN k - 1 - 1 + 1 ELSE 0
        /\ \A i \in 1..(k - 1 - 1 + 1) : left[i] = seq[1 + i - 1]
    BY <1>0, <2>1, SubSeqProperties
  <2> QED
    BY <1>0, <2>2
<1>2. /\ right \in Seq(S)
      /\ Len(right) = Len(seq) - k
      /\ \A i \in 1..(Len(seq) - k) : right[i] = seq[k + i]
  <2>1. \A i \in (k + 1)..Len(seq) : seq[i] \in S
    BY <1>0, ElementOfSeq
  <2>2. /\ right \in Seq(S)
        /\ Len(right) = IF k + 1 <= Len(seq) THEN Len(seq) - (k + 1) + 1 ELSE 0
        /\ \A i \in 1..(Len(seq) - (k + 1) + 1) : right[i] = seq[k + 1 + i - 1]
    BY <1>0, <2>1, SubSeqProperties
  <2> QED
    BY <1>0, <2>2
<1>3. RemoveAt(seq, k) = left \o right
  BY DEF RemoveAt
<1> HIDE DEF left, right
<1>4. /\ left \o right \in Seq(S)
      /\ Len(left \o right) = Len(left) + Len(right)
      /\ \A i \in 1..(Len(left) + Len(right)) :
           (left \o right)[i] =
             IF i <= Len(left) THEN left[i] ELSE right[i - Len(left)]
  BY <1>1, <1>2, ConcatProperties
<1>5. ASSUME NEW i \in 1..(Len(seq) - 1)
      PROVE  (left \o right)[i] = seq[IF i < k THEN i ELSE i + 1]
  <2>1. CASE i < k
    BY <1>0, <1>1, <1>2, <1>4, <2>1
  <2>2. CASE ~(i < k)
    <3> DEFINE j == i - (k - 1)
    <3>1. j \in 1..(Len(seq) - k) /\ k + j = i + 1 /\ ~(i <= k - 1)
      BY <1>0, <2>2
    <3>2. right[j] = seq[i + 1]
      BY <1>2, <3>1
    <3>3. (left \o right)[i] = right[j]
      BY <1>0, <1>1, <1>2, <1>4, <3>1
    <3> QED
      BY <2>2, <3>2, <3>3
  <2> QED
    BY <2>1, <2>2
<1> QED
  BY <1>0, <1>1, <1>2, <1>3, <1>4, <1>5

\* self._waiters.remove(fut) takes out r and nobody else.
LEMMA LeaveDequeProperties ==
  ASSUME NEW r \in Requests, waiters \in Seq(Requests), WaitersAreQueued,
         LeaveDeque(r)
  PROVE  /\ waiters' \in Seq(Requests)
         /\ \A i, j \in DOMAIN waiters' : waiters'[i] = waiters'[j] => i = j
         /\ {waiters'[i] : i \in DOMAIN waiters'} = InState(Queued) \ {r}
         /\ \A i, j \in DOMAIN waiters :
              i < j /\ waiters[i] # r /\ waiters[j] # r =>
                \E k, l \in DOMAIN waiters' :
                  /\ k < l
                  /\ waiters'[k] = waiters[i]
                  /\ waiters'[l] = waiters[j]
<1> DEFINE n == Len(waiters)
<1>1. n \in Nat /\ DOMAIN waiters = 1..n
  BY LenProperties
<1>2. PICK k \in 1..n : waiters[k] = r /\ waiters' = RemoveAt(waiters, k)
  BY <1>1 DEF LeaveDeque
<1>3. /\ waiters' \in Seq(Requests)
      /\ Len(waiters') = n - 1
      /\ \A i \in 1..(n - 1) : waiters'[i] = waiters[IF i < k THEN i ELSE i + 1]
  BY <1>2, RemoveAtProperties
<1>4. DOMAIN waiters' = 1..(n - 1)
  BY <1>3, LenProperties
<1> HIDE DEF n
<1>5. \A i, j \in 1..n : waiters[i] = waiters[j] => i = j
  BY <1>1 DEF WaitersAreQueued
<1>6. ASSUME NEW i \in 1..n, waiters[i] # r
      PROVE  LET p == IF i < k THEN i ELSE i - 1 IN
               p \in 1..(n - 1) /\ waiters'[p] = waiters[i]
  <2>1. i # k
    BY <1>2, <1>6
  <2> QED
    BY <1>1, <1>3, <2>1
<1>7. ASSUME NEW i \in 1..(n - 1)
      PROVE  LET p == IF i < k THEN i ELSE i + 1 IN
               p \in 1..n /\ p # k /\ waiters'[i] = waiters[p]
  BY <1>1, <1>3
<1>8. \A i, j \in DOMAIN waiters' : waiters'[i] = waiters'[j] => i = j
  BY <1>1, <1>3, <1>4, <1>5
<1>9. {waiters'[i] : i \in DOMAIN waiters'} = {waiters[i] : i \in DOMAIN waiters} \ {r}
  <2>1. ASSUME NEW i \in 1..(n - 1)
        PROVE  waiters'[i] # r /\ \E p \in 1..n : waiters'[i] = waiters[p]
    BY <1>2, <1>5, <1>7
  <2>2. ASSUME NEW i \in 1..n, waiters[i] # r
        PROVE  \E p \in 1..(n - 1) : waiters'[p] = waiters[i]
    BY <1>6, <2>2
  <2>3. ASSUME NEW q \in {waiters'[i] : i \in DOMAIN waiters'}
        PROVE  q \in {waiters[i] : i \in DOMAIN waiters} \ {r}
    <3>1. PICK i \in 1..(n - 1) : q = waiters'[i]
      BY <1>4
    <3> QED
      BY <1>1, <2>1, <3>1
  <2>4. ASSUME NEW q \in {waiters[i] : i \in DOMAIN waiters} \ {r}
        PROVE  q \in {waiters'[i] : i \in DOMAIN waiters'}
    <3>1. PICK i \in 1..n : q = waiters[i]
      BY <1>1
    <3>2. PICK p \in 1..(n - 1) : waiters'[p] = waiters[i]
      BY <2>2, <3>1
    <3> QED
      BY <1>4, <3>1, <3>2
  <2> QED
    BY <2>3, <2>4
<1>10. ASSUME NEW i \in DOMAIN waiters, NEW j \in DOMAIN waiters,
              i < j, waiters[i] # r, waiters[j] # r
       PROVE  \E p, q \in DOMAIN waiters' :
                p < q /\ waiters'[p] = waiters[i] /\ waiters'[q] = waiters[j]
  <2> DEFINE p == IF i < k THEN i ELSE i - 1
             q == IF j < k THEN j ELSE j - 1
  <2>1. /\ p \in 1..(n - 1) /\ waiters'[p] = waiters[i]
        /\ q \in 1..(n - 1) /\ waiters'[q] = waiters[j]
    BY <1>1, <1>6, <1>10
  <2>2. p < q
    <3>1. i # k /\ j # k
      BY <1>2, <1>10
    <3> QED
      BY <1>1, <1>10, <3>1
  <2> QED
    BY <1>4, <2>1, <2>2
<1>11. {waiters'[i] : i \in DOMAIN waiters'} = InState(Queued) \ {r}
  BY <1>9 DEF WaitersAreQueued
<1> QED
  BY <1>3, <1>8, <1>10, <1>11

-----------------------------------------------------------------------------
(* The steps.                                                              *)

\* The deque ws holds exactly the requests queued in states sts, each once.
Deque(ws, sts) ==
  /\ ws \in Seq(Requests)
  /\ \A i, j \in DOMAIN ws : ws[i] = ws[j] => i = j
  /\ {ws[i] : i \in DOMAIN ws} = StateSet(sts, Queued)

Consistent(val, ws, sts, size, count) ==
  /\ val \in Nat
  /\ sts \in [Requests -> RequestState]
  /\ Deque(ws, sts)
  /\ val + Cardinality(StateSet(sts, Holding)) = MaxConcurrent
  /\ count = Cardinality(StateSet(sts, {"active"}))
  /\ size \in Nat
  /\ Cardinality(StateSet(sts, Queued)) <= size
  /\ size <= MaxQueueSize

\* The inductive invariant: all the state invariants but NoLostWakeup, except
\* that queue_size only covers the requests that are queued.
GateInv == Consistent(value, waiters, st, queue_size, current_active)

\* By how much it exceeds their number.
QueueSlack == queue_size - Cardinality(StateSet(st, Queued))

\* Waking the next waiter moves one permit to one request that goes on to be in
\* the deque, or nothing if nobody waits.
LEMMA WakeUpEffect ==
  ASSUME NEW sts \in [Requests -> RequestState], NEW ws, Deque(ws, sts),
         NEW val \in Nat \ {0}, WakeUpNext(ws, sts, val)
  PROVE  /\ st' \in [Requests -> RequestState]
         /\ value' \in Nat
         /\ value' + Cardinality(StateSet(st', Holding)) =
              val + Cardinality(StateSet(sts, Holding))
         /\ StateSet(st', Queued) = StateSet(sts, Queued)
         /\ StateSet(st', {"active"}) = StateSet(sts, {"active"})
         /\ Deque(ws, st')
         /\ \A q \in Requests :
              st'[q] = sts[q] \/ (sts[q] = "waiting" /\ st'[q] = "granted")
<1>1. CASE st' = sts /\ value' = val
  BY <1>1
<1>2. ASSUME NEW i \in DOMAIN ws, FirstPending(ws, sts, i),
             st' = [sts EXCEPT ![ws[i]] = "granted"], value' = val - 1
      PROVE  /\ st' \in [Requests -> RequestState]
             /\ value' \in Nat
             /\ value' + Cardinality(StateSet(st', Holding)) =
                  val + Cardinality(StateSet(sts, Holding))
             /\ StateSet(st', Queued) = StateSet(sts, Queued)
             /\ StateSet(st', {"active"}) = StateSet(sts, {"active"})
             /\ Deque(ws, st')
             /\ \A q \in Requests :
                  st'[q] = sts[q] \/ (sts[q] = "waiting" /\ st'[q] = "granted")
  <2>1. /\ ws[i] \in Requests
        /\ sts[ws[i]] = "waiting"
        /\ "granted" \in RequestState
        /\ Moves(sts, ws[i], "granted", st')
    BY <1>2 DEF Deque, FirstPending, RequestState, Moves
  <2>2. st' \in [Requests -> RequestState]
    BY <2>1, MoveType
  <2>3. /\ StateSet(st', Queued) = StateSet(sts, Queued)
        /\ StateSet(st', {"active"}) = StateSet(sts, {"active"})
    <3>1. "waiting" \in Queued /\ "granted" \in Queued
      BY DEF Queued
    <3> QED
      BY <2>1, <3>1, MoveCount
  <2>4. Cardinality(StateSet(st', Holding)) = Cardinality(StateSet(sts, Holding)) + 1
    <3>1. "waiting" \notin Holding /\ "granted" \in Holding
      BY DEF Holding
    <3> QED
      BY <2>1, <3>1, MoveCount
  <2>5. value' + Cardinality(StateSet(st', Holding)) =
          val + Cardinality(StateSet(sts, Holding))
    BY <1>2, <2>4, StateSetFinite
  <2>6. \A q \in Requests :
          st'[q] = sts[q] \/ (sts[q] = "waiting" /\ st'[q] = "granted")
    BY <2>1, MoveType
  <2>7. Deque(ws, st')
    BY <2>3 DEF Deque
  <2> QED
    BY <1>2, <2>2, <2>3, <2>5, <2>6, <2>7
<1> QED
  BY <1>1, <1>2 DEF WakeUpNext

\* A request joins the deque at its end.
LEMMA JoinDeque ==
  ASSUME NEW sts \in [Requests -> RequestState], NEW ws, Deque(ws, sts),
         NEW r \in Requests, sts[r] \notin Queued,
         NEW sts2, Moves(sts, r, "waiting", sts2)
  PROVE  Deque(Append(ws, r), sts2)
<1> DEFINE n == Len(ws)
           more == Append(ws, r)
<1>1. n \in Nat /\ DOMAIN ws = 1..n /\ ws \in Seq(Requests)
  BY LenProperties DEF Deque
<1>2. /\ more \in Seq(Requests)
      /\ Len(more) = n + 1
      /\ \A i \in 1..n : more[i] = ws[i]
      /\ more[n + 1] = r
  BY <1>1, AppendProperties
<1>3. DOMAIN more = 1..(n + 1)
  BY <1>2, LenProperties
<1>4. \A i \in 1..n : ws[i] # r
  BY <1>1 DEF Deque, StateSet
<1>5. StateSet(sts2, Queued) = StateSet(sts, Queued) \cup {r}
  <2>1. "waiting" \in Queued
    BY DEF Queued
  <2> QED
    BY <2>1, MoveCount
<1> HIDE DEF n, more
<1>6. \A i, j \in DOMAIN more : more[i] = more[j] => i = j
  <2> SUFFICES ASSUME NEW i \in 1..(n + 1), NEW j \in 1..(n + 1), more[i] = more[j]
               PROVE  i = j
    BY <1>3
  <2>1. CASE i \in 1..n /\ j \in 1..n
    BY <1>1, <1>2, <2>1 DEF Deque
  <2>2. CASE i = n + 1 \/ j = n + 1
    BY <1>1, <1>2, <1>4, <2>2
  <2> QED
    BY <1>1, <2>1, <2>2
<1>7. {more[i] : i \in DOMAIN more} = {ws[i] : i \in DOMAIN ws} \cup {r}
  <2>1. ASSUME NEW i \in 1..(n + 1)
        PROVE  more[i] \in {ws[k] : k \in 1..n} \cup {r}
    BY <1>1, <1>2
  <2>2. ASSUME NEW i \in 1..n
        PROVE  i \in 1..(n + 1) /\ more[i] = ws[i]
    BY <1>1, <1>2
  <2>3. n + 1 \in 1..(n + 1) /\ more[n + 1] = r
    BY <1>1, <1>2
  <2> QED
    BY <1>1, <1>3, <2>1, <2>2, <2>3
<1> QED
  BY <1>2, <1>5, <1>6, <1>7 DEF Deque, more

\* A request leaves the deque with its state.
LEMMA LeaveDequeWith ==
  ASSUME NEW r \in Requests, st \in [Requests -> RequestState],
         Deque(waiters, st), LeaveDeque(r), st[r] \in Queued,
         NEW s, s \notin Queued, NEW sts, Moves(st, r, s, sts)
  PROVE  Deque(waiters', sts)
<1>1. WaitersAreQueued /\ waiters \in Seq(Requests)
  BY DEF Deque, WaitersAreQueued, InState, StateSet
<1>2. StateSet(sts, Queued) = InState(Queued) \ {r}
  <2>1. StateSet(sts, Queued) = StateSet(st, Queued) \ {r}
    BY MoveCount
  <2> QED
    BY <2>1 DEF InState, StateSet
<1> QED
  BY <1>1, <1>2, LeaveDequeProperties DEF Deque

\* Moving one request from state s to state t: what changes of the counts.
LEMMA MoveCounts ==
  ASSUME NEW sts \in [Requests -> RequestState], NEW r \in Requests,
         NEW s \in RequestState, NEW sts2, Moves(sts, r, s, sts2)
  PROVE  /\ sts2 \in [Requests -> RequestState]
         /\ Cardinality(StateSet(sts2, Holding)) =
              Cardinality(StateSet(sts, Holding))
                + (IF s \in Holding THEN 1 ELSE 0)
                - (IF sts[r] \in Holding THEN 1 ELSE 0)
         /\ Cardinality(StateSet(sts2, Queued)) =
              Cardinality(StateSet(sts, Queued))
                + (IF s \in Queued THEN 1 ELSE 0)
                - (IF sts[r] \in Queued THEN 1 ELSE 0)
         /\ Cardinality(StateSet(sts2, {"active"})) =
              Cardinality(StateSet(sts, {"active"}))
                + (IF s = "active" THEN 1 ELSE 0)
                - (IF sts[r] = "active" THEN 1 ELSE 0)
<1>1. sts2 \in [Requests -> RequestState]
  BY MoveType
<1>2. ASSUME NEW states
      PROVE  Cardinality(StateSet(sts2, states)) =
               Cardinality(StateSet(sts, states))
                 + (IF s \in states THEN 1 ELSE 0)
                 - (IF sts[r] \in states THEN 1 ELSE 0)
  <2>1. Cardinality(StateSet(sts, states)) \in Nat
    BY StateSetFinite
  <2> QED
    BY <2>1, MoveCount
<1>3. /\ s \in {"active"} <=> s = "active"
      /\ sts[r] \in {"active"} <=> sts[r] = "active"
  OBVIOUS
<1> QED
  BY <1>1, <1>2, <1>3

\* Waking the next waiter keeps the state consistent, once the permit it passes
\* on has been counted as free.
LEMMA WakeUpKeeps ==
  ASSUME NEW val, NEW ws, NEW sts, NEW size, NEW count,
         Consistent(val, ws, sts, size, count), val > 0,
         WakeUpNext(ws, sts, val)
  PROVE  /\ Consistent(value', ws, st', size, count)
         /\ StateSet(st', Queued) = StateSet(sts, Queued)
<1>1. /\ sts \in [Requests -> RequestState]
      /\ Deque(ws, sts)
      /\ val \in Nat \ {0}
  BY DEF Consistent
<1>2. /\ st' \in [Requests -> RequestState]
      /\ value' \in Nat
      /\ value' + Cardinality(StateSet(st', Holding)) =
           val + Cardinality(StateSet(sts, Holding))
      /\ StateSet(st', Queued) = StateSet(sts, Queued)
      /\ StateSet(st', {"active"}) = StateSet(sts, {"active"})
      /\ Deque(ws, st')
  BY <1>1, WakeUpEffect
<1> QED
  BY <1>2 DEF Consistent

\* What the states of a request say of it.
LEMMA StateKinds ==
  /\ Queued = {"waiting", "granted", "expired", "cancelled"}
  /\ Holding = {"granted", "expired", "active"}
  /\ RequestState = {"idle", "waiting", "granted", "expired", "cancelled",
                     "active", "shed"}
BY DEF Queued, Holding, RequestState

LEMMA GateTypes ==
  ASSUME GateInv
  PROVE  /\ value \in Nat
         /\ waiters \in Seq(Requests)
         /\ st \in [Requests -> RequestState]
         /\ queue_size \in Nat
         /\ current_active \in Nat
         /\ Deque(waiters, st)
         /\ \A states : Cardinality(StateSet(st, states)) \in Nat
BY StateSetFinite DEF GateInv, Consistent, Deque

\* A request that is in a set of states is counted there.
LEMMA CountedIn ==
  ASSUME NEW r \in Requests, NEW sts, NEW states, sts[r] \in states
  PROVE  Cardinality(StateSet(sts, states)) > 0
<1>1. r \in StateSet(sts, states)
  BY DEF StateSet
<1>2. Cardinality(StateSet(sts, states)) # 0
  BY <1>1, StateSetFinite, FS_EmptySet
<1> QED
  BY <1>2, StateSetFinite

\* The middle of a step that takes r out of the semaphore: r has its new state
\* s, val permits are free, and none has been passed on yet.
LEMMA LeaveSemaphore ==
  ASSUME GateInv, NEW r \in Requests, st[r] \in Queued, LeaveDeque(r),
         NEW s \in RequestState \ Queued, NEW sts, Moves(st, r, s, sts),
         NEW size \in {queue_size - 1, queue_size},
         NEW val \in Nat, NEW count,
         val = value + (IF st[r] \in Holding THEN 1 ELSE 0)
                     - (IF s \in Holding THEN 1 ELSE 0),
         count = current_active + (IF s = "active" THEN 1 ELSE 0)
  PROVE  /\ Consistent(val, waiters', sts, size, count)
         /\ Cardinality(StateSet(sts, Queued)) = Cardinality(StateSet(st, Queued)) - 1
<1>1. Deque(waiters', sts)
  BY GateTypes, LeaveDequeWith
<1>2. /\ sts \in [Requests -> RequestState]
      /\ Cardinality(StateSet(sts, Holding)) =
           Cardinality(StateSet(st, Holding))
             + (IF s \in Holding THEN 1 ELSE 0)
             - (IF st[r] \in Holding THEN 1 ELSE 0)
      /\ Cardinality(StateSet(sts, Queued)) = Cardinality(StateSet(st, Queued)) - 1
      /\ Cardinality(StateSet(sts, {"active"})) =
           Cardinality(StateSet(st, {"active"})) + (IF s = "active" THEN 1 ELSE 0)
  <2>1. /\ sts \in [Requests -> RequestState]
        /\ Cardinality(StateSet(sts, Holding)) =
             Cardinality(StateSet(st, Holding))
               + (IF s \in Holding THEN 1 ELSE 0)
               - (IF st[r] \in Holding THEN 1 ELSE 0)
        /\ Cardinality(StateSet(sts, Queued)) =
             Cardinality(StateSet(st, Queued))
               + (IF s \in Queued THEN 1 ELSE 0)
               - (IF st[r] \in Queued THEN 1 ELSE 0)
        /\ Cardinality(StateSet(sts, {"active"})) =
             Cardinality(StateSet(st, {"active"}))
               + (IF s = "active" THEN 1 ELSE 0)
               - (IF st[r] = "active" THEN 1 ELSE 0)
    BY MoveCounts, GateTypes
  <2>2. st[r] # "active" /\ s \notin Queued
    BY StateKinds
  <2>3. /\ Cardinality(StateSet(st, Queued)) \in Nat
        /\ Cardinality(StateSet(st, {"active"})) \in Nat
    BY GateTypes
  <2> QED
    BY <2>1, <2>2, <2>3
<1>3. Cardinality(StateSet(st, Queued)) > 0
  BY CountedIn
<1>4. /\ value + Cardinality(StateSet(st, Holding)) = MaxConcurrent
      /\ current_active = Cardinality(StateSet(st, {"active"}))
      /\ Cardinality(StateSet(st, Queued)) <= queue_size
      /\ queue_size <= MaxQueueSize
  BY DEF GateInv, Consistent
<1>5. /\ Cardinality(StateSet(st, Holding)) \in Nat
      /\ Cardinality(StateSet(st, Queued)) \in Nat
      /\ queue_size \in Nat
      /\ value \in Nat
  BY GateTypes
<1>6. val + Cardinality(StateSet(sts, Holding)) = MaxConcurrent
  BY <1>2, <1>4, <1>5
<1>7. /\ size \in Nat
      /\ Cardinality(StateSet(sts, Queued)) <= size
      /\ size <= MaxQueueSize
  BY <1>2, <1>3, <1>4, <1>5
<1>8. count = Cardinality(StateSet(sts, {"active"}))
  BY <1>2, <1>4
<1> QED
  BY <1>1, <1>2, <1>6, <1>7, <1>8 DEF Consistent

\* A step that changes the state of r and no permit, count or deque.
LEMMA MoveAside ==
  ASSUME GateInv, NEW r \in Requests, NEW s \in RequestState, Moves(st, r, s, st'),
         s \in Holding <=> st[r] \in Holding,
         s \in Queued <=> st[r] \in Queued,
         s = "active" <=> st[r] = "active",
         UNCHANGED <<value, waiters, queue_size, current_active>>
  PROVE  GateInv' /\ QueueSlack' = QueueSlack
<1>1. st' \in [Requests -> RequestState]
  BY GateTypes, MoveType
<1>2. /\ StateSet(st', Holding) = StateSet(st, Holding)
      /\ StateSet(st', Queued) = StateSet(st, Queued)
  BY GateTypes, MoveCount
<1>3. StateSet(st', {"active"}) = StateSet(st, {"active"})
  <2>1. s \in {"active"} <=> st[r] \in {"active"}
    OBVIOUS
  <2> QED
    BY <2>1, GateTypes, MoveCount
<1>4. Deque(waiters', st')
  BY <1>2 DEF Deque, GateInv, Consistent
<1> QED
  BY <1>1, <1>2, <1>3, <1>4 DEF GateInv, Consistent, QueueSlack

\* No step of the controller breaks the invariant or changes the slack.
LEMMA StepGate ==
  ASSUME GateInv, NEW r \in Requests, Step(r)
  PROVE  GateInv' /\ QueueSlack' = QueueSlack
<1> USE GateTypes
<1>0. /\ value + Cardinality(StateSet(st, Holding)) = MaxConcurrent
      /\ current_active = Cardinality(StateSet(st, {"active"}))
      /\ Cardinality(StateSet(st, Queued)) <= queue_size
      /\ queue_size <= MaxQueueSize
  BY DEF GateInv, Consistent
<1>1. CASE Reject(r)
  <2>1. Moves(st, r, "shed", st')
    BY <1>1 DEF Reject, Moves
  <2> QED
    BY <1>1, <2>1, StateKinds, MoveAside DEF Reject
<1>2. CASE TakeSlot(r)
  <2>1. /\ Moves(st, r, "active", st')
        /\ st[r] = "idle"
        /\ "active" \in RequestState
    BY <1>2, StateKinds DEF TakeSlot, Moves
  <2>2. /\ st' \in [Requests -> RequestState]
        /\ Cardinality(StateSet(st', Holding)) = Cardinality(StateSet(st, Holding)) + 1
        /\ StateSet(st', Queued) = StateSet(st, Queued)
        /\ Cardinality(StateSet(st', {"active"})) =
             Cardinality(StateSet(st, {"active"})) + 1
    <3>1. st' \in [Requests -> RequestState]
      BY <2>1, MoveType
    <3>2. /\ "active" \in Holding /\ st[r] \notin Holding
          /\ "active" \notin Queued /\ st[r] \notin Queued
          /\ "active" \in {"active"} /\ st[r] \notin {"active"}
      BY <2>1, StateKinds
    <3> QED
      BY <2>1, <3>1, <3>2, MoveCount
  <2>3. value > 0 /\ value' = value - 1
    BY <1>2 DEF TakeSlot, Locked
  <2>4. Deque(waiters', st')
    BY <1>2, <2>2 DEF Deque, TakeSlot
  <2>5. UNCHANGED queue_size /\ current_active' = current_active + 1
    BY <1>2 DEF TakeSlot
  <2> QED
    BY <1>0, <2>2, <2>3, <2>4, <2>5 DEF GateInv, Consistent, QueueSlack
<1>3. CASE Wait(r)
  <2>1. /\ Moves(st, r, "waiting", st')
        /\ st[r] = "idle"
        /\ "waiting" \in RequestState
    BY <1>3, StateKinds DEF Wait, Moves
  <2>2. /\ st' \in [Requests -> RequestState]
        /\ StateSet(st', Holding) = StateSet(st, Holding)
        /\ Cardinality(StateSet(st', Queued)) = Cardinality(StateSet(st, Queued)) + 1
        /\ StateSet(st', {"active"}) = StateSet(st, {"active"})
    <3>1. st' \in [Requests -> RequestState]
      BY <2>1, MoveType
    <3>2. /\ "waiting" \notin Holding /\ st[r] \notin Holding
          /\ "waiting" \in Queued /\ st[r] \notin Queued
          /\ "waiting" \notin {"active"} /\ st[r] \notin {"active"}
      BY <2>1, StateKinds
    <3> QED
      BY <2>1, <3>1, <3>2, MoveCount
  <2>3. Deque(waiters', st')
    <3>1. st[r] \notin Queued
      BY <2>1, StateKinds
    <3> QED
      BY <1>3, <2>1, <3>1, JoinDeque DEF Wait
  <2>4. /\ queue_size' = queue_size + 1
        /\ queue_size < MaxQueueSize
        /\ UNCHANGED <<value, current_active>>
    BY <1>3 DEF Wait, QueueFull
  <2> QED
    BY <1>0, <2>2, <2>3, <2>4 DEF GateInv, Consistent, QueueSlack
<1>4. CASE TimerFires(r)
  <2>1. CASE st[r] = "waiting"
    <3>1. Moves(st, r, "cancelled", st')
      BY <1>4, <2>1 DEF TimerFires, Moves
    <3> QED
      BY <1>4, <2>1, <3>1, StateKinds, MoveAside DEF TimerFires
  <2>2. CASE st[r] = "granted"
    <3>1. Moves(st, r, "expired", st')
      BY <1>4, <2>2 DEF TimerFires, Moves
    <3> QED
      BY <1>4, <2>2, <3>1, StateKinds, MoveAside DEF TimerFires
  <2> QED
    BY <1>4, <2>1, <2>2 DEF TimerFires
<1>5. CASE Resume(r)
  <2> DEFINE sts == [st EXCEPT ![r] = "active"]
  <2>1. /\ Moves(st, r, "active", sts)
        /\ st[r] = "granted"
        /\ LeaveDeque(r)
    BY <1>5 DEF Resume, Moves
  <2>2. /\ Consistent(value, waiters', sts, queue_size', current_active')
        /\ Cardinality(StateSet(sts, Queued)) = Cardinality(StateSet(st, Queued)) - 1
    <3>1. /\ queue_size' = queue_size - 1
          /\ current_active' = current_active + 1
      BY <1>5 DEF Resume
    <3>2. /\ st[r] \in Queued /\ st[r] \in Holding
          /\ "active" \in RequestState \ Queued /\ "active" \in Holding
      BY <2>1, StateKinds
    <3>3. value = value + 1 - 1
      OBVIOUS
    <3> QED
      BY <2>1, <3>1, <3>2, <3>3, LeaveSemaphore
  <2>3. /\ Consistent(value', waiters', st', queue_size', current_active')
        /\ StateSet(st', Queued) = StateSet(sts, Queued)
    BY <1>5, <2>2, WakeUpKeeps DEF Resume
  <2>4. queue_size' = queue_size - 1
    BY <1>5 DEF Resume
  <2> HIDE DEF sts
  <2> QED
    BY <2>2, <2>3, <2>4 DEF GateInv, QueueSlack
<1>6. CASE ResumeExpired(r)
  <2> DEFINE sts == [st EXCEPT ![r] = "shed"]
  <2>1. /\ Moves(st, r, "shed", sts)
        /\ st[r] = "expired"
        /\ LeaveDeque(r)
    BY <1>6 DEF ResumeExpired, Moves
  <2>2. /\ Consistent(value + 1, waiters', sts, queue_size', current_active')
        /\ Cardinality(StateSet(sts, Queued)) = Cardinality(StateSet(st, Queued)) - 1
    <3>1. /\ queue_size' = queue_size - 1
          /\ current_active' = current_active + 0
          /\ value + 1 = value + 1 - 0
      BY <1>6 DEF ResumeExpired
    <3>2. /\ st[r] \in Queued /\ st[r] \in Holding
          /\ "shed" \in RequestState \ Queued /\ "shed" \notin Holding
          /\ "shed" # "active"
      BY <2>1, StateKinds
    <3> QED
      BY <2>1, <3>1, <3>2, LeaveSemaphore
  <2>3. /\ Consistent(value', waiters', st', queue_size', current_active')
        /\ StateSet(st', Queued) = StateSet(sts, Queued)
    BY <1>6, <2>2, WakeUpKeeps DEF ResumeExpired
  <2>4. queue_size' = queue_size - 1
    BY <1>6 DEF ResumeExpired
  <2> HIDE DEF sts
  <2> QED
    BY <2>2, <2>3, <2>4 DEF GateInv, QueueSlack
<1>7. CASE ResumeCancelled(r)
  <2>1. /\ Moves(st, r, "shed", st')
        /\ st[r] = "cancelled"
        /\ LeaveDeque(r)
    BY <1>7 DEF ResumeCancelled, Moves
  <2>2. /\ queue_size' = queue_size - 1
        /\ current_active' = current_active + 0
        /\ value' = value + 0 - 0
    BY <1>7 DEF ResumeCancelled
  <2>3. /\ st[r] \in Queued /\ st[r] \notin Holding
        /\ "shed" \in RequestState \ Queued /\ "shed" \notin Holding
        /\ "shed" # "active"
    BY <2>1, StateKinds
  <2>4. /\ Consistent(value', waiters', st', queue_size', current_active')
        /\ Cardinality(StateSet(st', Queued)) = Cardinality(StateSet(st, Queued)) - 1
    BY <2>1, <2>2, <2>3, LeaveSemaphore
  <2> QED
    BY <2>2, <2>4 DEF GateInv, QueueSlack
<1>8. CASE Answer503(r)
  <2>1. Moves(st, r, "idle", st')
    BY <1>8 DEF Answer503, Moves
  <2> QED
    BY <1>8, <2>1, StateKinds, MoveAside DEF Answer503
<1>9. CASE Release(r)
  <2> DEFINE sts == [st EXCEPT ![r] = "idle"]
  <2>1. Moves(st, r, "idle", sts) /\ st[r] = "active"
    BY <1>9 DEF Release, Moves
  <2>2. /\ sts \in [Requests -> RequestState]
        /\ Cardinality(StateSet(sts, Holding)) = Cardinality(StateSet(st, Holding)) - 1
        /\ StateSet(sts, Queued) = StateSet(st, Queued)
        /\ Cardinality(StateSet(sts, {"active"})) =
             Cardinality(StateSet(st, {"active"})) - 1
    <3>1. sts \in [Requests -> RequestState]
      BY StateKinds
    <3>2. /\ "idle" \notin Holding /\ st[r] \in Holding
          /\ "idle" \notin Queued /\ st[r] \notin Queued
          /\ "idle" \notin {"active"} /\ st[r] \in {"active"}
      BY <2>1, StateKinds
    <3> HIDE DEF sts
    <3> QED
      BY <2>1, <3>1, <3>2, MoveCount
  <2>3. current_active' = current_active - 1
    <3>1. Cardinality(StateSet(st, {"active"})) > 0
      BY <2>1, CountedIn
    <3> QED
      BY <1>0, <1>9, <3>1 DEF Release
  <2>4. UNCHANGED <<waiters, queue_size>>
    BY <1>9 DEF Release
  <2>5. Consistent(value + 1, waiters', sts, queue_size', current_active')
    <3>1. Deque(waiters', sts)
      BY <2>2, <2>4 DEF Deque
    <3> QED
      BY <1>0, <2>2, <2>3, <2>4, <3>1 DEF Consistent
  <2>6. /\ Consistent(value', waiters', st', queue_size', current_active')
        /\ StateSet(st', Queued) = StateSet(sts, Queued)
    BY <1>9, <2>4, <2>5, WakeUpKeeps DEF Release
  <2> HIDE DEF sts
  <2> QED
    BY <2>2, <2>4, <2>6 DEF GateInv, QueueSlack
<1> QED
  BY <1>1, <1>2, <1>3, <1>4, <1>5, <1>6, <1>7, <1>8, <1>9 DEF Step, ResumeStep

-----------------------------------------------------------------------------
(* Waking: nobody is forgotten, and nobody is passed over.                 *)

\* After _wake_up_next some request has a grant to resume from, or none waits.
LEMMA WakeUpLeavesNone ==
  ASSUME NEW sts \in [Requests -> RequestState], NEW ws, Deque(ws, sts),
         NEW val, WakeUpNext(ws, sts, val)
  PROVE  \/ \A q \in Requests : st'[q] # "waiting"
         \/ \E q \in Requests : st'[q] = "granted"
<1>1. CASE (\A i \in DOMAIN ws : sts[ws[i]] # "waiting") /\ st' = sts
  <2>1. ASSUME NEW q \in Requests, sts[q] = "waiting" PROVE FALSE
    <3>1. q \in {ws[i] : i \in DOMAIN ws}
      BY <2>1, StateKinds DEF Deque, StateSet
    <3> QED
      BY <1>1, <2>1, <3>1
  <2> QED
    BY <1>1, <2>1
<1>2. ASSUME NEW i \in DOMAIN ws, st' = [sts EXCEPT ![ws[i]] = "granted"]
      PROVE  \E q \in Requests : st'[q] = "granted"
  <2>1. ws[i] \in Requests
    BY DEF Deque
  <2> QED
    BY <1>2, <2>1
<1> QED
  BY <1>1, <1>2 DEF WakeUpNext

\* _wake_up_next grants the permit to the first in the deque that waits.
LEMMA WakeUpInOrder ==
  ASSUME NEW sts \in [Requests -> RequestState], NEW ws, Deque(ws, sts),
         NEW val, WakeUpNext(ws, sts, val),
         NEW i \in DOMAIN ws, NEW j \in DOMAIN ws, i < j,
         sts[ws[j]] = "waiting", st'[ws[j]] = "granted"
  PROVE  sts[ws[i]] # "waiting"
<1>1. CASE st' = sts
  BY <1>1
<1>2. ASSUME NEW k \in DOMAIN ws, FirstPending(ws, sts, k),
             st' = [sts EXCEPT ![ws[k]] = "granted"]
      PROVE  sts[ws[i]] # "waiting"
  <2>1. ws[j] \in Requests /\ ws[k] \in Requests /\ DOMAIN ws = 1..Len(ws)
    BY DEF Deque
  <2>2. ws[j] = ws[k]
    BY <1>2, <2>1
  <2>3. j = k
    BY <2>2 DEF Deque
  <2>4. i \in 1..(k - 1)
    BY <2>1, <2>3, LenProperties DEF Deque
  <2> QED
    BY <1>2, <2>4 DEF FirstPending
<1> QED
  BY <1>1, <1>2 DEF WakeUpNext

\* NoOvertaking for one step.
Overtakes ==
  \/ \E i, j \in DOMAIN waiters :
       /\ i < j
       /\ st[waiters[j]] = "waiting"
       /\ st'[waiters[j]] = "granted"
       /\ st[waiters[i]] = "waiting"
  \/ /\ \E r \in Requests : st[r] = "idle" /\ st'[r] = "active"
     /\ InState({"waiting"}) # {}

\* A task that leaves the semaphore and passes a permit on keeps the order of
\* those behind it.
LEMMA LeavingKeepsOrder ==
  ASSUME GateInv, NEW r \in Requests, st[r] \in {"granted", "expired"},
         LeaveDeque(r), NEW s \in {"active", "shed"},
         NEW sts, Moves(st, r, s, sts), NEW val \in Nat \ {0},
         st' = sts \/ WakeUpNext(waiters', sts, val)
  PROVE  ~Overtakes
<1>1. /\ st[r] \in Queued
      /\ s \in RequestState
      /\ s \notin Queued
      /\ st[r] # "waiting" /\ st[r] # "idle"
  BY StateKinds
<1>2. /\ sts \in [Requests -> RequestState]
      /\ sts[r] = s
      /\ \A q \in Requests : q # r => sts[q] = st[q]
  BY <1>1, GateTypes, MoveType
<1>3. Deque(waiters', sts)
  BY <1>1, GateTypes, LeaveDequeWith
<1>4. \A q \in Requests :
        st'[q] = sts[q] \/ (sts[q] = "waiting" /\ st'[q] = "granted")
  BY <1>2, <1>3, WakeUpEffect
<1>5. ASSUME NEW i \in DOMAIN waiters, NEW j \in DOMAIN waiters, i < j,
             st[waiters[j]] = "waiting", st'[waiters[j]] = "granted"
      PROVE  st[waiters[i]] # "waiting"
  <2>1. waiters[i] \in Requests /\ waiters[j] \in Requests
    BY GateTypes
  <2>2. waiters[j] # r
    BY <1>1, <1>5
  <2>3. CASE waiters[i] = r
    BY <1>1, <2>3
  <2>4. CASE waiters[i] # r
    <3>1. waiters \in Seq(Requests) /\ WaitersAreQueued
      BY GateTypes DEF Deque, WaitersAreQueued, InState, StateSet
    <3>2. PICK k \in DOMAIN waiters', l \in DOMAIN waiters' :
            k < l /\ waiters'[k] = waiters[i] /\ waiters'[l] = waiters[j]
      BY <1>5, <2>2, <2>4, <3>1, LeaveDequeProperties
    <3>3. sts[waiters'[l]] = "waiting" /\ st'[waiters'[l]] = "granted"
      BY <1>2, <1>5, <2>1, <2>2, <3>2
    <3>4. st' # sts
      BY <3>3
    <3>5. sts[waiters'[k]] # "waiting"
      BY <1>2, <1>3, <3>2, <3>3, <3>4, WakeUpInOrder
    <3> QED
      BY <1>2, <2>1, <2>4, <3>2, <3>5
  <2> QED
    BY <2>3, <2>4
<1>6. ASSUME NEW q \in Requests, st[q] = "idle", st'[q] = "active"
      PROVE  FALSE
  BY <1>1, <1>2, <1>4, <1>6
<1> QED
  BY <1>5, <1>6 DEF Overtakes

\* No step of the controller lets a request overtake another.
LEMMA StepKeepsOrder ==
  ASSUME GateInv, NEW r \in Requests, Step(r)
  PROVE  ~Overtakes
<1> USE GateTypes
<1>1. CASE Reject(r) \/ Wait(r) \/ TimerFires(r) \/ ResumeCancelled(r) \/ Answer503(r)
  <2>1. \A q \in Requests :
          /\ st[q] = "waiting" => st'[q] # "granted"
          /\ st[q] = "idle" => st'[q] # "active"
    BY <1>1 DEF Reject, Wait, TimerFires, ResumeCancelled, Answer503
  <2>2. \A i \in DOMAIN waiters : waiters[i] \in Requests
    OBVIOUS
  <2> QED
    BY <2>1, <2>2 DEF Overtakes
<1>2. CASE TakeSlot(r)
  <2>1. \A i \in DOMAIN waiters : st[waiters[i]] = "cancelled"
    BY <1>2 DEF TakeSlot, Locked
  <2>2. ASSUME NEW q \in Requests, st[q] = "waiting" PROVE FALSE
    <3>1. q \in {waiters[i] : i \in DOMAIN waiters}
      BY <2>2, StateKinds DEF Deque, StateSet
    <3> QED
      BY <2>1, <2>2, <3>1
  <2> QED
    BY <2>1, <2>2 DEF Overtakes, InState
<1>3. CASE Resume(r)
  <2> DEFINE sts == [st EXCEPT ![r] = "active"]
  <2>1. Moves(st, r, "active", sts)
    BY DEF Moves
  <2>2. /\ st[r] \in {"granted", "expired"}
        /\ LeaveDeque(r)
        /\ st' = sts \/ (value > 0 /\ WakeUpNext(waiters', sts, value))
    BY <1>3 DEF Resume
  <2> HIDE DEF sts
  <2>3. CASE value > 0
    BY <2>1, <2>2, <2>3, LeavingKeepsOrder
  <2>4. CASE st' = sts
    <3>1. 1 \in Nat \ {0}
      OBVIOUS
    <3> QED
      BY <2>1, <2>2, <2>4, <3>1, LeavingKeepsOrder
  <2> QED
    BY <2>2, <2>3, <2>4
<1>4. CASE ResumeExpired(r)
  <2> DEFINE sts == [st EXCEPT ![r] = "shed"]
  <2>1. Moves(st, r, "shed", sts)
    BY DEF Moves
  <2>2. /\ st[r] \in {"granted", "expired"}
        /\ LeaveDeque(r)
        /\ WakeUpNext(waiters', sts, value + 1)
    BY <1>4 DEF ResumeExpired
  <2>3. value + 1 \in Nat \ {0}
    OBVIOUS
  <2> HIDE DEF sts
  <2> QED
    BY <2>1, <2>2, <2>3, LeavingKeepsOrder
<1>5. CASE Release(r)
  <2> DEFINE sts == [st EXCEPT ![r] = "idle"]
  <2>1. /\ Moves(st, r, "idle", sts)
        /\ st[r] = "active"
        /\ "idle" \in RequestState
        /\ WakeUpNext(waiters, sts, value + 1)
        /\ value + 1 \in Nat \ {0}
    BY <1>5, StateKinds DEF Moves, Release
  <2> HIDE DEF sts
  <2>2. /\ sts \in [Requests -> RequestState]
        /\ sts[r] = "idle"
        /\ \A q \in Requests : q # r => sts[q] = st[q]
    BY <2>1, MoveType
  <2>3. Deque(waiters, sts)
    <3>1. "idle" \notin Queued /\ st[r] \notin Queued
      BY <2>1, StateKinds
    <3>2. StateSet(sts, Queued) = StateSet(st, Queued)
      BY <2>1, <3>1, MoveCount
    <3> QED
      BY <3>2 DEF Deque
  <2>4. \A q \in Requests :
          st'[q] = sts[q] \/ (sts[q] = "waiting" /\ st'[q] = "granted")
    BY <2>1, <2>2, <2>3, WakeUpEffect
  <2>5. \A q \in Requests : st[q] = "waiting" <=> sts[q] = "waiting"
    BY <2>1, <2>2
  <2>6. ASSUME NEW i \in DOMAIN waiters, NEW j \in DOMAIN waiters, i < j,
               st[waiters[j]] = "waiting", st'[waiters[j]] = "granted"
        PROVE  st[waiters[i]] # "waiting"
    <3>1. waiters[i] \in Requests /\ waiters[j] \in Requests
      OBVIOUS
    <3> QED
      BY <2>1, <2>2, <2>3, <2>5, <2>6, <3>1, WakeUpInOrder
  <2>7. ASSUME NEW q \in Requests, st[q] = "idle", st'[q] = "active"
        PROVE  FALSE
    BY <2>1, <2>2, <2>4, <2>7
  <2> QED
    BY <2>6, <2>7 DEF Overtakes
<1> QED
  BY <1>1, <1>2, <1>3, <1>4, <1>5 DEF Step, ResumeStep

\* NoLostWakeup, request by request.
LEMMA LostWakeup ==
  ASSUME NEW sts
  PROVE  (StateSet(sts, {"waiting"}) # {} => StateSet(sts, {"granted", "expired"}) # {})
         <=> \/ \A q \in Requests : sts[q] # "waiting"
             \/ \E q \in Requests : sts[q] \in {"granted", "expired"}
BY DEF StateSet

\* No step of the controller leaves a permit free beside a waiter nobody wakes.
LEMMA StepWakes ==
  ASSUME GateInv, NoLostWakeup, NEW r \in Requests, Step(r)
  PROVE  NoLostWakeup'
<1> DEFINE Awake(sts) == \/ \A q \in Requests : sts[q] # "waiting"
                         \/ \E q \in Requests : sts[q] \in {"granted", "expired"}
<1>1. value > 0 => Awake(st)
  BY LostWakeup DEF NoLostWakeup, InState, StateSet
<1> SUFFICES ASSUME value' > 0 PROVE Awake(st')
  <2>1. Awake(st') => (StateSet(st', {"waiting"}) # {} =>
                         StateSet(st', {"granted", "expired"}) # {})
    BY LostWakeup
  <2> QED
    BY <2>1 DEF NoLostWakeup, InState, StateSet
<1> USE GateTypes
<1>2. CASE Reject(r) \/ Answer503(r) \/ ResumeCancelled(r) \/ TimerFires(r)
  <2>1. Awake(st)
    BY <1>1, <1>2 DEF Reject, Answer503, ResumeCancelled, TimerFires
  <2>2. \A q \in Requests :
          /\ st[q] \in {"granted", "expired"} => st'[q] \in {"granted", "expired"}
          /\ st[q] # "waiting" => st'[q] # "waiting"
    BY <1>2 DEF Reject, Answer503, ResumeCancelled, TimerFires
  <2> QED
    BY <2>1, <2>2
<1>3. CASE TakeSlot(r)
  <2>1. \A i \in DOMAIN waiters : st[waiters[i]] = "cancelled"
    BY <1>3 DEF TakeSlot, Locked
  <2>2. ASSUME NEW q \in Requests, st[q] = "waiting" PROVE FALSE
    <3>1. q \in {waiters[i] : i \in DOMAIN waiters}
      BY <2>2, StateKinds DEF Deque, StateSet
    <3> QED
      BY <2>1, <2>2, <3>1
  <2> QED
    BY <1>3, <2>2 DEF TakeSlot
<1>4. CASE Wait(r)
  <2>1. value > 0
    BY <1>4 DEF Wait
  <2>2. PICK i \in DOMAIN waiters : st[waiters[i]] # "cancelled"
    BY <1>4, <2>1 DEF Wait, Locked
  <2>3. waiters[i] \in Requests /\ st[waiters[i]] \in Queued
    BY DEF Deque, StateSet
  <2>4. \E q \in Requests : st[q] \in {"granted", "expired"}
    BY <1>1, <2>1, <2>2, <2>3, StateKinds
  <2>5. \A q \in Requests :
          st[q] \in {"granted", "expired"} => st'[q] \in {"granted", "expired"}
    BY <1>4 DEF Wait
  <2> QED
    BY <2>4, <2>5
<1>5. CASE Resume(r)
  <2> DEFINE sts == [st EXCEPT ![r] = "active"]
  <2>1. /\ st[r] \in Queued
        /\ LeaveDeque(r)
        /\ Moves(st, r, "active", sts)
        /\ "active" \in RequestState /\ "active" \notin Queued
    BY <1>5, StateKinds DEF Resume, Moves
  <2>2. WakeUpNext(waiters', sts, value)
    BY <1>5 DEF Resume
  <2> HIDE DEF sts
  <2>3. Deque(waiters', sts) /\ sts \in [Requests -> RequestState]
    BY <2>1, LeaveDequeWith, MoveType
  <2> QED
    BY <2>2, <2>3, WakeUpLeavesNone
<1>6. CASE ResumeExpired(r)
  <2> DEFINE sts == [st EXCEPT ![r] = "shed"]
  <2>1. /\ st[r] \in Queued
        /\ LeaveDeque(r)
        /\ Moves(st, r, "shed", sts)
        /\ "shed" \in RequestState /\ "shed" \notin Queued
    BY <1>6, StateKinds DEF ResumeExpired, Moves
  <2>2. WakeUpNext(waiters', sts, value + 1)
    BY <1>6 DEF ResumeExpired
  <2> HIDE DEF sts
  <2>3. Deque(waiters', sts) /\ sts \in [Requests -> RequestState]
    BY <2>1, LeaveDequeWith, MoveType
  <2> QED
    BY <2>2, <2>3, WakeUpLeavesNone
<1>7. CASE Release(r)
  <2> DEFINE sts == [st EXCEPT ![r] = "idle"]
  <2>1. /\ st[r] = "active"
        /\ Moves(st, r, "idle", sts)
        /\ "idle" \in RequestState
        /\ "idle" \notin Queued /\ "active" \notin Queued
    BY <1>7, StateKinds DEF Release, Moves
  <2>2. WakeUpNext(waiters, sts, value + 1)
    BY <1>7 DEF Release
  <2> HIDE DEF sts
  <2>3. sts \in [Requests -> RequestState]
    BY <2>1, MoveType
  <2>4. StateSet(sts, Queued) = StateSet(st, Queued)
    BY <2>1, MoveCount
  <2>5. Deque(waiters, sts)
    BY <2>4 DEF Deque
  <2> QED
    BY <2>2, <2>3, <2>5, WakeUpLeavesNone
<1> QED
  BY <1>2, <1>3, <1>4, <1>5, <1>6, <1>7 DEF Step, ResumeStep

-----------------------------------------------------------------------------
(* The theorems.                                                           *)

\* The invariants of the controller, in one inductive formula.
GateInvExact == GateInv /\ QueueSlack = 0 /\ NoLostWakeup

LEMMA InitGate ==
  ASSUME Init
  PROVE  GateInvExact
<1>1. /\ st \in [Requests -> RequestState]
      /\ value = MaxConcurrent
      /\ queue_size = 0
      /\ current_active = 0
      /\ waiters \in Seq(Requests)
      /\ DOMAIN waiters = {}
  BY StateKinds DEF Init
<1>2. /\ StateSet(st, Holding) = {}
      /\ StateSet(st, Queued) = {}
      /\ StateSet(st, {"active"}) = {}
      /\ InState({"waiting"}) = {}
  BY StateKinds DEF Init, StateSet, InState
<1>3. /\ Cardinality(StateSet(st, Holding)) = 0
      /\ Cardinality(StateSet(st, Queued)) = 0
      /\ Cardinality(StateSet(st, {"active"})) = 0
  BY <1>2, FS_EmptySet
<1>4. Deque(waiters, st)
  BY <1>1, <1>2 DEF Deque
<1>5. GateInv
  BY <1>1, <1>3, <1>4 DEF GateInv, Consistent
<1>6. QueueSlack = 0
  BY <1>1, <1>3 DEF QueueSlack
<1> QED
  BY <1>2, <1>5, <1>6 DEF GateInvExact, NoLostWakeup

LEMMA NextGate ==
  ASSUME GateInvExact, [Next]_vars
  PROVE  GateInvExact'
<1>1. CASE Next
  BY <1>1, StepGate, StepWakes DEF Next, GateInvExact
<1>2. CASE UNCHANGED vars
  BY <1>2 DEF vars, GateInvExact, GateInv, Consistent, Deque, StateSet, QueueSlack,
              NoLostWakeup, InState
<1> QED
  BY <1>1, <1>2

LEMMA GateInvariant == Spec => []GateInvExact
BY InitGate, NextGate, PTL DEF Spec

\* What the invariant says, in the properties of Backpressure.
LEMMA GateInvImplies ==
  ASSUME GateInvExact
  PROVE  /\ TypeOK
         /\ WaitersAreQueued
         /\ PermitsConserved
         /\ CountersExact
<1>1. \A states : InState(states) = StateSet(st, states)
  BY DEF InState, StateSet
<1>2. GateInv /\ queue_size - Cardinality(StateSet(st, Queued)) = 0
  BY DEF GateInvExact, QueueSlack
<1>3. queue_size = Cardinality(StateSet(st, Queued))
  BY <1>2, GateTypes
<1> QED
  BY <1>1, <1>2, <1>3, GateTypes
  DEF GateInv, Consistent, Deque, TypeOK, WaitersAreQueued, PermitsConserved,
      CountersExact, Holding

\* Every variable keeps its type: no counter of the controller goes below 0.
THEOREM TypeCorrect == Spec => []TypeOK
BY GateInvariant, GateInvImplies, PTL

\* The deque of the semaphore holds exactly the requests suspended in it, each
\* once, whatever timers fire.
THEOREM WaitersQueued == Spec => []WaitersAreQueued
BY GateInvariant, GateInvImplies, PTL

\* No permit is lost or made up when a timer races a release.
THEOREM PermitsAreConserved == Spec => []PermitsConserved
BY GateInvariant, GateInvImplies, PTL

\* queue_size is the number of requests suspended in acquire, at most its bound, and
\* current_active the number of requests that hold a slot.
THEOREM CountersAreExact == Spec => []CountersExact
BY GateInvariant, GateInvImplies, PTL

\* No permit stays free beside a waiter that nobody is going to wake.
THEOREM NoWakeupIsLost == Spec => []NoLostWakeup
BY GateInvariant, PTL DEF GateInvExact

\* Permits are handed out first come, first served: no release, timer or arrival
\* lets a request pass one that waits before it.
THEOREM PermitsInOrder == Spec => NoOvertaking
<1>1. ASSUME GateInvExact, [Next]_vars
      PROVE  [/\ \A i, j \in DOMAIN waiters :
                   (i < j /\ st[waiters[j]] = "waiting" /\ st'[waiters[j]] = "granted") =>
                     st[waiters[i]] # "waiting"
              /\ \A r \in Requests : st[r] = "idle" /\ st'[r] = "active" =>
                   InState({"waiting"}) = {}]_vars
  <2>1. CASE Next
    <3>1. ~Overtakes
      BY <1>1, <2>1, StepKeepsOrder DEF Next, GateInvExact
    <3> QED
      BY <3>1 DEF Overtakes
  <2>2. CASE UNCHANGED vars
    BY <2>2
  <2> QED
    BY <1>1, <2>1, <2>2
<1> QED
  BY <1>1, GateInvariant, PTL DEF Spec, NoOvertaking

\* The slots in use: never more than the permits, fewer while one is free or has
\* been granted to a request that has not resumed.
LEMMA SlotsInUse ==
  ASSUME GateInv
  PROVE  /\ Cardinality(StateSet(st, {"active"})) \in Nat
         /\ value > 0 => Cardinality(StateSet(st, {"active"})) < MaxConcurrent
         /\ \A r \in Requests : st[r] \in {"granted", "expired"} =>
              Cardinality(StateSet(st, {"active"})) < MaxConcurrent
<1> DEFINE active == StateSet(st, {"active"})
           holding == StateSet(st, Holding)
<1>1. /\ IsFiniteSet(holding)
      /\ Cardinality(holding) \in Nat
      /\ IsFiniteSet(active)
      /\ Cardinality(active) \in Nat
  BY StateSetFinite
<1>2. active \subseteq holding
  BY StateKinds DEF StateSet
<1>3. value + Cardinality(holding) = MaxConcurrent /\ value \in Nat
  BY DEF GateInv, Consistent
<1>4. Cardinality(active) <= Cardinality(holding)
  BY <1>1, <1>2, FS_Subset
<1>5. ASSUME NEW r \in Requests, st[r] \in {"granted", "expired"}
      PROVE  Cardinality(active) < Cardinality(holding)
  <2>1. r \in holding /\ r \notin active
    BY <1>5, StateKinds DEF StateSet
  <2> HIDE DEF active, holding
  <2>2. active # holding
    BY <2>1
  <2> QED
    BY <1>1, <1>2, <2>2, FS_Subset
<1> QED
  BY <1>1, <1>3, <1>4, <1>5

\* AdmissionControl counts as Backpressure does.
LEMMA SameCardinality ==
  ASSUME NEW S
  PROVE  Admission!Cardinality(S) = Cardinality(S)
BY DEF Admission!Cardinality, Cardinality

\* A step of the controller is a step of admission control, or none.
LEMMA StepAdmission ==
  ASSUME GateInvExact, NEW r \in Requests, Step(r)
  PROVE  Admission!Next \/ UNCHANGED Admission!vars
<1> DEFINE Q == StateSet(st, Queued)
           A == StateSet(st, {"active"})
           Q2 == StateSet(st', Queued)
           A2 == StateSet(st', {"active"})
<1>0. /\ value \in Nat
      /\ queue_size \in Nat
      /\ st \in [Requests -> RequestState]
      /\ Deque(waiters, st)
  BY GateTypes DEF GateInvExact
<1>1. /\ Q = InState(Queued) /\ A = InState({"active"})
      /\ Q2 = InState(Queued)' /\ A2 = InState({"active"})'
  BY DEF InState, StateSet
<1> HIDE DEF Q, A, Q2, A2
<1>2. /\ Q2 = Q /\ A2 = A => UNCHANGED Admission!vars
      /\ r \notin Q \cup A /\ Cardinality(A) < MaxConcurrent
           /\ A2 = A \cup {r} /\ Q2 = Q => Admission!Next
      /\ r \notin Q \cup A /\ Cardinality(Q) < MaxQueueSize
           /\ Q2 = Q \cup {r} /\ A2 = A => Admission!Next
      /\ r \in Q /\ Cardinality(A) < MaxConcurrent
           /\ Q2 = Q \ {r} /\ A2 = A \cup {r} => Admission!Next
      /\ r \in Q /\ Q2 = Q \ {r} /\ A2 = A => Admission!Next
      /\ r \in A /\ A2 = A \ {r} /\ Q2 = Q => Admission!Next
  <2>1. Q2 = Q /\ A2 = A => UNCHANGED Admission!vars
    BY <1>1 DEF Admission!vars
  <2>2. r \notin Q \cup A /\ Cardinality(A) < MaxConcurrent
          /\ A2 = A \cup {r} /\ Q2 = Q => Admission!RunAtOnce(r)
    BY <1>1, SameCardinality DEF Admission!RunAtOnce, Admission!Outside
  <2>3. r \notin Q \cup A /\ Cardinality(Q) < MaxQueueSize
          /\ Q2 = Q \cup {r} /\ A2 = A => Admission!Queue(r)
    BY <1>1, SameCardinality DEF Admission!Queue, Admission!Outside
  <2>4. r \in Q /\ Cardinality(A) < MaxConcurrent
          /\ Q2 = Q \ {r} /\ A2 = A \cup {r} => Admission!Run(r)
    BY <1>1, SameCardinality DEF Admission!Run
  <2>5. r \in Q /\ Q2 = Q \ {r} /\ A2 = A => Admission!GiveUp(r)
    BY <1>1 DEF Admission!GiveUp
  <2>6. r \in A /\ A2 = A \ {r} /\ Q2 = Q => Admission!Leave(r)
    BY <1>1 DEF Admission!Leave
  <2> QED
    BY <2>1, <2>2, <2>3, <2>4, <2>5, <2>6 DEF Admission!Next
<1>3. /\ r \in Q <=> st[r] \in Queued
      /\ r \in A <=> st[r] = "active"
  BY DEF StateSet, Q, A
<1>4. GateInv /\ queue_size = Cardinality(Q)
  <2>1. Cardinality(Q) \in Nat
    BY StateSetFinite DEF Q
  <2> QED
    BY <1>0, <2>1 DEF GateInvExact, QueueSlack, Q
<1>5. ASSUME NEW s \in RequestState, NEW sts, Moves(st, r, s, sts)
      PROVE  /\ (s \in Queued <=> st[r] \in Queued) => StateSet(sts, Queued) = Q
             /\ s \in Queued /\ st[r] \notin Queued => StateSet(sts, Queued) = Q \cup {r}
             /\ s \notin Queued /\ st[r] \in Queued => StateSet(sts, Queued) = Q \ {r}
             /\ (s = "active" <=> st[r] = "active") => StateSet(sts, {"active"}) = A
             /\ s = "active" /\ st[r] # "active" =>
                  StateSet(sts, {"active"}) = A \cup {r}
             /\ s # "active" /\ st[r] = "active" =>
                  StateSet(sts, {"active"}) = A \ {r}
  <2>1. /\ s \in {"active"} <=> s = "active"
        /\ st[r] \in {"active"} <=> st[r] = "active"
    OBVIOUS
  <2>2. /\ (s \in Queued <=> st[r] \in Queued) => StateSet(sts, Queued) = Q
        /\ s \in Queued /\ st[r] \notin Queued => StateSet(sts, Queued) = Q \cup {r}
        /\ s \notin Queued /\ st[r] \in Queued => StateSet(sts, Queued) = Q \ {r}
    BY <1>5, <1>0, MoveCount DEF Q
  <2>3. /\ (s = "active" <=> st[r] = "active") => StateSet(sts, {"active"}) = A
        /\ s = "active" /\ st[r] # "active" => StateSet(sts, {"active"}) = A \cup {r}
        /\ s # "active" /\ st[r] = "active" => StateSet(sts, {"active"}) = A \ {r}
    BY <1>5, <2>1, <1>0, MoveCount DEF A
  <2> QED
    BY <2>2, <2>3
<1>6. CASE Reject(r)
  <2>1. Moves(st, r, "shed", st') /\ st[r] = "idle"
    BY <1>6 DEF Reject, Moves
  <2>2. Q2 = Q /\ A2 = A
    BY <1>5, <2>1, StateKinds DEF Q2, A2
  <2> QED
    BY <1>2, <2>2
<1>7. CASE TakeSlot(r)
  <2>1. Moves(st, r, "active", st') /\ st[r] = "idle" /\ value > 0
    BY <1>0, <1>7 DEF TakeSlot, Locked, Moves
  <2>2. A2 = A \cup {r} /\ Q2 = Q
    BY <1>5, <2>1, StateKinds DEF Q2, A2
  <2>3. Cardinality(A) < MaxConcurrent
    BY <1>4, <2>1, SlotsInUse DEF A
  <2>4. r \notin Q \cup A
    BY <1>3, <2>1, StateKinds
  <2> QED
    BY <1>2, <2>2, <2>3, <2>4
<1>8. CASE Wait(r)
  <2>1. Moves(st, r, "waiting", st') /\ st[r] = "idle" /\ queue_size < MaxQueueSize
    BY <1>0, <1>8 DEF Wait, QueueFull, Moves
  <2>2. Q2 = Q \cup {r} /\ A2 = A
    BY <1>5, <2>1, StateKinds DEF Q2, A2
  <2>3. r \notin Q \cup A
    BY <1>3, <2>1, StateKinds
  <2> QED
    BY <1>2, <1>4, <2>1, <2>2, <2>3
<1>9. CASE TimerFires(r)
  <2>1. PICK s \in {"cancelled", "expired"} : Moves(st, r, s, st')
    BY <1>0, <1>9 DEF TimerFires, Moves
  <2>2. st[r] \in {"waiting", "granted"}
    BY <1>0, <1>9 DEF TimerFires
  <2>3. Q2 = Q /\ A2 = A
    BY <1>5, <2>1, <2>2, StateKinds DEF Q2, A2
  <2> QED
    BY <1>2, <2>3
<1>10. CASE Resume(r)
  <2> DEFINE sts == [st EXCEPT ![r] = "active"]
  <2>1. /\ Moves(st, r, "active", sts) /\ st[r] = "granted" /\ LeaveDeque(r)
        /\ st' = sts \/ (value > 0 /\ WakeUpNext(waiters', sts, value))
    BY <1>0, <1>10 DEF Resume, Moves
  <2> HIDE DEF sts
  <2>2. StateSet(sts, {"active"}) = A \cup {r} /\ StateSet(sts, Queued) = Q \ {r}
    BY <1>5, <2>1, StateKinds
  <2>3. sts \in [Requests -> RequestState] /\ Deque(waiters', sts)
    BY <2>1, <1>0, StateKinds, MoveType, LeaveDequeWith
  <2>4. Q2 = Q \ {r} /\ A2 = A \cup {r}
    <3>1. CASE st' = sts
      BY <2>2, <3>1 DEF Q2, A2
    <3>2. CASE value > 0 /\ WakeUpNext(waiters', sts, value)
      BY <1>0, <2>2, <2>3, <3>2, WakeUpEffect DEF Q2, A2
    <3> QED
      BY <2>1, <3>1, <3>2
  <2>5. Cardinality(A) < MaxConcurrent
    BY <1>4, <2>1, SlotsInUse DEF A
  <2>6. r \in Q
    BY <1>3, <2>1, StateKinds
  <2> QED
    BY <1>2, <2>4, <2>5, <2>6
<1>11. CASE ResumeExpired(r)
  <2> DEFINE sts == [st EXCEPT ![r] = "shed"]
  <2>1. /\ Moves(st, r, "shed", sts) /\ st[r] = "expired" /\ LeaveDeque(r)
        /\ WakeUpNext(waiters', sts, value + 1) /\ value + 1 \in Nat \ {0}
    BY <1>0, <1>11 DEF ResumeExpired, Moves
  <2> HIDE DEF sts
  <2>2. StateSet(sts, {"active"}) = A /\ StateSet(sts, Queued) = Q \ {r}
    BY <1>5, <2>1, StateKinds
  <2>3. sts \in [Requests -> RequestState] /\ Deque(waiters', sts)
    BY <2>1, <1>0, StateKinds, MoveType, LeaveDequeWith
  <2>4. Q2 = Q \ {r} /\ A2 = A
    BY <2>1, <2>2, <2>3, WakeUpEffect DEF Q2, A2
  <2>5. r \in Q
    BY <1>3, <2>1, StateKinds
  <2> QED
    BY <1>2, <2>4, <2>5
<1>12. CASE ResumeCancelled(r)
  <2>1. Moves(st, r, "shed", st') /\ st[r] = "cancelled"
    BY <1>0, <1>12 DEF ResumeCancelled, Moves
  <2>2. Q2 = Q \ {r} /\ A2 = A /\ r \in Q
    BY <1>3, <1>5, <2>1, StateKinds DEF Q2, A2
  <2> QED
    BY <1>2, <2>2
<1>13. CASE Answer503(r)
  <2>1. Moves(st, r, "idle", st') /\ st[r] = "shed"
    BY <1>0, <1>13 DEF Answer503, Moves
  <2>2. Q2 = Q /\ A2 = A
    BY <1>5, <2>1, StateKinds DEF Q2, A2
  <2> QED
    BY <1>2, <2>2
<1>14. CASE Release(r)
  <2> DEFINE sts == [st EXCEPT ![r] = "idle"]
  <2>1. /\ Moves(st, r, "idle", sts) /\ st[r] = "active"
        /\ WakeUpNext(waiters, sts, value + 1) /\ value + 1 \in Nat \ {0}
    BY <1>0, <1>14 DEF Release, Moves
  <2> HIDE DEF sts
  <2>2. StateSet(sts, {"active"}) = A \ {r} /\ StateSet(sts, Queued) = Q
    BY <1>5, <2>1, StateKinds
  <2>3. sts \in [Requests -> RequestState] /\ Deque(waiters, sts)
    <3>1. sts \in [Requests -> RequestState]
      BY <1>0, <2>1, StateKinds, MoveType
    <3> QED
      BY <1>0, <2>2, <3>1 DEF Deque, Q
  <2>4. Q2 = Q /\ A2 = A \ {r}
    BY <2>1, <2>2, <2>3, WakeUpEffect DEF Q2, A2
  <2>5. r \in A
    BY <1>3, <2>1
  <2> QED
    BY <1>2, <2>4, <2>5
<1> QED
  BY <1>6, <1>7, <1>8, <1>9, <1>10, <1>11, <1>12, <1>13, <1>14 DEF Step, ResumeStep

\* The controller implements admission control: it never lets more run or wait
\* than it may, and a request that it refuses or that gives up never runs.
THEOREM ControllerImplementsAdmission == Spec => ImplementsAdmission
<1>1. Init => Admission!Init
  <2>1. ASSUME Init PROVE InState(Queued) = {} /\ InState({"active"}) = {}
    BY <2>1, StateKinds DEF Init, InState
  <2> QED
    BY <2>1 DEF Admission!Init
<1>2. ASSUME GateInvExact, [Next]_vars
      PROVE  [Admission!Next]_Admission!vars
  <2>1. CASE Next
    BY <1>2, <2>1, StepAdmission DEF Next
  <2>2. CASE UNCHANGED vars
    BY <2>2 DEF vars, Admission!vars, InState
  <2> QED
    BY <1>2, <2>1, <2>2
<1> QED
  BY <1>1, <1>2, GateInvariant, PTL DEF Spec, ImplementsAdmission, Admission!Spec

-----------------------------------------------------------------------------
(* For the modules that compose the controller with others.                *)

\* Nobody but r moves, except that a waiter may be granted a permit.
OthersStay(r) ==
  \A q \in Requests \ {r} :
    st'[q] = st[q] \/ (st[q] = "waiting" /\ st'[q] = "granted")

\* r moves from one of the states before to one of the states after.
Becomes(r, before, after) ==
  st[r] \in before /\ st'[r] \in after /\ OthersStay(r)

\* A request moves to state s, and a permit is passed on or not.
LEMMA MoveAndWake ==
  ASSUME st \in [Requests -> RequestState], NEW r \in Requests,
         NEW s \in RequestState, s # "waiting", NEW sts, Moves(st, r, s, sts),
         NEW ws, Deque(ws, sts), NEW val \in Nat \ {0},
         st' = sts \/ WakeUpNext(ws, sts, val)
  PROVE  OthersStay(r) /\ st'[r] = s
<1>1. /\ sts \in [Requests -> RequestState]
      /\ sts[r] = s
      /\ \A q \in Requests : q # r => sts[q] = st[q]
  BY MoveType
<1>2. \A q \in Requests :
        st'[q] = sts[q] \/ (sts[q] = "waiting" /\ st'[q] = "granted")
  BY <1>1, WakeUpEffect
<1> QED
  BY <1>1, <1>2 DEF OthersStay

\* What each step of r does to the states of the requests.
LEMMA StepStates ==
  ASSUME GateInv, NEW r \in Requests
  PROVE  /\ TakeSlot(r) => Becomes(r, {"idle"}, {"active"})
         /\ Wait(r) => Becomes(r, {"idle"}, {"waiting"})
         /\ Reject(r) => Becomes(r, {"idle"}, {"shed"})
         /\ TimerFires(r) => Becomes(r, {"waiting", "granted"}, {"cancelled", "expired"})
         /\ Resume(r) => Becomes(r, {"granted"}, {"active"})
         /\ ResumeExpired(r) => Becomes(r, {"expired"}, {"shed"})
         /\ ResumeCancelled(r) => Becomes(r, {"cancelled"}, {"shed"})
         /\ Answer503(r) => Becomes(r, {"shed"}, {"idle"})
         /\ Release(r) => Becomes(r, {"active"}, {"idle"})
<1>0. st \in [Requests -> RequestState] /\ Deque(waiters, st) /\ value \in Nat
  BY GateTypes
<1>1. /\ TakeSlot(r) => Becomes(r, {"idle"}, {"active"})
      /\ Wait(r) => Becomes(r, {"idle"}, {"waiting"})
      /\ Reject(r) => Becomes(r, {"idle"}, {"shed"})
      /\ TimerFires(r) => Becomes(r, {"waiting", "granted"}, {"cancelled", "expired"})
      /\ ResumeCancelled(r) => Becomes(r, {"cancelled"}, {"shed"})
      /\ Answer503(r) => Becomes(r, {"shed"}, {"idle"})
  BY <1>0 DEF Becomes, OthersStay, Reject, Wait, TakeSlot, TimerFires, Answer503,
    ResumeCancelled
<1>2. ASSUME Resume(r) PROVE Becomes(r, {"granted"}, {"active"})
  <2> DEFINE sts == [st EXCEPT ![r] = "active"]
  <2>1. /\ Moves(st, r, "active", sts) /\ st[r] = "granted" /\ LeaveDeque(r)
        /\ st' = sts \/ (value > 0 /\ WakeUpNext(waiters', sts, value))
    BY <1>2 DEF Resume, Moves
  <2>2. \E val \in Nat \ {0} : st' = sts \/ WakeUpNext(waiters', sts, val)
    <3>1. CASE st' = sts
      <4>1. 1 \in Nat \ {0}
        OBVIOUS
      <4> QED
        BY <3>1, <4>1
    <3>2. CASE value > 0 /\ WakeUpNext(waiters', sts, value)
      BY <1>0, <3>2
    <3> QED
      BY <2>1, <3>1, <3>2
  <2> HIDE DEF sts
  <2>3. Deque(waiters', sts)
    BY <1>0, <2>1, StateKinds, LeaveDequeWith
  <2>4. OthersStay(r) /\ st'[r] = "active"
    BY <1>0, <2>1, <2>2, <2>3, StateKinds, MoveAndWake
  <2> QED
    BY <2>1, <2>4 DEF Becomes
<1>3. ASSUME ResumeExpired(r) PROVE Becomes(r, {"expired"}, {"shed"})
  <2> DEFINE sts == [st EXCEPT ![r] = "shed"]
  <2>1. /\ Moves(st, r, "shed", sts) /\ st[r] = "expired" /\ LeaveDeque(r)
        /\ WakeUpNext(waiters', sts, value + 1) /\ value + 1 \in Nat \ {0}
    BY <1>0, <1>3 DEF ResumeExpired, Moves
  <2> HIDE DEF sts
  <2>2. Deque(waiters', sts)
    BY <1>0, <2>1, StateKinds, LeaveDequeWith
  <2>3. OthersStay(r) /\ st'[r] = "shed"
    BY <1>0, <2>1, <2>2, StateKinds, MoveAndWake
  <2> QED
    BY <2>1, <2>3 DEF Becomes
<1>4. ASSUME Release(r) PROVE Becomes(r, {"active"}, {"idle"})
  <2> DEFINE sts == [st EXCEPT ![r] = "idle"]
  <2>1. /\ Moves(st, r, "idle", sts) /\ st[r] = "active"
        /\ WakeUpNext(waiters, sts, value + 1) /\ value + 1 \in Nat \ {0}
    BY <1>0, <1>4 DEF Release, Moves
  <2> HIDE DEF sts
  <2>2. Deque(waiters, sts)
    <3>1. "idle" \notin Queued /\ st[r] \notin Queued
      BY <2>1, StateKinds
    <3>2. StateSet(sts, Queued) = StateSet(st, Queued)
      BY <1>0, <2>1, <3>1, MoveCount
    <3> QED
      BY <1>0, <3>2 DEF Deque
  <2>3. OthersStay(r) /\ st'[r] = "idle"
    BY <1>0, <2>1, <2>2, StateKinds, MoveAndWake
  <2> QED
    BY <2>1, <2>3 DEF Becomes
<1> QED
  BY <1>1, <1>2, <1>3, <1>4

\* A cancelled request leaves the semaphore, which passes on the permit it may
\* have, and queue_size is left as it is.
LEMMA LeaveUncounted ==
  ASSUME GateInv, NEW r \in Requests, st[r] \in {"expired", "cancelled"},
         LeaveDeque(r), NEW sts, Moves(st, r, "idle", sts),
         IF st[r] = "expired" THEN WakeUpNext(waiters', sts, value + 1)
                              ELSE st' = sts /\ UNCHANGED value,
         UNCHANGED <<queue_size, current_active>>
  PROVE  GateInv' /\ OthersStay(r) /\ st'[r] = "idle"
<1>0. st \in [Requests -> RequestState] /\ value \in Nat /\ current_active \in Nat
  BY GateTypes
<1>1. /\ st[r] \in Queued
      /\ st[r] \in Holding <=> st[r] = "expired"
      /\ "idle" \in RequestState \ Queued /\ "idle" \notin Holding
  BY StateKinds
<1>2. /\ sts \in [Requests -> RequestState]
      /\ sts[r] = "idle"
      /\ \A q \in Requests : q # r => sts[q] = st[q]
  BY <1>0, <1>1, MoveType
<1>3. current_active = current_active + (IF "idle" = "active" THEN 1 ELSE 0)
  BY <1>0
<1>4. CASE st[r] = "expired"
  <2>1. value + 1 \in Nat \ {0} /\ value + 1 > 0
    BY <1>0
  <2>2. Consistent(value + 1, waiters', sts, queue_size, current_active)
    <3>1. value + 1 = value + (IF st[r] \in Holding THEN 1 ELSE 0)
                            - (IF "idle" \in Holding THEN 1 ELSE 0)
      BY <1>0, <1>1, <1>4
    <3> QED
      BY <1>1, <1>3, <2>1, <3>1, LeaveSemaphore
  <2>3. Consistent(value', waiters', st', queue_size, current_active)
    BY <1>4, <2>1, <2>2, WakeUpKeeps
  <2>4. \A q \in Requests :
          st'[q] = sts[q] \/ (sts[q] = "waiting" /\ st'[q] = "granted")
    <3>1. Deque(waiters', sts)
      BY <2>2 DEF Consistent
    <3> QED
      BY <1>2, <1>4, <2>1, <3>1, WakeUpEffect
  <2> QED
    BY <1>2, <2>3, <2>4 DEF GateInv, OthersStay
<1>5. CASE st[r] # "expired"
  <2>1. value = value + (IF st[r] \in Holding THEN 1 ELSE 0)
                      - (IF "idle" \in Holding THEN 1 ELSE 0)
    BY <1>0, <1>1, <1>5
  <2>2. Consistent(value, waiters', sts, queue_size, current_active)
    BY <1>0, <1>1, <1>3, <2>1, LeaveSemaphore
  <2> QED
    BY <1>2, <1>5, <2>2 DEF GateInv, OthersStay
<1> QED
  BY <1>4, <1>5

\* All requests at once change their states, none of them for or from one that
\* is counted apart.
LEMMA AllMoveAside ==
  ASSUME GateInv, st' \in [Requests -> RequestState],
         \A q \in Requests :
           /\ st'[q] \in Holding <=> st[q] \in Holding
           /\ st'[q] \in Queued <=> st[q] \in Queued
           /\ st'[q] = "active" <=> st[q] = "active",
         UNCHANGED <<value, waiters, queue_size, current_active>>
  PROVE  GateInv'
<1>1. /\ StateSet(st', Holding) = StateSet(st, Holding)
      /\ StateSet(st', Queued) = StateSet(st, Queued)
      /\ StateSet(st', {"active"}) = StateSet(st, {"active"})
  BY DEF StateSet
<1>2. Deque(waiters', st')
  BY <1>1 DEF Deque, GateInv, Consistent
<1> QED
  BY <1>1, <1>2 DEF GateInv, Consistent

\* While requests are queued or hold a slot there is room for one more of them
\* exactly as acquire says, even if queue_size counts some that have left.
LEMMA RoomInside ==
  ASSUME GateInv, ~QueueFull
  PROVE  Cardinality(StateSet(st, Queued \cup {"active"})) < MaxConcurrent + MaxQueueSize
<1> DEFINE Q == StateSet(st, Queued)
           A == StateSet(st, {"active"})
<1>1. /\ IsFiniteSet(Q) /\ Cardinality(Q) \in Nat
      /\ IsFiniteSet(A) /\ Cardinality(A) \in Nat
  BY StateSetFinite
<1>2. StateSet(st, Queued \cup {"active"}) = Q \cup A
  BY DEF StateSet
<1>3. Cardinality(Q) < MaxQueueSize
  <2>1. Cardinality(Q) <= queue_size
    BY DEF GateInv, Consistent
  <2> QED
    BY <1>1, <2>1, GateTypes DEF QueueFull
<1>4. Cardinality(A) <= MaxConcurrent
  <2> DEFINE H == StateSet(st, Holding)
  <2>1. IsFiniteSet(H) /\ Cardinality(H) \in Nat
    BY StateSetFinite
  <2>2. A \subseteq H
    BY StateKinds DEF StateSet
  <2>3. value + Cardinality(H) = MaxConcurrent /\ value \in Nat
    BY DEF GateInv, Consistent
  <2>4. Cardinality(A) <= Cardinality(H)
    BY <2>1, <2>2, FS_Subset
  <2> HIDE DEF A, H
  <2> QED
    BY <1>1, <2>1, <2>3, <2>4
<1> HIDE DEF Q, A
<1>5. Cardinality(Q \cup A) <= Cardinality(Q) + Cardinality(A)
  <2>1. /\ IsFiniteSet(Q \cap A)
        /\ Cardinality(Q \cup A) = Cardinality(Q) + Cardinality(A) - Cardinality(Q \cap A)
    BY <1>1, FS_Union, FS_Intersection
  <2>2. Cardinality(Q \cap A) \in Nat
    BY <2>1, FS_CardinalityType
  <2> QED
    BY <1>1, <2>1, <2>2
<1>6. Cardinality(Q \cup A) \in Nat
  BY <1>1, FS_Union, FS_CardinalityType
<1>7. Cardinality(Q \cup A) < MaxConcurrent + MaxQueueSize
  BY <1>1, <1>3, <1>4, <1>5, <1>6
<1> QED
  BY <1>2, <1>7

=============================================================================
