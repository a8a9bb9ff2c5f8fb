---------------------------- MODULE Backpressure ----------------------------
(***************************************************************************)
(* BackpressureController of app/resilience/backpressure.py: a semaphore   *)
(* of max_concurrent_requests permits behind a bounded wait queue.         *)
(*                                                                         *)
(* The controller's lock is never held across a suspension, so a request   *)
(* suspends in acquire only inside the semaphore, and the interesting      *)
(* interleavings are those of asyncio.Semaphore and asyncio.wait_for of    *)
(* CPython 3.12, modelled here from how acquire uses them: a               *)
(* release grants its permit to the first waiter, whose task runs only     *)
(* later, and its timer may expire before, between or after.               *)
(*                                                                         *)
(* Tasks that are ready resume in any order, a superset of the order of    *)
(* the event loop.  rejected_total is only ever reported and left out.     *)
(***************************************************************************)
EXTENDS Naturals, Sequences, SequencesExt, FiniteSets

CONSTANTS
  Requests,
  MaxConcurrent,  \* backpressure.max_concurrent_requests
  MaxQueueSize    \* backpressure.max_queue_size

\* asyncio.Semaphore refuses a negative value; a negative queue size acts as 0.
ASSUME BackpressureAssumption ==
  /\ IsFiniteSet(Requests)
  /\ MaxConcurrent \in Nat
  /\ MaxQueueSize \in Nat

VARIABLES
  value,          \* Semaphore._value
  waiters,        \* Semaphore._waiters: the futures, named by their requests
  st,             \* where each request is, see RequestState
  queue_size,     \* _queue_size
  current_active  \* current_active

vars == <<value, waiters, st, queue_size, current_active>>

\* waiting: its future is pending.  granted: the future has a permit, the task
\* has not resumed.  expired: the timer cancelled the task in that window.
\* cancelled: the timer cancelled the pending future, the task has not resumed.
\* active: acquire returned True.  shed: it returned False, the 503 is due.
RequestState ==
  {"idle", "waiting", "granted", "expired", "cancelled", "active", "shed"}

Queued == {"waiting", "granted", "expired", "cancelled"}
InState(states) == {r \in Requests : st[r] \in states}

Init ==
  /\ value = MaxConcurrent
  /\ waiters = <<>>
  /\ st = [r \in Requests |-> "idle"]
  /\ queue_size = 0
  /\ current_active = 0

-----------------------------------------------------------------------------
(* The semaphore.                                                          *)

\* Mutated: only waiters are looked at.
LockedByWaiters == \E i \in DOMAIN waiters : st[waiters[i]] # "cancelled"

Locked == value = 0 \/ \E i \in DOMAIN waiters : st[waiters[i]] # "cancelled"

\* Mutated: any pending waiter will do.
AnyPending(ws, sts, i) == sts[ws[i]] = "waiting"

FirstPending(ws, sts, i) ==
  /\ sts[ws[i]] = "waiting"
  /\ \A j \in 1..(i - 1) : sts[ws[j]] # "waiting"

\* _wake_up_next, with waiters ws, request states sts and value val.
WakeUpNext(ws, sts, val) ==
  \/ /\ \A i \in DOMAIN ws : sts[ws[i]] # "waiting"
     /\ st' = sts
     /\ value' = val
  \/ \E i \in DOMAIN ws :
       /\ FirstPending(ws, sts, i)
       /\ st' = [sts EXCEPT ![ws[i]] = "granted"]
       /\ value' = val - 1

\* Mutated: the head of the deque leaves, whoever resumes.
LeaveDequeHead(r) == waiters # <<>> /\ waiters' = Tail(waiters)

\* self._waiters.remove(fut)
LeaveDeque(r) ==
  \E i \in DOMAIN waiters : waiters[i] = r /\ waiters' = RemoveAt(waiters, i)

-----------------------------------------------------------------------------
(* acquire.                                                                *)

\* Mutated: one too many.
QueueFullLate == queue_size > MaxQueueSize

QueueFull == queue_size >= MaxQueueSize

Reject(r) ==
  /\ st[r] = "idle"
  /\ QueueFull
  /\ st' = [st EXCEPT ![r] = "shed"]
  /\ UNCHANGED <<value, waiters, queue_size, current_active>>

\* Without suspending: queue_size goes up and down again.
TakeSlot(r) ==
  /\ st[r] = "idle"
  /\ ~QueueFull
  /\ ~Locked
  /\ value' = value - 1
  /\ st' = [st EXCEPT ![r] = "active"]
  /\ current_active' = current_active + 1
  /\ UNCHANGED <<waiters, queue_size>>

Wait(r) ==
  /\ st[r] = "idle"
  /\ ~QueueFull
  /\ Locked
  /\ waiters' = Append(waiters, r)
  /\ st' = [st EXCEPT ![r] = "waiting"]
  /\ queue_size' = queue_size + 1
  /\ UNCHANGED <<value, current_active>>

\* queue_timeout has passed: wait_for cancels the task, which reaches the
\* future only while that is pending.
TimerFires(r) ==
  /\ st[r] \in {"waiting", "granted"}
  /\ st' = [st EXCEPT ![r] = IF @ = "waiting" THEN "cancelled" ELSE "expired"]
  /\ UNCHANGED <<value, waiters, queue_size, current_active>>

\* The task of a granted request runs, and hands on a permit if one is free.
Resume(r) ==
  /\ st[r] = "granted"
  /\ LeaveDeque(r)
  /\ LET sts == [st EXCEPT ![r] = "active"] IN
       IF value > 0
       THEN WakeUpNext(waiters', sts, value)
       ELSE st' = sts /\ UNCHANGED value
  /\ queue_size' = queue_size - 1
  /\ current_active' = current_active + 1

\* Mutated: the permit is given back, and nobody is told.
ResumeExpiredSilently(r) ==
  /\ st[r] = "expired"
  /\ LeaveDeque(r)
  /\ st' = [st EXCEPT ![r] = "shed"]
  /\ value' = value + 1
  /\ queue_size' = queue_size - 1
  /\ UNCHANGED current_active

\* Mutated: the permit is lost.
ResumeExpiredKeepsPermit(r) ==
  /\ st[r] = "expired"
  /\ LeaveDeque(r)
  /\ st' = [st EXCEPT ![r] = "shed"]
  /\ queue_size' = queue_size - 1
  /\ UNCHANGED <<value, current_active>>

\* The task was cancelled after the grant: the permit goes on to the next.
ResumeExpired(r) ==
  /\ st[r] = "expired"
  /\ LeaveDeque(r)
  /\ WakeUpNext(waiters', [st EXCEPT ![r] = "shed"], value + 1)
  /\ queue_size' = queue_size - 1
  /\ UNCHANGED current_active

\* Mutated: the branch of the timeout forgets the queue.
ResumeCancelledStaysQueued(r) ==
  /\ st[r] = "cancelled"
  /\ LeaveDeque(r)
  /\ st' = [st EXCEPT ![r] = "shed"]
  /\ UNCHANGED <<value, queue_size, current_active>>

ResumeCancelled(r) ==
  /\ st[r] = "cancelled"
  /\ LeaveDeque(r)
  /\ st' = [st EXCEPT ![r] = "shed"]
  /\ queue_size' = queue_size - 1
  /\ UNCHANGED <<value, current_active>>

-----------------------------------------------------------------------------
(* The callers: handle of app/proxy.py answers 503 or releases the slot.   *)

Answer503(r) ==
  /\ st[r] = "shed"
  /\ st' = [st EXCEPT ![r] = "idle"]
  /\ UNCHANGED <<value, waiters, queue_size, current_active>>

Release(r) ==
  /\ st[r] = "active"
  /\ current_active' = IF current_active > 0 THEN current_active - 1 ELSE 0
  /\ WakeUpNext(waiters, [st EXCEPT ![r] = "idle"], value + 1)
  /\ UNCHANGED <<waiters, queue_size>>

\* The semaphore has handed r a decision and its task is ready to run.
ResumeStep(r) == Resume(r) \/ ResumeExpired(r) \/ ResumeCancelled(r)

Step(r) ==
  \/ Reject(r)
  \/ TakeSlot(r)
  \/ Wait(r)
  \/ TimerFires(r)
  \/ ResumeStep(r)
  \/ Answer503(r)
  \/ Release(r)

Next == \E r \in Requests : Step(r)

Spec == Init /\ [][Next]_vars

\* The event loop runs every ready task, and handlers end; timers may be late.
FairSpec ==
  Spec /\ \A r \in Requests : WF_vars(ResumeStep(r)) /\ WF_vars(Release(r))

-----------------------------------------------------------------------------
(* Properties.                                                             *)

\* Every variable has its type; in particular no counter goes below 0.
TypeOK ==
  /\ value \in Nat
  /\ waiters \in Seq(Requests)
  /\ st \in [Requests -> RequestState]
  /\ queue_size \in Nat
  /\ current_active \in Nat

\* The deque holds exactly the requests suspended in the semaphore, each once.
WaitersAreQueued ==
  /\ \A i, j \in DOMAIN waiters : waiters[i] = waiters[j] => i = j
  /\ {waiters[i] : i \in DOMAIN waiters} = InState(Queued)

\* Permits are neither lost nor made up: each is free, on its way to a waiter,
\* or held by an active request, also when a timer races a release.
PermitsConserved ==
  value + Cardinality(InState({"granted", "expired", "active"})) = MaxConcurrent

\* queue_size, by which requests are shed, is the number of requests suspended in
\* acquire and never exceeds its maximum; current_active is the number of requests
\* holding a slot, so that the floor in release is never needed.
CountersExact ==
  /\ queue_size = Cardinality(InState(Queued))
  /\ queue_size <= MaxQueueSize
  /\ current_active = Cardinality(InState({"active"}))

\* A permit is never left free beside a waiter nobody is going to wake.
NoLostWakeup ==
  value > 0 /\ InState({"waiting"}) # {} => InState({"granted", "expired"}) # {}

\* A request that obtains a permit leaves nobody waiting who came before it,
\* whether it is woken or takes the permit without waiting.
NoOvertaking ==
  [][/\ \A i, j \in DOMAIN waiters :
          (i < j /\ st[waiters[j]] = "waiting" /\ st'[waiters[j]] = "granted") =>
            st[waiters[i]] # "waiting"
     /\ \A r \in Requests : st[r] = "idle" /\ st'[r] = "active" =>
          InState({"waiting"}) = {}]_vars

\* Whoever waits is eventually served or shed, even if no timer ever fires, as
\* long as active requests end.
NoStarvation ==
  \A r \in Requests : st[r] = "waiting" ~> st[r] \in {"active", "shed"}

\* The controller implements admission control.
Admission == INSTANCE AdmissionControl WITH
  queued <- InState(Queued),
  running <- InState({"active"})

ImplementsAdmission == Admission!Spec

=============================================================================
