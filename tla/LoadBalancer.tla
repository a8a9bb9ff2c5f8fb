---------------------------- MODULE LoadBalancer ----------------------------
(***************************************************************************)
(* ReverseProxy.handle of app/proxy.py: a request passes the backpressure  *)
(* controller, runs through _proxy, and gives its slot back on every way   *)
(* out.  It joins two specifications: ReverseProxy for what a handler does *)
(* with its slot, Backpressure for how it gets one.                        *)
(*                                                                         *)
(* The joints are where handle does not suspend: acquire returning True,   *)
(* the creation of the context and the start of _proxy are one step, and   *)
(* so are the return of _proxy and the release in the finally clause.      *)
(* Requests for the metrics path bypass both halves and are left out.      *)
(***************************************************************************)
EXTENDS ReverseProxy, Sequences

CONSTANTS
  MaxConcurrent,  \* backpressure.max_concurrent_requests
  MaxQueueSize    \* backpressure.max_queue_size

\* BackpressureAssumption, which an instance does not bring along.
ASSUME GateAssumption == MaxConcurrent \in Nat /\ MaxQueueSize \in Nat

VARIABLES
  value, waiters, st, queue_size, current_active  \* see Backpressure

gateVars == <<value, waiters, st, queue_size, current_active>>

Gate == INSTANCE Backpressure

HandleInit == Init /\ Gate!Init

Handled == {r \in Requests : req[r].phase # "done"}

\* Mutated: the request goes on although acquire returned False.
AcquiredOrShed(r) == Gate!TakeSlot(r) \/ Gate!Resume(r) \/ Gate!Reject(r)

\* acquire returns True: at once, or when the task of a waiter resumes.
Acquired(r) == Gate!TakeSlot(r) \/ Gate!Resume(r)

Enter(r) == Acquired(r) /\ Arrive(r)

\* Mutated: a retry gives the slot back while the handler goes on.
ReleaseOnRetry(r) ==
  IF r \in Handled' /\ req'[r].retry_count = req[r].retry_count
  THEN UNCHANGED gateVars
  ELSE Gate!Release(r)

\* Mutated: only handlers that had an attempt under way release their slot.
ReleaseAfterAttempts(r) ==
  IF r \in Handled' \/ req[r].on = NoBackend THEN UNCHANGED gateVars
  ELSE Gate!Release(r)

\* The finally clause of handle, in the step in which _proxy returns.
ReleaseIfDone(r) ==
  IF r \in Handled' THEN UNCHANGED gateVars ELSE Gate!Release(r)

\* The handler of r goes on inside _proxy.
Work(r) == Progress(r) /\ ReleaseIfDone(r)

\* Every other step of acquire, and the 503 "service overloaded".
Queueing(r) ==
  /\ \/ Gate!Reject(r)
     \/ Gate!Wait(r)
     \/ Gate!TimerFires(r)
     \/ Gate!ResumeExpired(r)
     \/ Gate!ResumeCancelled(r)
     \/ Gate!Answer503(r)
  /\ UNCHANGED vars

-----------------------------------------------------------------------------
(* Properties.                                                             *)

\* A handler runs inside _proxy exactly while it holds a slot: however it
\* ends, by an answer, a refusal, its last failed attempt or a cancellation,
\* it gives back one slot, and a request that was shed gives back none.
SlotPerHandler == \A r \in Requests : st[r] = "active" <=> r \in Handled

\* The attempts under way on all backends together never exceed
\* max_concurrent_requests, while requests wait, retry and time out.
BackendsShielded ==
  Cardinality({r \in Requests : req[r].on # NoBackend}) <= MaxConcurrent

=============================================================================
