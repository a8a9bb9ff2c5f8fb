------------------------------ MODULE Lifecycle ------------------------------
(***************************************************************************)
(* The application from start to exit: LoadBalancerApp.start and stop of   *)
(* app/server.py, run of app/main.py, and the starts and stops of the      *)
(* health checker and the pool, around the requests of LoadBalancer.       *)
(*                                                                         *)
(* start and stop are one coroutine; stage is the await it has reached.    *)
(* Handlers, probes and timers go on meanwhile.  aiohttp's AppRunner and   *)
(* asyncio.run are external, modelled from how start, stop and main use    *)
(* them: cleanup lets the connections that are open start requests until   *)
(* it closes the idle ones, waits for the handlers that run, and cancels   *)
(* those still running when its timeout is over, without awaiting them.    *)
(*                                                                         *)
(* The metrics task reads and never writes what is modelled; of it only    *)
(* the await in stop remains.  The admin API is left to ReverseProxy.      *)
(***************************************************************************)
EXTENDS LoadBalancer

VARIABLES
  stage,     \* see Stage
  cancelled  \* the requests whose handler was cancelled and has not run since

lifecycleVars == <<vars, gateVars, stage, cancelled>>

\* starting: site.start binds the socket.  serving: run awaits the stop event.
\* stopping: stop awaits the metrics task.  unprobed: it awaits the checker's.
\* closing: the site is closed, its connections are not.  draining: cleanup
\* awaits the handlers.  releasing: pool.stop awaits the idle task.  stopped:
\* the session is closed and asyncio.run awaits what it has cancelled.
Stage == {"starting", "failed", "serving", "stopping", "unprobed", "closing",
          "draining", "releasing", "stopped", "exited"}

SessionClosed == stage \in {"stopped", "exited"}

\* Mutated: connections that are idle stay open until the handlers have ended.
AcceptingLate ==
  stage \in {"serving", "stopping", "unprobed", "closing", "draining"}

Accepting == stage \in {"serving", "stopping", "unprobed", "closing"}

Running == {r \in Requests : st[r] # "idle"}

\* pool.start and checker.start do not suspend: the first round may begin.
LifecycleInit ==
  /\ HandleInit
  /\ stage = "starting"
  /\ cancelled = {}

-----------------------------------------------------------------------------
(* Requests, probes and time.                                              *)

Handle(r) ==
  /\ r \notin cancelled
  /\ st[r] = "idle" => Accepting
  /\ Enter(r) \/ Work(r) \/ Queueing(r)
  /\ UNCHANGED <<stage, cancelled>>

\* A cancelled handler in _proxy: no except clause catches CancelledError, so
\* only the finally clauses run.  The failure is not recorded, and a HALF_OPEN
\* slot it holds is not given back.
AbandonAttempt(r) ==
  /\ r \in Handled
  /\ IF req[r].on = NoBackend
     THEN /\ req' = [req EXCEPT ![r] = NewRequest]
          /\ UNCHANGED <<backends, pool, trials>>
     ELSE Finish(r, req[r].on, Disconnect(backends[req[r].on]))
  /\ UNCHANGED <<registry, retired, probes>>
  /\ Gate!Release(r)

\* Mutated: a permit granted to a cancelled waiter is lost.
AbandonQueueKeepsPermit(r) ==
  /\ st[r] \in {"expired", "cancelled"}
  /\ Gate!LeaveDeque(r)
  /\ st' = [st EXCEPT ![r] = "idle"]
  /\ UNCHANGED <<vars, value, queue_size, current_active>>

\* A cancelled handler in acquire, which catches TimeoutError only: the permit
\* is passed on by the semaphore, and _queue_size is not counted down.
AbandonQueue(r) ==
  /\ st[r] \in {"expired", "cancelled"}
  /\ Gate!LeaveDeque(r)
  /\ LET sts == [st EXCEPT ![r] = "idle"] IN
       IF st[r] = "expired" THEN Gate!WakeUpNext(waiters', sts, value + 1)
       ELSE st' = sts /\ UNCHANGED value
  /\ UNCHANGED <<vars, queue_size, current_active>>

\* The 503 of a request that was shed is cancelled on its way.
AbandonAnswer(r) == Gate!Answer503(r) /\ UNCHANGED vars

Abandon(r) ==
  /\ r \in cancelled
  /\ AbandonAttempt(r) \/ AbandonQueue(r) \/ AbandonAnswer(r)
  /\ cancelled' = cancelled \ {r}
  /\ UNCHANGED stage

Environment ==
  /\ \/ \E b \in Backends : CooldownElapses(b)
     \/ \E b \in Backends, ok \in BOOLEAN : ProbeEnds(b, ok)
     \/ StartRound /\ stage \in {"starting", "serving", "stopping"}
  /\ UNCHANGED <<gateVars, stage, cancelled>>

-----------------------------------------------------------------------------
(* start and stop.                                                         *)

Advance(from, to) == stage = from /\ stage' = to

StopsProbes ==
  /\ probes' = {}
  /\ UNCHANGED <<backends, registry, retired, pool, req, trials>>

SiteStarts ==
  /\ Advance("starting", "serving")
  /\ UNCHANGED <<vars, gateVars, cancelled>>

\* site.start raises: run ends without stop, and asyncio.run cancels the tasks.
SiteFails ==
  /\ Advance("starting", "failed")
  /\ StopsProbes
  /\ UNCHANGED <<gateVars, cancelled>>

\* The signal handler sets the stop event; stop cancels the metrics task.
Signal ==
  /\ Advance("serving", "stopping")
  /\ UNCHANGED <<vars, gateVars, cancelled>>

\* checker.stop cancels its task and with it the probes under way, of which
\* none is recorded: _check_one does not catch CancelledError.
StopChecker ==
  /\ Advance("stopping", "unprobed")
  /\ StopsProbes
  /\ UNCHANGED <<gateVars, cancelled>>

\* site.stop, and cleanup up to where it lets the loop run once.
CloseSite ==
  /\ Advance("unprobed", "closing")
  /\ UNCHANGED <<vars, gateVars, cancelled>>

\* Mutated: the runner is not cleaned up before the pool is stopped.
CloseIdleAndGoOn ==
  /\ Advance("closing", "releasing")
  /\ UNCHANGED <<vars, gateVars, cancelled>>

CloseIdle ==
  /\ Advance("closing", "draining")
  /\ UNCHANGED <<vars, gateVars, cancelled>>

\* A cancelled task that waits in the semaphore meets it as one whose timer fired.
CancelInGate ==
  [r \in Requests |-> CASE st[r] = "waiting" -> "cancelled"
                        [] st[r] = "granted" -> "expired"
                        [] OTHER -> st[r]]

\* Mutated: the handlers are awaited for as long as they take.
HandlersEndOnly ==
  /\ Advance("draining", "releasing")
  /\ Running = {}
  /\ UNCHANGED <<vars, gateVars, cancelled>>

\* The handlers have ended, or the shutdown timeout is over.
HandlersEnd ==
  /\ Advance("draining", "releasing")
  /\ cancelled' = Running
  /\ st' = CancelInGate
  /\ UNCHANGED <<vars, value, waiters, queue_size, current_active>>

ClosePool ==
  /\ Advance("releasing", "stopped")
  /\ UNCHANGED <<vars, gateVars, cancelled>>

\* asyncio.run returns when every task has ended.
Exit ==
  /\ Advance("stopped", "exited")
  /\ Running = {}
  /\ UNCHANGED <<vars, gateVars, cancelled>>

StopStep ==
  StopChecker \/ CloseSite \/ CloseIdle \/ HandlersEnd \/ ClosePool \/ Exit

LifecycleNext ==
  \/ \E r \in Requests : Handle(r) \/ Abandon(r)
  \/ Environment
  \/ SiteStarts
  \/ SiteFails
  \/ Signal
  \/ StopStep

LifecycleSpec == LifecycleInit /\ [][LifecycleNext]_lifecycleVars

\* The event loop runs stop and the tasks it has cancelled, and the shutdown
\* timeout passes.  Nothing is assumed of handlers, clients or backends.
FairLifecycle ==
  /\ LifecycleSpec
  /\ WF_lifecycleVars(StopStep)
  /\ \A r \in Requests : WF_lifecycleVars(Abandon(r))

-----------------------------------------------------------------------------
(* Properties.                                                             *)

\* Every variable has its type, and who is cancelled is still running.
LifecycleTypeOK ==
  /\ TypeOK
  /\ Gate!TypeOK
  /\ stage \in Stage
  /\ cancelled \subseteq Running

\* The client session is closed after its last user: no probe is under way and
\* no handler that was not cancelled, in whatever state stop met them.
SessionOutlivesItsUsers ==
  SessionClosed => probes = {} /\ Running \subseteq cancelled

\* At the exit all permits are back, no one is left in the semaphore, and no
\* connection is counted anywhere, although handlers were cancelled at any of
\* their awaits.
ExitRestores ==
  stage = "exited" =>
    /\ value = MaxConcurrent
    /\ waiters = <<>>
    /\ current_active = 0
    /\ \A i \in Ids : pool[i] = 0
    /\ \A b \in Backends : backends[b].active_connections = 0

\* A stop that has begun ends, even if backends never answer and clients never
\* read: a stream has no timeout of its own (ConnectionPool.start).
StopCompletes == stage = "stopping" ~> stage = "exited"

\* The loop runs the ready task of r, and what its handler awaits comes.
TaskRuns(r) ==
  /\ r \notin cancelled
  /\ \/ Gate!Resume(r) /\ Arrive(r)
     \/ (Gate!ResumeExpired(r) \/ Gate!ResumeCancelled(r)) /\ UNCHANGED vars
     \/ Work(r)
  /\ UNCHANGED <<stage, cancelled>>

\* If handlers get on, whoever waits for a slot gets one or is told, although no
\* timer need fire: the handlers before it end, after their retries, and hand
\* their slots on (the bound on attempts and the finally clause of handle).
WaitersGetThrough ==
  (\A r \in Requests : WF_lifecycleVars(TaskRuns(r))) =>
    \A r \in Requests : st[r] = "waiting" ~> st[r] \in {"active", "shed", "idle"}

\* The application implements the service, with room for the requests that hold
\* a slot and those in the queue.
AbstractPhase ==
  CASE stage \in {"starting", "failed", "exited"} -> "off"
    [] stage \in {"draining", "releasing", "stopped"} -> "closing"
    [] OTHER -> "up"

Promised == INSTANCE Service WITH
  Capacity <- MaxConcurrent + MaxQueueSize,
  phase <- AbstractPhase,
  inside <- {r \in Requests : st[r] \notin {"idle", "shed"}}

ImplementsService == Promised!ServiceSpec

=============================================================================
