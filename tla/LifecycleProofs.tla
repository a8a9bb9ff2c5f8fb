-------------------------- MODULE LifecycleProofs ---------------------------
(***************************************************************************)
(* Theorems about LoadBalancer and Lifecycle: the handlers, their slots    *)
(* and the stages of start and stop, for every configuration.              *)
(*                                                                         *)
(* They are put together from the lemmas about single steps of the two     *)
(* specifications that LoadBalancer joins: those of ReverseProxyProofs and *)
(* ConnectionProofs about _proxy, those of BackpressureProofs about the    *)
(* controller.                                                             *)
(***************************************************************************)
EXTENDS Lifecycle, ConnectionProofs

\* The theorems about the controller.
Ctl == INSTANCE BackpressureProofs

-----------------------------------------------------------------------------
(* Gate and Ctl are instances of the same module.                          *)

LEMMA ControllerAssumption == Ctl!BackpressureAssumption
BY ProxyAssumption, GateAssumption DEF Ctl!BackpressureAssumption, Ctl!IsFiniteSet, IsFiniteSet

LEMMA SameCardinality ==
  ASSUME NEW S
  PROVE  Ctl!Cardinality(S) = Cardinality(S)
BY DEF Ctl!Cardinality, Cardinality

\* The steps of the gate are steps of the controller.
LEMMA SameWaking ==
  ASSUME NEW r, NEW ws, NEW sts, NEW val
  PROVE  /\ Gate!LeaveDeque(r) <=> Ctl!LeaveDeque(r)
         /\ Gate!WakeUpNext(ws, sts, val) <=> Ctl!WakeUpNext(ws, sts, val)
BY DEF Gate!LeaveDeque, Ctl!LeaveDeque, Gate!RemoveAt, Ctl!RemoveAt,
  Gate!WakeUpNext, Ctl!WakeUpNext, Gate!FirstPending, Ctl!FirstPending

LEMMA SameSteps ==
  ASSUME NEW r
  PROVE  /\ Gate!Reject(r) <=> Ctl!Reject(r)
         /\ Gate!TakeSlot(r) <=> Ctl!TakeSlot(r)
         /\ Gate!Wait(r) <=> Ctl!Wait(r)
         /\ Gate!TimerFires(r) <=> Ctl!TimerFires(r)
         /\ Gate!Resume(r) <=> Ctl!Resume(r)
         /\ Gate!ResumeExpired(r) <=> Ctl!ResumeExpired(r)
         /\ Gate!ResumeCancelled(r) <=> Ctl!ResumeCancelled(r)
         /\ Gate!Answer503(r) <=> Ctl!Answer503(r)
         /\ Gate!Release(r) <=> Ctl!Release(r)
BY SameWaking
DEF Gate!Reject, Gate!TakeSlot, Gate!Wait, Gate!TimerFires, Gate!Resume,
    Gate!ResumeExpired, Gate!ResumeCancelled, Gate!Answer503, Gate!Release,
    Gate!QueueFull, Gate!Locked,
    Ctl!Reject, Ctl!TakeSlot, Ctl!Wait, Ctl!TimerFires, Ctl!Resume,
    Ctl!ResumeExpired, Ctl!ResumeCancelled, Ctl!Answer503, Ctl!Release,
    Ctl!QueueFull, Ctl!Locked

\* What the steps of the gate do, for one composed with ReverseProxy.
LEMMA GateSteps ==
  ASSUME Ctl!GateInv, NEW r \in Requests
  PROVE  /\ Gate!TakeSlot(r) => Ctl!GateInv' /\ Ctl!Becomes(r, {"idle"}, {"active"})
         /\ Gate!Wait(r) => Ctl!GateInv' /\ Ctl!Becomes(r, {"idle"}, {"waiting"})
         /\ Gate!Reject(r) => Ctl!GateInv' /\ Ctl!Becomes(r, {"idle"}, {"shed"})
         /\ Gate!TimerFires(r) =>
              /\ Ctl!GateInv'
              /\ Ctl!Becomes(r, {"waiting", "granted"}, {"cancelled", "expired"})
         /\ Gate!Resume(r) => Ctl!GateInv' /\ Ctl!Becomes(r, {"granted"}, {"active"})
         /\ Gate!ResumeExpired(r) => Ctl!GateInv' /\ Ctl!Becomes(r, {"expired"}, {"shed"})
         /\ Gate!ResumeCancelled(r) =>
              Ctl!GateInv' /\ Ctl!Becomes(r, {"cancelled"}, {"shed"})
         /\ Gate!Answer503(r) => Ctl!GateInv' /\ Ctl!Becomes(r, {"shed"}, {"idle"})
         /\ Gate!Release(r) => Ctl!GateInv' /\ Ctl!Becomes(r, {"active"}, {"idle"})
<1>1. Ctl!Step(r) => Ctl!GateInv'
  BY ControllerAssumption, Ctl!StepGate
<1>2. Gate!TakeSlot(r) => Ctl!GateInv' /\ Ctl!Becomes(r, {"idle"}, {"active"})
  BY <1>1, ControllerAssumption, Ctl!StepStates, SameSteps DEF Ctl!Step
<1>3. Gate!Wait(r) => Ctl!GateInv' /\ Ctl!Becomes(r, {"idle"}, {"waiting"})
  BY <1>1, ControllerAssumption, Ctl!StepStates, SameSteps DEF Ctl!Step
<1>4. Gate!Reject(r) => Ctl!GateInv' /\ Ctl!Becomes(r, {"idle"}, {"shed"})
  BY <1>1, ControllerAssumption, Ctl!StepStates, SameSteps DEF Ctl!Step
<1>5. Gate!TimerFires(r) =>
        Ctl!GateInv' /\ Ctl!Becomes(r, {"waiting", "granted"}, {"cancelled", "expired"})
  BY <1>1, ControllerAssumption, Ctl!StepStates, SameSteps DEF Ctl!Step
<1>6. Gate!Resume(r) => Ctl!GateInv' /\ Ctl!Becomes(r, {"granted"}, {"active"})
  BY <1>1, ControllerAssumption, Ctl!StepStates, SameSteps DEF Ctl!Step, Ctl!ResumeStep
<1>7. Gate!ResumeExpired(r) => Ctl!GateInv' /\ Ctl!Becomes(r, {"expired"}, {"shed"})
  BY <1>1, ControllerAssumption, Ctl!StepStates, SameSteps DEF Ctl!Step, Ctl!ResumeStep
<1>8. Gate!ResumeCancelled(r) => Ctl!GateInv' /\ Ctl!Becomes(r, {"cancelled"}, {"shed"})
  BY <1>1, ControllerAssumption, Ctl!StepStates, SameSteps DEF Ctl!Step, Ctl!ResumeStep
<1>9. Gate!Answer503(r) => Ctl!GateInv' /\ Ctl!Becomes(r, {"shed"}, {"idle"})
  BY <1>1, ControllerAssumption, Ctl!StepStates, SameSteps DEF Ctl!Step
<1>10. Gate!Release(r) => Ctl!GateInv' /\ Ctl!Becomes(r, {"active"}, {"idle"})
  BY <1>1, ControllerAssumption, Ctl!StepStates, SameSteps DEF Ctl!Step
<1> QED
  BY <1>2, <1>3, <1>4, <1>5, <1>6, <1>7, <1>8, <1>9, <1>10

\* A step that leaves the controller alone.
LEMMA GateUnchanged ==
  ASSUME Ctl!GateInv, UNCHANGED gateVars
  PROVE  Ctl!GateInv'
BY DEF Ctl!GateInv, Ctl!Consistent, Ctl!Deque, Ctl!StateSet, gateVars

-----------------------------------------------------------------------------
(* The inductive invariant.                                                *)

\* What has ended by the time stop has reached a stage.
StageInv ==
  /\ stage \in {"failed", "unprobed", "closing", "draining", "releasing",
                "stopped", "exited"} => probes = {}
  /\ stage \in {"releasing", "stopped", "exited"} => Running \subseteq cancelled
  /\ stage = "exited" => Running = {}

\* The counts of ReverseProxy.
CountsInv == PoolMatchesInFlight /\ ConnectionsNeverOvercount

LifeInv ==
  /\ TypeOK
  /\ Ctl!GateInv
  /\ SlotPerHandler
  /\ CountsInv
  /\ stage \in Stage
  /\ cancelled \subseteq Running
  /\ StageInv

-----------------------------------------------------------------------------
(* The steps of _proxy within a handler.                                   *)

\* A step of r that is inside _proxy touches the context of r alone.
LEMMA ProgressFrame ==
  ASSUME TypeOK, NEW r \in Requests, Progress(r)
  PROVE  /\ RequestStep(r)
         /\ r \in Handled
         /\ \A q \in Requests : q # r => req'[q] = req[q]
         /\ UNCHANGED probes
<1>0. req \in [Requests -> Request]
  BY DEF TypeOK
<1>1. RequestStep(r)
  BY DEF Progress, RequestStep
<1>2. r \in Handled /\ UNCHANGED probes
  BY DEF Progress, BodyRefused, BodyRead, HeadArrives, Succeeds, ServerError,
    AttemptFails, Handled
<1>3. \A q \in Requests : q # r => req'[q] = req[q]
  <2>1. ASSUME NEW ctx, NEW bs, NEW counts, Attempt(r, ctx, bs, counts)
        PROVE  \A q \in Requests : q # r => req'[q] = req[q]
    BY <1>0, <2>1 DEF Attempt, Send, Unavailable
  <2>2. ASSUME NEW b, NEW rec, Finish(r, b, rec) \/ TryAgain(r, b, rec)
        PROVE  \A q \in Requests : q # r => req'[q] = req[q]
    BY <1>0, <2>1, <2>2 DEF Finish, TryAgain
  <2>3. CASE BodyRefused(r) \/ \E status \in Statuses : HeadArrives(r, status)
    BY <1>0, <2>3 DEF BodyRefused, HeadArrives
  <2>4. CASE BodyRead(r)
    BY <2>1, <2>4 DEF BodyRead
  <2>5. CASE Succeeds(r)
    BY <2>2, <2>5 DEF Succeeds
  <2>6. CASE ServerError(r)
    BY <2>2, <2>6 DEF ServerError
  <2>7. CASE \E timeout \in BOOLEAN : AttemptFails(r, timeout)
    BY <2>2, <2>7 DEF AttemptFails
  <2> QED
    BY <2>3, <2>4, <2>5, <2>6, <2>7 DEF Progress
<1> QED
  BY <1>1, <1>2, <1>3

\* The counts in a step of _proxy.
LEMMA ProxyStepKeeps ==
  ASSUME TypeOK, CountsInv, NEW r \in Requests, RequestStep(r)
  PROVE  TypeOK' /\ CountsInv'
<1>1. TypeOK'
  BY RequestStepType
<1> QED
  BY <1>1, RequestCounts DEF CountsInv

\* The counts when nothing of the proxy changes but its probes.
LEMMA ProxyIdle ==
  ASSUME TypeOK, CountsInv, probes' \subseteq Backends,
         UNCHANGED <<backends, registry, retired, pool, req, trials>>
  PROVE  TypeOK' /\ CountsInv'
<1>1. TypeOK'
  BY DEF TypeOK
<1> QED
  BY <1>1, Unmoved DEF CountsInv

\* A cancelled handler gives its connection back like any other.
LEMMA AbandonKeeps ==
  ASSUME TypeOK, CountsInv, NEW r \in Requests, AbandonAttempt(r)
  PROVE  /\ TypeOK'
         /\ CountsInv'
         /\ req'[r].phase = "done"
         /\ \A q \in Requests : q # r => req'[q] = req[q]
         /\ UNCHANGED probes
<1>0. req \in [Requests -> Request] /\ backends \in [Backends -> Backend]
  BY DEF TypeOK
<1>1. /\ req' = [req EXCEPT ![r] = NewRequest]
      /\ UNCHANGED <<registry, retired, probes>>
  BY DEF AbandonAttempt, Finish
<1>2. ASSUME req[r].on = NoBackend PROVE TypeOK' /\ CountsInv'
  <2>1. UNCHANGED <<backends, pool, trials>>
    BY <1>2 DEF AbandonAttempt
  <2>2. ContextOK(NewRequest) /\ NewRequest.on = NoBackend
    BY NewRequestFields DEF ContextOK, NewRequest
  <2>3. TypeOK'
    BY <1>1, <2>1, <2>2, NewRequestType, ReqUpdateType DEF TypeOK
  <2>4. \A q \in Requests : req'[q].on = req[q].on
    BY <1>0, <1>1, <1>2, <2>2
  <2>5. CountsInv'
    BY <2>1, <2>4, Unmoved DEF CountsInv
  <2> QED
    BY <2>3, <2>5
<1>3. ASSUME req[r].on # NoBackend PROVE TypeOK' /\ CountsInv'
  <2> DEFINE c == req[r].on
             rec == Disconnect(backends[c])
  <2>1. c \in Backends
    BY <1>0, <1>3 DEF Request
  <2>2. /\ rec \in Backend
        /\ rec.active_connections = OneLess(backends[c].active_connections)
    BY <1>0, <2>1, DisconnectCounts
  <2>3. Finish(r, c, rec)
    BY <1>3 DEF AbandonAttempt
  <2>4. rec.active_connections \in Nat
    BY <2>2, FieldsOf
  <2> HIDE DEF rec
  <2>5. TypeOK'
    BY <1>1, <2>1, <2>2, <2>3, FinishType
  <2> QED
    BY <2>1, <2>2, <2>3, <2>4, <2>5, OutcomeCounts DEF CountsInv
<1>4. TypeOK' /\ CountsInv'
  BY <1>2, <1>3
<1>5. NewRequest.phase = "done"
  BY DEF NewRequest
<1> QED
  BY <1>0, <1>1, <1>4, <1>5

-----------------------------------------------------------------------------
(* The steps of handlers.                                                  *)

\* Whoever is not r stays idle, shed or active, or none of these.
LEMMA OthersRun ==
  ASSUME NEW r \in Requests, Ctl!OthersStay(r)
  PROVE  \A q \in Requests \ {r}, s \in {"idle", "shed", "active"} :
           st'[q] = s <=> st[q] = s
BY DEF Ctl!OthersStay

\* A step of one handler, of which each half has kept its part, keeps the
\* invariant as a whole: a handler that runs once the drain is over is one that
\* was cancelled, and ends.
LEMMA HandlerKeeps ==
  ASSUME LifeInv, NEW r \in Requests, TypeOK', CountsInv', Ctl!GateInv',
         Ctl!OthersStay(r),
         \A q \in Requests \ {r} : req'[q].phase = req[q].phase,
         st'[r] = "active" <=> req'[r].phase # "done",
         UNCHANGED <<stage, probes>>,
         \/ /\ r \notin cancelled /\ UNCHANGED cancelled
            /\ st[r] = "idle" => Accepting
         \/ r \in cancelled /\ cancelled' = cancelled \ {r} /\ st'[r] = "idle"
  PROVE  LifeInv'
<1>1. \A q \in Requests \ {r} : (st'[q] = "active" <=> st[q] = "active")
                             /\ (st'[q] = "idle" <=> st[q] = "idle")
  BY OthersRun
<1>2. SlotPerHandler'
  BY <1>1 DEF LifeInv, SlotPerHandler, Handled
<1>3. cancelled' \subseteq Running'
  BY <1>1 DEF LifeInv, Running
<1>4. ASSUME stage \in {"releasing", "stopped", "exited"}
      PROVE  Running' \subseteq cancelled'
  <2>1. ~Accepting /\ Running \subseteq cancelled
    BY <1>4 DEF Accepting, LifeInv, StageInv
  <2>2. r \in cancelled
    BY <2>1 DEF Running
  <2> QED
    BY <1>1, <2>1, <2>2 DEF Running
<1>5. ASSUME stage = "exited" PROVE Running' = {}
  BY <1>4, <1>5 DEF LifeInv, StageInv
<1>6. StageInv'
  BY <1>4, <1>5 DEF LifeInv, StageInv
<1> QED
  BY <1>2, <1>3, <1>6 DEF LifeInv

LEMMA HandleKeeps ==
  ASSUME LifeInv, NEW r \in Requests, Handle(r)
  PROVE  LifeInv' /\ Ctl!OthersStay(r)
<1>0. /\ TypeOK /\ CountsInv /\ Ctl!GateInv
      /\ st[r] = "active" <=> req[r].phase # "done"
      /\ r \notin cancelled /\ UNCHANGED <<stage, cancelled>>
      /\ st[r] = "idle" => Accepting
  BY DEF LifeInv, SlotPerHandler, Handled, Handle
<1>1. CASE Enter(r)
  <2>1. Ctl!GateInv' /\ Ctl!OthersStay(r) /\ st'[r] = "active"
    BY <1>0, <1>1, GateSteps DEF Enter, Acquired, Ctl!Becomes
  <2>2. TypeOK' /\ CountsInv'
    <3>1. RequestStep(r)
      BY <1>1 DEF Enter, RequestStep
    <3> QED
      BY <1>0, <3>1, ProxyStepKeeps
  <2>3. /\ \A q \in Requests \ {r} : req'[q].phase = req[q].phase
        /\ req'[r].phase # "done"
        /\ UNCHANGED probes
    <3>1. req \in [Requests -> Request]
      BY <1>0 DEF TypeOK
    <3> QED
      BY <1>1, <3>1 DEF Enter, Arrive, Request
  <2> QED
    BY <1>0, <2>1, <2>2, <2>3, HandlerKeeps
<1>2. CASE Work(r)
  <2>1. /\ RequestStep(r)
        /\ req[r].phase # "done"
        /\ \A q \in Requests \ {r} : req'[q] = req[q]
        /\ UNCHANGED probes
    BY <1>0, <1>2, ProgressFrame DEF Work, Handled
  <2>2. TypeOK' /\ CountsInv'
    BY <1>0, <2>1, ProxyStepKeeps
  <2>3. /\ Ctl!GateInv' /\ Ctl!OthersStay(r)
        /\ st'[r] = "active" <=> req'[r].phase # "done"
    <3>1. CASE req'[r].phase # "done"
      <4>1. UNCHANGED gateVars
        BY <1>2, <3>1 DEF Work, ReleaseIfDone, Handled
      <4>2. Ctl!OthersStay(r)
        BY <4>1 DEF Ctl!OthersStay, gateVars
      <4> QED
        BY <1>0, <2>1, <3>1, <4>1, <4>2, GateUnchanged DEF gateVars
    <3>2. CASE req'[r].phase = "done"
      <4>1. Gate!Release(r)
        BY <1>2, <3>2 DEF Work, ReleaseIfDone, Handled
      <4> QED
        BY <1>0, <3>2, <4>1, GateSteps DEF Ctl!Becomes
    <3> QED
      BY <3>1, <3>2
  <2> QED
    BY <1>0, <2>1, <2>2, <2>3, HandlerKeeps
<1>3. CASE Queueing(r)
  <2>1. UNCHANGED vars
    BY <1>3 DEF Queueing
  <2>2. TypeOK' /\ CountsInv'
    BY <1>0, <2>1, ProxyIdle DEF vars, TypeOK
  <2>3. /\ Ctl!GateInv' /\ Ctl!OthersStay(r)
        /\ st[r] # "active" /\ st'[r] # "active"
    BY <1>0, <1>3, GateSteps DEF Queueing, Ctl!Becomes
  <2> QED
    BY <1>0, <2>1, <2>2, <2>3, HandlerKeeps DEF vars
<1> QED
  BY <1>1, <1>2, <1>3 DEF Handle

\* What a cancelled handler does with its slot or its place in the queue.
LEMMA AbandonGate ==
  ASSUME LifeInv, NEW r \in Requests, Abandon(r)
  PROVE  /\ Ctl!GateInv' /\ Ctl!OthersStay(r) /\ st'[r] = "idle"
         /\ st[r] # "idle"
<1>0. Ctl!GateInv
  BY DEF LifeInv
<1>1. CASE AbandonAttempt(r)
  BY <1>0, <1>1, GateSteps DEF AbandonAttempt, Ctl!Becomes
<1>2. CASE AbandonQueue(r)
  <2> DEFINE sts == [st EXCEPT ![r] = "idle"]
  <2>1. /\ st[r] \in {"expired", "cancelled"}
        /\ Gate!LeaveDeque(r)
        /\ IF st[r] = "expired" THEN Gate!WakeUpNext(waiters', sts, value + 1)
           ELSE st' = sts /\ UNCHANGED value
        /\ UNCHANGED <<queue_size, current_active>>
    BY <1>2 DEF AbandonQueue
  <2>2. Ctl!Moves(st, r, "idle", sts)
    BY DEF Ctl!Moves
  <2> HIDE DEF sts
  <2>3. /\ Ctl!LeaveDeque(r)
        /\ IF st[r] = "expired" THEN Ctl!WakeUpNext(waiters', sts, value + 1)
           ELSE st' = sts /\ UNCHANGED value
    BY <2>1, SameWaking
  <2>4. Ctl!GateInv' /\ Ctl!OthersStay(r) /\ st'[r] = "idle"
    BY <1>0, <2>1, <2>2, <2>3, ControllerAssumption, Ctl!LeaveUncounted
  <2> QED
    BY <2>1, <2>4
<1>3. CASE AbandonAnswer(r)
  BY <1>0, <1>3, GateSteps DEF AbandonAnswer, Ctl!Becomes
<1> QED
  BY <1>1, <1>2, <1>3 DEF Abandon

LEMMA AbandonKeepsInv ==
  ASSUME LifeInv, NEW r \in Requests, Abandon(r)
  PROVE  LifeInv'
<1>0. /\ TypeOK /\ CountsInv
      /\ st[r] = "active" <=> req[r].phase # "done"
      /\ r \in cancelled /\ cancelled' = cancelled \ {r} /\ UNCHANGED stage
  BY DEF LifeInv, SlotPerHandler, Handled, Abandon
<1>1. Ctl!GateInv' /\ Ctl!OthersStay(r) /\ st'[r] = "idle"
  BY AbandonGate
<1>2. /\ TypeOK' /\ CountsInv'
      /\ \A q \in Requests \ {r} : req'[q].phase = req[q].phase
      /\ req'[r].phase = "done"
      /\ UNCHANGED probes
  <2>1. CASE AbandonAttempt(r)
    BY <1>0, <2>1, AbandonKeeps
  <2>2. CASE AbandonQueue(r) \/ AbandonAnswer(r)
    <3>1. UNCHANGED vars
      BY <2>2 DEF AbandonQueue, AbandonAnswer
    <3>2. st[r] # "active"
      BY <2>2 DEF AbandonQueue, AbandonAnswer, Gate!Answer503
    <3> QED
      BY <1>0, <3>1, <3>2, ProxyIdle DEF vars, TypeOK
  <2> QED
    BY <2>1, <2>2 DEF Abandon
<1> QED
  BY <1>0, <1>1, <1>2, HandlerKeeps

-----------------------------------------------------------------------------
(* The steps of probes, timers, start and stop.                            *)

\* A step of none of the handlers.
LEMMA QuietKeeps ==
  ASSUME LifeInv, TypeOK', CountsInv', UNCHANGED <<gateVars, req, cancelled>>,
         stage' \in Stage, StageInv'
  PROVE  LifeInv'
<1>1. Ctl!GateInv'
  BY GateUnchanged DEF LifeInv
<1>2. SlotPerHandler' /\ cancelled' \subseteq Running'
  BY DEF LifeInv, SlotPerHandler, Handled, Running, gateVars
<1> QED
  BY <1>1, <1>2 DEF LifeInv

LEMMA EnvironmentKeeps ==
  ASSUME LifeInv, Environment
  PROVE  LifeInv'
<1>0. TypeOK /\ CountsInv /\ stage \in Stage /\ StageInv
  BY DEF LifeInv
<1>1. UNCHANGED <<gateVars, req, cancelled, stage>>
  BY DEF Environment, CooldownElapses, ProbeEnds, StartRound
<1>2. \/ \E b \in Backends : BackendStep(b)
      \/ StartRound
  BY DEF Environment, BackendStep
<1>3. TypeOK'
  BY <1>0, <1>2, BackendStepType DEF StartRound, TypeOK, Registered
<1>4. CountsInv'
  <2>1. QuietStep
    BY <1>2 DEF QuietStep
  <2> QED
    BY <1>0, <2>1, QuietCounts, Unmoved DEF CountsInv
<1>5. \/ probes' \subseteq probes
      \/ stage \in {"starting", "serving", "stopping"}
  BY DEF Environment, CooldownElapses, ProbeEnds
<1>6. StageInv'
  BY <1>0, <1>1, <1>5 DEF StageInv, Running, gateVars
<1> QED
  BY <1>0, <1>1, <1>3, <1>4, <1>6, QuietKeeps

\* When the drain ends, whoever still runs is cancelled where it stands.
LEMMA HandlersEndKeeps ==
  ASSUME LifeInv, HandlersEnd
  PROVE  /\ LifeInv'
         /\ \A q \in Requests, s \in {"idle", "shed", "active"} :
              st'[q] = s <=> st[q] = s
<1>0. /\ TypeOK /\ CountsInv /\ Ctl!GateInv /\ SlotPerHandler
      /\ stage \in Stage /\ StageInv
  BY DEF LifeInv
<1>1. st \in [Requests -> Ctl!RequestState]
  BY <1>0, ControllerAssumption, Ctl!GateTypes
<1>2. \A q \in Requests : st'[q] = CASE st[q] = "waiting" -> "cancelled"
                                     [] st[q] = "granted" -> "expired"
                                     [] OTHER -> st[q]
  BY DEF HandlersEnd, CancelInGate
<1>3. /\ st' \in [Requests -> Ctl!RequestState]
      /\ \A q \in Requests :
           /\ st'[q] \in Ctl!Holding <=> st[q] \in Ctl!Holding
           /\ st'[q] \in Ctl!Queued <=> st[q] \in Ctl!Queued
           /\ \A s \in {"idle", "shed", "active"} : st'[q] = s <=> st[q] = s
  <2>1. DOMAIN st' = Requests /\ st' = [q \in Requests |-> st'[q]]
    BY DEF HandlersEnd, CancelInGate
  <2> QED
    BY <1>1, <1>2, <2>1, ControllerAssumption, Ctl!StateKinds
<1>4. Ctl!GateInv'
  BY <1>0, <1>3, ControllerAssumption, Ctl!AllMoveAside DEF HandlersEnd
<1>5. TypeOK' /\ CountsInv'
  BY <1>0, ProxyIdle DEF HandlersEnd, vars, TypeOK
<1>6. SlotPerHandler'
  BY <1>0, <1>3 DEF HandlersEnd, vars, SlotPerHandler, Handled
<1>7. cancelled' = Running /\ Running' = Running
  BY <1>3 DEF HandlersEnd, Running
<1>8. StageInv'
  BY <1>0, <1>7 DEF HandlersEnd, Advance, StageInv, vars
<1> QED
  BY <1>3, <1>4, <1>5, <1>6, <1>7, <1>8 DEF LifeInv, HandlersEnd, Advance, Stage

\* Every other step of start and stop.
QuietStage ==
  SiteStarts \/ SiteFails \/ Signal \/ StopChecker \/ CloseSite \/ CloseIdle
    \/ ClosePool \/ Exit

LEMMA QuietStageKeeps ==
  ASSUME LifeInv, QuietStage
  PROVE  LifeInv' /\ UNCHANGED st
<1>0. TypeOK /\ CountsInv /\ stage \in Stage /\ StageInv
  BY DEF LifeInv
<1>1. /\ UNCHANGED <<gateVars, cancelled, backends, registry, retired, pool, req, trials>>
      /\ probes' = {} \/ UNCHANGED probes
  BY DEF QuietStage, SiteStarts, SiteFails, Signal, StopChecker, CloseSite,
    CloseIdle, ClosePool, Exit, StopsProbes, vars
<1>2. TypeOK' /\ CountsInv'
  BY <1>0, <1>1, ProxyIdle DEF TypeOK
<1>3. stage' \in Stage
  BY DEF QuietStage, SiteStarts, SiteFails, Signal, StopChecker, CloseSite,
    CloseIdle, ClosePool, Exit, Advance, Stage
<1>4. StageInv'
  <2>1. Running' = Running
    BY <1>1 DEF Running, gateVars
  <2>2. \/ stage = "starting" /\ stage' = "serving"
        \/ stage = "starting" /\ stage' = "failed" /\ probes' = {}
        \/ stage = "serving" /\ stage' = "stopping"
        \/ stage = "stopping" /\ stage' = "unprobed" /\ probes' = {}
        \/ stage = "unprobed" /\ stage' = "closing"
        \/ stage = "closing" /\ stage' = "draining"
        \/ stage = "releasing" /\ stage' = "stopped"
        \/ stage = "stopped" /\ stage' = "exited" /\ Running = {}
    BY DEF QuietStage, SiteStarts, SiteFails, Signal, StopChecker, CloseSite,
      CloseIdle, ClosePool, Exit, Advance, StopsProbes
  <2> QED
    BY <1>0, <1>1, <2>1, <2>2 DEF StageInv
<1> QED
  BY <1>1, <1>2, <1>3, <1>4, QuietKeeps DEF gateVars

LEMMA LifeNext ==
  ASSUME LifeInv, [LifecycleNext]_lifecycleVars
  PROVE  LifeInv'
<1>1. CASE UNCHANGED lifecycleVars
  <2>1. UNCHANGED <<vars, gateVars, stage, cancelled>>
    BY <1>1 DEF lifecycleVars
  <2>2. TypeOK' /\ CountsInv'
    BY <2>1, ProxyIdle DEF LifeInv, vars, TypeOK
  <2>3. StageInv'
    BY <2>1 DEF LifeInv, StageInv, Running, vars, gateVars
  <2> QED
    BY <2>1, <2>2, <2>3, QuietKeeps DEF LifeInv, vars
<1> QED
  BY <1>1, HandleKeeps, AbandonKeepsInv, EnvironmentKeeps, HandlersEndKeeps, QuietStageKeeps
  DEF LifecycleNext, StopStep, QuietStage

LEMMA LifeStarts ==
  ASSUME LifecycleInit
  PROVE  LifeInv
<1>1. Ctl!GateInv
  <2>1. Ctl!Init
    BY DEF LifecycleInit, HandleInit, Gate!Init, Ctl!Init
  <2> QED
    BY <2>1, ControllerAssumption, Ctl!InitGate DEF Ctl!GateInvExact
<1>2. TypeOK /\ CountsInv
  BY InitType, InitCounts DEF LifecycleInit, HandleInit, CountsInv
<1>3. SlotPerHandler /\ Running = {}
  BY DEF LifecycleInit, HandleInit, Gate!Init, Init, NewRequest, SlotPerHandler,
    Handled, Running
<1>4. cancelled = {} /\ stage = "starting"
  BY DEF LifecycleInit
<1> QED
  BY <1>1, <1>2, <1>3, <1>4 DEF LifeInv, StageInv, Stage

LEMMA LifeInvariant == LifecycleSpec => []LifeInv
BY LifeStarts, LifeNext, PTL DEF LifecycleSpec

-----------------------------------------------------------------------------
(* The theorems.                                                           *)

\* Every variable keeps its type in the whole application, and a handler that
\* is cancelled is one that runs.
THEOREM LifecycleTypes == LifecycleSpec => []LifecycleTypeOK
<1>1. ASSUME LifeInv PROVE LifecycleTypeOK
  <2>1. Gate!TypeOK
    BY <1>1, ControllerAssumption, Ctl!GateTypes
    DEF LifeInv, Gate!TypeOK, Gate!RequestState, Ctl!RequestState
  <2> QED
    BY <1>1, <2>1 DEF LifeInv, LifecycleTypeOK
<1> QED
  BY <1>1, LifeInvariant, PTL

\* A handler is inside _proxy exactly while it holds a slot, for every way in
\* which it can end, the cancellation at any of its awaits included.
THEOREM HandlersHoldSlots == LifecycleSpec => []SlotPerHandler
<1>1. LifeInv => SlotPerHandler
  BY DEF LifeInv
<1> QED
  BY <1>1, LifeInvariant, PTL

\* The backends together never see more attempts at once than there are permits.
THEOREM BackendsAreShielded == LifecycleSpec => []BackendsShielded
<1>1. ASSUME LifeInv PROVE BackendsShielded
  <2> DEFINE busy == {r \in Requests : req[r].on # NoBackend}
             holding == Ctl!StateSet(st, Ctl!Holding)
  <2>1. busy \subseteq holding
    <3>1. \A r \in Requests : req[r].on # NoBackend => req[r].phase # "done"
      BY <1>1 DEF LifeInv, TypeOK, Request
    <3>2. \A r \in Requests : req[r].on # NoBackend => st[r] \in Ctl!Holding
      BY <1>1, <3>1, ControllerAssumption, Ctl!StateKinds DEF LifeInv, SlotPerHandler, Handled
    <3> QED
      BY <3>2 DEF Ctl!StateSet
  <2>2. IsFiniteSet(holding) /\ Cardinality(holding) \in Nat
    BY ControllerAssumption, Ctl!StateSetFinite, SameCardinality DEF Ctl!IsFiniteSet, IsFiniteSet
  <2>3. Cardinality(holding) <= MaxConcurrent
    <3>1. value \in Nat /\ value + Cardinality(holding) = MaxConcurrent
      BY <1>1, SameCardinality DEF LifeInv, Ctl!GateInv, Ctl!Consistent
    <3> HIDE DEF holding
    <3> QED
      BY <2>2, <3>1, GateAssumption
  <2> HIDE DEF busy, holding
  <2>4. Cardinality(busy) <= Cardinality(holding) /\ Cardinality(busy) \in Nat
    BY <2>1, <2>2, FS_Subset, FS_CardinalityType
  <2>5. Cardinality(busy) <= MaxConcurrent
    BY <2>2, <2>3, <2>4, GateAssumption
  <2> QED
    BY <2>5 DEF busy, BackendsShielded
<1> QED
  BY <1>1, LifeInvariant, PTL

\* Cancelling handlers loses no count: the pool still counts the attempts under
\* way, and no backend looks busier than it is.
THEOREM CountsSurviveCancellation ==
  LifecycleSpec => [](PoolMatchesInFlight /\ ConnectionsNeverOvercount)
<1>1. LifeInv => PoolMatchesInFlight /\ ConnectionsNeverOvercount
  BY DEF LifeInv, CountsInv
<1> QED
  BY <1>1, LifeInvariant, PTL

\* stop closes the client session after the last probe and the last handler
\* that was not cancelled.
THEOREM SessionOutlives == LifecycleSpec => []SessionOutlivesItsUsers
<1>1. LifeInv => SessionOutlivesItsUsers
  BY DEF LifeInv, StageInv, SessionOutlivesItsUsers, SessionClosed
<1> QED
  BY <1>1, LifeInvariant, PTL

\* At the exit every permit is back and nothing is counted any more, wherever
\* the handlers were cancelled.
THEOREM ExitIsClean == LifecycleSpec => []ExitRestores
<1>1. ASSUME LifeInv, stage = "exited"
      PROVE  /\ value = MaxConcurrent /\ waiters = <<>> /\ current_active = 0
             /\ \A i \in Ids : pool[i] = 0
             /\ \A b \in Backends : backends[b].active_connections = 0
  <2>1. \A r \in Requests : st[r] = "idle"
    BY <1>1 DEF LifeInv, StageInv, Running
  <2>2. /\ Ctl!StateSet(st, Ctl!Holding) = {}
        /\ Ctl!StateSet(st, Ctl!Queued) = {}
        /\ Ctl!StateSet(st, {"active"}) = {}
    BY <2>1, ControllerAssumption, Ctl!StateKinds DEF Ctl!StateSet
  <2>3. value = MaxConcurrent /\ current_active = 0
    BY <1>1, <2>2, NoTrials, SameCardinality, GateAssumption
    DEF LifeInv, Ctl!GateInv, Ctl!Consistent
  <2>4. waiters = <<>>
    <3>1. waiters \in Seq(Requests) /\ {waiters[i] : i \in DOMAIN waiters} = {}
      BY <1>1, <2>2 DEF LifeInv, Ctl!GateInv, Ctl!Consistent, Ctl!Deque
    <3>2. DOMAIN waiters = {}
      BY <3>1
    <3> QED
      BY <3>1, <3>2
  <2>5. \A r \in Requests : req[r].on = NoBackend
    BY <1>1, <2>1 DEF LifeInv, SlotPerHandler, Handled, TypeOK, Request
  <2>6. \A i \in Ids : pool[i] = 0
    <3>1. \A i \in Ids :
            {r \in Requests : req[r].on # NoBackend /\ IdOf[req[r].on] = i} = {}
      BY <2>5
    <3> QED
      BY <1>1, <3>1, NoTrials DEF LifeInv, CountsInv, PoolMatchesInFlight
  <2>7. \A b \in Backends : backends[b].active_connections = 0
    <3>1. \A b \in Backends : Cardinality(InFlight(b)) = 0
      BY <2>5, NoTrials, ProxyAssumption DEF InFlight
    <3>2. \A b \in Backends : backends[b].active_connections \in Nat
      BY <1>1, FieldsOf DEF LifeInv, TypeOK
    <3> QED
      BY <1>1, <3>1, <3>2 DEF LifeInv, CountsInv, ConnectionsNeverOvercount
  <2> QED
    BY <2>3, <2>4, <2>6, <2>7
<1>2. LifeInv => ExitRestores
  BY <1>1 DEF ExitRestores
<1> QED
  BY <1>2, LifeInvariant, PTL

-----------------------------------------------------------------------------
(* The application implements the service.                                 *)

Inside == {r \in Requests : st[r] \notin {"idle", "shed"}}

LEMMA ServiceCardinality ==
  ASSUME NEW S
  PROVE  Promised!Cardinality(S) = Cardinality(S)
BY DEF Promised!Cardinality, Cardinality

\* Who is inside is in the queue or holds a slot, so there is room for one more
\* whenever acquire does not reject.
LEMMA RoomForOneMore ==
  ASSUME LifeInv, ~Ctl!QueueFull
  PROVE  Cardinality(Inside) < MaxConcurrent + MaxQueueSize
<1>1. Inside = Ctl!StateSet(st, Ctl!Queued \cup {"active"})
  <2>1. /\ st \in [Requests -> Ctl!RequestState]
        /\ Ctl!RequestState \ {"idle", "shed"} = Ctl!Queued \cup {"active"}
    BY ControllerAssumption, Ctl!GateTypes, Ctl!StateKinds DEF LifeInv
  <2> QED
    BY <2>1 DEF Inside, Ctl!StateSet
<1> QED
  BY <1>1, ControllerAssumption, Ctl!RoomInside, SameCardinality DEF LifeInv

\* A step of one handler takes it in, lets it go, or changes nothing outside.
LEMMA HandlerServes ==
  ASSUME NEW r \in Requests, Ctl!OthersStay(r), UNCHANGED stage,
         st[r] \in {"idle", "shed"} /\ st'[r] \notin {"idle", "shed"} =>
           AbstractPhase = "up" /\ Cardinality(Inside) < MaxConcurrent + MaxQueueSize
  PROVE  [Promised!ServiceNext]_Promised!serviceVars
<1>1. Inside' \ {r} = Inside \ {r}
  BY OthersRun DEF Inside
<1>2. /\ r \in Inside <=> st[r] \notin {"idle", "shed"}
      /\ r \in Inside' <=> st'[r] \notin {"idle", "shed"}
  BY DEF Inside
<1>3. UNCHANGED AbstractPhase
  BY DEF AbstractPhase
<1>4. CASE r \notin Inside /\ r \in Inside'
  <2>1. Inside' = Inside \cup {r}
    BY <1>1, <1>4
  <2>2. AbstractPhase = "up" /\ Promised!Cardinality(Inside) < MaxConcurrent + MaxQueueSize
    BY <1>2, <1>4, ServiceCardinality
  <2>3. Promised!TakeIn(r)
    BY <1>3, <1>4, <2>1, <2>2 DEF Promised!TakeIn, Inside
  <2> QED
    BY <2>3 DEF Promised!ServiceNext
<1>5. CASE r \in Inside /\ r \notin Inside'
  <2>1. Inside' = Inside \ {r}
    BY <1>1, <1>5
  <2>2. Promised!LetGo(r)
    BY <1>3, <1>5, <2>1 DEF Promised!LetGo, Inside
  <2> QED
    BY <2>2 DEF Promised!ServiceNext
<1>6. CASE r \in Inside <=> r \in Inside'
  <2>1. Inside' = Inside
    BY <1>1, <1>6 DEF Inside
  <2> QED
    BY <1>3, <2>1 DEF Promised!serviceVars, Inside
<1> QED
  BY <1>4, <1>5, <1>6

LEMMA HandleServes ==
  ASSUME LifeInv, NEW r \in Requests, Handle(r)
  PROVE  [Promised!ServiceNext]_Promised!serviceVars
<1>0. Ctl!GateInv
  BY DEF LifeInv
<1>1. Ctl!OthersStay(r)
  BY HandleKeeps
<1>2. ASSUME st[r] \in {"idle", "shed"}, st'[r] \notin {"idle", "shed"}
      PROVE  st[r] = "idle" /\ ~Ctl!QueueFull
  <2>1. CASE Work(r)
    <3>1. st[r] = "active"
      <4>1. r \in Handled
        BY <2>1, ProgressFrame DEF Work, LifeInv
      <4> QED
        BY <4>1 DEF LifeInv, SlotPerHandler
    <3> QED
      BY <1>2, <3>1
  <2>2. CASE Gate!TakeSlot(r) \/ Gate!Wait(r)
    BY <2>2, SameSteps DEF Ctl!TakeSlot, Ctl!Wait
  <2>3. CASE \/ Gate!Reject(r) \/ Gate!TimerFires(r) \/ Gate!Resume(r)
             \/ Gate!ResumeExpired(r) \/ Gate!ResumeCancelled(r) \/ Gate!Answer503(r)
    BY <1>0, <1>2, <2>3, GateSteps DEF Ctl!Becomes
  <2> QED
    BY <2>1, <2>2, <2>3 DEF Handle, Enter, Acquired, Queueing
<1>3. ASSUME st[r] = "idle" PROVE AbstractPhase = "up"
  BY <1>3 DEF Handle, Accepting, AbstractPhase
<1> QED
  BY <1>1, <1>2, <1>3, RoomForOneMore, HandlerServes DEF Handle

LEMMA AbandonServes ==
  ASSUME LifeInv, NEW r \in Requests, Abandon(r)
  PROVE  [Promised!ServiceNext]_Promised!serviceVars
BY AbandonGate, HandlerServes DEF Abandon

\* A step of start or stop is one of the service, or none.
LEMMA StageServes ==
  ASSUME LifeInv, QuietStage \/ HandlersEnd
  PROVE  [Promised!ServiceNext]_Promised!serviceVars
<1>1. Inside' = Inside
  <2>1. \A q \in Requests, s \in {"idle", "shed"} : st'[q] = s <=> st[q] = s
    BY HandlersEndKeeps, QuietStageKeeps
  <2> QED
    BY <2>1 DEF Inside
<1>2. CASE SiteStarts
  <2>1. Promised!GoUp
    BY <1>1, <1>2 DEF SiteStarts, Advance, Promised!GoUp, AbstractPhase, Inside, LifeInv, StageInv
  <2> QED
    BY <2>1 DEF Promised!ServiceNext
<1>3. CASE CloseIdle
  <2>1. Promised!StopTakingIn
    BY <1>1, <1>3 DEF CloseIdle, Advance, Promised!StopTakingIn, AbstractPhase, Inside
  <2> QED
    BY <2>1 DEF Promised!ServiceNext
<1>4. CASE Exit
  <2>1. Inside = {}
    BY <1>4 DEF Exit, Inside, Running
  <2>2. Promised!GoOff
    BY <1>1, <1>4, <2>1 DEF Exit, Advance, Promised!GoOff, AbstractPhase, Inside
  <2> QED
    BY <2>2 DEF Promised!ServiceNext
<1>5. CASE SiteFails \/ Signal \/ StopChecker \/ CloseSite \/ HandlersEnd \/ ClosePool
  <2>1. UNCHANGED AbstractPhase
    BY <1>5 DEF SiteFails, Signal, StopChecker, CloseSite, HandlersEnd, ClosePool,
      Advance, AbstractPhase
  <2> QED
    BY <1>1, <2>1 DEF Promised!serviceVars, Inside
<1> QED
  BY <1>2, <1>3, <1>4, <1>5 DEF QuietStage

\* The application implements the service: requests enter only while it is up
\* and there is room, and it goes off only when the last of them has left,
\* although cancelled handlers leave queue_size too high.
THEOREM ApplicationImplementsService == LifecycleSpec => ImplementsService
<1>1. LifecycleInit => Promised!ServiceInit
  BY DEF LifecycleInit, HandleInit, Gate!Init, Promised!ServiceInit, AbstractPhase
<1>2. ASSUME LifeInv, [LifecycleNext]_lifecycleVars
      PROVE  [Promised!ServiceNext]_Promised!serviceVars
  <2>1. CASE \E r \in Requests : Handle(r) \/ Abandon(r)
    BY <1>2, <2>1, HandleServes, AbandonServes
  <2>2. CASE QuietStage \/ HandlersEnd
    BY <1>2, <2>2, StageServes
  <2>3. CASE Environment \/ UNCHANGED lifecycleVars
    BY <2>3 DEF Environment, lifecycleVars, gateVars, Promised!serviceVars, AbstractPhase
  <2> QED
    BY <1>2, <2>1, <2>2, <2>3 DEF LifecycleNext, StopStep, QuietStage
<1> QED
  BY <1>1, <1>2, LifeInvariant, PTL DEF LifecycleSpec, ImplementsService, Promised!ServiceSpec

-----------------------------------------------------------------------------
(* What the proxy and its breakers promise, in the whole application: the  *)
(* steps of ReverseProxy, and the two that only start and stop add.        *)

LEMMA StepsOfProxy ==
  ASSUME [LifecycleNext]_lifecycleVars
  PROVE  \/ [Next]_vars
         \/ \E r \in Requests : AbandonAttempt(r)
         \/ StopsProbes
<1>1. ASSUME NEW r \in Requests, Handle(r)
      PROVE  [Next]_vars
  <2>1. Arrive(r) \/ Progress(r) \/ UNCHANGED vars
    BY <1>1 DEF Handle, Enter, Work, Queueing
  <2> QED
    BY <2>1 DEF Next, RequestStep, Progress
<1>2. ASSUME NEW r \in Requests, Abandon(r)
      PROVE  AbandonAttempt(r) \/ UNCHANGED vars
  BY <1>2 DEF Abandon, AbandonQueue, AbandonAnswer
<1>3. Environment => Next
  BY DEF Environment, Next, BackendStep
<1>4. SiteFails \/ StopChecker => StopsProbes
  BY DEF SiteFails, StopChecker
<1>5. SiteStarts \/ Signal \/ CloseSite \/ CloseIdle \/ HandlersEnd \/ ClosePool \/ Exit
        \/ UNCHANGED lifecycleVars => UNCHANGED vars
  BY DEF SiteStarts, Signal, CloseSite, CloseIdle, HandlersEnd, ClosePool, Exit,
    lifecycleVars
<1> QED
  BY <1>1, <1>2, <1>3, <1>4, <1>5 DEF LifecycleNext, StopStep

\* What a cancelled handler does to the circuits and the contexts: it leaves its
\* backend without an outcome, or has not got one yet.
LEMMA AbandonedAttempt ==
  ASSUME TypeOK, NEW r \in Requests, AbandonAttempt(r)
  PROVE  /\ req' = [req EXCEPT ![r] = NewRequest]
         /\ \/ UNCHANGED <<backends, trials>>
            \/ \E c \in Backends, rec \in Backend :
                 Finish(r, c, rec) /\ SameCircuit(backends[c], rec)
<1>1. req' = [req EXCEPT ![r] = NewRequest]
  BY DEF AbandonAttempt, Finish
<1>2. CASE req[r].on # NoBackend
  <2> DEFINE c == req[r].on
  <2>1. c \in Backends /\ backends[c] \in Backend
    BY <1>2 DEF TypeOK, Request
  <2>2. Finish(r, c, Disconnect(backends[c]))
    BY <1>2 DEF AbandonAttempt
  <2>3. Disconnect(backends[c]) \in Backend /\ SameCircuit(backends[c], Disconnect(backends[c]))
    BY <2>1, CircuitType, ConnectionsKeepCircuit
  <2> HIDE DEF c
  <2> QED
    BY <1>1, <2>1, <2>2, <2>3
<1>3. CASE req[r].on = NoBackend
  BY <1>1, <1>3 DEF AbandonAttempt
<1> QED
  BY <1>2, <1>3

LEMMA LifecycleCircuit ==
  ASSUME TypeOK, [LifecycleNext]_lifecycleVars, NEW b \in Backends
  PROVE  CircuitStep(backends[b], backends'[b])
<1>1. ASSUME UNCHANGED backends
      PROVE  CircuitStep(backends[b], backends'[b])
  BY <1>1 DEF CircuitStep, SameCircuit
<1>2. CASE [Next]_vars
  BY <1>2, NextCircuit
<1>3. ASSUME NEW r \in Requests, AbandonAttempt(r)
      PROVE  CircuitStep(backends[b], backends'[b])
  <2>1. ASSUME NEW c \in Backends, NEW rec \in Backend,
               Finish(r, c, rec), SameCircuit(backends[c], rec)
        PROVE  CircuitStep(backends[b], backends'[b])
    <3>1. CircuitStep(backends[c], rec)
      BY <2>1 DEF CircuitStep
    <3> QED
      BY <2>1, <3>1, FinishCircuit
  <2> QED
    BY <1>1, <1>3, <2>1, AbandonedAttempt
<1>4. CASE StopsProbes
  BY <1>1, <1>4 DEF StopsProbes
<1> QED
  BY <1>2, <1>3, <1>4, StepsOfProxy

LEMMA LifecycleBudget ==
  ASSUME TypeOK, TrialsInv, [LifecycleNext]_lifecycleVars
  PROVE  TrialsInv'
<1>1. ASSUME UNCHANGED <<backends, trials>>
      PROVE  TrialsInv'
  BY <1>1 DEF TrialsInv
<1>2. CASE [Next]_vars
  BY <1>2, BudgetNext
<1>3. ASSUME NEW r \in Requests, AbandonAttempt(r)
      PROVE  TrialsInv'
  <2>1. ASSUME NEW c \in Backends, NEW rec \in Backend,
               Finish(r, c, rec), SameCircuit(backends[c], rec)
        PROVE  TrialsInv'
    BY <2>1, FinishBudget DEF TrialsInv
  <2> QED
    BY <1>1, <1>3, <2>1, AbandonedAttempt
<1>4. CASE StopsProbes
  BY <1>1, <1>4 DEF StopsProbes
<1> QED
  BY <1>2, <1>3, <1>4, StepsOfProxy

LEMMA LifecycleAttempts ==
  ASSUME TypeOK, AttemptsInv, [LifecycleNext]_lifecycleVars
  PROVE  AttemptsInv'
<1>1. CASE [Next]_vars
  BY <1>1, AttemptsNext
<1>2. ASSUME NEW r \in Requests, AbandonAttempt(r)
      PROVE  AttemptsInv'
  BY <1>2, AbandonedAttempt, FinishedAttempts
<1>3. CASE StopsProbes
  BY <1>3 DEF StopsProbes, AttemptsInv
<1> QED
  BY <1>1, <1>2, <1>3, StepsOfProxy

\* Only a step of the proxy sends anything: a stop never does.
LEMMA SendsInProxy ==
  ASSUME TypeOK, [LifecycleNext]_lifecycleVars,
         NEW r \in Requests, NEW b \in Backends, Sends(r, b)
  PROVE  [Next]_vars
<1>1. ASSUME NEW q \in Requests, AbandonAttempt(q)
      PROVE  FALSE
  <2>1. req' = [req EXCEPT ![q] = NewRequest]
    BY <1>1, AbandonedAttempt
  <2> QED
    BY <2>1, NewRequestFields DEF TypeOK, Sends
<1>2. ~StopsProbes
  BY DEF StopsProbes, Sends
<1> QED
  BY <1>1, <1>2, StepsOfProxy

\* The breaker of each backend follows its protocol from the start of the
\* application to its end, although a cancelled handler reports no outcome.
THEOREM BreakersSurviveCancellation == LifecycleSpec => BreakersFollowProtocol
<1>1. LifecycleInit => NoSlotOutsideHalfOpen /\ \A b \in Backends : Breaker(b)!Init
  BY DEF LifecycleInit, HandleInit, Init, NewBackend, NoSlotOutsideHalfOpen, Breaker!Init
<1>2. LifeInv /\ NoSlotOutsideHalfOpen /\ [LifecycleNext]_lifecycleVars
        => NoSlotOutsideHalfOpen'
  BY LifecycleCircuit, StepsKeepSlots DEF LifeInv
<1>3. LifeInv /\ NoSlotOutsideHalfOpen /\ [LifecycleNext]_lifecycleVars
        => [\A b \in Backends : [Breaker(b)!Next]_(Breaker(b)!vars)]_vars
  BY LifecycleCircuit, StepsFollowProtocol DEF LifeInv
<1> QED
  BY <1>1, <1>2, <1>3, LifeInvariant, PTL DEF LifecycleSpec, BreakersFollowProtocol

\* A HALF_OPEN period keeps to its budget, whatever handlers are cancelled in it:
\* the slot of a trial that was cancelled is not taken again.
THEOREM BudgetSurvivesCancellation == LifecycleSpec => []HalfOpenBudget
<1>1. LifecycleInit => TrialsInv
  BY NoTrials DEF LifecycleInit, HandleInit, Init, NewBackend, TrialsInv, WithinBudget
<1>2. LifeInv /\ TrialsInv /\ [LifecycleNext]_lifecycleVars => TrialsInv'
  BY LifecycleBudget DEF LifeInv
<1>3. TrialsInv => HalfOpenBudget
  BY DEF TrialsInv, WithinBudget, HalfOpenBudget
<1> QED
  BY <1>1, <1>2, <1>3, LifeInvariant, PTL DEF LifecycleSpec

\* Attempts stay bounded in the whole application.
THEOREM AttemptsStayBounded == LifecycleSpec => []BoundedAttempts
<1>1. LifecycleInit => AttemptsInv
  BY DEF LifecycleInit, HandleInit, Init, NewRequest, AttemptsInv
<1>2. LifeInv /\ AttemptsInv /\ [LifecycleNext]_lifecycleVars => AttemptsInv'
  BY LifecycleAttempts DEF LifeInv
<1>3. LifeInv /\ AttemptsInv => BoundedAttempts
  BY AttemptsWithinLimit DEF LifeInv
<1> QED
  BY <1>1, <1>2, <1>3, LifeInvariant, PTL DEF LifecycleSpec

\* Until its last request has left, the application sends nothing to an OPEN
\* circuit, and to what is not available only as a last resort.
THEOREM SelectionSurvivesStop ==
  LifecycleSpec => OpenShedsTraffic /\ FallbackIsLastResort
<1>1. LifeInv /\ [LifecycleNext]_lifecycleVars =>
        [\A r \in Requests, b \in Backends : Sends(r, b) =>
           /\ backends'[b].circuit_state # "OPEN"
           /\ backends[b].circuit_state = "OPEN" => backends[b].cooled]_vars
  BY SendsInProxy, SendsAdmitted DEF LifeInv
<1>2. LifeInv /\ [LifecycleNext]_lifecycleVars =>
        [\A r \in Requests, b \in Backends : Sends(r, b) => LastResort(r, b)]_vars
  BY SendsInProxy, SendsLastResort DEF LifeInv
<1> QED
  BY <1>1, <1>2, LifeInvariant, PTL
  DEF LifecycleSpec, OpenShedsTraffic, FallbackIsLastResort, LastResort

=============================================================================
