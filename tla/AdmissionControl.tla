-------------------------- MODULE AdmissionControl --------------------------
(***************************************************************************)
(* What backpressure promises (README.md, "Backpressure & Load Shedding"): *)
(* at most MaxConcurrent requests run, at most MaxQueueSize wait, and one  *)
(* that is refused or gives up waiting never runs.  How slots are handed   *)
(* over, and in which order, is left open.                                 *)
(***************************************************************************)
EXTENDS FiniteSets, Naturals

CONSTANTS Requests, MaxConcurrent, MaxQueueSize

VARIABLES queued, running

vars == <<queued, running>>

Init == queued = {} /\ running = {}

Outside(r) == r \notin queued \cup running

\* A slot is free and the request gets it at once.
RunAtOnce(r) ==
  /\ Outside(r)
  /\ Cardinality(running) < MaxConcurrent
  /\ running' = running \cup {r}
  /\ UNCHANGED queued

Queue(r) ==
  /\ Outside(r)
  /\ Cardinality(queued) < MaxQueueSize
  /\ queued' = queued \cup {r}
  /\ UNCHANGED running

Run(r) ==
  /\ r \in queued
  /\ Cardinality(running) < MaxConcurrent
  /\ queued' = queued \ {r}
  /\ running' = running \cup {r}

GiveUp(r) ==
  /\ r \in queued
  /\ queued' = queued \ {r}
  /\ UNCHANGED running

Leave(r) ==
  /\ r \in running
  /\ running' = running \ {r}
  /\ UNCHANGED queued

Next == \E r \in Requests :
  RunAtOnce(r) \/ Queue(r) \/ Run(r) \/ GiveUp(r) \/ Leave(r)

Spec == Init /\ [][Next]_vars

=============================================================================
