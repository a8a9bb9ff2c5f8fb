------------------------------- MODULE Service -------------------------------
(***************************************************************************)
(* What the application promises while it starts and stops: requests are   *)
(* taken in only while it is up, never more than its capacity at once, and *)
(* it is off again only when the last of them has left.                    *)
(***************************************************************************)
EXTENDS Naturals, FiniteSets

CONSTANTS
  Requests,
  Capacity   \* the requests that may be inside at once

VARIABLES
  phase,   \* "off", "up" or "closing"
  inside   \* the requests taken in and not yet answered or dropped

serviceVars == <<phase, inside>>

ServiceInit == phase = "off" /\ inside = {}

GoUp ==
  /\ phase = "off"
  /\ phase' = "up"
  /\ UNCHANGED inside

TakeIn(r) ==
  /\ phase = "up"
  /\ r \notin inside
  /\ Cardinality(inside) < Capacity
  /\ inside' = inside \cup {r}
  /\ UNCHANGED phase

LetGo(r) ==
  /\ r \in inside
  /\ inside' = inside \ {r}
  /\ UNCHANGED phase

StopTakingIn ==
  /\ phase = "up"
  /\ phase' = "closing"
  /\ UNCHANGED inside

GoOff ==
  /\ phase = "closing"
  /\ inside = {}
  /\ phase' = "off"
  /\ UNCHANGED inside

ServiceNext ==
  \/ GoUp
  \/ StopTakingIn
  \/ GoOff
  \/ \E r \in Requests : TakeIn(r) \/ LetGo(r)

ServiceSpec == ServiceInit /\ [][ServiceNext]_serviceVars

=============================================================================
