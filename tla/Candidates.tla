----------------------------- MODULE Candidates -----------------------------
(***************************************************************************)
(* What _select hands to the strategies of app/routing: a list of          *)
(* backends, always in the order of the registry, that changes from call   *)
(* to call with the health, the circuits and the admin API.                *)
(*                                                                         *)
(* Backends are numbered in the order of the registry, and a list is the   *)
(* set of its backends.  Calls with an empty list return None and change   *)
(* nothing; they are left out.                                             *)
(***************************************************************************)
EXTENDS Integers, FiniteSets

CONSTANT N   \* the number of backends

ASSUME CandidatesAssumption == N \in Nat \ {0}

Backends == 1..N
Lists == (SUBSET Backends) \ {{}}

None == 0   \* select_backend returned None

=============================================================================
