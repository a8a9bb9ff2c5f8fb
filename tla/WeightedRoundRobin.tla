------------------------- MODULE WeightedRoundRobin -------------------------
(***************************************************************************)
(* WeightedRoundRobinStrategy of app/routing/weighted_round_robin.py, with *)
(* the weights that the admin API gives and changes.  select_backend never *)
(* suspends.                                                               *)
(***************************************************************************)
EXTENDS Candidates, Functions

CONSTANTS
  MinWeight,   \* 1 for configured backends; POST takes any integer
  MaxWeight,   \* a bound on the weights
  AdminOps     \* {"PATCH"} if weights change at run time

Weights == MinWeight..MaxWeight
PatchedWeights == 1..MaxWeight

VARIABLES
  weight,          \* Backend.weight
  current_weights, \* _current_weights: its domain is the last list
  selected,        \* what the last call returned
  served,          \* history: calls served per backend in the current window
  carried          \* history: the current weights at the beginning of this window

vars == <<weight, current_weights, selected, served, carried>>

NoWindow == [b \in {} |-> 0]

Init ==
  /\ weight \in [Backends -> Weights]
  /\ current_weights = [b \in {} |-> 0]
  /\ selected = None
  /\ served = NoWindow
  /\ carried = NoWindow

Total(f) == FoldFunction(LAMBDA x, y : x + y, 0, f)
TotalWeight(backends) == Total([b \in backends |-> weight[b]])

CurrentWeight(b) == IF b \in DOMAIN current_weights THEN current_weights[b] ELSE 0

\* Mutated: nothing is remembered.
GainedAfresh(backends) == [b \in backends |-> weight[b]]

\* The loop: every backend in the list gains its weight, one that was not in the
\* list before starts from 0, and one that left it is forgotten.
Gained(backends) == [b \in backends |-> CurrentWeight(b) + weight[b]]

\* The first backend with the largest current weight, if that exceeds -1, where
\* the search starts.
Leader(cw) ==
  LET best == {b \in DOMAIN cw : cw[b] > -1 /\ \A c \in DOMAIN cw : cw[c] <= cw[b]}
  IN IF best = {} THEN None
     ELSE CHOOSE b \in best : \A c \in best : b <= c

\* Mutated: the backend selected gives back its own weight only.
AdjustByOwnWeight(cw, backends) ==
  [b \in backends |-> IF b = Leader(cw) THEN cw[b] - weight[b] ELSE cw[b]]

Adjust(cw, backends) ==
  [b \in backends |-> IF b = Leader(cw) THEN cw[b] - TotalWeight(backends) ELSE cw[b]]

\* A window is a run of as many calls as the weights of the list add up to, each
\* of which selects a backend, while neither the list nor a weight changes.
NewWindow(backends) ==
  DOMAIN served # backends \/ Total(served) >= TotalWeight(backends)

Counted(backends, b) ==
  IF b = None THEN NoWindow
  ELSE [c \in backends |-> (IF NewWindow(backends) THEN 0 ELSE served[c])
                            + (IF c = b THEN 1 ELSE 0)]

SelectBackend(backends) ==
  LET cw == Gained(backends) IN
    /\ current_weights' = Adjust(cw, backends)
    /\ selected' = Leader(cw)
    /\ served' = Counted(backends, Leader(cw))
    /\ carried' = IF NewWindow(backends)
                  THEN [b \in backends |-> CurrentWeight(b)] ELSE carried
    /\ UNCHANGED weight

\* PATCH: backend.weight = max(1, int(body["weight"]))
UpdateWeight(b, w) ==
  /\ "PATCH" \in AdminOps
  /\ weight' = [weight EXCEPT ![b] = w]
  /\ served' = NoWindow
  /\ carried' = NoWindow
  /\ UNCHANGED <<current_weights, selected>>

Select == \E backends \in Lists : SelectBackend(backends)

Next == Select \/ \E b \in Backends, w \in PatchedWeights : UpdateWeight(b, w)

Spec == Init /\ [][Next]_vars

\* Requests keep arriving.
FairSpec == Spec /\ WF_vars(Select)

-----------------------------------------------------------------------------
(* Properties.                                                             *)

\* Every variable has its type, and what is selected was in the list.
TypeOK ==
  /\ weight \in [Backends -> Weights]
  /\ DOMAIN current_weights \in Lists \cup {{}}
  /\ current_weights \in [DOMAIN current_weights -> Int]
  /\ selected \in DOMAIN current_weights \cup {None}

\* The calls of a window that b may be served beyond its weight: none if it carried
\* a debt into the window, else one, and one for each whole round that it carried.
Credit(b) ==
  IF carried[b] < 0 THEN 0 ELSE 1 + carried[b] \div TotalWeight(DOMAIN served)

\* In every window, also after changes of the list and of the weights, each backend
\* is served as often as its weight says, except for what earlier windows owe it
\* (its credit) or what it has to leave to others (theirs): "Expected distribution
\* approximates weight proportions over time".
ShareFollowsWeights ==
  LET backends == DOMAIN served
      CreditOfOthers(b) == Total([c \in backends |-> IF c = b THEN 0 ELSE Credit(c)])
  IN Total(served) = TotalWeight(backends)
       => \A b \in backends : /\ served[b] <= weight[b] + Credit(b)
                              /\ weight[b] <= served[b] + CreditOfOthers(b)

\* A window that begins with nothing carried serves each backend exactly as often
\* as its weight says, and leaves nothing for the next one to carry.
ExactFromRest ==
  LET backends == DOMAIN served
  IN /\ Total(served) = TotalWeight(backends)
     /\ \A b \in backends : carried[b] = 0
     => \A b \in backends : served[b] = weight[b] /\ current_weights[b] = 0

\* Inside a window no backend that has been served is ahead of its share of the
\* calls so far by more than one call and what it carried into the window.
NeverAheadOfShare ==
  LET backends == DOMAIN served
      all == TotalWeight(backends)
  IN \A b \in backends :
       served[b] > 0 => all * (served[b] - 1) <= carried[b] + Total(served) * weight[b]

\* However often backends leave with debts and come back without them, nothing piles
\* up: no current weight falls below a round of the largest weights, or rises above
\* one such round for each backend.  So the credit of a backend is bounded too.
CreditIsBounded ==
  LET round == N * MaxWeight
  IN \A b \in DOMAIN current_weights :
       -round <= current_weights[b] /\ current_weights[b] <= N * round

\* A backend with a weight of at least 1 that stays in the list is selected again
\* and again, however the rest of the list and the weights change, also next to
\* backends that were added with a weight of 0.
ServedWhileAvailable ==
  \A b \in Backends :
    <>[](b \in DOMAIN current_weights /\ weight[b] >= 1) => []<>(selected = b)

\* A call with a list that is not empty selects a backend (the interface in
\* app/routing/base.py: "Returns None if empty").
NoneOnlyIfEmpty == DOMAIN current_weights # {} => selected # None

=============================================================================
