----------------------------- MODULE RoundRobin -----------------------------
(***************************************************************************)
(* RoundRobinStrategy of app/routing/round_robin.py.  The strategy keeps   *)
(* one index, a position in whatever list it was handed last.              *)
(* select_backend never suspends.                                          *)
(***************************************************************************)
EXTENDS Candidates, Sequences, SequencesExt

VARIABLES
  index,  \* _index
  list,   \* the list of the last call
  round   \* history: the backends selected in the current turn of this list

vars == <<index, list, round>>

Init ==
  /\ index = 0
  /\ list = Backends
  /\ round = <<>>

\* backends[i]
At(backends, i) ==
  CHOOSE b \in backends : Cardinality({c \in backends : c < b}) = i

\* Mutated: the index skips one.
NextIndexSkips(n) == (index + 2) % n

NextIndex(n) == (index + 1) % n

SelectBackend(backends) ==
  LET n == Cardinality(backends)
      b == At(backends, index % n)
  IN /\ index' = NextIndex(n)
     /\ list' = backends
     /\ round' = IF backends # list \/ Len(round) = n THEN <<b>>
                 ELSE Append(round, b)

Next == \E backends \in Lists : SelectBackend(backends)

Spec == Init /\ [][Next]_vars

-----------------------------------------------------------------------------
(* Properties.                                                             *)

\* Every variable has its type, and the index left behind is one of the list it
\* was computed for.
TypeOK ==
  /\ list \in Lists
  /\ index \in 0..(Cardinality(list) - 1)
  /\ round \in Seq(list)

\* While the list does not change, each backend in it is selected once before
\* any is selected twice, wherever the index was left by the lists before.
OncePerTurn == IsInjective(round)

=============================================================================
