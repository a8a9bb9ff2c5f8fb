\* Violated: no backend is selected from a list of one.
CONSTANTS
  N = 3
  MinWeight = 1
  MaxWeight = 3
  AdminOps = {}
SPECIFICATION Spec
INVARIANTS
  NoneOnlyIfEmpty
