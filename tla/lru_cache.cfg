SPECIFICATION Spec
CONSTANTS
  Nodes = {n1, n2, n3, n4, n5, n6}
  Capacities = {0, 1, 3}
  MaxKey = 3
  Values = {7, 8}
  NULL = NULL
SYMMETRY Symmetry
INVARIANTS ListAndHashAgree NothingElseLeaks
PROPERTIES ImplementsStore
