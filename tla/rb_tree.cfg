SPECIFICATION Spec
CONSTANTS
  Nodes <- MCNodes
  Key <- MCKey
  NULL = NULL
INVARIANTS RedBlack InsertLoop EraseLoop WalksVisitAll
PROPERTIES KeepsOrder
CHECK_DEADLOCK TRUE
