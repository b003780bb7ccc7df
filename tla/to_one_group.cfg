SPECIFICATION Spec
CONSTANTS
  w1 = w1
  w2 = w2
  r1 = r1
  r2 = r2
  None = None
  Workers <- MCWorkers
  Riders <- MCRiders
  MaxOrder = 1
  MaxGroup = 2
SYMMETRY Symmetry
INVARIANT OneGroupPerOrder
