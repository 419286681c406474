CONSTANTS
  TIME_NEAR = 2
  TIME_LEVEL = 2
  Nodes = {n1, n2, n3}
SPECIFICATION TimerSpec
SYMMETRY NodeSymmetry
INVARIANTS OnTime SetOrder
