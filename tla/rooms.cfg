SPECIFICATION Spec
CONSTANTS
  Conns = {c1, c2, c3}
  RoomNames = {n1, n2}
INVARIANT GhostForMissing
SYMMETRY Symmetry
CHECK_DEADLOCK FALSE
