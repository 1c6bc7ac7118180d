SPECIFICATION Spec
CONSTANTS
  Conns = {c1, c2, c3}
  MaxCalls = 2
  MaxOffers = 2
  Leavers = {c1, c2}
INVARIANT OneCallEach
CHECK_DEADLOCK FALSE
