SPECIFICATION Spec
CONSTANTS
  Msgs = {m1, m2}
  Subs = {a, b, c}
  Leavers = {c}
  MaxPush = 3

INVARIANTS AtMostOnce MissedExplained
PROPERTIES InOrder
