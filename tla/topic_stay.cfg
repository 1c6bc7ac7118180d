SPECIFICATION FairSpec
CONSTANTS
  Msgs = {m1, m2}
  Subs = {a, b, c}
  Leavers = {}
  MaxPush = 3

INVARIANT NoMissed
PROPERTIES KeepsPromise Drains
