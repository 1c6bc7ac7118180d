SPECIFICATION FairSpec
CONSTANTS
  a = a
  b = b
  c = c
  c1 = c1
  c2 = c2
  c3 = c3
  Idle = Idle
  Msgs = {m1, m2}
  Subs = {a, b, c}
  Publishers = {p, q}
  Consumers = {c1, c2, c3}
  Assignments <- PairsAndTriples
  Limit <- OneForTriples
  MaxPush = 2
INVARIANTS TypeOK GoneWhenTaken TwinsPushedTogether TwiceOnlyIfUndone
PROPERTIES Drains
