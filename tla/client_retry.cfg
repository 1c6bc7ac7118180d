SPECIFICATION Spec
CONSTANTS
  m1 = m1  m2 = m2  s1 = s1  s2 = s2  p1 = p1  p2 = p2
  Procs = {p1}  Subs = {s1}  Msgs = {m1, m2}
  Home <- AllHome  ProcOf <- AllSubs
  MaxBatch = 2  MaxFailures = 1  MaxCrashes = 0
INVARIANT RetriedUntilSent
CHECK_DEADLOCK FALSE
