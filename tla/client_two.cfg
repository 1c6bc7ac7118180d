SPECIFICATION FairSpec
CONSTANTS
  m1 = m1  m2 = m2  s1 = s1  s2 = s2  p1 = p1  p2 = p2
  Procs = {p1, p2}  Subs = {s1, s2}  Msgs = {m1}
  Home <- AllHome  ProcOf <- SplitSubs
  MaxBatch = 2  MaxFailures = 1  MaxCrashes = 1
INVARIANT RowBeforeReport
PROPERTY EventuallyReported
CHECK_DEADLOCK FALSE
