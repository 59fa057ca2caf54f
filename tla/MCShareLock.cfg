SPECIFICATION FairSpec
CONSTANTS
  p1 = p1
  p2 = p2
  p3 = p3
  t1 = t1
  t2 = t2
  t3 = t3
  t4 = t4
  Procs = {p1, p2}
  Threads = {t1, t2, t3}
  ProcOf <- MCProcOf
  Recovering = {}
  Flags = {4, 5}
  Free = Free
  MaxTries = 1
INVARIANTS
  TypeOK
  ExclusionUntilOverrun
  LeftBehindByStop
PROPERTIES
  OnlyOwnerReleases
  StopFreesThreads
  SomeoneEnters
